---------------------------- MODULE MCQueryPlan ----------------------------
(***************************************************************************)
(* Instance of QueryPlan: two streams S and T and a relation R, and V, the *)
(* result of the first query.  Each table has a name, of another length,   *)
(* among numbers.                                                          *)
(***************************************************************************)
EXTENDS QueryPlan

BaseTables == <<[table |-> "S", types |-> <<INT, CHAR(3), INT, INT>>, stream |-> TRUE],
                [table |-> "T", types |-> <<INT, CHAR(6), INT, INT>>, stream |-> TRUE],
                [table |-> "R", types |-> <<INT, CHAR(9), INT, INT>>, stream |-> FALSE]>>

Read(t, w) == [table |-> t, win |-> w]
OfFirst(from, c) == NAMED(from[1].table, c)
OfLast(from, c)  == NAMED(from[Len(from)].table, c)
Number == 1
Name   == 2
Other  == 3
Fourth == 4

(***************************************************************************)
(* WHERE: nothing, a predicate on the first table, one across, and these   *)
(* two with another across that names the last table first.  The one on V  *)
(* is not the one on the first table of the query that V is.               *)
(***************************************************************************)
Beside(from) == IF from[1].table = View THEN Fourth ELSE Other

Preds(from) ==
    LET own == <<OfFirst(from, Number), OfFirst(from, Beside(from))>>
        across == <<OfFirst(from, Name), OfLast(from, Name)>>
        back == <<OfLast(from, Number), OfFirst(from, Other)>>
    IN  {<<>>, <<own>>} \cup IF Len(from) = 1 THEN {} ELSE {<<across>>, <<across, own, back>>}

(***************************************************************************)
(* SELECT and GROUP BY: everything, a list whose level is read from the    *)
(* first table's fourth column, one whose level is read from the name; and *)
(* of one table all columns in their order but the last, which the level   *)
(* then is, so that there is nothing to project.  The level of the first   *)
(* of the groups is one of the attributes it is grouped by.                *)
(***************************************************************************)
Plain(from) ==
    {[projs |-> <<>>, by |-> <<>>],
     [projs |-> <<OfLast(from, Other), OfFirst(from, Name), OfLast(from, Number)>>, by |-> <<>>],
     [projs |-> <<OfLast(from, Other)>>, by |-> <<>>]}
    \cup IF Len(from) > 1 THEN {}
         ELSE {[projs |-> <<OfFirst(from, Number), OfFirst(from, Name), OfFirst(from, Other)>>, by |-> <<>>]}
Aggregated(from) ==
    {[projs |-> <<AGGR("AVG", OfLast(from, Number)), OfFirst(from, Name), AGGR("COUNT", OfFirst(from, Number))>>,
      by |-> <<OfFirst(from, Name), OfFirst(from, Fourth)>>],
     [projs |-> <<AGGR("MAX", OfLast(from, Number)), AGGR("AVG", OfLast(from, Other)), AGGR("MIN", OfLast(from, Other))>>,
      by |-> <<>>]}

SFW(froms, Shapes(_), distincts, r2ss) ==
    UNION {{[from |-> from, preds |-> preds, by |-> shape.by, projs |-> shape.projs,
             distinct |-> d, binOp |-> NONE, r2s |-> r2s] :
                preds \in Preds(from), shape \in Shapes(from), d \in distincts, r2s \in r2ss} :
            from \in froms}

BinOps(froms, r2ss) ==
    {[from |-> from, preds |-> <<>>, by |-> <<>>, projs |-> <<>>, distinct |-> FALSE,
      binOp |-> op, r2s |-> r2s] : from \in froms, op \in {"union", "except"}, r2s \in r2ss}

One == {<<Read("R", NONE)>>} \cup {<<Read("S", w)>> : w \in {"unbounded", "row", "now", "partn"}}
Two == {<<Read("S", "range"), Read("R", NONE)>>, <<Read("R", NONE), Read("S", "now")>>,
        <<Read("S", "unbounded"), Read("T", "unbounded")>>}
Three == {<<Read("R", NONE), Read("S", "now"), Read("T", "row")>>}

(***************************************************************************)
(* Left out: Rstream of DISTINCT, or of a grouped join, over [Now], which  *)
(* the transformations do not keep (README.md).                            *)
(***************************************************************************)
Kept(q) ==
    LET now == \E i \in DOMAIN q.from : q.from[i].win = "now"
        grouped == \E i \in DOMAIN q.projs : IsAggr(q.projs[i])
    IN  ~(q.r2s = "rstream" /\ now /\ (q.distinct \/ (grouped /\ Len(q.from) > 1)))

FirstQueries ==
    {q \in SFW(One \cup Two, Plain, {FALSE}, {NONE, "rstream"})
           \cup SFW(One \cup Two, Aggregated, {FALSE}, {NONE})
           \cup SFW(One, Plain, {TRUE}, {NONE, "istream", "rstream"})
           \cup SFW(One, Aggregated, {FALSE}, {"rstream", "dstream"})
           \cup SFW(Three, Plain, {FALSE}, {NONE, "rstream"})
           \cup BinOps({<<Read("R", NONE), Read("S", "unbounded")>>,
                        <<Read("S", "unbounded"), Read("T", "unbounded")>>}, {NONE, "istream"}) : Kept(q)}

(* over the first query's result, which may be a relation or a stream *)
OverFirst ==
    LET Over1(w) == <<Read("V", w)>>
        Over2(w) == <<Read("T", "row"), Read("V", w)>>
    IN  SFW({Over1(NONE), Over1("row"), Over2(NONE), Over2("unbounded")},
            LAMBDA from : {[projs |-> <<OfLast(from, Other), OfFirst(from, Name)>>, by |-> <<>>]}, {FALSE}, {NONE})
        \cup SFW({Over1(NONE), Over1("unbounded")},
                 LAMBDA from : {[projs |-> <<AGGR("MAX", OfLast(from, Number))>>, by |-> <<>>]}, {FALSE}, {"rstream"})

(***************************************************************************)
(* The same query, with another window, or with other predicates.  Left    *)
(* out: with another SELECT list of the same length, which the analysis    *)
(* compares with itself and takes for the first (README.md).               *)
(***************************************************************************)
Windowless(q) == q.binOp # NONE \/ q.from[1].win \in {NONE, "range"}

SecondQueries(q) ==
    OverFirst \cup (IF q.binOp = NONE THEN {q} ELSE {})
    \cup {[q EXCEPT !.from[1].win = "range"] : x \in IF Windowless(q) THEN {} ELSE {1}}
    \cup {[q EXCEPT !.preds = preds] : preds \in IF q.binOp = NONE THEN Preds(q.from) ELSE {}}

(***************************************************************************)
(* Queries that the analysis of sharing takes for the first one.           *)
(***************************************************************************)
Alike(q) == {[q EXCEPT !.r2s = r2s] : r2s \in {NONE} \cup Xstreams}

=============================================================================
