------------------------------ MODULE Sharing ------------------------------
(***************************************************************************)
(* Whether a new query may use the plan of an earlier one                  *)
(* (ServerImpl::sharingAnalysis), and what registerQuery makes of the      *)
(* answers.  The analysis of two queries ends in one of four ways:         *)
(*   none       nothing is shared, the next earlier query is tried         *)
(*   flagged    the same, but the flag of a partial sharing stays set      *)
(*   subsume    a partial sharing is to be made                            *)
(*   complete   the plan of the earlier query is taken for the new one's   *)
(* Some of what it compares was never set; there it may end in several     *)
(* ways.  It compares neither the relation to stream operators nor, for    *)
(* the left sides of predicates, the tables.                               *)
(*                                                                         *)
(* An earlier query is not all there any more.  The interpreter takes the  *)
(* expressions of every query from one pool, from its beginning, and the   *)
(* copy that is kept of a query still points there: of the left sides of   *)
(* its predicates it has copies, but its right sides and its SELECT list   *)
(* are what the query interpreted last has written in their places.        *)
(***************************************************************************)
EXTENDS LogicalPlan

Verdict == {"none", "flagged", "subsume", "complete"}
ANYTHING == "anything"

(* An expression knows the table by its place in the query, and its type. *)
VarId(q, a) == SelectInSeq(q.from, LAMBDA f : f.table = a.table)
ExprOf(q, a, schema) ==
    [fn |-> a.fn, var |-> VarId(q, a), col |-> a.col,
     kind |-> IF a.fn = "AVG" THEN "FLOAT" ELSE schema[a.table].types[a.col].kind]
LevelExpr(q, a) == [fn |-> NONE, var |-> VarId(q, a), col |-> a.col, kind |-> "INT"]

(* The expressions of an interpreted query, in the order of newExpr: the   *)
(* two sides of each predicate, the SELECT list, the level.                *)
exprs(q, schema) ==
    LET Of(as) == [i \in DOMAIN as |-> ExprOf(q, as[i], schema)]
    IN  IF q.binOp # NONE THEN <<>>
        ELSE Append(Of(FlattenSeq(q.preds) \o Front(q.projs)), LevelExpr(q, Last(q.projs)))

(* the pool, taken from its beginning by the expressions of another query *)
resetExprs(pool, new) == new \o SubSeq(pool, Len(new) + 1, Len(pool))

(* what the analysis sees of an interpreted query through the pool *)
Seen(q, pool, schema) ==
    LET Right(i) == pool[2 * i]
        Proj(i)  == pool[2 * Len(q.preds) + i]
    IN  [q EXCEPT !.preds = [i \in DOMAIN @ |-> <<ExprOf(q, @[i][1], schema), Right(i)>>],
                  !.by    = [i \in DOMAIN @ |-> ExprOf(q, @[i], schema)],
                  !.projs = [i \in DOMAIN @ |-> Proj(i)]]

SameTables(q1, q2) ==
    /\ Len(q1.from) = Len(q2.from)
    /\ \A i \in DOMAIN q1.from : \E j \in DOMAIN q2.from : q1.from[i].table = q2.from[j].table

(* A relation has the window of the stream before it, if there is one. *)
WinSpec(q, i) ==
    LET stream == SelectLastInSubSeq(q.from, 1, i, LAMBDA f : f.win # NONE)
    IN  IF stream = 0 THEN ANYTHING ELSE q.from[stream].win

SameWindows(q1, q2) ==
    LET differ == \E i \in DOMAIN q1.from : /\ ANYTHING \notin {WinSpec(q1, i), WinSpec(q2, i)}
                                            /\ WinSpec(q1, i) # WinSpec(q2, i)
        unset  == \E i \in DOMAIN q1.from : ANYTHING \in {WinSpec(q1, i), WinSpec(q2, i)}
    IN  IF differ THEN {FALSE} ELSE IF unset THEN BOOLEAN ELSE {TRUE}

SamePred(p1, p2) == p1[1].kind = p2[1].kind /\ p1[1].col = p2[1].col /\ p1[2] = p2[2]

SamePreds(q1, q2) ==
    /\ Len(q1.preds) = Len(q2.preds)
    /\ \A i \in DOMAIN q1.preds : \E j \in DOMAIN q2.preds : SamePred(q1.preds[i], q2.preds[j])

(* With no predicate in q2, one is compared that is not there. *)
MorePreds(q1, q2) ==
    IF Len(q1.preds) <= Len(q2.preds) THEN {FALSE}
    ELSE IF q2.preds = <<>> THEN BOOLEAN
    ELSE {\A j \in DOMAIN q2.preds : \E i \in DOMAIN q1.preds : SamePred(q2.preds[j], q1.preds[i])}

SameGroups(q1, q2) ==
    /\ Len(q1.by) = Len(q2.by)
    /\ \A i \in DOMAIN q1.by : q1.by[i].col = q2.by[i].col /\ q1.by[i].var = q2.by[i].var

SameProjs(q1, q2) == \A i \in DOMAIN q1.projs : q1.projs[i] = q2.projs[i]

(* each expression of q1 but the level is one of q2's, in the same order *)
ProjsWithin(q1, q2) ==
    LET Next1(at, a) == SelectInSubSeq(q2.projs, at, Len(q2.projs) - 1, LAMBDA b : a = b)
    IN  0 # FoldLeft(LAMBDA at, a : IF at = 0 THEN 0 ELSE Next1(at, a), 1, Front(q1.projs))

AfterWhere(q1, q2) ==
    IF ~SameGroups(q1, q2) THEN "flagged"
    ELSE IF SamePreds(q1, q2) /\ Len(q1.projs) = Len(q2.projs)
         THEN IF SameProjs(q1, q2) THEN "complete" ELSE "flagged"
         ELSE IF Len(q1.projs) > Len(q2.projs) \/ ProjsWithin(q1, q2) THEN "subsume" ELSE "flagged"

(* The new query q1 and an earlier q2, as they are seen.  Of a union or     *)
(* difference only the tables were ever set.                                *)
sharingAnalysis(q1, q2) ==
    IF \/ (q1.binOp = NONE) # (q2.binOp = NONE)
       \/ q1.distinct # q2.distinct
       \/ ~SameTables(q1, q2)
    THEN {"none"}
    ELSE IF q1.binOp # NONE THEN Verdict
    ELSE {IF ~windows THEN "none" ELSE IF more THEN "subsume" ELSE AfterWhere(q1, q2) :
             windows \in SameWindows(q1, q2), more \in MorePreds(q1, q2)}

-----------------------------------------------------------------------------
(***************************************************************************)
(* registerQuery tries the earlier queries in turn until one can be        *)
(* shared.  A complete sharing goes before the flag of a partial one.      *)
(***************************************************************************)
Analyses(q, earlier, pool, schema) ==
    LET Verdicts(i) == sharingAnalysis(Seen(q, pool, schema), Seen(earlier[i], pool, schema))
    IN  {v \in [DOMAIN earlier -> Verdict] : \A i \in DOMAIN v : v[i] \in Verdicts(i)}

completeShareID(v) ==
    LET last == SelectInSeq(v, LAMBDA x : x \in {"subsume", "complete"})
    IN  IF last # 0 /\ v[last] = "complete" THEN last ELSE 0

subsumeShareFlag(v) == completeShareID(v) = 0 /\ \E i \in DOMAIN v : v[i] # "none"

=============================================================================
