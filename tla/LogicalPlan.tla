---------------------------- MODULE LogicalPlan ----------------------------
(***************************************************************************)
(* From a query to a logical plan (querygen/): what the interpreter makes  *)
(* of the SELECT clause (sem_interp.cc), the naive plan that follows the   *)
(* clauses of the query (log_naive_plan_gen.cc) and the seven              *)
(* transformations made on it (log_plan_gen.cc).                           *)
(*                                                                         *)
(* A query is                                                              *)
(*   from      <<[table, win], ...>>, win is NONE for a relation           *)
(*   preds     <<<<attr, attr>>, ...>>                                     *)
(*   by        the attributes grouped by                                   *)
(*   projs     the attributes of the SELECT clause, aggregated or not; none *)
(*             for *                                                       *)
(*   distinct  whether DISTINCT is asked for                               *)
(*   binOp     NONE, or "union" or "except" of the two tables of from      *)
(*   r2s       NONE, "istream", "dstream" or "rstream"                     *)
(* A plan is a tree of nodes.  An operator refers to the attributes of its *)
(* inputs by name, [fn, table, col]; a table occurs once in a query, so    *)
(* that its name stands for the variable.                                  *)
(***************************************************************************)
EXTENDS Integers, Sequences, FiniteSets, SequencesExt

NONE    == "none"
UNNAMED == "unnamed"

NAMED(t, c)   == [fn |-> NONE, table |-> t, col |-> c]
AGGR(fn, a)   == [a EXCEPT !.fn = fn]
IsAggr(a)     == a.fn \notin {NONE, UNNAMED}
SameAttr(a, b) == a = b /\ a.fn # UNNAMED

check_reference(a, node) == \E i \in DOMAIN node.outAttrs : SameAttr(a, node.outAttrs[i])

-----------------------------------------------------------------------------
(***************************************************************************)
(* The operators of a plan (querygen/logop.cc).                            *)
(***************************************************************************)
Node(kind, inputs, attrs, stream, arg) ==
    [kind |-> kind, inputs |-> inputs, outAttrs |-> attrs, bStream |-> stream, arg |-> arg]

Streams(inputs) == \A i \in DOMAIN inputs : inputs[i].bStream
Append_schema(inputs) == FlattenSeq([i \in DOMAIN inputs |-> inputs[i].outAttrs])

mk_source(t, width, stream) ==
    Node("source", <<>>, [c \in 1..width |-> NAMED(t, c)], stream, t)
mk_window(win, in)     == Node(win, <<in>>, in.outAttrs, FALSE, NONE)
mk_select(in, pred)    == Node("select", <<in>>, in.outAttrs, in.bStream, pred)
mk_project(in, attrs)  == Node("project", <<in>>, attrs, in.bStream, NONE)
mk_distinct(in)        == Node("distinct", <<in>>, in.outAttrs, in.bStream, NONE)
mk_xstream(r2s, in)    == Node(r2s, <<in>>, in.outAttrs, TRUE, NONE)
mk_cross(inputs)       == Node("cross", inputs, Append_schema(inputs), Streams(inputs), NONE)
mk_stream_cross(inputs) == Node("stream_cross", inputs, Append_schema(inputs), TRUE, NONE)
mk_group_aggr(in, by, aggrs) == Node("group", <<in>>, by \o aggrs, FALSE, Len(by))
mk_binop(binOp, l, r) ==
    Node(binOp, <<l, r>>, [c \in DOMAIN l.outAttrs |-> [NAMED(NONE, c) EXCEPT !.fn = UNNAMED]],
         binOp = "union" /\ l.bStream /\ r.bStream, NONE)

-----------------------------------------------------------------------------
(***************************************************************************)
(* The SELECT clause as the interpreter hands it over.  schema gives a     *)
(* table's width, its types and whether it is a stream.  One attribute     *)
(* more is added than is asked for, an INT that stands for the level: the  *)
(* column after as many as there are.  For * it is one of the last table,  *)
(* which has no such column; for a list it is one of the first table,      *)
(* whatever that column is, if it has it.                                  *)
(***************************************************************************)
Level(t, n) == NAMED(t, n + 1)

interpretStarInSelect(q, schema) ==
    LET ColumnsOf(t) == [c \in 1..schema[t].width |-> NAMED(t, c)]
        all == FlattenSeq([i \in DOMAIN q.from |-> ColumnsOf(q.from[i].table)])
    IN  Append(all, Level(Last(q.from).table, Len(all)))

interpretSelectClause(q, schema) ==
    IF q.projs = <<>> THEN interpretStarInSelect(q, schema)
    ELSE Append(q.projs, Level(q.from[1].table, Len(q.projs)))

interpretQuery(q, schema) ==
    IF q.binOp = NONE THEN [q EXCEPT !.projs = interpretSelectClause(q, schema)] ELSE q

-----------------------------------------------------------------------------
(***************************************************************************)
(* The naive plan of an interpreted query.                                 *)
(***************************************************************************)
getSource_n(t, schema) == mk_source(t, schema[t].width, schema[t].stream)

applyWindow_n(win, source) ==
    IF win \in {NONE, "unbounded"} THEN source ELSE mk_window(win, source)

joinTables_n(q, schema) ==
    LET tables == [i \in DOMAIN q.from |->
                    applyWindow_n(q.from[i].win, getSource_n(q.from[i].table, schema))]
    IN  IF Len(tables) = 1 THEN tables[1] ELSE mk_cross(tables)

applyPreds_n(q, in) == FoldLeft(mk_select, in, q.preds)

collectAggrs(q) ==
    FoldLeft(LAMBDA found, a : IF IsAggr(a) /\ ~Contains(found, a) THEN Append(found, a) ELSE found,
             <<>>, q.projs)

applyAggr_n(q, in) ==
    LET aggrs == collectAggrs(q)
    IN  IF aggrs = <<>> /\ q.by = <<>> THEN in ELSE mk_group_aggr(in, q.by, aggrs)

applyR2SOps_n(q, in) == IF q.r2s = NONE THEN in ELSE mk_xstream(q.r2s, in)

genBinOpPlan_n(q, schema) ==
    applyR2SOps_n(q, mk_binop(q.binOp, getSource_n(q.from[1].table, schema),
                                       getSource_n(q.from[2].table, schema)))

genSFWPlan_n(q, schema) ==
    LET project == mk_project(applyAggr_n(q, applyPreds_n(q, joinTables_n(q, schema))), q.projs)
    IN  applyR2SOps_n(q, IF q.distinct THEN mk_distinct(project) ELSE project)

genPlan_n(q, schema) ==
    IF q.binOp = NONE THEN genSFWPlan_n(q, schema) ELSE genBinOpPlan_n(q, schema)

-----------------------------------------------------------------------------
(***************************************************************************)
(* The transformations.  Each looks for its pattern by walking down from   *)
(* the root through operators of one input, and rewrites the first node of *)
(* the kind it looks for, if there is one.                                 *)
(***************************************************************************)
Xstreams == {"istream", "dstream", "rstream"}

RECURSIVE Finds(_, _, _)
Finds(node, kind, through) ==
    \/ node.kind = kind
    \/ node.kind \in through /\ Finds(node.inputs[1], kind, through)

RECURSIVE FirstOf(_, _)
FirstOf(node, kind) == IF node.kind = kind THEN node ELSE FirstOf(node.inputs[1], kind)

RECURSIVE ReplaceFirst(_, _, _)
ReplaceFirst(node, kind, new) ==
    IF node.kind = kind THEN new ELSE [node EXCEPT !.inputs[1] = ReplaceFirst(@, kind, new)]

Rewritten(plan, kind, through, Rewrite(_)) ==
    IF Finds(plan, kind, through) THEN ReplaceFirst(plan, kind, Rewrite(FirstOf(plan, kind))) ELSE plan

(* Stream -> [Now] -> (Select|Project|Distinct)* -> Rstream: without both. *)
RECURSIVE WithoutNow(_)
WithoutNow(node) ==
    IF node.kind = "now" THEN node.inputs[1]
    ELSE [node EXCEPT !.inputs[1] = WithoutNow(@), !.bStream = TRUE]

t_rstreamNow(plan) ==
    IF plan.kind = "rstream" /\ Finds(plan.inputs[1], "now", {"select", "project", "distinct"})
    THEN WithoutNow(plan.inputs[1])
    ELSE plan

t_removeIstream(plan) ==
    IF plan.kind = "istream" /\ plan.inputs[1].bStream THEN plan.inputs[1] ELSE plan

(***************************************************************************)
(* Rstream over a cross one of whose inputs is a stream [Now]: that stream *)
(* joined with the other inputs.  It comes first, so that the schemas of   *)
(* the operators above change, up to the one that names its attributes.    *)
(***************************************************************************)
NowInput(cross) == SelectInSeq(cross.inputs, LAMBDA n : n.kind = "now")

Streamed(cross) ==
    LET now == NowInput(cross)
    IN  mk_stream_cross(<<cross.inputs[now].inputs[1]>> \o RemoveAt(cross.inputs, now))

RECURSIVE OverStream(_)
OverStream(node) ==
    IF node.kind = "cross" THEN Streamed(node)
    ELSE LET in == OverStream(node.inputs[1])
         IN  [node EXCEPT !.inputs   = <<in>>,
                          !.outAttrs = IF node.kind \in {"project", "group"} THEN @ ELSE in.outAttrs,
                          !.bStream  = IF node.kind = "group" THEN @ ELSE in.bStream]

t_streamCross(plan) ==
    IF /\ plan.kind = "rstream"
       /\ Finds(plan.inputs[1], "cross", {"project", "distinct", "group", "select"})
       /\ NowInput(FirstOf(plan.inputs[1], "cross")) # 0
    THEN OverStream(plan.inputs[1])
    ELSE plan

isUselessProject(project) ==
    LET in == project.inputs[1].outAttrs
    IN  /\ Len(in) = Len(project.outAttrs)
        /\ \A i \in DOMAIN in : SameAttr(project.outAttrs[i], in[i])

t_removeProject(plan) ==
    Rewritten(plan, "project", {"select", "distinct"} \cup Xstreams,
              LAMBDA project : IF isUselessProject(project) THEN project.inputs[1] ELSE project)

Above == {"select", "project", "group", "distinct"} \cup Xstreams

Binary(Mk(_), node) ==
    FoldLeft(LAMBDA l, r : Mk(<<l, r>>), node.inputs[1], Tail(node.inputs))

t_makeCrossBinary(plan) ==
    Rewritten(plan, "cross", Above, LAMBDA cross : Binary(mk_cross, cross))
t_makeStreamCrossBinary(plan) ==
    Rewritten(plan, "stream_cross", Above, LAMBDA cross : Binary(mk_stream_cross, cross))

(***************************************************************************)
(* A select goes below a cross when one input of it has all its            *)
(* attributes, and on through the selects and crosses it meets there.      *)
(***************************************************************************)
IsCross(node) == node.kind \in {"cross", "stream_cross"}

ChildPos(node, pred) ==
    SelectInSeq(node.inputs, LAMBDA in : \A i \in DOMAIN pred : check_reference(pred[i], in))

RECURSIVE PushTo(_, _)
PushTo(node, pred) ==
    IF node.kind = "select" THEN [node EXCEPT !.inputs[1] = PushTo(@, pred)]
    ELSE IF IsCross(node) /\ ChildPos(node, pred) # 0
         THEN [node EXCEPT !.inputs[ChildPos(node, pred)] = PushTo(@, pred)]
         ELSE mk_select(node, pred)

RECURSIVE FirstOther(_)
FirstOther(node) == IF node.kind = "select" THEN FirstOther(node.inputs[1]) ELSE node

RECURSIVE PushSelects(_)
PushSelects(node) ==
    IF node.kind # "select" THEN node
    ELSE LET below == FirstOther(node)
             useful == IsCross(below) /\ ChildPos(below, node.arg) # 0
         IN  IF useful THEN PushSelects(PushTo(node.inputs[1], node.arg))
             ELSE [node EXCEPT !.inputs[1] = PushSelects(@)]

t_pushSelect(plan) ==
    Rewritten(plan, "select", Above \ {"select"}, PushSelects)

genLogPlan(q, schema) ==
    t_pushSelect(t_makeStreamCrossBinary(t_makeCrossBinary(t_removeProject(
        t_streamCross(t_removeIstream(t_rstreamNow(genPlan_n(q, schema))))))))

=============================================================================
