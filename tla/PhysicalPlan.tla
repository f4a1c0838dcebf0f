---------------------------- MODULE PhysicalPlan ----------------------------
(***************************************************************************)
(* The operators of the plan manager, how a logical plan is turned into    *)
(* operators (metadata/gen_phy_plan.cc), and the transformations of the    *)
(* whole plan before it runs (metadata/plan_trans.cc).                     *)
(*                                                                         *)
(* A plan is a record that every function takes and returns:               *)
(*   ops      the pool of operators, by id                                 *)
(*   used     the operators in use, the newest first                       *)
(*   free     the ids to be used next                                      *)
(*   syns, stores, queues   what PlanStores adds                           *)
(* An operator keeps the operators it reads from (inputs) and those that   *)
(* read from it (outputs); every change of a plan has to keep the two in   *)
(* agreement.  An attribute is [input, pos].  The pool is large enough:    *)
(* what happens when it, or the ten outputs of an operator, are used up is *)
(* left out.                                                               *)
(***************************************************************************)
EXTENDS LogicalPlan

CONSTANT MAX_OPS

(* the type of an attribute; a CHAR has the length it was declared with *)
INT     == [kind |-> "INT", len |-> 4]
FLOAT   == [kind |-> "FLOAT", len |-> 4]
CHAR(n) == [kind |-> "CHAR", len |-> n]

(* width, the attributes when the operator was made, is for the properties *)
BlankOp == [kind |-> NONE, attrTypes |-> <<>>, bStream |-> FALSE, inputs |-> <<>>, outputs |-> <<>>,
            pred |-> <<>>, projs |-> <<>>, numOuterAttrs |-> 0, groupAttrs |-> <<>>, partnAttrs |-> <<>>,
            aggrs |-> <<>>, table |-> NONE, store |-> 0, outQueue |-> 0, inQueues |-> <<>>,
            inStores |-> <<>>, width |-> 0]

numAttrs(op) == Len(op.attrTypes)

init_ops == [ops |-> [o \in 1..MAX_OPS |-> BlankOp], used |-> <<>>,
             free |-> [o \in 1..MAX_OPS |-> o], syns |-> <<>>, stores |-> <<>>, queues |-> <<>>]

addOutput(p, child, parent) == [p EXCEPT !.ops[child].outputs = Append(@, parent)]

NewOp(p) == Head(p.free)

(* new_op, the assignments of an mk_ function, and addOutput on its inputs *)
new_op(p, op) ==
    LET id == NewOp(p)
        q  == [p EXCEPT !.free = Tail(@), !.used = <<id>> \o @,
                        !.ops[id] = [op EXCEPT !.width = numAttrs(op)]]
    IN  FoldLeft(LAMBDA r, child : addOutput(r, child, id), q, op.inputs)

free_op(p, o) == [p EXCEPT !.used = SelectSeq(@, LAMBDA u : u # o), !.free = <<o>> \o @]

-----------------------------------------------------------------------------
(***************************************************************************)
(* The physical operator for a node, over the operators ins of its inputs. *)
(***************************************************************************)
Attr(i, c) == [input |-> i, pos |-> c]

(* what is returned for an attribute that no input has: it was never set *)
UNSET == Attr(0, 0)

transformAttr(a, node) ==
    LET i == SelectInSeq(node.inputs, LAMBDA in : check_reference(a, in))
    IN  IF i = 0 THEN UNSET
        ELSE Attr(i, SelectInSeq(node.inputs[i].outAttrs, LAMBDA b : SameAttr(a, b)))

Attrs(as, node) == [i \in DOMAIN as |-> transformAttr(as[i], node)]

(* copy_schema: the schema, and whether it is a stream, of the only input *)
Over(p, kind, in) ==
    [BlankOp EXCEPT !.kind = kind, !.inputs = <<in>>, !.attrTypes = p.ops[in].attrTypes,
                    !.bStream = p.ops[in].bStream]

(* the types of the left input, with the longer of two CHARs *)
OfTwo(p, kind, ins) ==
    LET left  == p.ops[ins[1]].attrTypes
        right == p.ops[ins[2]].attrTypes
        Wider(a) == IF left[a].kind = "CHAR" /\ right[a].len > left[a].len THEN right[a] ELSE left[a]
    IN  [BlankOp EXCEPT !.kind = kind, !.inputs = ins, !.attrTypes = [a \in DOMAIN left |-> Wider(a)]]

(* append_schema twice *)
JoinOf(p, kind, ins) ==
    [BlankOp EXCEPT !.kind = kind, !.inputs = ins,
                    !.attrTypes = p.ops[ins[1]].attrTypes \o p.ops[ins[2]].attrTypes,
                    !.numOuterAttrs = numAttrs(p.ops[ins[1]]),
                    !.bStream = p.ops[ins[1]].bStream /\ p.ops[ins[2]].bStream]

TypesAt(as, types) == [i \in DOMAIN as |-> types[as[i].pos]]

getOutputType(fn, type) == IF fn = "AVG" THEN FLOAT ELSE type

(* COUNT takes no attribute: it is given the first *)
Aggregate(a, node) ==
    [fn |-> a.fn, attr |-> IF a.fn = "COUNT" THEN Attr(1, 1) ELSE transformAttr([a EXCEPT !.fn = NONE], node)]

mk_group_aggr_op(p, node, in) ==
    LET by == SubSeq(node.outAttrs, 1, node.arg)
        asked == SubSeq(node.outAttrs, node.arg + 1, Len(node.outAttrs))
        aggrs == [i \in DOMAIN asked |-> Aggregate(asked[i], node)]
        types == p.ops[in].attrTypes
    IN  [Over(p, "group", in) EXCEPT !.bStream = FALSE, !.groupAttrs = Attrs(by, node), !.aggrs = aggrs,
            !.attrTypes = TypesAt(Attrs(by, node), types) \o
                          [i \in DOMAIN aggrs |-> getOutputType(aggrs[i].fn, types[aggrs[i].attr.pos])]]

(* The last attribute is the level: an INT, whatever it refers to. *)
mk_project_op(p, node, in) ==
    LET projs == Attrs(node.outAttrs, node)
    IN  [Over(p, "project", in) EXCEPT !.projs = projs, !.attrTypes = Append(TypesAt(Front(projs), @), INT)]

Windows == {"row", "range", "now", "partn"}

(* A window [Now] is a range window of one time unit.  A partitioned window *)
(* is by the second attribute.                                              *)
OpFor(p, node, ins) ==
    CASE node.kind \in Windows ->
            [Over(p, IF node.kind = "now" THEN "range" ELSE node.kind, ins[1]) EXCEPT
                !.bStream = FALSE, !.table = node.kind,
                !.partnAttrs = IF node.kind = "partn" THEN <<Attr(1, 2)>> ELSE <<>>]
      [] node.kind = "project"      -> mk_project_op(p, node, ins[1])
      [] node.kind = "cross"        -> JoinOf(p, "join", ins)
      [] node.kind = "stream_cross" -> [JoinOf(p, "str_join", ins) EXCEPT !.bStream = TRUE]
      [] node.kind = "group"        -> mk_group_aggr_op(p, node, ins[1])
      [] node.kind = "distinct"     -> Over(p, "distinct", ins[1])
      [] node.kind \in Xstreams     -> [Over(p, node.kind, ins[1]) EXCEPT !.bStream = TRUE]
      [] node.kind = "union"        ->
            [OfTwo(p, "union", ins) EXCEPT !.bStream = p.ops[ins[1]].bStream /\ p.ops[ins[2]].bStream]
      [] node.kind = "except"       -> OfTwo(p, "except", ins)

(* a select over a select adds its predicate to that one *)
mk_select_op(p, node, in) ==
    LET pred == Attrs(node.arg, node)
    IN  IF p.ops[in].kind = "select"
        THEN [plan |-> [p EXCEPT !.ops[in].pred = <<pred>> \o @], root |-> in]
        ELSE [plan |-> new_op(p, [Over(p, "select", in) EXCEPT !.pred = <<pred>>]), root |-> NewOp(p)]

(* sourceOps says which operator the tuples of a table come from *)
RECURSIVE genPhysicalPlan(_, _, _)
genPhysicalPlan(p, sourceOps, node) ==
    IF node.kind = "source" THEN [plan |-> p, root |-> sourceOps[node.arg]]
    ELSE LET Child(acc, in) ==
                 LET g == genPhysicalPlan(acc.plan, sourceOps, in)
                 IN  [plan |-> g.plan, roots |-> Append(acc.roots, g.root)]
             below == FoldLeft(Child, [plan |-> p, roots |-> <<>>], node.inputs)
             q == below.plan
         IN  IF node.kind = "select" THEN mk_select_op(q, node, below.roots[1])
             ELSE [plan |-> new_op(q, OpFor(q, node, below.roots)), root |-> NewOp(q)]

mk_qry_src(p, root) == new_op(p, Over(p, "query_source", root))
mk_output(p, root)  == new_op(p, Over(p, "output", root))
mk_sink(p, o)       == new_op(p, Over(p, "sink", o))

-----------------------------------------------------------------------------
(***************************************************************************)
(* Transformations.  A loop over the operators in use may remove the one   *)
(* it is at, and new operators come before the head: it visits those that  *)
(* were in use when it began.                                              *)
(***************************************************************************)
ForUsedOps(p, Do(_, _)) == FoldLeft(Do, p, p.used)

getInputIndex(p, child, parent) == SelectInSeq(p.ops[parent].inputs, LAMBDA o : o = child)

(* the readers of op read from its input instead *)
shortCircuitInputOutput_FirstInput(p, op) ==
    LET in == p.ops[op].inputs[1]
        at == SelectInSeq(p.ops[in].outputs, LAMBDA o : o = op)
        Connect(q, out) == addOutput([q EXCEPT !.ops[out].inputs[1] = in], in, out)
        q  == FoldLeft(Connect, p, p.ops[op].outputs)
        last == q.ops[in].outputs[Len(q.ops[in].outputs)]
    IN  [q EXCEPT !.ops[in].outputs = Front([@ EXCEPT ![at] = last])]

shortCircuitInputOutput(p, op) ==
    LET in == p.ops[op].inputs[1]
        at == SelectInSeq(p.ops[in].outputs, LAMBDA o : o = op)
        Connect(q, out) ==
            addOutput([q EXCEPT !.ops[out].inputs[getInputIndex(q, op, out)] = in], in, out)
        q  == FoldLeft(Connect, p, p.ops[op].outputs)
        last == q.ops[in].outputs[Len(q.ops[in].outputs)]
    IN  [q EXCEPT !.ops[in].outputs = Front([@ EXCEPT ![at] = last])]

Bypass(p, op) == free_op(shortCircuitInputOutput(p, op), op)

removeQuerySources(p) ==
    ForUsedOps(p, LAMBDA q, o : IF q.ops[o].kind = "query_source" THEN Bypass(q, o) ELSE q)

addSinks(p) ==
    ForUsedOps(p, LAMBDA q, o :
        IF q.ops[o].outputs = <<>> /\ q.ops[o].kind \notin {"output", "ss_gen"}
        THEN mk_sink(q, o) ELSE q)

(* An attribute of a join's output as one of the join's inputs.  One never *)
(* set stays so, whatever is subtracted from it.                           *)
transToJoinAttr(a, join) ==
    IF join.numOuterAttrs < a.pos THEN Attr(2, a.pos - join.numOuterAttrs) ELSE a

transToJoinPred(pred, join) ==
    [i \in DOMAIN pred |-> [j \in DOMAIN pred[i] |-> transToJoinAttr(pred[i][j], join)]]

OnlyReader(p, op) == Len(p.ops[p.ops[op].inputs[1]].outputs) = 1

mergeSelect(p, op) ==
    LET in   == p.ops[op].inputs[1]
        pred == IF p.ops[in].kind = "select" THEN p.ops[op].pred
                ELSE transToJoinPred(p.ops[op].pred, p.ops[in])
    IN  [p EXCEPT !.ops[in].pred = @ \o pred]

CanMergeSelect_Shared(p, op) ==
    /\ p.ops[op].kind = "select"
    /\ p.ops[p.ops[op].inputs[1]].kind \in {"select", "join", "str_join"}

CanMergeSelect(p, op) ==
    /\ p.ops[op].kind = "select"
    /\ OnlyReader(p, op)
    /\ p.ops[p.ops[op].inputs[1]].kind \in {"select", "join", "str_join"}

mergeSelects(p) ==
    ForUsedOps(p, LAMBDA q, o : IF CanMergeSelect(q, o) THEN Bypass(mergeSelect(q, o), o) ELSE q)

mergeProject(p, op) ==
    LET in    == p.ops[op].inputs[1]
        project == p.ops[op]
        join  == p.ops[in]
        projs == [i \in DOMAIN project.projs |-> transToJoinAttr(project.projs[i], join)]
    IN  [p EXCEPT !.ops[in] = [join EXCEPT !.projs = projs,
                                  !.kind = IF @ = "join" THEN "join_project" ELSE "str_join_project",
                                  !.attrTypes = project.attrTypes, !.width = project.width]]

CanMergeProject(p, op) ==
    /\ p.ops[op].kind = "project"
    /\ OnlyReader(p, op)
    /\ p.ops[p.ops[op].inputs[1]].kind \in {"join", "str_join"}

mergeProjectsToJoin(p) ==
    ForUsedOps(p, LAMBDA q, o : IF CanMergeProject(q, o) THEN Bypass(mergeProject(q, o), o) ELSE q)

(***************************************************************************)
(* Aggregates an operator needs for its own use: COUNT, to see a group     *)
(* disappear, and for an average COUNT and SUM.  They come after the       *)
(* attributes the query asked for.                                         *)
(***************************************************************************)
AddAggr(p, op, fn, attr, type) ==
    [p EXCEPT !.ops[op].aggrs = Append(@, [fn |-> fn, attr |-> attr]),
              !.ops[op].attrTypes = Append(@, type)]

addCount(p, op)     == AddAggr(p, op, "COUNT", Attr(1, 1), INT)
addSum(p, op, attr) == AddAggr(p, op, "SUM", attr, p.ops[p.ops[op].inputs[1]].attrTypes[attr.pos])

existsAggr(p, op, Test(_)) == \E i \in DOMAIN p.ops[op].aggrs : Test(p.ops[op].aggrs[i])

WithCount(p, op) ==
    IF existsAggr(p, op, LAMBDA a : a.fn = "COUNT") THEN p ELSE addCount(p, op)
WithSum(p, op, attr) ==
    IF existsAggr(p, op, LAMBDA a : a = [fn |-> "SUM", attr |-> attr]) THEN p
    ELSE addSum(p, op, attr)

InputIsStream(p, op) == p.ops[p.ops[op].inputs[1]].bStream

addIntAggrsGby(p, op) ==
    FoldLeft(LAMBDA q, a : IF a.fn = "AVG" THEN WithSum(WithCount(q, op), op, a.attr) ELSE q,
             IF InputIsStream(p, op) THEN p ELSE WithCount(p, op), p.ops[op].aggrs)

addIntAggrsDistinct(p, op) ==
    IF InputIsStream(p, op) THEN p ELSE addCount(p, op)

addIntAggrs(p) ==
    ForUsedOps(p, LAMBDA q, o : CASE q.ops[o].kind = "group"    -> addIntAggrsGby(q, o)
                                  [] q.ops[o].kind = "distinct" -> addIntAggrsDistinct(q, o)
                                  [] OTHER                      -> q)

=============================================================================
