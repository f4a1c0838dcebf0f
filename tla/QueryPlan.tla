----------------------------- MODULE QueryPlan -----------------------------
(***************************************************************************)
(* The plan manager (metadata/plan_mgr_impl.cc): tables are known, queries *)
(* are registered one after the other, and at START the plan of all of     *)
(* them is transformed and gets its synopses, stores and queues, one       *)
(* function after the other.                                               *)
(*                                                                         *)
(* A query's result may be a table of later queries (View): they read from *)
(* the query source that tops its plan.  A query found equal to an earlier *)
(* one only gets an output of its own.                                     *)
(***************************************************************************)
EXTENDS Instantiation, Sharing, TLC

CONSTANTS Tables,     \* sequence of [table, types, stream]
          Queries,    \* the queries that may be registered first
          After(_),   \* those that may be registered after a first one
          View,       \* the table that is the first query's result
          MaxQueries  \* bound on the queries registered

VARIABLES plan,
          phase,      \* the function that comes next
          schema,     \* table -> width and whether it is a stream
          sourceOps,  \* table -> the operator its tuples come from
          queries,    \* those registered: [phyPlan, asked, spec]
          pool,       \* the expressions of the queries interpreted so far
          outputs,    \* output operator -> what its query asks for
          insts       \* operator -> its instructions

vars == <<plan, phase, schema, sourceOps, queries, pool, outputs, insts>>

addBaseTable(p, t) ==
    new_op(p, [BlankOp EXCEPT !.kind = IF t.stream THEN "stream_source" ELSE "reln_source",
                              !.table = t.table, !.attrTypes = t.types, !.bStream = t.stream])

createSSGen(p) == new_op(p, [BlankOp EXCEPT !.kind = "ss_gen", !.attrTypes = <<INT, INT, INT, INT, FLOAT>>, !.bStream = TRUE])

-----------------------------------------------------------------------------
(***************************************************************************)
(* What a query means, and what an operator computes, in one form: the     *)
(* product of the leaves in from, the rows for which preds hold, the       *)
(* columns cols; rs says that it is the stream of what holds at each       *)
(* instant.  A leaf is a table or an operation that selection and          *)
(* projection do not commute with, with the meanings it is applied to; a   *)
(* term is a column of a leaf.  Two plans of one meaning give one answer.  *)
(***************************************************************************)
Leaf(of, table, by, subs) == [of |-> of, table |-> table, by |-> by, subs |-> subs]
Term(leaf, fn, col, args) == [leaf |-> leaf, fn |-> fn, col |-> col, args |-> args]
Columns(leaf, n) == [c \in 1..n |-> Term(leaf, NONE, c, <<>>)]
Single(leaf, n)  == [from |-> {leaf}, preds |-> {}, cols |-> Columns(leaf, n), rs |-> FALSE]

Opaque(of, subs) == Single(Leaf(of, NONE, <<>>, subs), Len(subs[1].cols))

Cut(m, n) == [m EXCEPT !.cols = SubSeq(@, 1, n)]

(* the stream of what holds at each instant as one leaf *)
Wrap(m) ==
    LET leaf == Leaf("stream", NONE, <<>>, <<[m EXCEPT !.preds = {}, !.cols = <<>>]>>)
        In(t) == Term(leaf, "OF", 0, <<t>>)
    IN  IF ~m.rs THEN m
        ELSE [from |-> {leaf}, preds |-> {[i \in DOMAIN pred |-> In(pred[i])] : pred \in m.preds},
              cols |-> [i \in DOMAIN m.cols |-> In(m.cols[i])], rs |-> FALSE]

Product(l, r) ==
    [from |-> Wrap(l).from \cup Wrap(r).from, preds |-> Wrap(l).preds \cup Wrap(r).preds,
     cols |-> Wrap(l).cols \o Wrap(r).cols, rs |-> FALSE]

Where(m, preds) == [m EXCEPT !.preds = @ \cup preds]

Grouped(m, by, aggrs) ==
    LET leaf == Leaf("group", NONE, by, <<Cut(m, 0)>>)
    IN  [Single(leaf, 0) EXCEPT !.cols =
            [i \in DOMAIN by |-> Term(leaf, "BY", 0, <<by[i]>>)] \o
            [i \in DOMAIN aggrs |-> Term(leaf, aggrs[i].fn, 0,
                                         IF aggrs[i].fn = "COUNT" THEN <<>> ELSE <<aggrs[i].term>>)]]

(* f applied to the leaf of every term that has leaf old *)
Swap(m, old, from, f(_)) ==
    LET New(t) == IF t.leaf = old THEN f(t) ELSE t
    IN  [m EXCEPT !.from  = (@ \ {old}) \cup from,
                  !.preds = {[i \in DOMAIN pred |-> New(pred[i])] : pred \in @},
                  !.cols  = [i \in DOMAIN @ |-> New(@[i])]]

(* [Now] of a selection or projection of a stream is that of the stream's [Now]. *)
MaxWidth == 4
Now(m) ==
    IF Cardinality(m.from) = 1 /\ ~m.rs
    THEN LET old == CHOOSE l \in m.from : TRUE
             leaf == Leaf("now", NONE, <<>>, <<Single(old, MaxWidth)>>)
         IN  Swap(m, old, {leaf}, LAMBDA t : [t EXCEPT !.leaf = leaf])
    ELSE Opaque("now", <<m>>)

RECURSIVE OnlyPlus(_)
OnlyPlus(m) ==
    m.rs \/ \A l \in m.from : CASE l.of = "table" -> schema[l.table].stream
                                [] l.of \in Xstreams \cup {"stream"} -> TRUE
                                [] l.of \in {"distinct", "union"} -> \A i \in DOMAIN l.subs : OnlyPlus(l.subs[i])
                                [] OTHER -> FALSE

(***************************************************************************)
(* Istream of what only grows is that itself.  Rstream of the [Now] of a   *)
(* stream is the stream; joined with others, it is a stream join.          *)
(***************************************************************************)
NowLeaves(m) == {l \in m.from : l.of = "now"}

R2S(r2s, m) ==
    IF r2s = "istream" /\ OnlyPlus(m) THEN m
    ELSE IF r2s = "rstream" /\ ~m.rs /\ NowLeaves(m) # {}
    THEN IF Cardinality(m.from) > 1 THEN [m EXCEPT !.rs = TRUE]
         ELSE LET leaf == CHOOSE l \in m.from : TRUE
                  src  == leaf.subs[1]
              IN  [Swap(m, leaf, src.from, LAMBDA t : src.cols[t.col]) EXCEPT !.rs = src.rs,
                      !.preds = @ \cup src.preds]
    ELSE Opaque(r2s, <<m>>)

StreamJoin(s, r) ==
    IF s.rs THEN [Product([s EXCEPT !.rs = FALSE], r) EXCEPT !.rs = TRUE]
    ELSE [Product(Now(s), r) EXCEPT !.rs = TRUE]

-----------------------------------------------------------------------------
(***************************************************************************)
(* What query q asks for, read off its clauses, and the level: the column  *)
(* that stands for it, if the rows, or the groups, have such a column.     *)
(***************************************************************************)
Unset == Term(Leaf(NONE, NONE, <<>>, <<>>), "UNSET", 0, <<>>)

Interpreted(q) == interpretQuery(q, schema)

TableMeaning(t) ==
    IF t = View THEN queries[1].asked
    ELSE Single(Leaf("table", t, <<>>, <<>>), schema[t].width)

Windowed(win, m) ==
    CASE win \in {NONE, "unbounded"} -> m
      [] win = "now"                 -> Now(m)
      [] OTHER                       -> Opaque(win, <<m>>)

Asked(q) ==
    LET table(f) == LET m == Windowed(f.win, TableMeaning(f.table))
                    IN  IF Len(q.from) = 1 \/ q.binOp # NONE THEN m ELSE Wrap(m)
        tables == FoldLeft(LAMBDA ms, f : Append(ms, table(f)), <<>>, q.from)
        term(a) == tables[SelectInSeq(q.from, LAMBDA f : f.table = a.table)].cols[a.col]
        terms(as) == [i \in DOMAIN as |-> term(as[i])]
        rows == Where(FoldLeft(Product, tables[1], Tail(tables)),
                      {terms(q.preds[i]) : i \in DOMAIN q.preds})
        projs == Interpreted(q).projs
        listed == Front(projs)
        level == Last(projs)
        aggrs == [i \in DOMAIN listed |-> [fn |-> listed[i].fn, term |-> term(listed[i])]]
        grouped == Grouped(rows, terms(q.by), SelectSeq(aggrs, LAMBDA a : a.fn # NONE))
        result(a) == IF \E i \in DOMAIN aggrs : aggrs[i] = a /\ a.fn # NONE
                     THEN Term(CHOOSE l \in grouped.from : TRUE, a.fn, 0,
                               IF a.fn = "COUNT" THEN <<>> ELSE <<a.term>>)
                     ELSE IF q.by = <<>> THEN a.term
                     ELSE Term(CHOOSE l \in grouped.from : TRUE, "BY", 0, <<a.term>>)
        isGrouped == q.by # <<>> \/ \E i \in DOMAIN aggrs : aggrs[i].fn # NONE
        hasLevel == IF isGrouped THEN Contains(q.by, level) ELSE level.col <= schema[level.table].width
        projected == [(IF isGrouped THEN grouped ELSE rows) EXCEPT
                         !.cols = Append([i \in DOMAIN aggrs |-> result(aggrs[i])],
                                         IF hasLevel THEN result([fn |-> NONE, term |-> term(level)])
                                         ELSE Unset)]
        whole == IF q.binOp # NONE THEN Opaque(q.binOp, tables)
                 ELSE IF q.distinct THEN Opaque("distinct", <<projected>>)
                 ELSE projected
    IN  IF q.r2s = NONE THEN whole ELSE R2S(q.r2s, whole)

(***************************************************************************)
(* What operator o of plan p computes.  A user of it sees no more columns  *)
(* than there were when it was made.                                       *)
(***************************************************************************)
At(preds, ins) ==
    {[i \in DOMAIN preds[j] |-> ins[preds[j][i].input].cols[preds[j][i].pos]] : j \in DOMAIN preds}

RECURSIVE Computes(_, _)
Computes(p, o) ==
    LET op == p.ops[o]
        ins == FoldLeft(LAMBDA ms, in : Append(ms, Computes(p, in)), <<>>, op.inputs)
        Cols(as) == [i \in DOMAIN as |-> IF as[i] = UNSET THEN Unset ELSE ins[as[i].input].cols[as[i].pos]]
        aggrs == [i \in DOMAIN op.aggrs |-> [fn |-> op.aggrs[i].fn, term |-> Cols(<<op.aggrs[i].attr>>)[1]]]
        joined == Where(IF op.kind \in Joins THEN Product(ins[1], ins[2]) ELSE StreamJoin(ins[1], ins[2]),
                        IF op.kind \in Joins THEN At(op.pred, <<Wrap(ins[1]), Wrap(ins[2])>>)
                        ELSE At(op.pred, <<StreamJoin(ins[1], ins[2]), Wrap(ins[2])>>))
        joinCol(a) == CASE a = UNSET   -> Unset
                        [] a.input = 1 -> joined.cols[a.pos]
                        [] a.input = 2 -> joined.cols[Len(ins[1].cols) + a.pos]
        m == CASE op.kind \in {"stream_source", "reln_source", "ss_gen"} ->
                    Single(Leaf("table", op.table, <<>>, <<>>), numAttrs(op))
               [] op.kind \in {"query_source", "output", "sink"} -> ins[1]
               [] op.kind = "select" -> Where(ins[1], At(op.pred, ins))
               [] op.kind = "project" -> [ins[1] EXCEPT !.cols = Cols(op.projs)]
               [] op.kind \in {"join", "str_join"} -> joined
               [] op.kind \in {"join_project", "str_join_project"} ->
                    [joined EXCEPT !.cols = [i \in DOMAIN op.projs |-> joinCol(op.projs[i])]]
               [] op.kind = "group" -> Grouped(ins[1], Cols(op.groupAttrs), aggrs)
               [] op.kind \in Xstreams -> R2S(op.kind, ins[1])
               [] op.kind \in RowRange \cup {"partn"} -> Windowed(op.table, ins[1])
               [] OTHER -> Opaque(op.kind, ins)
    IN  Cut(m, op.width)

-----------------------------------------------------------------------------
(***************************************************************************)
(* Registration and START.                                                 *)
(***************************************************************************)
Init ==
    /\ plan = FoldLeft(addBaseTable, createSSGen(init_ops), Tables)
    /\ phase = "register"
    /\ schema = [t \in {Tables[i].table : i \in DOMAIN Tables} |->
                    LET i == CHOOSE j \in DOMAIN Tables : Tables[j].table = t
                    IN  [width  |-> Len(Tables[i].types), types |-> Tables[i].types,
                         stream |-> Tables[i].stream]]
    /\ sourceOps = [t \in DOMAIN schema |-> CHOOSE o \in DOMAIN plan.ops : plan.ops[o].table = t]
    /\ queries = <<>>
    /\ pool = <<>>
    /\ outputs = <<>>
    /\ insts = <<>>

(***************************************************************************)
(* What the semantic interpreter accepts: known tables and columns, a      *)
(* window on a stream only, comparison, union and difference of what is    *)
(* of one kind.                                                            *)
(***************************************************************************)
KindOf(t, c) == schema[t].types[c].kind

Valid(q) ==
    LET Known(a) == a.col \in 1..schema[a.table].width
        Kind(a)  == KindOf(a.table, a.col)
    IN  /\ \A i \in DOMAIN q.from :
              /\ q.from[i].table \in DOMAIN schema
              /\ schema[q.from[i].table].stream <=> q.from[i].win # NONE
        /\ \A i \in DOMAIN q.preds :
              /\ \A j \in DOMAIN q.preds[i] : Known(q.preds[i][j])
              /\ Kind(q.preds[i][1]) = Kind(q.preds[i][2])
        /\ \A i \in DOMAIN q.projs :
              Known(q.projs[i])
        /\ \A i \in DOMAIN q.by : Known(q.by[i])
        /\ q.binOp # NONE =>
              LET l == q.from[1].table
                  r == q.from[2].table
              IN  /\ schema[l].width = schema[r].width
                  /\ \A c \in 1..schema[l].width : KindOf(l, c) = KindOf(r, c)

(***************************************************************************)
(* Aggregates it accepts and that go wrong are left out (README.md): of a  *)
(* name there are none, and COUNT, written as an INT, has the type of its  *)
(* first table's first column.                                             *)
(***************************************************************************)
Countable(q) ==
    \A i \in DOMAIN q.projs :
        LET a == q.projs[i]
        IN  CASE a.fn = "COUNT" -> KindOf(a.table, a.col) = "INT"
              [] a.fn = NONE    -> TRUE
              [] OTHER          -> KindOf(a.table, a.col) # "CHAR"

(* an output that reads from root, if the result is wanted outside *)
WithOutput(p, root, asked, external) ==
    IF external
    THEN plan' = mk_output(p, root) /\ outputs' = outputs @@ (NewOp(p) :> asked)
    ELSE plan' = p /\ UNCHANGED outputs

Registered(q, root, asked) == Append(queries, [phyPlan |-> root, asked |-> asked, spec |-> q])

(* a plan of its own, generated, and the first query's result as a table *)
addLogicalQueryPlan(q, generated, asked, external) ==
    LET p    == generated.plan
        root == generated.root
    IN
    /\ WithOutput(mk_qry_src(p, root), root, asked, external)
    /\ queries' = Registered(q, root, asked)
    /\ IF queries = <<>>
       THEN /\ sourceOps' = sourceOps @@ (View :> NewOp(p))
            /\ schema' = schema @@ (View :> [width  |-> numAttrs(p.ops[root]),
                                            types  |-> p.ops[root].attrTypes,
                                            stream |-> p.ops[root].bStream])
       ELSE UNCHANGED <<sourceOps, schema>>
    /\ UNCHANGED <<phase, insts>>

(* the plan of query i: another output on the operator that is its root *)
addCompleteSharePlan(i, q, asked, external) ==
    /\ WithOutput(plan, queries[i].phyPlan, asked, external)
    /\ queries' = Registered(q, queries[i].phyPlan, asked)
    /\ UNCHANGED <<phase, schema, sourceOps, insts>>

(* The plan is built over a child that was never set: undefined behaviour. *)
addSubsumeShareLogicalQueryPlan ==
    /\ phase' = "undefined"
    /\ UNCHANGED <<plan, schema, sourceOps, queries, outputs, insts>>

registerQuery(q, external) ==
    /\ phase = "register" /\ Len(queries) < MaxQueries
    /\ Valid(q) /\ Countable(q)
    /\ pool' = resetExprs(pool, exprs(Interpreted(q), schema))
    /\ \E v \in Analyses(Interpreted(q), [i \in DOMAIN queries |-> Interpreted(queries[i].spec)], pool', schema) :
          \/ /\ completeShareID(v) # 0
             /\ addCompleteSharePlan(completeShareID(v), q, Asked(q), external)
          \/ /\ subsumeShareFlag(v)
             /\ addSubsumeShareLogicalQueryPlan
          \/ /\ completeShareID(v) = 0 /\ ~subsumeShareFlag(v)
             /\ addLogicalQueryPlan(q, genPhysicalPlan(plan, sourceOps, genLogPlan(Interpreted(q), schema)), Asked(q), external)

Start ==
    /\ phase = "register" /\ queries # <<>>
    /\ phase' = "removeQuerySources"
    /\ UNCHANGED <<plan, schema, sourceOps, queries, pool, outputs, insts>>

Does(f, newPlan, next) ==
    /\ phase = f
    /\ plan' = newPlan
    /\ phase' = next
    /\ UNCHANGED <<schema, sourceOps, queries, pool, outputs, insts>>

(* optimize_plan and add_aux_structures *)
RemoveQuerySources == Does("removeQuerySources", removeQuerySources(plan), "addSinks")
AddSinks           == Does("addSinks", addSinks(plan), "mergeSelects")
MergeSelects       == Does("mergeSelects", mergeSelects(plan), "mergeProjectsToJoin")
MergeProjects      == Does("mergeProjectsToJoin", mergeProjectsToJoin(plan), "addIntAggrs")
AddIntAggrs        == Does("addIntAggrs", addIntAggrs(plan), "add_syn")
AddSyn             == Does("add_syn", add_syn(plan), "add_store")
AddStore           == Does("add_store", add_store(plan), "add_queues")
AddQueues          == Does("add_queues", add_queues(plan), "set_in_stores")
SetInStores        == Does("set_in_stores", set_in_stores(plan), "instantiate")

Used == {plan.used[i] : i \in DOMAIN plan.used}

(* inst_ops; the system stream's generator comes last and has no instructions *)
Instantiate ==
    /\ phase = "instantiate"
    /\ insts' = [o \in Used |-> inst_op(plan, o)]
    /\ phase' = "running"
    /\ UNCHANGED <<plan, schema, sourceOps, queries, pool, outputs>>

(* An attribute that was never set may name no input and no column at all. *)
InstantiateUnset ==
    /\ phase = "instantiate"
    /\ \E o \in Used : Contains(plan.ops[o].projs, UNSET)
    /\ phase' = "undefined"
    /\ UNCHANGED <<plan, schema, sourceOps, queries, pool, outputs, insts>>

Next ==
    \/ \E q \in IF queries = <<>> THEN Queries ELSE After(queries[1].spec), external \in BOOLEAN :
          /\ queries = <<>> \/ external
          /\ registerQuery(q, external)
    \/ Start
    \/ RemoveQuerySources \/ AddSinks \/ MergeSelects \/ MergeProjects \/ AddIntAggrs
    \/ AddSyn \/ AddStore \/ AddQueues \/ SetInStores \/ Instantiate \/ InstantiateUnset

Spec == Init /\ [][Next]_vars

-----------------------------------------------------------------------------
Count(s, x) == Cardinality({i \in DOMAIN s : s[i] = x})
Done(f) == LET phases == <<"register", "removeQuerySources", "addSinks", "mergeSelects",
                           "mergeProjectsToJoin", "addIntAggrs", "add_syn", "add_store",
                           "add_queues", "set_in_stores", "instantiate", "running">>
           IN  SelectInSeq(phases, LAMBDA g : g = f) < SelectInSeq(phases, LAMBDA g : g = phase)

(* Operators agree on who reads from whom, also after an operator has been *)
(* taken out, merged into another or put in between: each reader of an     *)
(* operator is in use and has it as an input as often as it is listed, and *)
(* the other way round.  After the sinks, whatever an operator puts out is *)
(* read.                                                                   *)
WellWired ==
    \A o \in Used :
        LET op == plan.ops[o]
        IN  /\ \A i \in DOMAIN op.inputs :
                  /\ op.inputs[i] \in Used
                  /\ Count(plan.ops[op.inputs[i]].outputs, o) = Count(op.inputs, op.inputs[i])
            /\ \A i \in DOMAIN op.outputs : op.outputs[i] \in Used /\ Contains(plan.ops[op.outputs[i]].inputs, o)
            /\ Done("removeQuerySources") => op.kind # "query_source"
            /\ Done("addSinks") /\ op.kind \notin {"output", "sink", "ss_gen"} => op.outputs # <<>>

(* Neither the logical transformations (t_rstreamNow, t_streamCross,       *)
(* t_removeProject, t_pushSelect) nor the physical ones (mergeSelects,     *)
(* mergeProjectsToJoin, addIntAggrs, the projects of add_store_select)     *)
(* change an answer: every output always computes what its query asks for. *)
AnswersKept == \A o \in DOMAIN outputs : Computes(plan, o) = outputs[o]

(* The store that allocates what o reads from input i, found by following  *)
(* the operators that pass tuples on.                                      *)
RECURSIVE AllocatedBy(_, _, _)
AllocatedBy(o, i, through) ==
    LET in == plan.ops[o].inputs[i]
    IN  IF plan.ops[in].kind \in through THEN AllocatedBy(in, 1, through) ELSE plan.ops[in].store

Fits == [REL       |-> {"REL_STORE", "WIN_STORE", "LIN_STORE", "PARTN_WIN_STORE"},
         WIN       |-> {"WIN_STORE"},
         LIN       |-> {"LIN_STORE"},
         PARTN_WIN |-> {"PARTN_WIN_STORE"}]

(* Every synopsis is a stub of one store, of a kind that can serve it.  If *)
(* it keeps what its operator reads, that store allocates it, and sees     *)
(* each tuple inserted in every stub: no select is in between.  A store    *)
(* frees a tuple when all its stubs have deleted it (rel_store_impl.cc),   *)
(* so that a stub that misses tuples would lose those of the others.       *)
StubsSeeAll ==
    Done("add_store") =>
        \A n \in DOMAIN plan.syns :
            LET s == plan.syns[n]
            IN  /\ s.own \in Used /\ s.store # 0
                /\ plan.stores[s.store].kind \in Fits[s.kind]
                /\ Count(plan.stores[s.store].stubs, n) = 1
                /\ s.kind = "WIN" \/ (s.role \in {"in", "outer", "inner"}) =>
                      AllocatedBy(s.own, IF s.role = "inner" THEN 2 ELSE 1, RowRange) = s.store

(* Every input of every operator has a queue of its own, fed by the        *)
(* operator it reads from; every reader counts in its writer.  In the end  *)
(* an operator knows the store its tuples come from, through selects and   *)
(* windows, and a writer shared by several readers knows it too: it is the *)
(* one whose references the queue counts.                                  *)
QueuesConnect ==
    Done("add_queues") =>
        \A o \in Used : \A i \in DOMAIN plan.ops[o].inputs :
            LET in == plan.ops[o].inputs[i]
                q  == plan.queues[plan.ops[o].inQueues[i]]
                w  == plan.queues[plan.ops[in].outQueue]
                store == AllocatedBy(o, i, RowRange \cup {"select"})
            IN  /\ i \in DOMAIN plan.ops[o].inQueues /\ plan.ops[o].inQueues[i] # 0
                /\ q.source = in /\ q.dest = o /\ q.index = i
                /\ IF Len(plan.ops[in].outputs) = 1 THEN q = w
                   ELSE q.kind = "READER_Q" /\ w.kind = "WRITER_Q" /\ w.source = in
                /\ Done("set_in_stores") =>
                      /\ store # 0 /\ plan.ops[o].inStores[i] = store
                      /\ w.kind = "WRITER_Q" => w.store = store

(* Whatever columns the functions that instantiate the operators work out, *)
(* each from the attributes it sees: once they are bound to tuples that    *)
(* their stores have laid out, an operator's instructions read, compare,   *)
(* hash and write the attributes that the operator is about, and nothing   *)
(* else.                                                                   *)
TuplesAsMeant ==
    LET laid == [s \in DOMAIN plan.stores |-> TupleAttrs(plan, s)]
        AllMeant(attrs) == \A o \in Used : Right(plan, o, attrs, insts[o])
    IN  phase = "running" => AllMeant(laid)

=============================================================================
