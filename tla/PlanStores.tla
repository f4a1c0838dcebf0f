----------------------------- MODULE PlanStores -----------------------------
(***************************************************************************)
(* What is added to a plan before it runs: the synopses in which operators *)
(* keep tuples (metadata/plan_syn.cc), the stores that hold the tuples     *)
(* (plan_store.cc), and the queues (plan_queue.cc).                        *)
(*                                                                         *)
(* An operator that allocates its output tuples has a store.  A synopsis   *)
(* of the tuples an operator reads is a stub of the store they come from,  *)
(* shared by all that keep them.                                           *)
(*   synopsis  [kind, own, role, store]                                    *)
(*   store     [kind, own, stubs]                                          *)
(*   queue     [kind, source, dest, index, store]; a writer has no dest    *)
(* They are known by their places in syns, stores and queues; 0 is none.   *)
(***************************************************************************)
EXTENDS PhysicalPlan

Joins     == {"join", "join_project"}
StrJoins  == {"str_join", "str_join_project"}
RowRange  == {"row", "range"}

new_syn(p, op, kind, role) ==
    [p EXCEPT !.syns = Append(@, [kind |-> kind, own |-> op, role |-> role, store |-> 0])]

Syn(p, op, role) == SelectInSeq(p.syns, LAMBDA s : s.own = op /\ s.role = role)
Has(p, op, role) == Syn(p, op, role) # 0

(* MAX and MIN of what may be deleted need all that is there *)
bInSynNeeded(p, op) ==
    ~InputIsStream(p, op) /\ existsAggr(p, op, LAMBDA a : a.fn \in {"MAX", "MIN"})

(* The synopses of an operator: <<role, kind>> in the order they are made. *)
Synopses(p, op) ==
    LET o == p.ops[op]
        Unless(b, s) == IF b THEN <<>> ELSE <<s>>
    IN  CASE o.kind = "reln_source"        -> <<<<"out", "REL">>>>
          [] o.kind \in {"project", "union"} -> Unless(o.bStream, <<"out", "LIN">>)
          [] o.kind \in Joins ->
                <<<<"inner", "REL">>, <<"outer", "REL">>>> \o Unless(o.bStream, <<"join", "LIN">>)
          [] o.kind \in StrJoins           -> <<<<"inner", "REL">>>>
          [] o.kind = "group" ->
                <<<<"out", "REL">>>> \o Unless(~bInSynNeeded(p, op), <<"in", "REL">>)
          [] o.kind = "distinct"           -> <<<<"out", "REL">>>>
          [] o.kind \in RowRange           -> <<<<"win", "WIN">>>>
          [] o.kind = "partn"              -> <<<<"win", "PARTN_WIN">>>>
          [] o.kind \in {"istream", "dstream"} -> <<<<"now", "REL">>>>
          [] o.kind = "rstream"            -> <<<<"in", "REL">>>>
          [] o.kind = "except"             -> <<<<"count", "REL">>, <<"out", "REL">>>>
          [] OTHER                         -> <<>>

add_syn_op(p, op) == FoldLeft(LAMBDA q, s : new_syn(q, op, s[2], s[1]), p, Synopses(p, op))

add_syn(p) == ForUsedOps(p, add_syn_op)

-----------------------------------------------------------------------------
(***************************************************************************)
(* Stores.                                                                 *)
(***************************************************************************)
(* The synopsis an operator keeps of what it reads from an input, or NONE. *)
getSharedSynType(p, op, index) ==
    LET kind == p.ops[op].kind
    IN  CASE kind \in Joins                     -> IF index = 1 THEN "outer" ELSE "inner"
          [] kind \in StrJoins /\ index = 2     -> "inner"
          [] kind = "group" /\ Has(p, op, "in") -> "in"
          [] kind \in RowRange                  -> "win"
          [] kind = "rstream"                   -> "in"
          [] OTHER                              -> NONE

SharedBy(p, op, out) == getSharedSynType(p, out, getInputIndex(p, op, out))
Sharers(p, op) == SelectSeq(p.ops[op].outputs, LAMBDA out : SharedBy(p, op, out) # NONE)

mk_stub(p, syn, store) ==
    [p EXCEPT !.syns[syn].store = store, !.stores[store].stubs = Append(@, syn)]

(* A window passes on the tuples it reads: its readers share them too.     *)
RECURSIVE setSharedStore(_, _, _, _)
setSharedStore(p, op, index, store) ==
    LET role == getSharedSynType(p, op, index)
        q == IF role = NONE THEN p ELSE mk_stub(p, Syn(p, op, role), store)
    IN  IF p.ops[op].kind \notin RowRange THEN q
        ELSE FoldLeft(LAMBDA r, out : setSharedStore(r, out, getInputIndex(r, op, out), store),
                      q, p.ops[op].outputs)

new_store(p, op, kind) == [p EXCEPT !.stores = Append(@, [kind |-> kind, own |-> op, stubs |-> <<>>])]
LastStore(p) == Len(p.stores)

(* a store of its own for what an operator keeps but does not put out *)
PrivateStore(p, op) ==
    LET role == IF p.ops[op].kind = "except" THEN "count" ELSE "now"
        q == new_store(p, op, "REL_STORE")
    IN  mk_stub(q, Syn(p, op, role), LastStore(q))

storeKind(p, op) ==
    LET o == p.ops[op]
    IN  CASE o.kind = "partn"                           -> "PARTN_WIN_STORE"
          [] o.kind \in {"group", "reln_source", "except"} -> "REL_STORE"
          [] o.kind = "distinct"   -> IF o.bStream THEN "WIN_STORE" ELSE "REL_STORE"
          [] ~o.bStream            -> "LIN_STORE"
          [] OTHER                 -> IF Sharers(p, op) = <<>> THEN "SIMPLE_STORE" ELSE "WIN_STORE"

(* the synopsis an operator keeps of what it puts out *)
OutSyn(p, op) ==
    LET kind == p.ops[op].kind
        role == CASE kind = "partn" -> "win" [] kind \in Joins -> "join" [] OTHER -> "out"
    IN  Syn(p, op, role)

Storeless == RowRange \cup {"output", "sink"}

Allocate(p, op) ==
    LET q == new_store(p, op, storeKind(p, op))
        store == LastStore(q)
        r == IF OutSyn(q, op) = 0 THEN q ELSE mk_stub(q, OutSyn(q, op), store)
        s == IF p.ops[op].kind \in {"istream", "dstream", "except"} THEN PrivateStore(r, op) ELSE r
        t == [s EXCEPT !.ops[op].store = store]
    IN  FoldLeft(LAMBDA u, out : setSharedStore(u, out, getInputIndex(u, op, out), store),
                 t, Sharers(p, op))

(***************************************************************************)
(* A select allocates nothing.  The readers that keep what it puts out get *)
(* a project in between, which copies the tuples into a store of its own.  *)
(***************************************************************************)
mk_dummy_project(p, child) ==
    new_op(p, [Over(p, "project", child) EXCEPT
                  !.projs = [c \in 1..numAttrs(p.ops[child]) |-> Attr(1, c)]])

ReadsFrom(p, out, old, new) ==
    addOutput([p EXCEPT !.ops[out].inputs[getInputIndex(p, old, out)] = new], new, out)

add_store_select_None(p, op) == p

add_store_select(p, op) ==
    LET sharers == Sharers(p, op)
        project == NewOp(p)
        q == FoldLeft(LAMBDA r, out : ReadsFrom(r, out, op, project), mk_dummy_project(p, op), sharers)
        s == Allocate(add_syn_op(q, project), project)
    IN  IF sharers = <<>> THEN p
        ELSE [s EXCEPT !.ops[op].outputs = SelectSeq(@, LAMBDA out : ~Contains(sharers, out))]

add_store_op(p, op) ==
    CASE p.ops[op].kind = "select" -> add_store_select(p, op)
      [] p.ops[op].kind \in Storeless -> p
      [] p.ops[op].kind = "ss_gen" /\ p.ops[op].outputs = <<>> -> p
      [] OTHER -> Allocate(p, op)

add_store(p) == ForUsedOps(p, add_store_op)

-----------------------------------------------------------------------------
(***************************************************************************)
(* Queues: a simple one to an only reader, or a writer and its readers.    *)
(***************************************************************************)
new_queue(p, kind, source, dest, index) ==
    [p EXCEPT !.queues = Append(@, [kind |-> kind, source |-> source, dest |-> dest,
                                    index |-> index, store |-> 0])]

(* the queue, and its place among the inputs of the operator that reads it *)
Attach(p, kind, op, out) ==
    LET index == getInputIndex(p, op, out)
        q == new_queue(p, kind, op, out, index)
    IN  [q EXCEPT !.ops[out].inQueues =
            [i \in DOMAIN p.ops[out].inputs |->
                IF i = index THEN Len(q.queues) ELSE IF i \in DOMAIN @ THEN @[i] ELSE 0]]

AsOutQueue(p, op, queue) == [p EXCEPT !.ops[op].outQueue = queue]

add_queues_op(p, op) ==
    LET outs == p.ops[op].outputs
        first == Len(p.queues) + 1
    IN  CASE Len(outs) = 0 -> p
          [] Len(outs) = 1 -> AsOutQueue(Attach(p, "SIMPLE_Q", op, outs[1]), op, first)
          [] OTHER ->
                FoldLeft(LAMBDA q, out : Attach(q, "READER_Q", op, out),
                         AsOutQueue(new_queue(p, "WRITER_Q", op, 0, 0), op, first), outs)

add_queues(p) == ForUsedOps(p, add_queues_op)

(***************************************************************************)
(* The store that allocates what an operator reads from each input: that   *)
(* of the operator read, or of the one it gets its tuples from.  A writer  *)
(* learns of it from its readers.                                          *)
(***************************************************************************)
InStore(p, op, i) ==
    LET child == p.ops[op].inputs[i]
    IN  IF p.ops[child].store # 0 THEN p.ops[child].store ELSE p.ops[child].inStores[1]

ToWriter_Never(p, op, i) == p

ToWriter(p, op, i) ==
    LET child == p.ops[op].inputs[i]
    IN  IF p.queues[p.ops[op].inQueues[i]].kind = "READER_Q"
        THEN [p EXCEPT !.queues[p.ops[child].outQueue].store = p.ops[op].inStores[i]]
        ELSE p

RECURSIVE set_in_stores_s(_, _)
set_in_stores_s(p, op) ==
    LET Needs(q, i) == LET child == q.ops[op].inputs[i]
                       IN  q.ops[child].store = 0 /\ q.ops[child].inStores = <<>>
        Set(q, i) ==
            LET below == IF Needs(q, i) THEN set_in_stores_s(q, q.ops[op].inputs[i]) ELSE q
            IN  ToWriter([below EXCEPT !.ops[op].inStores = Append(@, InStore(below, op, i))], op, i)
    IN  IF p.ops[op].inStores # <<>> THEN p
        ELSE FoldLeft(Set, p, [i \in DOMAIN p.ops[op].inputs |-> i])

set_in_stores(p) == ForUsedOps(p, set_in_stores_s)

=============================================================================
