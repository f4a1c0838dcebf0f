---------------------------- MODULE SetOperators ----------------------------
(***************************************************************************)
(* UNION, EXCEPT and DISTINCT.                                             *)
(***************************************************************************)
EXTENDS Merge

-----------------------------------------------------------------------------
(***************************************************************************)
(* The merge of two inputs by timestamp: execution/operators/union.cc.     *)
(*                                                                         *)
(* When the output is a relation (Plan[o].relation) the operator keeps the *)
(* lineage synopsis outSyn, to find the tuple it made for an input tuple   *)
(* when that one is deleted.  It is a sequence with the newest entry       *)
(* first, which is the order in which the hash index of the lineage store  *)
(* (indexes/hash_index.cc, stores/lin_store_impl.cc) scans a bucket.       *)
(***************************************************************************)
UnionInit == [lastTs |-> Zero, minTs |-> Zero, lastOutputTs |-> 0, outSyn |-> <<>>]

UnionKeeps(o) == [i \in DOMAIN op[o].outSyn |-> op[o].outSyn[i].out]

UnionBegin(o) == MergeBegin(o)

UnionStuck(o) == isFull(flow, Plan[o].out) \/ NothingReady(o)

-----------------------------------------------------------------------------
(***************************************************************************)
(* handleLeftPlus(), handleRightPlus(): a new output tuple, remembered     *)
(* with its own reference when the output is a relation.                   *)
(***************************************************************************)
OutTuple(o, side, t) == <<o, side>> \o t

HandlePlus(o, side, e, f) ==
    LET t == OutTuple(o, side, e.tuple)
        g == enqueue(newTuple(f, t), Plan[o].out, Element(PLUS, t, e.timestamp))
    IN  IF Plan[o].relation
        THEN [flow   |-> addRef(g, t, 1),
              outSyn |-> <<[out |-> t, lineage |-> e.tuple]>> \o op[o].outSyn]
        ELSE [flow |-> g, outSyn |-> op[o].outSyn]

(***************************************************************************)
(* handleLeftMinus(), handleRightMinus(): the synopsis' reference goes     *)
(* with the deletion.                                                      *)
(***************************************************************************)
WithLineage(o, t) == SelectSeq(op[o].outSyn, LAMBDA s : s.lineage = t)

HandleMinus_Kept(o, e, f) ==            \* deviation: stays in the synopsis
    [flow   |-> enqueue(f, Plan[o].out,
                    Element(MINUS, Head(WithLineage(o, e.tuple)).out, e.timestamp)),
     outSyn |-> op[o].outSyn]

HandleMinus(o, e, f) ==
    LET s == Head(WithLineage(o, e.tuple))
    IN  [flow   |-> enqueue(f, Plan[o].out, Element(MINUS, s.out, e.timestamp)),
         outSyn |-> SelectSeq(op[o].outSyn, LAMBDA x : x # s)]

Handle(o, side, e, f) ==
    CASE e.kind = PLUS      -> HandlePlus(o, side, e, f)
      [] e.kind = MINUS     -> HandleMinus(o, e, f)
      [] e.kind = HEARTBEAT -> [flow |-> f, outSyn |-> op[o].outSyn]

NoSuchTuple(o, e) == e.kind = MINUS /\ WithLineage(o, e.tuple) = <<>>

UnionIterate(o) ==
    LET side == Chosen(o)
        e    == peek(flow, Input(o, side))
        h    == Handle(o, side, e, dequeue(flow, Input(o, side)))
    IN  /\ MayIterate(o)
        /\ ~UnionStuck(o)
        /\ IF NoSuchTuple(o, e)
           THEN ReturnError /\ UNCHANGED <<flow, op>>
           ELSE /\ Loop
                /\ flow' = Release(h.flow, e)
                /\ op' = [op EXCEPT ![o] = [Noted(o, side, e) EXCEPT !.outSyn = h.outSyn]]

UnionEnd(o) == MayEnd(o, UnionStuck(o)) /\ MergeReturn(o)

-----------------------------------------------------------------------------
(***************************************************************************)
(* The difference of two relations, duplicates counted: execution/         *)
(* operators/except.cc.  count has the tuples of the count synopsis: how   *)
(* many more tuples of some contents the left input has than the right     *)
(* one.  outSyn are the output tuples, newest first; equal ones are told   *)
(* apart by a number, for the one inserted last is deleted first.          *)
(***************************************************************************)
ExceptInit ==
    [lastTs |-> Zero, minTs |-> Zero, lastOutputTs |-> 0,
     count |-> [v \in {} |-> 0], outSyn |-> <<>>]

CountTuple(o, v)   == <<o, "count", v>>
ExceptTuple(o, v, n) == <<o, v, n>>

ExceptKeeps(o) ==
    op[o].outSyn \o SetToSeq({CountTuple(o, v) : v \in DOMAIN op[o].count})

ExceptBegin(o) == MergeBegin(o)

ExceptStuck(o) == isFull(flow, Plan[o].out) \/ NothingReady(o)

-----------------------------------------------------------------------------
Counted(s, v) == IF v \in DOMAIN s.count THEN s.count[v] ELSE 0
Equals(o, s, v) == SelectSeq(s.outSyn, LAMBDA t : \E n \in 1 .. Len(s.outSyn) :
                                          t = ExceptTuple(o, v, n))

(***************************************************************************)
(* getCountTuple_l(), getCountTuple_r() and the removal of a count of 0,   *)
(* in one: the count tuple exists while its count is not 0.                *)
(***************************************************************************)
SetCount(o, s, f, v, n) ==
    LET exists == v \in DOMAIN s.count
    IN  CASE n # 0 /\ exists  -> [flow |-> f, op |-> [s EXCEPT !.count[v] = n]]
          [] n # 0 /\ ~exists -> [flow |-> newTuple(f, CountTuple(o, v)),
                                  op   |-> [s EXCEPT !.count = [u \in DOMAIN @ \cup {v} |->
                                                                  IF u = v THEN n ELSE @[u]]]]
          [] n = 0            -> [flow |-> decrRef(f, CountTuple(o, v)),
                                  op   |-> [s EXCEPT !.count = [u \in DOMAIN @ \ {v} |-> @[u]]]]

(***************************************************************************)
(* handleLeftPlus() and handleRightMinus(): one more on the left.          *)
(***************************************************************************)
More(o, s, f, v, ts) ==
    LET n == Counted(s, v) + 1
        x == SetCount(o, s, f, v, n)
        t == ExceptTuple(o, v, Len(Equals(o, s, v)) + 1)
    IN  IF n > 0
        THEN [flow |-> addRef(enqueue(newTuple(x.flow, t), Plan[o].out, Element(PLUS, t, ts)),
                              t, 1),
              op   |-> [x.op EXCEPT !.outSyn = <<t>> \o @, !.lastOutputTs = ts]]
        ELSE x

(***************************************************************************)
(* handleLeftMinus() and handleRightPlus(): one less.                      *)
(***************************************************************************)
Less(o, s, f, v, ts) ==
    LET n == Counted(s, v) - 1
        x == SetCount(o, s, f, v, n)
        t == Head(Equals(o, s, v))
    IN  IF n >= 0
        THEN [flow |-> enqueue(x.flow, Plan[o].out, Element(MINUS, t, ts)),
              op   |-> [x.op EXCEPT !.outSyn = SelectSeq(@, LAMBDA u : u # t),
                                    !.lastOutputTs = ts]]
        ELSE x

ExceptHandle(o, side, e, f) ==
    LET s == Noted(o, side, e)
        v == Plan[o].value[e.tuple]
    IN  CASE e.kind = HEARTBEAT -> [flow |-> f, op |-> s]
          [] <<side, e.kind>> \in {<<"left", PLUS>>, <<"right", MINUS>>} ->
                More(o, s, f, v, e.timestamp)
          [] <<side, e.kind>> \in {<<"left", MINUS>>, <<"right", PLUS>>} ->
                Less(o, s, f, v, e.timestamp)

ExceptIterate(o) ==
    LET side == Chosen(o)
        e    == peek(flow, Input(o, side))
        x    == ExceptHandle(o, side, e, dequeue(flow, Input(o, side)))
    IN  /\ MayIterate(o)
        /\ ~ExceptStuck(o)
        /\ flow' = Release(x.flow, e)
        /\ op' = [op EXCEPT ![o] = x.op]
        /\ Loop

ExceptEnd(o) == MayEnd(o, ExceptStuck(o)) /\ MergeReturn(o)

-----------------------------------------------------------------------------
(***************************************************************************)
(* Duplicate elimination: execution/operators/distinct.cc.  count has, for *)
(* each contents that is in the output, how many tuples of the input have  *)
(* it; the output has one tuple for it, in outputSynopsis.  Plan[o].value  *)
(* are the contents of the input tuples.                                   *)
(***************************************************************************)
DistinctInit ==
    [lastInputTs |-> 0, lastOutputTs |-> 0, count |-> [v \in {} |-> 0]]

DistinctTuple(o, v) == <<o, v>>

DistinctKeeps(o) == SetToSeq({DistinctTuple(o, v) : v \in DOMAIN op[o].count})

DistinctBegin(o) == Begin(o) /\ UNCHANGED <<flow, op>>

DistinctStuck(o) == isFull(flow, Plan[o].out) \/ isEmpty(flow, Plan[o].in)

Without(g, v) == [u \in DOMAIN g \ {v} |-> g[u]]
With(g, v, n) == [u \in DOMAIN g \cup {v} |-> IF u = v THEN n ELSE g[u]]

(***************************************************************************)
(* processPlus(): the first tuple of some contents goes out.               *)
(***************************************************************************)
DistinctPlus(o, e, f) ==
    LET v == Plan[o].value[e.tuple]
        t == DistinctTuple(o, v)
        s == [op[o] EXCEPT !.lastInputTs = e.timestamp]
    IN  IF v \in DOMAIN s.count
        THEN [flow |-> f, op |-> [s EXCEPT !.count[v] = @ + 1]]
        ELSE [flow |-> enqueue(addRef(newTuple(f, t), t, 1),
                               Plan[o].out, Element(PLUS, t, e.timestamp)),
              op   |-> [s EXCEPT !.count = With(@, v, 1)]]

(***************************************************************************)
(* processMinus(): with the last one the output tuple is deleted, the      *)
(* synopsis' reference with it.                                            *)
(***************************************************************************)
DistinctMinus(o, e, f) ==
    LET v == Plan[o].value[e.tuple]
        t == DistinctTuple(o, v)
        s == [op[o] EXCEPT !.lastInputTs = e.timestamp]
    IN  IF s.count[v] = 1
        THEN [flow |-> enqueue(f, Plan[o].out, Element(MINUS, t, e.timestamp)),
              op   |-> [s EXCEPT !.count = Without(@, v),
                                 !.lastOutputTs = e.timestamp]]
        ELSE [flow |-> f, op |-> [s EXCEPT !.count[v] = @ - 1]]

DistinctIterate(o) ==
    LET e == peek(flow, Plan[o].in)
        f == dequeue(flow, Plan[o].in)
        x == CASE e.kind = PLUS  -> DistinctPlus(o, e, f)
               [] e.kind = MINUS -> DistinctMinus(o, e, f)
               [] e.kind = HEARTBEAT ->
                    [flow |-> f, op |-> [op[o] EXCEPT !.lastInputTs = e.timestamp]]
    IN  /\ MayIterate(o)
        /\ ~DistinctStuck(o)
        /\ flow' = IF IsData(e) THEN decrRef(x.flow, e.tuple) ELSE x.flow
        /\ op' = [op EXCEPT ![o] = x.op]
        /\ Loop

DistinctEnd(o) ==
    /\ MayEnd(o, DistinctStuck(o))
    /\ Return
    /\ IF HeartbeatDue(o, op[o].lastInputTs)
       THEN /\ flow' = enqueue(flow, Plan[o].out, Heartbeat(op[o].lastInputTs))
            /\ op' = [op EXCEPT ![o].lastOutputTs = op[o].lastInputTs]
       ELSE UNCHANGED <<flow, op>>

=============================================================================
