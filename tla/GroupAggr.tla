----------------------------- MODULE GroupAggr -----------------------------
(***************************************************************************)
(* Grouping and aggregation: execution/operators/group_aggr.cc; and the    *)
(* window per partition, operators/partn_win.cc, which stalls the same     *)
(* way: the second element of a pair waits in stalledElement.              *)
(*                                                                         *)
(* An aggregate stands for the set of tuples it was computed from, so that *)
(* two ways to compute it agree when the sets do.  Plan[o].value gives the *)
(* group of a tuple.  With Plan[o].inputSynopsis the operator keeps its    *)
(* input, for the aggregates (MIN, MAX) that the deletion of one of        *)
(* Plan[o].extremal makes it compute anew.                                 *)
(***************************************************************************)
EXTENDS Dataflow

GroupAggrInit ==
    [lastInputTs |-> 0, lastOutputTs |-> 0, inputSynopsis |-> {},
     outputSynopsis |-> [g \in {} |-> {}], bStalled |-> FALSE,
     stalledElement |-> Heartbeat(0)]

Aggregate(o, g, members) == <<o, g, members>>
StalledTuple(s) == IF s.bStalled THEN <<s.stalledElement.tuple>> ELSE <<>>

GroupAggrKeeps(o) ==
    LET s == op[o]
    IN  SetToSeq(s.inputSynopsis)
        \o SetToSeq({Aggregate(o, g, s.outputSynopsis[g]) : g \in DOMAIN s.outputSynopsis})
        \o StalledTuple(s)

(***************************************************************************)
(* A run first sends the element that stalled; it has nothing else to do   *)
(* while it cannot.                                                        *)
(***************************************************************************)
ResumePair(o) ==
    IF op[o].bStalled
    THEN /\ running = Idle
         /\ IF isFull(flow, Plan[o].out)
            THEN Return /\ UNCHANGED <<flow, op>>
            ELSE /\ Begin(o)
                 /\ flow' = enqueue(flow, Plan[o].out, op[o].stalledElement)
                 /\ op' = [op EXCEPT ![o].bStalled = FALSE,
                                     ![o].stalledElement = Heartbeat(0)]
    ELSE Begin(o) /\ UNCHANGED <<flow, op>>

SendPair_Unchecked(o, x, plus, minus) ==  \* deviation: no space for the second
    [flow |-> enqueueAll(x.flow, Plan[o].out, <<plus, minus>>), op |-> x.op]

SendMinus(o, f, s, minus) ==
    IF isFull(f, Plan[o].out)
    THEN [flow |-> f, op |-> [s EXCEPT !.bStalled = TRUE, !.stalledElement = minus]]
    ELSE [flow |-> enqueue(f, Plan[o].out, minus), op |-> s]

SendPair(o, x, plus, minus) ==
    SendMinus(o, enqueue(x.flow, Plan[o].out, plus), x.op, minus)

-----------------------------------------------------------------------------
(***************************************************************************)
(* The new aggregate tuple of group g goes out before the old one is       *)
(* deleted; the synopsis takes a reference to the new one and the deletion *)
(* takes the synopsis' reference to the old one.                           *)
(***************************************************************************)
Publish(f, t) == addRef(newTuple(f, t), t, 1)

ReplaceTuple(o, f, s, old, new, ts) ==
    SendPair(o, [flow |-> Publish(f, new), op |-> s], Element(PLUS, new, ts), Element(MINUS, old, ts))

Replace(o, x, g, members, ts) ==
    ReplaceTuple(o, x.flow,
        [x.op EXCEPT !.outputSynopsis[g] = members, !.lastOutputTs = ts],
        Aggregate(o, g, x.op.outputSynopsis[g]), Aggregate(o, g, members), ts)

SendNew(o, f, new, ts) == enqueue(Publish(f, new), Plan[o].out, Element(PLUS, new, ts))

Open(o, x, g, t, ts) ==
    [flow |-> SendNew(o, x.flow, Aggregate(o, g, {t}), ts),
     op   |-> [x.op EXCEPT
                 !.outputSynopsis = [h \in DOMAIN @ \cup {g} |-> IF h = g THEN {t} ELSE @[h]],
                 !.lastOutputTs = ts]]

Close(o, x, g, ts) ==
    [flow |-> enqueue(x.flow, Plan[o].out,
                      Element(MINUS, Aggregate(o, g, x.op.outputSynopsis[g]), ts)),
     op   |-> [x.op EXCEPT
                 !.outputSynopsis = [h \in DOMAIN @ \ {g} |-> @[h]],
                 !.lastOutputTs = ts]]

(* processPlus()                                                           *)
Keep(o, x, t) ==
    IF Plan[o].inputSynopsis
    THEN [flow |-> addRef(x.flow, t, 1), op |-> [x.op EXCEPT !.inputSynopsis = @ \cup {t}]]
    ELSE x

Enter(o, x, g, t, ts) ==
    IF g \in DOMAIN x.op.outputSynopsis
    THEN Replace(o, x, g, x.op.outputSynopsis[g] \cup {t}, ts)
    ELSE Open(o, x, g, t, ts)

AggrPlus(o, x, t, ts) == Keep(o, Enter(o, x, Plan[o].value[t], t, ts), t)

(* processMinus(), with produceOutputTupleForMinus()                       *)
Forget(o, x, t) ==
    IF Plan[o].inputSynopsis
    THEN [flow |-> decrRef(x.flow, t), op |-> [x.op EXCEPT !.inputSynopsis = @ \ {t}]]
    ELSE x

Remaining(o, s, g, t) ==
    IF Plan[o].inputSynopsis /\ t \in Plan[o].extremal
    THEN {u \in s.inputSynopsis : Plan[o].value[u] = g}
    ELSE s.outputSynopsis[g] \ {t}

Leave(o, x, g, t, ts) ==
    IF Cardinality(x.op.outputSynopsis[g]) = 1
    THEN Close(o, x, g, ts)
    ELSE Replace(o, x, g, Remaining(o, x.op, g, t), ts)

AggrMinus(o, x, t, ts) == Leave(o, Forget(o, x, t), Plan[o].value[t], t, ts)

GroupAggrBegin(o) == ResumePair(o)

GroupAggrStuck(o) == isFull(flow, Plan[o].out) \/ isEmpty(flow, Plan[o].in)

Taken(o, e) ==                          \* the element leaves the input queue
    [flow |-> dequeue(flow, Plan[o].in),
     op   |-> [op[o] EXCEPT !.lastInputTs = e.timestamp]]

Dropped(x, e) ==                        \* and the reference it brought is given up
    IF IsData(e) THEN [x EXCEPT !.flow = decrRef(@, e.tuple)] ELSE x

Aggregated(o, x, e) ==
    CASE e.kind = PLUS      -> AggrPlus(o, x, e.tuple, e.timestamp)
      [] e.kind = MINUS     -> AggrMinus(o, x, e.tuple, e.timestamp)
      [] e.kind = HEARTBEAT -> x

GroupAggrIterate(o) ==
    LET e == peek(flow, Plan[o].in)
    IN  /\ MayIterate(o)
        /\ ~GroupAggrStuck(o)
        /\ LoopUnlessStalled(o, Dropped(Aggregated(o, Taken(o, e), e), e))

PairEnd_Silent(o, stuck) ==             \* deviation: no heartbeat, as in dstream.cc
    /\ MayEnd(o, stuck)
    /\ Return
    /\ UNCHANGED <<flow, op>>

PairEnd(o, stuck) ==
    /\ MayEnd(o, stuck)
    /\ Return
    /\ IF HeartbeatDue(o, op[o].lastInputTs)
       THEN /\ flow' = enqueue(flow, Plan[o].out, Heartbeat(op[o].lastInputTs))
            /\ op' = [op EXCEPT ![o].lastOutputTs = op[o].lastInputTs]
       ELSE UNCHANGED <<flow, op>>

GroupAggrEnd(o) == PairEnd(o, GroupAggrStuck(o))

-----------------------------------------------------------------------------
(***************************************************************************)
(* The window of the last Plan[o].windowSize tuples of each partition.     *)
(* partn has the copies the operator made of its input, oldest first.      *)
(***************************************************************************)
PartnWindowInit ==
    [lastInputTs |-> 0, lastOutputTs |-> 0, partn |-> <<>>, bStalled |-> FALSE,
     stalledElement |-> Heartbeat(0)]

PartnWindowKeeps(o) == op[o].partn \o StalledTuple(op[o])

CopyOf(o, t) == <<o>> \o t
Partition(o, s, t) ==
    SelectSeq(s.partn, LAMBDA c : Plan[o].value[Tail(c)] = Plan[o].value[t])

PartnWindowBegin(o) == ResumePair(o)

PartnWindowStuck(o) == isFull(flow, Plan[o].out) \/ isEmpty(flow, Plan[o].in)

PartnIsFull(o, p) == Len(p) = Plan[o].windowSize + 1

PartnEvict(o, f, s, plus, oldest) ==
    SendPair(o, [flow |-> f, op |-> [s EXCEPT !.partn = SelectSeq(@, LAMBDA t : t # oldest)]],
             plus, Element(MINUS, oldest, plus.timestamp))

PartnInsert(o, f, s, plus, partition) ==
    IF PartnIsFull(o, partition)
    THEN PartnEvict(o, f, s, plus, Head(partition))
    ELSE [flow |-> enqueue(f, Plan[o].out, plus), op |-> s]

PartnWindowPlus(o, x, e, copy) ==
    LET s == [x.op EXCEPT !.partn = Append(@, copy), !.lastOutputTs = e.timestamp]
    IN  PartnInsert(o, Publish(x.flow, copy), s,
                    Element(PLUS, copy, e.timestamp), Partition(o, s, e.tuple))

PartnWindowReceive(o, x, e) ==
    IF IsData(e) THEN PartnWindowPlus(o, x, e, CopyOf(o, e.tuple)) ELSE x

PartnWindowIterate(o) ==
    LET e == peek(flow, Plan[o].in)
    IN  /\ MayIterate(o)
        /\ ~PartnWindowStuck(o)
        /\ Became(o, Dropped(PartnWindowReceive(o, Taken(o, e), e), e))
        /\ Loop

PartnWindowEnd(o) == PairEnd(o, PartnWindowStuck(o))

=============================================================================
