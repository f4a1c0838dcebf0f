----------------------------- MODULE Dataflow -----------------------------
(***************************************************************************)
(* What the operators of a query plan share: the queues between them       *)
(* (execution/queues/queue.h), the elements that travel there              *)
(* (queues/element.h), the reference counts of the tuples the elements     *)
(* carry (stores/store_alloc.h), and the scheduler's rule that one         *)
(* operator runs at a time, for at most a time slice.                      *)
(*                                                                         *)
(* A queue keeps, for each of its readers, what the reader has still to    *)
(* dequeue; that is what SharedQueue implements.  Plan wires the operators *)
(* the way metadata/plan_inst.cc does: each operator names its output      *)
(* queue and, for each input, a queue and a reader of it.                  *)
(*                                                                         *)
(* flow is a record so that an operator's step can be written as the calls *)
(* it makes, one after the other:                                          *)
(*   queue    queue -> reader -> elements not yet dequeued                 *)
(*   refs     tuple -> references its store counts                         *)
(*   history  queue -> the data elements ever enqueued (no heartbeats)     *)
(*   promise  queue -> timestamp of the last element enqueued              *)
(* history and promise exist for the properties only.                      *)
(***************************************************************************)
EXTENDS Integers, Sequences, FiniteSets, SequencesExt

CONSTANTS Plan,         \* operator -> its kind, queues and parameters
          Queries,      \* the sets of operators that may be registered together
          MaxElements,  \* capacity of a queue
          TimeSlice,    \* iterations the scheduler grants a run
          Idle,         \* no operator is running
          Failed        \* a run() returned an error, which ends the scheduler

ASSUME SizesAssumption == MaxElements \in Nat \ {0} /\ TimeSlice \in Nat \ {0}

VARIABLES flow,
          op,           \* operator -> its member variables
          query,        \* the operators that are registered
          running,      \* the operator whose run() is active, or Idle
          slice,        \* iterations left to it
          turn          \* the operator the scheduler called last

vars == <<flow, op, query, running, slice, turn>>

Op      == DOMAIN Plan
Outs(ops) == {Plan[o].out : o \in {p \in ops : "out" \in DOMAIN Plan[p]}}
Inputs(o) == {Plan[o][f] : f \in DOMAIN Plan[o] \cap {"in", "left", "right"}}
Readers == [q \in Outs(Op) |-> {i[2] : i \in {j \in UNION {Inputs(o) : o \in Op} : j[1] = q}}]
Reader(q) == Readers[q]

(***************************************************************************)
(* Elements.  A tuple is a sequence of names: a source's tuple is <<n>>, a *)
(* derived one starts with the name of the operator that made it.          *)
(***************************************************************************)
PLUS      == "+"
MINUS     == "-"
HEARTBEAT == "h"

Element(k, t, ts) == [kind |-> k, tuple |-> t, timestamp |-> ts]
Heartbeat(ts)     == Element(HEARTBEAT, <<>>, ts)
IsData(e)         == e.kind # HEARTBEAT

(***************************************************************************)
(* The elements of a sequence at some of its positions, in their order;    *)
(* and those that are not x.                                               *)
(***************************************************************************)
At(s, positions) ==
    [k \in 1 .. Cardinality(positions) |->
        s[CHOOSE i \in positions : Cardinality({j \in positions : j <= i}) = k]]

AllBut(s, x) == At(s, {i \in DOMAIN s : s[i] # x})

-----------------------------------------------------------------------------
(***************************************************************************)
(* Calls on queues and stores, as functions from flow to flow.             *)
(***************************************************************************)
Pending(f, i)  == f.queue[i[1]][i[2]]
isEmpty(f, i)  == Pending(f, i) = <<>>
isFull(f, q)   == \E r \in DOMAIN f.queue[q] : Len(f.queue[q][r]) = MaxElements
peek(f, i)     == Head(Pending(f, i))

dequeue(f, i) == [f EXCEPT !.queue[i[1]][i[2]] = Tail(@)]

addRef(f, t, n) == [f EXCEPT !.refs[t] = @ + n]
decrRef(f, t)   == [f EXCEPT !.refs[t] = @ - 1]

(* A second tuple made of the same origin counts under the same name.      *)
Times(ts, t) == Cardinality({i \in DOMAIN ts : ts[i] = t})

newTuples(f, ts) ==
    [f EXCEPT !.refs = [t \in DOMAIN @ \cup ToSet(ts) |->
                            (IF t \in DOMAIN @ THEN @[t] ELSE 0) + Times(ts, t)]]

newTuple(f, t) == newTuples(f, <<t>>)

addRefs(f, ts, n) == [f EXCEPT !.refs = [t \in DOMAIN @ |-> @[t] + n * Times(ts, t)]]

(***************************************************************************)
(* The caller of enqueue() has checked isFull().  A queue with several     *)
(* readers adds a reference for each reader but one.                       *)
(***************************************************************************)
enqueue(f, q, e) ==
    [f EXCEPT
        !.queue[q] = [r \in DOMAIN @ |-> Append(@[r], e)],
        !.refs = IF IsData(e) THEN [@ EXCEPT ![e.tuple] = @ + Cardinality(Reader(q)) - 1] ELSE @,
        !.history[q] = IF IsData(e) THEN Append(@, e) ELSE @,
        !.promise[q] = e.timestamp]

(* Data elements, one after the other.                                     *)
enqueueAll(f, q, es) ==
    [addRefs(f, [i \in DOMAIN es |-> es[i].tuple], Cardinality(Reader(q)) - 1) EXCEPT
        !.queue[q] = [r \in DOMAIN @ |-> @[r] \o es],
        !.history[q] = @ \o es,
        !.promise[q] = IF es = <<>> THEN @ ELSE Last(es).timestamp]

(* New tuples ts go out as insertions, all with timestamp time.            *)
insertAll(f, q, ts, time) ==
    enqueueAll(newTuples(f, ts), q, [i \in DOMAIN ts |-> Element(PLUS, ts[i], time)])

Space(f, q) == MaxElements - Max({Len(f.queue[q][r]) : r \in DOMAIN f.queue[q]})

InitFlow(ops) ==
    [queue   |-> [q \in Outs(ops) |-> [r \in Reader(q) |-> <<>>]],
     refs    |-> [t \in {} |-> 0],
     history |-> [q \in Outs(ops) |-> <<>>],
     promise |-> [q \in Outs(ops) |-> 0]]

Queue == DOMAIN flow.queue

-----------------------------------------------------------------------------
(***************************************************************************)
(* run(timeSlice): Begin, then the iterations of the loop, then either the *)
(* code after the loop (End) or a return from inside it.                   *)
(***************************************************************************)
Kind   == {"source", "relsource", "select", "project", "union", "range", "row",
           "partn", "join", "streamjoin", "distinct", "except", "group", "istream",
           "dstream", "rstream", "output", "sink"}
Kinds  == [k \in Kind |-> {o \in Op : Plan[o].kind = k}]
Are(k) == Kinds[k]

Begin(o)      == running = Idle /\ running' = o /\ slice' = TimeSlice
MayIterate(o) == running = o /\ slice > 0
MayEnd(o, stuck) == running = o /\ (slice = 0 \/ stuck)

Loop       == slice' = slice - 1 /\ UNCHANGED running
Return     == slice' = 0 /\ running' = Idle
ReturnError == slice' = 0 /\ running' = Failed

(***************************************************************************)
(* What the calls of a step came to: x has flow and the operator's member  *)
(* variables.  A run() that stalls returns; the next one first tries to    *)
(* clear the stall, and returns if it cannot.                              *)
(***************************************************************************)
Became(o, x) == flow' = x.flow /\ op' = [op EXCEPT ![o] = x.op]

LoopUnlessStalled(o, x)  == Became(o, x) /\ IF x.op.bStalled THEN Return ELSE Loop
BeginUnlessStalled(o, x) ==
    /\ running = Idle
    /\ Became(o, x)
    /\ IF x.op.bStalled THEN Return ELSE Begin(o)

(***************************************************************************)
(* The heartbeat most operators send at the end of a run: the output will  *)
(* carry no element older than ts.                                         *)
(***************************************************************************)
HeartbeatDue(o, ts) == ~isFull(flow, Plan[o].out) /\ op[o].lastOutputTs < ts

=============================================================================
