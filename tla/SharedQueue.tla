---------------------------- MODULE SharedQueue ----------------------------
(***************************************************************************)
(* The queue between one operator and the several operators that read its  *)
(* output: dsms/src/execution/queues/shared_queue_writer.cc, called by the *)
(* readers through shared_queue_reader.cc.                                 *)
(*                                                                         *)
(* The elements live in numPages pages of numElementsPerPage slots, linked *)
(* in a ring.  The address of a slot is its rank in that ring.  The writer *)
(* has one position, each reader has its own, and the distance between     *)
(* them is only known through the counters totalEnqueued and               *)
(* totalDequeued, which the slowest reader rebases each time it reads.     *)
(*                                                                         *)
(* The tuples of the elements belong to a store that counts references     *)
(* (stores/store_alloc.h): the writer hands one reference over with the    *)
(* element and enqueue() adds one for each other reader.  refs is that     *)
(* count; inHand and held are the references the operators on both sides   *)
(* of the queue own.                                                       *)
(***************************************************************************)
EXTENDS Integers, Sequences, FiniteSets, FiniteSetsExt, TLC

CONSTANTS numReaders,          \* readers, named 0 .. numReaders - 1
          numPages,            \* pages of the ring
          numElementsPerPage,  \* slots of a page
          Tuple,               \* the tuples the store can allocate
          Heartbeat            \* an element that carries no tuple

ASSUME SizesAssumption ==
    /\ numReaders \in Nat \ {0}
    /\ numPages \in Nat \ {0}
    /\ numElementsPerPage \in Nat \ {0}

ASSUME HeartbeatAssumption == Heartbeat \notin Tuple

VARIABLES slots,          \* address -> the element last written there
          nextEnqueue,    \* where the next element is written
          nextDequeue,    \* reader -> where it reads next
          totalEnqueued,  \* elements enqueued since the counters' base
          totalDequeued,  \* reader -> elements read since the same base
          slowestReader,  \* the reader that lags most
          refs,           \* tuple -> references the store counts
          inHand,         \* tuples the writing operator has yet to enqueue
          held            \* reader -> tuples it read and did not release

ring  == <<slots, nextEnqueue, nextDequeue>>
count == <<totalEnqueued, totalDequeued, slowestReader>>
owned == <<refs, inHand, held>>
vars  == <<ring, count, owned>>

Reader      == 0 .. numReaders - 1
Element     == Tuple \cup {Heartbeat}
maxElements == numElementsPerPage * numPages
Address     == 0 .. maxElements - 1

(***************************************************************************)
(* A position: the address of a slot and its rank within the page.         *)
(***************************************************************************)
EPtr == [element : Address, posInPage : 0 .. numElementsPerPage - 1]

NextPage(a) == ((a \div numElementsPerPage + 1) % numPages) * numElementsPerPage

(* Deviations of INCR: a page that ends one slot late, and a page whose      *)
(* last slot leads back to its own first one.                               *)
INCR_LateEnd(p) ==
    IF p.posInPage = numElementsPerPage
    THEN [element |-> NextPage(p.element), posInPage |-> 0]
    ELSE [element |-> p.element + 1, posInPage |-> p.posInPage + 1]

INCR_SamePage(p) ==
    IF p.posInPage = numElementsPerPage - 1
    THEN [element |-> p.element - p.posInPage, posInPage |-> 0]
    ELSE [element |-> p.element + 1, posInPage |-> p.posInPage + 1]

INCR(p) ==
    IF p.posInPage = numElementsPerPage - 1
    THEN [element |-> NextPage(p.element), posInPage |-> 0]
    ELSE [element |-> p.element + 1, posInPage |-> p.posInPage + 1]

-----------------------------------------------------------------------------

Init ==
    /\ slots = [a \in Address |-> Heartbeat]
    /\ nextEnqueue = [element |-> 0, posInPage |-> 0]
    /\ nextDequeue = [r \in Reader |-> nextEnqueue]
    /\ totalEnqueued = 0
    /\ totalDequeued = [r \in Reader |-> 0]
    /\ slowestReader = 0
    /\ refs = [t \in Tuple |-> 0]
    /\ inHand = {}
    /\ held = [r \in Reader |-> {}]

isFull     == totalEnqueued - totalDequeued[slowestReader] = maxElements
isEmpty(r) == totalEnqueued = totalDequeued[r]

(***************************************************************************)
(* The writing operator gets a tuple from the store, with one reference.   *)
(***************************************************************************)
newTuple(t) ==
    /\ refs[t] = 0
    /\ refs' = [refs EXCEPT ![t] = 1]
    /\ inHand' = inHand \cup {t}
    /\ UNCHANGED <<ring, count, held>>

(***************************************************************************)
(* enqueue(): refused when the slowest reader is a whole ring behind.      *)
(* Only an element with a tuple has references to add.                     *)
(***************************************************************************)
addRef_EachReader(e) ==      \* deviation: forgets the writer's own reference
    IF e = Heartbeat THEN refs
    ELSE [refs EXCEPT ![e] = @ + numReaders]

addRef(e) ==
    IF e = Heartbeat THEN refs
    ELSE [refs EXCEPT ![e] = @ + (numReaders - 1)]

enqueue(e) ==
    /\ e \in inHand \cup {Heartbeat}
    /\ ~isFull
    /\ slots' = [slots EXCEPT ![nextEnqueue.element] = e]
    /\ nextEnqueue' = INCR(nextEnqueue)
    /\ totalEnqueued' = totalEnqueued + 1
    /\ refs' = addRef(e)
    /\ inHand' = inHand \ {e}
    /\ UNCHANGED <<nextDequeue, totalDequeued, slowestReader, held>>

(***************************************************************************)
(* dequeue(): the slowest reader subtracts its own count from every        *)
(* counter; a reader level with it, the last one met by the loop, takes    *)
(* over as the slowest.                                                    *)
(***************************************************************************)
Level_Ignored(r) == {}       \* deviation: the reader stays the slowest

Level(r) == {s \in Reader \ {r} : totalDequeued[s] = totalDequeued[r]}

Rebase_WriterForgotten(r) == \* deviation: the writer's count is not rebased
    /\ totalDequeued' = [s \in Reader |->
                           IF s = r THEN 1 ELSE totalDequeued[s] - totalDequeued[r]]
    /\ slowestReader' = IF Level(r) = {} THEN r ELSE Max(Level(r))
    /\ UNCHANGED totalEnqueued

Rebase(r) ==
    /\ totalEnqueued' = totalEnqueued - totalDequeued[r]
    /\ totalDequeued' = [s \in Reader |->
                           IF s = r THEN 1 ELSE totalDequeued[s] - totalDequeued[r]]
    /\ slowestReader' = IF Level(r) = {} THEN r ELSE Max(Level(r))

Advance(r) ==
    /\ totalDequeued' = [totalDequeued EXCEPT ![r] = @ + 1]
    /\ UNCHANGED <<totalEnqueued, slowestReader>>

dequeue(r) ==
    /\ ~isEmpty(r)
    /\ nextDequeue' = [nextDequeue EXCEPT ![r] = INCR(@)]
    /\ IF r = slowestReader THEN Rebase(r) ELSE Advance(r)
    /\ held' = [held EXCEPT ![r] = @ \cup ({slots[nextDequeue[r].element]} \ {Heartbeat})]
    /\ UNCHANGED <<slots, nextEnqueue, refs, inHand>>

(***************************************************************************)
(* A reading operator is done with a tuple.  At zero the store may hand    *)
(* the tuple out again.                                                    *)
(***************************************************************************)
decrRef(r, t) ==
    /\ t \in held[r]
    /\ held' = [held EXCEPT ![r] = @ \ {t}]
    /\ refs' = [refs EXCEPT ![t] = @ - 1]
    /\ UNCHANGED <<ring, count, inHand>>

Next ==
    \/ \E t \in Tuple : newTuple(t)
    \/ \E e \in Element : enqueue(e)
    \/ \E r \in Reader : dequeue(r)
    \/ \E r \in Reader, t \in Tuple : decrRef(r, t)

Spec == Init /\ [][Next]_vars

-----------------------------------------------------------------------------
(***************************************************************************)
(* Refinement: what reader r has still to read is the stretch of the ring  *)
(* from its own position, as long as its counter lags behind.              *)
(***************************************************************************)
Lag(r) == totalEnqueued - totalDequeued[r]

Unread(r) ==
    [i \in 1 .. Lag(r) |->
        slots[(nextDequeue[r].element + (i - 1)) % maxElements]]

Abstract ==
    INSTANCE BroadcastQueue
        WITH Capacity <- maxElements, pending <- [r \in Reader |-> Unread(r)]

(***************************************************************************)
(* The ring implements the broadcast queue: no element is lost, repeated,  *)
(* reordered or overwritten for any reader, across page boundaries, ring   *)
(* wrap-around and every rebasing of the counters.                         *)
(***************************************************************************)
ImplementsBroadcast == Abstract!Spec

(***************************************************************************)
(* Type invariant.                                                         *)
(***************************************************************************)
TypeOK ==
    /\ slots \in [Address -> Element]
    /\ nextEnqueue \in EPtr
    /\ nextDequeue \in [Reader -> EPtr]
    /\ totalEnqueued \in Nat
    /\ totalDequeued \in [Reader -> Nat]
    /\ slowestReader \in Reader
    /\ refs \in [Tuple -> Int]
    /\ inHand \subseteq Tuple
    /\ held \in [Reader -> SUBSET Tuple]

(***************************************************************************)
(* slowestReader, which alone decides whether enqueue() may overwrite a    *)
(* slot, is never ahead of any reader, whatever order the readers read in  *)
(* and however their ties are broken.  dequeue() asserts it in its loop.   *)
(***************************************************************************)
SlowestLagsMost ==
    \A r \in Reader :
        /\ totalDequeued[slowestReader] <= totalDequeued[r]
        /\ totalDequeued[r] <= totalEnqueued

(***************************************************************************)
(* The unsigned counters of a queue that runs for ever stay within one     *)
(* element of the queue's size, so they never wrap: the slowest reader's   *)
(* rebasing brings them back each time.                                    *)
(***************************************************************************)
CountersBounded ==
    /\ totalDequeued[slowestReader] <= 1
    /\ totalEnqueued - totalDequeued[slowestReader] <= maxElements
    /\ totalEnqueued <= maxElements + 1

(***************************************************************************)
(* A tuple has exactly one counted reference for each reader that has yet  *)
(* to read it or to release it, and for the writer that has yet to enqueue *)
(* it: it can neither be reused while a reader may still see it nor leak.  *)
(***************************************************************************)
Awaits(r, t) == \E i \in 1 .. Lag(r) : Unread(r)[i] = t

RefsCounted ==
    \A t \in Tuple :
        refs[t] = Cardinality({r \in Reader : Awaits(r, t) \/ t \in held[r]})
                  + (IF t \in inHand THEN 1 ELSE 0)

-----------------------------------------------------------------------------
(* For the model checker: the tuples are interchangeable. *)
TupleSymmetry == Permutations(Tuple)

=============================================================================
