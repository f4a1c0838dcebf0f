--------------------------- MODULE BroadcastQueue ---------------------------
(***************************************************************************)
(* What a queue with one writer and several readers promises the operators *)
(* on both of its sides: every reader sees every element, once, in the     *)
(* order of the writer, and the writer is refused exactly when some reader *)
(* is Capacity elements behind.  pending[r] is what reader r has still to  *)
(* read.  This is the interface of execution/queues/queue.h read for       *)
(* several readers; SharedQueue is the code that implements it.            *)
(***************************************************************************)
EXTENDS Naturals, Sequences

CONSTANTS Reader,    \* the readers of the queue
          Element,   \* what can be enqueued
          Capacity   \* how far a reader may lag behind the writer

VARIABLE pending

HasSpace == \A r \in Reader : Len(pending[r]) < Capacity

Init == pending = [r \in Reader |-> <<>>]

Enqueue(e) ==
    /\ HasSpace
    /\ pending' = [r \in Reader |-> Append(pending[r], e)]

Dequeue(r) ==
    /\ pending[r] # <<>>
    /\ pending' = [pending EXCEPT ![r] = Tail(@)]

Next ==
    \/ \E e \in Element : Enqueue(e)
    \/ \E r \in Reader : Dequeue(r)

Spec == Init /\ [][Next]_pending

=============================================================================
