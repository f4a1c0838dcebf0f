----------------------------- MODULE BoundedFifo -----------------------------
(***************************************************************************)
(* What net_server/include/queue.h promises of the queue between two       *)
(* threads: the objects leave in the order they came, at most capacity of  *)
(* them wait, the one the reader looks at stays in the queue until it      *)
(* commits the read, and somebody who waits for the other side goes on     *)
(* once the other side has done its part.                                  *)
(***************************************************************************)
EXTENDS Naturals, Sequences

CONSTANTS capacity,  \* objects the queue holds
          Object,    \* the objects
          NoObject   \* stands for none

VARIABLES content,   \* the objects committed by the writer, oldest first
          held,      \* the object the reader looks at
          waitsRoom, \* the writer waits for a free slot
          waitsObject \* the reader waits for an object

fifoVars == <<content, held, waitsRoom, waitsObject>>

Full == Len(content) >= capacity

FifoInit ==
    /\ content = <<>>
    /\ held = NoObject
    /\ ~waitsRoom
    /\ ~waitsObject

WaitRoom == ~waitsRoom /\ Full /\ waitsRoom' = TRUE /\ UNCHANGED <<content, held, waitsObject>>

GetRoom == waitsRoom /\ ~Full /\ waitsRoom' = FALSE /\ UNCHANGED <<content, held, waitsObject>>

Put(o) ==
    /\ ~waitsRoom /\ ~Full
    /\ content' = Append(content, o)
    /\ UNCHANGED <<held, waitsRoom, waitsObject>>

WaitObject == ~waitsObject /\ content = <<>> /\ waitsObject' = TRUE /\ UNCHANGED <<content, held, waitsRoom>>

Look ==
    /\ held = NoObject /\ content # <<>>
    /\ held' = Head(content)
    /\ waitsObject' = FALSE
    /\ UNCHANGED <<content, waitsRoom>>

Drop ==
    /\ held # NoObject
    /\ content' = Tail(content)
    /\ held' = NoObject
    /\ UNCHANGED <<waitsRoom, waitsObject>>

FifoNext ==
    \/ WaitRoom \/ GetRoom \/ \E o \in Object : Put(o)
    \/ WaitObject \/ Look \/ Drop

FifoSafety == FifoInit /\ [][FifoNext]_fifoVars

(* Who waits goes on once there is what it waits for. *)
FifoProgress ==
    /\ (waitsRoom /\ ~Full) ~> ~waitsRoom
    /\ (waitsObject /\ content # <<>>) ~> ~waitsObject

=============================================================================
