------------------------------ MODULE NetQueue ------------------------------
(***************************************************************************)
(* The queue between the thread of an input connection and the thread of   *)
(* the engine: net_server/src/queue.cc.  One thread writes, one reads.     *)
(* Each tests without the lock whether it can go on, and takes the lock    *)
(* only to commit or to wait; so every access to a shared member outside   *)
(* the lock, and every store inside it that the other side may see, is a   *)
(* step of its own.  Memory is sequentially consistent, and a wait ends    *)
(* only by a signal (see README.md).                                       *)
(***************************************************************************)
EXTENDS Integers, Sequences

CONSTANTS numObjs,   \* slots of the buffer
          Object,    \* what a slot can hold
          NoObject   \* a slot never written

ASSUME NumObjsAssumption == numObjs \in Nat \ {0}
ASSUME NoObjectAssumption == NoObject \notin Object

VARIABLES buffer,          \* slot -> object
          nextReadSlot,
          nextWriteSlot,
          bEmpty,
          bWriterBlocked,
          bReaderBlocked,
          mutex,           \* who holds the lock
          writer,          \* where the writer is
          reader           \* where the reader is

slots   == <<buffer, nextReadSlot, nextWriteSlot, bEmpty>>
blocked == <<bWriterBlocked, bReaderBlocked>>
vars    == <<slots, blocked, mutex, writer, reader>>

Slot == 0 .. numObjs - 1

(* "out" is outside the queue's methods, "ready" between the two calls     *)
(* that get and commit a slot.                                             *)
WriterAt == {"out", "testSlots", "testEmpty", "lock", "recheck", "wait", "woken",
             "ready", "written", "advance"}
ReaderAt == {"out", "test", "lock", "recheck", "wait", "woken", "ready", "empty"}

Nobody == "nobody"

(* INCR with the end of the buffer one slot late. *)
INCR_Late(s) == IF s = numObjs THEN 0 ELSE s + 1

INCR(s) == IF s = numObjs - 1 THEN 0 ELSE s + 1

Init ==
    /\ buffer = [s \in Slot |-> NoObject]
    /\ nextReadSlot = 0
    /\ nextWriteSlot = 0
    /\ bEmpty = TRUE
    /\ bWriterBlocked = FALSE
    /\ bReaderBlocked = FALSE
    /\ mutex = Nobody
    /\ writer = "out"
    /\ reader = "out"

-----------------------------------------------------------------------------
(* getNextWriteSlot() *)

CallWrite ==
    /\ writer = "out"
    /\ writer' = "testSlots"
    /\ UNCHANGED <<slots, blocked, mutex, reader>>

WriteTest ==
    /\ \/ /\ writer = "testSlots"
          /\ writer' = IF nextReadSlot # nextWriteSlot THEN "ready" ELSE "testEmpty"
       \/ /\ writer = "testEmpty"
          /\ writer' = IF bEmpty THEN "ready" ELSE "lock"
    /\ UNCHANGED <<slots, blocked, mutex, reader>>

WriteLock ==
    /\ writer = "lock" /\ mutex = Nobody
    /\ mutex' = "writer"
    /\ writer' = "recheck"
    /\ UNCHANGED <<slots, blocked, reader>>

(* getNextWriteSlot() without the second test, and with it. *)
StillFull_Unchecked == TRUE

StillFull == nextReadSlot = nextWriteSlot /\ ~bEmpty

WriteRecheck ==
    /\ writer = "recheck"
    /\ bWriterBlocked' = StillFull
    /\ writer' = IF StillFull THEN "wait" ELSE "ready"
    /\ mutex' = Nobody
    /\ UNCHANGED <<slots, bReaderBlocked, reader>>

WriteWake ==
    /\ writer = "woken" /\ mutex = Nobody
    /\ bWriterBlocked' = FALSE
    /\ writer' = "ready"
    /\ UNCHANGED <<slots, bReaderBlocked, mutex, reader>>

-----------------------------------------------------------------------------
(* The connection fills the slot, then commitWrite() *)

FillSlot(o) ==
    /\ writer = "ready"
    /\ buffer' = [buffer EXCEPT ![nextWriteSlot] = o]
    /\ writer' = "written"
    /\ UNCHANGED <<nextReadSlot, nextWriteSlot, bEmpty, blocked, mutex, reader>>

CommitWriteLock ==
    /\ writer = "written" /\ mutex = Nobody
    /\ mutex' = "writer"
    /\ bEmpty' = FALSE
    /\ writer' = "advance"
    /\ UNCHANGED <<buffer, nextReadSlot, nextWriteSlot, blocked, reader>>

(* commitWrite() that signals nobody; only when it fills the buffer; and   *)
(* as it is.                                                               *)
SignalReader_Never == UNCHANGED reader

SignalReader_WhenFull ==
    reader' = IF /\ bReaderBlocked /\ reader = "wait"
                 /\ INCR(nextWriteSlot) = nextReadSlot
              THEN "woken" ELSE reader

SignalReader ==
    reader' = IF bReaderBlocked /\ reader = "wait" THEN "woken" ELSE reader

CommitWrite ==
    /\ writer = "advance"
    /\ nextWriteSlot' = INCR(nextWriteSlot)
    /\ SignalReader
    /\ mutex' = Nobody
    /\ writer' = "out"
    /\ UNCHANGED <<buffer, nextReadSlot, bEmpty, blocked>>

-----------------------------------------------------------------------------
(* isEmpty(), then getNextReadSlot() or not *)

CallRead ==
    /\ reader = "out"
    /\ reader' = "test"
    /\ UNCHANGED <<slots, blocked, mutex, writer>>

(* getNextReadSlot() with the writer's test, and with its own. *)
Readable_AsWriter == nextReadSlot # nextWriteSlot \/ bEmpty

Readable == ~bEmpty

ReadTest ==
    /\ reader = "test"
    /\ reader' = IF Readable THEN "ready" ELSE "lock"
    /\ UNCHANGED <<slots, blocked, mutex, writer>>

ReadLock ==
    /\ reader = "lock" /\ mutex = Nobody
    /\ mutex' = "reader"
    /\ reader' = "recheck"
    /\ UNCHANGED <<slots, blocked, writer>>

ReadRecheck ==
    /\ reader = "recheck"
    /\ bReaderBlocked' = bEmpty
    /\ reader' = IF bEmpty THEN "wait" ELSE "ready"
    /\ mutex' = Nobody
    /\ UNCHANGED <<slots, bWriterBlocked, writer>>

ReadWake ==
    /\ reader = "woken" /\ mutex = Nobody
    /\ bReaderBlocked' = FALSE
    /\ reader' = "ready"
    /\ UNCHANGED <<slots, bWriterBlocked, mutex, writer>>

-----------------------------------------------------------------------------
(* commitRead() *)

CommitReadLock ==
    /\ reader = "ready" /\ mutex = Nobody
    /\ mutex' = "reader"
    /\ nextReadSlot' = INCR(nextReadSlot)
    /\ reader' = "empty"
    /\ UNCHANGED <<buffer, nextWriteSlot, bEmpty, blocked, writer>>

(* commitRead() that finds the queue empty one object early, and as it is. *)
BecomesEmpty_Early == INCR(nextReadSlot) = nextWriteSlot

BecomesEmpty == nextReadSlot = nextWriteSlot

SignalWriter ==
    writer' = IF bWriterBlocked /\ writer = "wait" THEN "woken" ELSE writer

CommitRead ==
    /\ reader = "empty"
    /\ bEmpty' = IF BecomesEmpty THEN TRUE ELSE bEmpty
    /\ SignalWriter
    /\ mutex' = Nobody
    /\ reader' = "out"
    /\ UNCHANGED <<buffer, nextReadSlot, nextWriteSlot, blocked>>

-----------------------------------------------------------------------------

WriterNext ==
    \/ CallWrite \/ WriteTest \/ WriteLock \/ WriteRecheck \/ WriteWake
    \/ \E o \in Object : FillSlot(o)
    \/ CommitWriteLock \/ CommitWrite

ReaderNext ==
    \/ CallRead \/ ReadTest \/ ReadLock \/ ReadRecheck \/ ReadWake
    \/ CommitReadLock \/ CommitRead

Next == WriterNext \/ ReaderNext

(***************************************************************************)
(* A thread inside a method is scheduled again; nobody has to call one, so *)
(* the calls and the reader's commit, which its next call makes, are not   *)
(* fair.  The lock is held for a few instructions and both threads may get *)
(* it, whence strong fairness.                                             *)
(***************************************************************************)
Fairness ==
    /\ WF_vars(WriteTest) /\ SF_vars(WriteLock) /\ WF_vars(WriteRecheck)
    /\ SF_vars(WriteWake) /\ WF_vars(CommitWrite)
    /\ WF_vars(ReadTest) /\ SF_vars(ReadLock) /\ WF_vars(ReadRecheck)
    /\ SF_vars(ReadWake) /\ WF_vars(CommitRead)

Spec == Init /\ [][Next]_vars /\ Fairness

-----------------------------------------------------------------------------

TypeOK ==
    /\ buffer \in [Slot -> Object \cup {NoObject}]
    /\ nextReadSlot \in Slot
    /\ nextWriteSlot \in Slot
    /\ bEmpty \in BOOLEAN
    /\ bWriterBlocked \in BOOLEAN
    /\ bReaderBlocked \in BOOLEAN
    /\ mutex \in {Nobody, "writer", "reader"}
    /\ writer \in WriterAt
    /\ reader \in ReaderAt

(***************************************************************************)
(* The objects committed and not dequeued.  A writer that has cleared      *)
(* bEmpty has committed although its slot is not yet behind nextWriteSlot, *)
(* and a reader that has moved nextReadSlot has dequeued although bEmpty   *)
(* may still be to set.                                                    *)
(***************************************************************************)
Distance ==
    IF nextReadSlot <= nextWriteSlot THEN nextWriteSlot - nextReadSlot
                                     ELSE nextWriteSlot - nextReadSlot + numObjs

Count ==
    IF writer = "advance" THEN Distance + 1
    ELSE IF nextReadSlot # nextWriteSlot THEN Distance
    ELSE IF bEmpty \/ reader = "empty" THEN 0 ELSE numObjs

NthSlot(i) ==
    IF nextReadSlot + i - 1 < numObjs THEN nextReadSlot + i - 1
                                      ELSE nextReadSlot + i - 1 - numObjs

Queued == [i \in 1 .. Count |-> buffer[NthSlot(i)]]

Held == IF reader = "ready" THEN buffer[nextReadSlot] ELSE NoObject

Fifo == INSTANCE BoundedFifo WITH
            capacity <- numObjs,
            content <- Queued,
            held <- Held,
            waitsRoom <- writer \in {"wait", "woken"},
            waitsObject <- reader \in {"wait", "woken"}

(* queue.h, 65-99: a writer that goes for a slot it found free, or was     *)
(* woken for, finds it free, so that the object the reader looks at is     *)
(* never overwritten; and a reader that goes for an object finds one.      *)
SidesOwnSlots ==
    /\ writer \in {"woken", "ready", "written"} => Count < numObjs
    /\ reader \in {"woken", "ready"} => Count > 0

(* queue.cc, 51-65 and 123-136, where the flag is set and the wait begins  *)
(* under the lock: nobody sleeps on what is already there.  A writer waits *)
(* only while the buffer is full or the reader is about to signal, a       *)
(* reader only while it is empty or the writer is about to.                *)
NoLostSignal ==
    /\ writer = "wait" => Count = numObjs \/ reader = "empty"
    /\ reader = "wait" => Count = 0 \/ writer = "advance"

(* The six members, under the lock and without it, are the bounded FIFO    *)
(* that queue.h, 65-131, describes.                                        *)
ImplementsFifo == Fifo!FifoSafety

(* queue.h, 70-74: a blocked writer remains so only until the reader reads *)
(* one object, and a blocked reader only until the writer writes one.      *)
WaitersGoOn == Fifo!FifoProgress

=============================================================================
