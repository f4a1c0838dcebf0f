--------------------------- MODULE NetQueueProofs ---------------------------
(***************************************************************************)
(* Theorems about NetQueue, for every number of slots and every set of     *)
(* objects.                                                                *)
(***************************************************************************)
EXTENDS NetQueue, TLAPS

(***************************************************************************)
(* The strengthening: who holds the lock is where the lock is needed, the  *)
(* flags say who waits, and an empty queue has its two positions at the    *)
(* same slot.                                                              *)
(***************************************************************************)
LockHeld ==
    /\ mutex = "writer" <=> writer \in {"recheck", "advance"}
    /\ mutex = "reader" <=> reader \in {"recheck", "empty"}

FlagsSayWhoWaits ==
    /\ bWriterBlocked <=> writer \in {"wait", "woken"}
    /\ bReaderBlocked <=> reader \in {"wait", "woken"}

EmptyMeansLevel ==
    /\ bEmpty => nextReadSlot = nextWriteSlot
    /\ writer = "advance" => ~bEmpty
    /\ reader = "empty" => ~bEmpty

WrittenIsObject == writer = "written" => buffer[nextWriteSlot] \in Object

IInv ==
    /\ TypeOK
    /\ LockHeld
    /\ FlagsSayWhoWaits
    /\ EmptyMeansLevel
    /\ SidesOwnSlots
    /\ NoLostSignal
    /\ WrittenIsObject

(***************************************************************************)
(* The arithmetic of the ring.                                             *)
(***************************************************************************)
LEMMA IncrInSlot == ASSUME NEW s \in Slot PROVE INCR(s) \in Slot
BY NumObjsAssumption DEF Slot, INCR

LEMMA CountBounds ==
    ASSUME IInv
    PROVE  /\ Distance \in 0 .. numObjs - 1
           /\ Count \in 0 .. numObjs
           /\ \A i \in 1 .. numObjs : NthSlot(i) \in Slot
BY NumObjsAssumption DEF IInv, TypeOK, Slot, Distance, Count, NthSlot

LEMMA InitIInv == Init => IInv
<1> SUFFICES ASSUME Init PROVE IInv
  OBVIOUS
<1> USE NumObjsAssumption DEF Init
<1>1. TypeOK
  <2>1. buffer \in [Slot -> Object \cup {NoObject}]
    OBVIOUS
  <2>2. 0 \in Slot
    BY DEF Slot
  <2>3. bEmpty \in BOOLEAN /\ bWriterBlocked \in BOOLEAN /\ bReaderBlocked \in BOOLEAN
    OBVIOUS
  <2>4. QED
    BY <2>1, <2>2, <2>3 DEF TypeOK, WriterAt, ReaderAt
<1>2. LockHeld
  <2>1. mutex = "nobody" /\ writer = "out" /\ reader = "out"
    BY DEF Nobody
  <2> HIDE DEF Init
  <2>2. QED
    BY <2>1 DEF LockHeld
<1>3. FlagsSayWhoWaits
  BY DEF FlagsSayWhoWaits
<1>4. EmptyMeansLevel
  BY DEF EmptyMeansLevel
<1>5. SidesOwnSlots /\ NoLostSignal /\ WrittenIsObject
  BY DEF SidesOwnSlots, NoLostSignal, WrittenIsObject
<1>6. QED
  BY <1>1, <1>2, <1>3, <1>4, <1>5 DEF IInv

LEMMA StepIInv == IInv /\ [Next]_vars => IInv'
<1> SUFFICES ASSUME IInv, [Next]_vars PROVE IInv'
  OBVIOUS
<1> USE NumObjsAssumption DEF IInv, TypeOK, LockHeld, FlagsSayWhoWaits, EmptyMeansLevel,
        SidesOwnSlots, NoLostSignal, WrittenIsObject, WriterAt, ReaderAt, Nobody, Count, Distance, Slot,
        slots, blocked
<1>1. CASE CallWrite
  BY <1>1 DEF CallWrite
<1>2. CASE WriteTest
  BY <1>2 DEF WriteTest
<1>3. CASE WriteLock
  BY <1>3 DEF WriteLock
<1>4. CASE WriteRecheck
  <2>1. CASE StillFull
    BY <1>4, <2>1 DEF WriteRecheck, StillFull
  <2>2. CASE ~StillFull
    BY <1>4, <2>2 DEF WriteRecheck, StillFull
  <2>3. QED
    BY <2>1, <2>2
<1>5. CASE WriteWake
  BY <1>5 DEF WriteWake
<1>6. ASSUME NEW o \in Object, FillSlot(o) PROVE IInv'
  <2>1. buffer' \in [Slot -> Object \cup {NoObject}]
    BY <1>6 DEF FillSlot
  <2>2. QED
    BY <1>6, <2>1 DEF FillSlot
<1>7. CASE CommitWriteLock
  <2>1. TypeOK' /\ LockHeld'
    BY <1>7 DEF CommitWriteLock
  <2>2. FlagsSayWhoWaits'
    BY <1>7 DEF CommitWriteLock
  <2>3. EmptyMeansLevel'
    BY <1>7 DEF CommitWriteLock
  <2>4. SidesOwnSlots'
    BY <1>7 DEF CommitWriteLock
  <2>5. NoLostSignal' /\ WrittenIsObject'
    BY <1>7 DEF CommitWriteLock
  <2>6. QED
    BY <2>1, <2>2, <2>3, <2>4, <2>5
<1>8. CASE CommitWrite
  BY <1>8 DEF CommitWrite, SignalReader, INCR
<1>9. CASE CallRead
  BY <1>9 DEF CallRead
<1>10. CASE ReadTest
  BY <1>10 DEF ReadTest, Readable
<1>11. CASE ReadLock
  BY <1>11 DEF ReadLock
<1>12. CASE ReadRecheck
  BY <1>12 DEF ReadRecheck
<1>13. CASE ReadWake
  BY <1>13 DEF ReadWake
<1>14. CASE CommitReadLock
  BY <1>14 DEF CommitReadLock, INCR
<1>15. CASE CommitRead
  <2>1. CASE BecomesEmpty
    BY <1>15, <2>1 DEF CommitRead, SignalWriter, BecomesEmpty
  <2>2. CASE ~BecomesEmpty
    BY <1>15, <2>2 DEF CommitRead, SignalWriter, BecomesEmpty
  <2>3. QED
    BY <2>1, <2>2
<1>16. CASE UNCHANGED vars
  BY <1>16 DEF vars
<1>17. QED
  BY <1>1, <1>2, <1>3, <1>4, <1>5, <1>6, <1>7, <1>8, <1>9, <1>10, <1>11, <1>12, <1>13,
     <1>14, <1>15, <1>16 DEF Next, WriterNext, ReaderNext

(***************************************************************************)
(* How the steps change the sequence of queued objects.                    *)
(***************************************************************************)
LEMMA QueuedType ==
    ASSUME IInv
    PROVE  Queued \in Seq(Object \cup {NoObject}) /\ Len(Queued) = Count
<1>1. Count \in 0 .. numObjs /\ \A i \in 1 .. numObjs : NthSlot(i) \in Slot
  BY CountBounds
<1>2. Count \in Nat /\ \A i \in 1 .. Count : buffer[NthSlot(i)] \in Object \cup {NoObject}
  BY <1>1, NumObjsAssumption DEF IInv, TypeOK
<1>3. QED
  BY <1>1, <1>2 DEF Queued

LEMMA QueuedUnchanged ==
    ASSUME IInv, Count' = Count, nextReadSlot' = nextReadSlot,
           \A i \in 1 .. Count : buffer'[NthSlot(i)] = buffer[NthSlot(i)]
    PROVE  Queued' = Queued
BY DEF Queued, NthSlot

LEMMA FillSlotHidden ==
    ASSUME IInv, NEW o \in Object, FillSlot(o)
    PROVE  Queued' = Queued /\ Held' = Held
<1>1. Count' = Count /\ nextReadSlot' = nextReadSlot /\ Count < numObjs
  BY DEF FillSlot, IInv, SidesOwnSlots, Count, Distance
<1>2. ASSUME NEW i \in 1 .. Count PROVE NthSlot(i) # nextWriteSlot /\ NthSlot(i) \in Slot
  <2>1. writer = "ready"
    BY DEF FillSlot
  <2>2. numObjs \in Nat \ {0} /\ nextReadSlot \in Slot /\ nextWriteSlot \in Slot
    BY NumObjsAssumption DEF IInv, TypeOK
  <2>3. nextReadSlot # nextWriteSlot /\ Count = Distance
    BY <1>1, <2>1, <2>2 DEF Count
  <2>4. QED
    BY <2>2, <2>3 DEF NthSlot, Distance, Slot
<1>3. Queued' = Queued
  BY <1>1, <1>2, QueuedUnchanged DEF FillSlot, IInv, TypeOK
<1>4. reader = "ready" => nextReadSlot # nextWriteSlot
  BY <1>1, NumObjsAssumption
     DEF IInv, TypeOK, SidesOwnSlots, FillSlot, Count, Distance, Slot
<1>5. QED
  BY <1>3, <1>4 DEF FillSlot, Held, IInv, TypeOK

LEMMA CommitPuts ==
    ASSUME IInv, CommitWriteLock
    PROVE  /\ Queued' = Append(Queued, buffer[nextWriteSlot])
           /\ Len(Queued) < numObjs
           /\ buffer[nextWriteSlot] \in Object
<1>1. writer = "written" /\ mutex = Nobody /\ writer' = "advance" /\ reader' = reader
      /\ buffer' = buffer /\ nextReadSlot' = nextReadSlot /\ nextWriteSlot' = nextWriteSlot
  BY DEF CommitWriteLock
<1>2. numObjs \in Nat \ {0} /\ nextReadSlot \in Slot /\ nextWriteSlot \in Slot
  BY NumObjsAssumption DEF IInv, TypeOK
<1>3. Count < numObjs
  BY <1>1 DEF IInv, SidesOwnSlots
<1>4. Count = Distance /\ Count' = Count + 1
  <2>1. nextReadSlot = nextWriteSlot => Count = 0 /\ Distance = 0
    BY <1>1, <1>2, <1>3 DEF Count, Distance, Slot
  <2>2. nextReadSlot # nextWriteSlot => Count = Distance
    BY <1>1 DEF Count
  <2>3. Distance' = Distance
    BY <1>1 DEF Distance
  <2>4. QED
    BY <1>1, <2>1, <2>2, <2>3 DEF Count
<1>5. NthSlot(Count + 1) = nextWriteSlot /\ Count \in Nat
  BY <1>2, <1>4 DEF NthSlot, Distance, Slot
<1>6. Queued' = [i \in 1 .. Count + 1 |-> buffer[NthSlot(i)]]
  BY <1>1, <1>4 DEF Queued, NthSlot
<1>7. Queued \in Seq(Object \cup {NoObject}) /\ Len(Queued) = Count
  BY QueuedType
<1>8. Queued = [i \in 1 .. Count |-> buffer[NthSlot(i)]]
  BY DEF Queued
<1>9. buffer[nextWriteSlot] \in Object
  BY <1>1 DEF IInv, WrittenIsObject
<1>10. QED
  <2> HIDE DEF Queued, NthSlot, Count
  <2>1. Append(Queued, buffer[nextWriteSlot])
            = [i \in 1 .. Count + 1 |-> IF i <= Count THEN Queued[i] ELSE buffer[nextWriteSlot]]
    BY <1>5, <1>7
  <2>2. \A i \in 1 .. Count + 1 :
            buffer[NthSlot(i)] = IF i <= Count THEN Queued[i] ELSE buffer[nextWriteSlot]
    BY <1>5, <1>8
  <2>3. QED
    BY <1>3, <1>6, <1>7, <1>9, <2>1, <2>2

LEMMA CommitDrops ==
    ASSUME IInv, CommitReadLock
    PROVE  /\ Queued # <<>>
           /\ Queued' = Tail(Queued)
<1>1. reader = "ready" /\ mutex = Nobody /\ reader' = "empty" /\ writer' = writer
      /\ buffer' = buffer /\ nextReadSlot' = INCR(nextReadSlot)
      /\ nextWriteSlot' = nextWriteSlot
  BY DEF CommitReadLock
<1>2. numObjs \in Nat \ {0} /\ nextReadSlot \in Slot /\ nextWriteSlot \in Slot
  BY NumObjsAssumption DEF IInv, TypeOK
<1>3. Count > 0 /\ Count \in Nat /\ Count <= numObjs
  <2>1. Count \in 0 .. numObjs
    BY CountBounds
  <2>2. QED
    BY <1>1, <1>2, <2>1 DEF IInv, SidesOwnSlots
<1>4. writer # "advance"
  BY <1>1 DEF IInv, LockHeld, Nobody
<1>5. Count' = Count - 1
  BY <1>1, <1>2, <1>3, <1>4 DEF Count, Distance, INCR, Slot
<1>6. \A i \in 1 .. Count - 1 : NthSlot(i)' = NthSlot(i + 1)
  BY <1>1, <1>2, <1>3 DEF NthSlot, INCR, Slot
<1>7. Queued \in Seq(Object \cup {NoObject}) /\ Len(Queued) = Count
  BY QueuedType
<1>8. Queued = [i \in 1 .. Count |-> buffer[NthSlot(i)]]
  BY DEF Queued
<1>9. Queued' = [i \in 1 .. Count - 1 |-> buffer[NthSlot(i + 1)]]
  BY <1>1, <1>5, <1>6 DEF Queued
<1>10. QED
  <2> HIDE DEF Queued, NthSlot, Count
  <2>1. Tail(Queued) = [i \in 1 .. Count - 1 |-> buffer[NthSlot(i + 1)]]
    BY <1>3, <1>7, <1>8
  <2>2. QED
    BY <1>3, <1>7, <1>9, <2>1

LEMMA QueuedSteady ==
    ASSUME IInv, [Next]_vars, ~CommitWriteLock, ~CommitReadLock
    PROVE  Queued' = Queued
<1> SUFFICES ASSUME ~(\E o \in Object : FillSlot(o)) PROVE Queued' = Queued
  BY FillSlotHidden
<1>1. buffer' = buffer /\ nextReadSlot' = nextReadSlot
  BY DEF Next, WriterNext, ReaderNext, CallWrite, WriteTest, WriteLock, WriteRecheck, WriteWake,
         CommitWrite, CallRead, ReadTest, ReadLock, ReadRecheck, ReadWake, CommitRead,
         vars, slots
<1>2. Count' = Count
  <2>1. numObjs \in Nat \ {0} /\ nextReadSlot \in Slot /\ nextWriteSlot \in Slot
    BY NumObjsAssumption DEF IInv, TypeOK
  <2>2. CASE CommitWrite
    <3>1. writer = "advance" /\ reader # "empty" /\ ~bEmpty
      BY <2>2 DEF CommitWrite, IInv, LockHeld, EmptyMeansLevel
    <3>2. writer' = "out" /\ reader' # "empty" /\ ~bEmpty'
      BY <2>2, <3>1 DEF CommitWrite, SignalReader
    <3>3. nextReadSlot' = nextReadSlot /\ nextWriteSlot' = INCR(nextWriteSlot)
      BY <2>2 DEF CommitWrite
    <3>4. QED
      BY <2>1, <3>1, <3>2, <3>3 DEF Count, Distance, INCR, Slot
  <2>3. CASE CommitRead
    <3>1. reader = "empty" /\ writer # "advance" /\ ~bEmpty
      BY <2>3 DEF CommitRead, IInv, LockHeld, EmptyMeansLevel
    <3>2. reader' = "out" /\ writer' # "advance"
      BY <2>3, <3>1 DEF CommitRead, SignalWriter
    <3>3. nextReadSlot' = nextReadSlot /\ nextWriteSlot' = nextWriteSlot
      BY <2>3 DEF CommitRead
    <3>4. nextReadSlot = nextWriteSlot => bEmpty'
      BY <2>3 DEF CommitRead, BecomesEmpty
    <3>5. QED
      BY <2>1, <3>1, <3>2, <3>3, <3>4 DEF Count, Distance, Slot
  <2>4. CASE ~CommitWrite /\ ~CommitRead
    <3>1. nextWriteSlot' = nextWriteSlot /\ bEmpty' = bEmpty
      BY <2>4 DEF Next, WriterNext, ReaderNext, CallWrite, WriteTest, WriteLock, WriteRecheck,
             WriteWake, CallRead, ReadTest, ReadLock, ReadRecheck, ReadWake, vars, slots
    <3>2. (writer' = "advance") <=> (writer = "advance")
      BY <2>4 DEF Next, WriterNext, ReaderNext, CallWrite, WriteTest, WriteLock, WriteRecheck,
             WriteWake, CallRead, ReadTest, ReadLock, ReadRecheck, ReadWake, vars
    <3>3. (reader' = "empty") <=> (reader = "empty")
      BY <2>4 DEF Next, WriterNext, ReaderNext, CallWrite, WriteTest, WriteLock, WriteRecheck,
             WriteWake, CallRead, ReadTest, ReadLock, ReadRecheck, ReadWake, vars
    <3>4. Distance' = Distance
      BY <1>1, <3>1 DEF Distance
    <3>5. QED
      BY <1>1, <3>1, <3>2, <3>3, <3>4 DEF Count
  <2>5. QED
    BY <2>2, <2>3, <2>4
<1>3. QED
  BY <1>1, <1>2, QueuedUnchanged

(***************************************************************************)
(* The abstract queue never holds a slot that was not written.             *)
(***************************************************************************)
RInv == IInv /\ Queued \in Seq(Object)

LEMMA InitRefines == Init => RInv /\ Fifo!FifoInit
<1> SUFFICES ASSUME Init PROVE RInv /\ Fifo!FifoInit
  OBVIOUS
<1>1. IInv
  BY InitIInv
<1>2. Count = 0
  BY DEF Init, Count, Distance
<1>3. Queued = <<>>
  BY <1>2 DEF Queued
<1>4. Held = NoObject /\ writer = "out" /\ reader = "out"
  BY DEF Init, Held
<1>5. QED
  BY <1>1, <1>3, <1>4 DEF RInv, Fifo!FifoInit

LEMMA StepRInv == RInv /\ [Next]_vars => RInv'
<1> SUFFICES ASSUME RInv, [Next]_vars PROVE Queued' \in Seq(Object)
  BY StepIInv DEF RInv
<1>1. CASE CommitWriteLock
  <2>1. Queued' = Append(Queued, buffer[nextWriteSlot]) /\ buffer[nextWriteSlot] \in Object
    BY <1>1, CommitPuts DEF RInv
  <2>2. QED
    BY <2>1 DEF RInv
<1>2. CASE CommitReadLock
  <2>1. Queued # <<>> /\ Queued' = Tail(Queued)
    BY <1>2, CommitDrops DEF RInv
  <2>2. QED
    BY <2>1 DEF RInv
<1>3. CASE ~CommitWriteLock /\ ~CommitReadLock
  BY <1>3, QueuedSteady DEF RInv
<1>4. QED
  BY <1>1, <1>2, <1>3

LEMMA LooksAtOldest ==
    ASSUME RInv, Count > 0
    PROVE  Queued # <<>> /\ buffer[nextReadSlot] = Head(Queued) /\ Head(Queued) \in Object
<1>1. Len(Queued) = Count /\ Count \in 0 .. numObjs
  BY QueuedType, CountBounds DEF RInv
<1>2. numObjs \in Nat \ {0} /\ nextReadSlot \in Slot
  BY NumObjsAssumption DEF RInv, IInv, TypeOK
<1>3. NthSlot(1) = nextReadSlot
  BY <1>2 DEF NthSlot, Slot
<1>4. Queued[1] = buffer[nextReadSlot]
  BY <1>1, <1>2, <1>3 DEF Queued
<1>5. QED
  <2> HIDE DEF Queued
  <2>1. QED
    BY <1>1, <1>2, <1>4 DEF RInv

LEMMA BeginsToLook ==
    ASSUME RInv, [Next]_vars, reader # "ready", reader' = "ready", Count > 0,
           UNCHANGED <<slots, writer>>
    PROVE  Fifo!Look
<1>1. Queued # <<>> /\ buffer[nextReadSlot] = Head(Queued)
  BY LooksAtOldest
<1>2. Queued' = Queued
  BY QueuedSteady DEF RInv, CommitWriteLock, CommitReadLock
<1>3. Held = NoObject /\ Held' = buffer[nextReadSlot]
  BY DEF Held, slots
<1>4. QED
  BY <1>1, <1>2, <1>3 DEF Fifo!Look

LEMMA StepRefines == RInv /\ [Next]_vars => [Fifo!FifoNext]_(Fifo!fifoVars)
<1> SUFFICES ASSUME RInv, [Next]_vars
             PROVE  Fifo!FifoNext \/ UNCHANGED Fifo!fifoVars
  OBVIOUS
<1>1. Queued \in Seq(Object) /\ Len(Queued) = Count /\ Count \in 0 .. numObjs
  BY QueuedType, CountBounds DEF RInv
<1>2. numObjs \in Nat \ {0} /\ nextReadSlot \in Slot /\ nextWriteSlot \in Slot
  BY NumObjsAssumption DEF RInv, IInv, TypeOK
<1> HIDE DEF Queued
<1>3. ASSUME ~CommitWriteLock, ~CommitReadLock PROVE Queued' = Queued
  BY <1>3, QueuedSteady DEF RInv
<1>4. CASE CommitWriteLock
  <2>1. Queued' = Append(Queued, buffer[nextWriteSlot]) /\ Len(Queued) < numObjs
        /\ buffer[nextWriteSlot] \in Object
    BY <1>4, CommitPuts DEF RInv
  <2>2. Held' = Held /\ reader' = reader /\ writer = "written" /\ writer' = "advance"
    BY <1>4 DEF CommitWriteLock, Held
  <2>3. Fifo!Put(buffer[nextWriteSlot])
    BY <1>1, <1>2, <2>1, <2>2 DEF Fifo!Put, Fifo!Full
  <2>4. QED
    BY <2>1, <2>3 DEF Fifo!FifoNext
<1>5. CASE CommitReadLock
  <2>1. Queued # <<>> /\ Queued' = Tail(Queued)
    BY <1>5, CommitDrops DEF RInv
  <2>2. reader = "ready" /\ reader' = "empty" /\ writer' = writer
    BY <1>5 DEF CommitReadLock
  <2>3. Count > 0
    BY <2>2 DEF RInv, IInv, SidesOwnSlots
  <2>4. Held \in Object /\ Held' = NoObject
    BY <2>2, <2>3, LooksAtOldest DEF Held
  <2>5. Fifo!Drop
    BY <2>1, <2>2, <2>4, NoObjectAssumption DEF Fifo!Drop
  <2>6. QED
    BY <2>5 DEF Fifo!FifoNext
<1>6. CASE WriteRecheck
  <2>1. Queued' = Queued /\ Held' = Held /\ reader' = reader /\ writer = "recheck"
    BY <1>3, <1>6 DEF WriteRecheck, CommitWriteLock, CommitReadLock, Held, slots
  <2>2. CASE StillFull
    <3>1. reader # "empty"
      BY <2>1 DEF RInv, IInv, LockHeld
    <3>2. Count = numObjs
      BY <2>1, <2>2, <3>1 DEF StillFull, Count
    <3>3. Fifo!WaitRoom
      BY <1>1, <1>2, <1>6, <2>1, <2>2, <3>2 DEF WriteRecheck, Fifo!WaitRoom, Fifo!Full
    <3>4. QED
      BY <3>3 DEF Fifo!FifoNext
  <2>3. CASE ~StillFull
    BY <1>6, <2>1, <2>3 DEF WriteRecheck, Fifo!fifoVars
  <2>4. QED
    BY <2>2, <2>3
<1>7. CASE WriteWake
  <2>1. Queued' = Queued /\ Held' = Held /\ reader' = reader /\ writer = "woken"
        /\ writer' = "ready"
    BY <1>3, <1>7 DEF WriteWake, CommitWriteLock, CommitReadLock, Held, slots
  <2>2. Count < numObjs
    BY <2>1 DEF RInv, IInv, SidesOwnSlots
  <2>3. Fifo!GetRoom
    BY <1>1, <1>2, <2>1, <2>2 DEF Fifo!GetRoom, Fifo!Full
  <2>4. QED
    BY <2>3 DEF Fifo!FifoNext
<1>8. CASE ReadTest
  <2>1. CASE Readable
    <3>1. reader = "test" /\ reader' = "ready" /\ UNCHANGED <<slots, writer>> /\ ~bEmpty
      BY <1>8, <2>1 DEF ReadTest, Readable
    <3>2. Count > 0
      BY <1>2, <3>1 DEF Count, Distance, Slot
    <3>3. Fifo!Look
      BY <3>1, <3>2, BeginsToLook
    <3>4. QED
      BY <3>3 DEF Fifo!FifoNext
  <2>2. CASE ~Readable
    <3>1. reader = "test" /\ reader' = "lock" /\ writer' = writer
      BY <1>8, <2>2 DEF ReadTest
    <3>2. Queued' = Queued
      BY <1>3, <1>8 DEF ReadTest, CommitWriteLock, CommitReadLock
    <3>3. QED
      BY <3>1, <3>2 DEF Held, Fifo!fifoVars
  <2>3. QED
    BY <2>1, <2>2
<1>9. CASE ReadRecheck
  <2>1. reader = "recheck" /\ UNCHANGED <<slots, writer>> /\ writer # "advance"
    BY <1>9 DEF ReadRecheck, RInv, IInv, LockHeld
  <2>2. CASE bEmpty
    <3>1. reader' = "wait" /\ Count = 0
      BY <1>9, <2>1, <2>2 DEF ReadRecheck, RInv, IInv, EmptyMeansLevel, Count
    <3>2. Queued' = Queued
      BY <1>3, <1>9 DEF ReadRecheck, CommitWriteLock, CommitReadLock
    <3>3. Queued = <<>>
      BY <1>1, <3>1
    <3>4. Fifo!WaitObject
      BY <2>1, <3>1, <3>2, <3>3 DEF Fifo!WaitObject, Held
    <3>5. QED
      BY <3>4 DEF Fifo!FifoNext
  <2>3. CASE ~bEmpty
    <3>1. reader' = "ready"
      BY <1>9, <2>3 DEF ReadRecheck
    <3>2. Count > 0
      BY <1>2, <2>1, <2>3 DEF Count, Distance, Slot
    <3>3. Fifo!Look
      BY <2>1, <3>1, <3>2, BeginsToLook
    <3>4. QED
      BY <3>3 DEF Fifo!FifoNext
  <2>4. QED
    BY <2>2, <2>3
<1>10. CASE ReadWake
  <2>1. reader = "woken" /\ reader' = "ready" /\ UNCHANGED <<slots, writer>>
    BY <1>10 DEF ReadWake
  <2>2. Count > 0
    BY <2>1 DEF RInv, IInv, SidesOwnSlots
  <2>3. Fifo!Look
    BY <2>1, <2>2, BeginsToLook
  <2>4. QED
    BY <2>3 DEF Fifo!FifoNext
<1>11. ASSUME NEW o \in Object, FillSlot(o) PROVE UNCHANGED Fifo!fifoVars
  <2>1. Queued' = Queued /\ Held' = Held
    BY <1>11, FillSlotHidden DEF RInv
  <2>2. writer = "ready" /\ writer' = "written" /\ reader' = reader
    BY <1>11 DEF FillSlot
  <2>3. QED
    BY <2>1, <2>2 DEF Fifo!fifoVars
<1>12. CASE CallWrite \/ WriteTest \/ WriteLock \/ CommitWrite
            \/ CallRead \/ ReadLock \/ CommitRead \/ UNCHANGED vars
  <2>1. Queued' = Queued
    BY <1>3, <1>12 DEF CallWrite, WriteTest, WriteLock, CommitWrite, CallRead, ReadLock,
           CommitRead, vars, CommitWriteLock, CommitReadLock
  <2>2. Held' = Held
    BY <1>12 DEF Held, CallWrite, WriteTest, WriteLock, CommitWrite, SignalReader, CallRead,
           ReadLock, CommitRead, vars, slots
  <2>3. writer' \in {"wait", "woken"} <=> writer \in {"wait", "woken"}
    BY <1>12 DEF CallWrite, WriteTest, WriteLock, CommitWrite, CallRead, ReadLock, CommitRead,
           SignalWriter, vars
  <2>4. reader' \in {"wait", "woken"} <=> reader \in {"wait", "woken"}
    BY <1>12 DEF CallWrite, WriteTest, WriteLock, CommitWrite, CallRead, ReadLock, CommitRead,
           SignalReader, vars
  <2>5. QED
    BY <2>1, <2>2, <2>3, <2>4 DEF Fifo!fifoVars
<1>13. QED
  BY <1>4, <1>5, <1>6, <1>7, <1>8, <1>9, <1>10, <1>11, <1>12 DEF Next, WriterNext, ReaderNext

(* The members of Queue, the callers and the lock stay in their types,     *)
(* whatever the two threads do (queue.cc).                                 *)
THEOREM TypeCorrect == Spec => []TypeOK
<1>1. Spec => []IInv
  BY InitIInv, StepIInv, PTL DEF Spec
<1>2. IInv => TypeOK
  BY DEF IInv
<1>3. QED
  BY <1>1, <1>2, PTL

(* getNextWriteSlot() and getNextReadSlot() return slots that are free and *)
(* filled, whatever the interleaving (queue.cc, 38-77 and 109-146).        *)
THEOREM SlotsOwned == Spec => []SidesOwnSlots
<1>1. Spec => []IInv
  BY InitIInv, StepIInv, PTL DEF Spec
<1>2. IInv => SidesOwnSlots
  BY DEF IInv
<1>3. QED
  BY <1>1, <1>2, PTL

(* No signal is lost: neither side waits for what is there                 *)
(* (queue.cc, 51-65 and 123-136).                                          *)
THEOREM SignalsKept == Spec => []NoLostSignal
<1>1. Spec => []IInv
  BY InitIInv, StepIInv, PTL DEF Spec
<1>2. IInv => NoLostSignal
  BY DEF IInv
<1>3. QED
  BY <1>1, <1>2, PTL

(* The queue is the bounded FIFO that queue.h describes: what is committed *)
(* is read once and in order, for every number of slots.                   *)
THEOREM FifoRefinement == Spec => ImplementsFifo
<1>1. Init => RInv /\ Fifo!FifoInit
  BY InitRefines
<1>2. RInv /\ [Next]_vars => RInv'
  BY StepRInv
<1>3. RInv /\ [Next]_vars => [Fifo!FifoNext]_(Fifo!fifoVars)
  BY StepRefines
<1>4. QED
  BY <1>1, <1>2, <1>3, PTL DEF Spec, ImplementsFifo, Fifo!FifoSafety

=============================================================================
