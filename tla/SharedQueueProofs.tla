------------------------- MODULE SharedQueueProofs -------------------------
(***************************************************************************)
(* Theorems about SharedQueue, for every number of readers, pages and      *)
(* slots and every set of tuples.                                          *)
(***************************************************************************)
EXTENDS SharedQueue, WellFoundedInduction, FiniteSetTheorems, TLAPS

(***************************************************************************)
(* Arithmetic of a ring of pages.                                          *)
(***************************************************************************)
LEMMA DivMod ==
    ASSUME NEW a \in Nat, NEW k \in Nat \ {0}
    PROVE  /\ a \div k \in Nat
           /\ a % k \in 0 .. k - 1
           /\ a = k * (a \div k) + (a % k)
OBVIOUS

LEMMA DivModUnique ==
    ASSUME NEW k \in Nat \ {0}, NEW q \in Nat, NEW r \in 0 .. k - 1
    PROVE  /\ (k * q + r) \div k = q
           /\ (k * q + r) % k = r
OBVIOUS

LEMMA MulMono ==
    ASSUME NEW k \in Nat \ {0}, NEW a \in Nat, NEW b \in Nat, a < b
    PROVE  k * a + k <= k * b
OBVIOUS

LEMMA SizesType ==
    /\ maxElements \in Nat \ {0}
    /\ Address = 0 .. numElementsPerPage * numPages - 1
BY SizesAssumption DEF maxElements, Address

(***************************************************************************)
(* A finite set of readers has a last one.                                 *)
(***************************************************************************)
LEMMA MaxReader ==
    ASSUME NEW S \in SUBSET Reader, S # {}
    PROVE  Max(S) \in S
<1> DEFINE Rev == {numReaders - 1 - s : s \in S}
<1>0. \A s \in S : s \in Int /\ numReaders - 1 - s \in Nat
  BY SizesAssumption DEF Reader
<1>1. Rev \subseteq Nat /\ Rev # {}
  BY <1>0
<1>2. PICK x \in Rev : \A y \in Rev : ~(<<y, x>> \in OpToRel(<, Nat))
  BY <1>1, NatLessThanWellFounded, WFMin
<1>3. ASSUME NEW y \in Rev PROVE x <= y
  <2>1. x \in Nat /\ y \in Nat
    BY <1>1
  <2>2. ASSUME y < x PROVE FALSE
    <3>1. <<y, x>> \in OpToRel(<, Nat)
      BY <2>1, <2>2 DEF OpToRel
    <3>2. QED
      BY <1>2, <3>1
  <2>3. QED
    BY <2>1, <2>2
<1>4. PICK s \in S : x = numReaders - 1 - s
  OBVIOUS
<1>5. ASSUME NEW y \in S PROVE s >= y
  <2>1. x <= numReaders - 1 - y
    BY <1>3
  <2>2. s \in Int /\ y \in Int /\ numReaders \in Int
    BY <1>0, SizesAssumption
  <2>3. QED
    BY <1>4, <2>1, <2>2
<1>6. QED
  BY <1>5 DEF Max

(***************************************************************************)
(* Positions.  The rank a position keeps within its page agrees with its   *)
(* address, so INCR moves one slot along the ring.                         *)
(***************************************************************************)
Aligned(p) == p.posInPage = p.element % numElementsPerPage

PositionsAligned ==
    /\ Aligned(nextEnqueue)
    /\ \A r \in Reader : Aligned(nextDequeue[r])

LEMMA IncrStep ==
    ASSUME NEW p \in EPtr, Aligned(p)
    PROVE  /\ INCR(p) \in EPtr
           /\ Aligned(INCR(p))
           /\ INCR(p).element = (p.element + 1) % maxElements
<1> DEFINE a == p.element
           K == numElementsPerPage
           N == numPages
           q == a \div K
<1>1. /\ K \in Nat \ {0} /\ N \in Nat \ {0}
      /\ a \in 0 .. K * N - 1
      /\ p.posInPage \in 0 .. K - 1
      /\ p.posInPage = a % K
      /\ Address = 0 .. K * N - 1
      /\ maxElements = K * N
  BY SizesAssumption, SizesType DEF EPtr, Aligned, maxElements
<1> HIDE DEF a, K, N, q
<1>2. q \in Nat /\ a \in Nat /\ a = K * q + p.posInPage
  <2>1. a \in Nat
    BY <1>1
  <2>2. /\ a \div K \in Nat
        /\ a = K * (a \div K) + (a % K)
    BY <1>1, <2>1, DivMod
  <2>3. QED
    BY <1>1, <2>1, <2>2 DEF q
<1>3. q < N
  <2>1. ASSUME N < q PROVE FALSE
    BY SMTT(30), <1>1, <1>2, <2>1, MulMono
  <2>2. ASSUME N = q PROVE FALSE
    BY <1>1, <1>2, <2>2
  <2>3. QED
    BY <1>1, <1>2, <2>1, <2>2
<1>4. K * q + K <= K * N
  BY <1>1, <1>2, <1>3, MulMono
<1>5. CASE p.posInPage = K - 1
  <2> DEFINE n == (q + 1) % N
  <2>1. INCR(p) = [element |-> n * K, posInPage |-> 0]
    BY <1>5 DEF INCR, NextPage, K, N, q, a
  <2>2. n \in 0 .. N - 1 /\ a + 1 = K * (q + 1)
    BY <1>1, <1>2, <1>5
  <2>3. n * K \in 0 .. K * N - 1
    <3> HIDE DEF n
    <3>1. K * n + K <= K * N /\ K * n \in Nat
      BY <1>1, <2>2, MulMono
    <3>2. QED
      BY <1>1, <2>2, <3>1
  <2>4. (n * K) % K = 0
    BY <1>1, <2>2, DivModUnique
  <2>5. n * K = (K * (q + 1)) % (K * N)
    <3>1. CASE q + 1 = N
      <4>1. n = 0
        BY <1>1, <3>1
      <4>2. (K * (q + 1)) % (K * N) = 0
        BY <1>1, <3>1
      <4>3. QED
        BY <1>1, <4>1, <4>2
    <3>2. CASE q + 1 < N
      <4>1. n = q + 1
        BY SMTT(30), <1>1, <1>2, <3>2
      <4>2. K * (q + 1) \in 0 .. K * N - 1
        BY SMTT(30), <1>1, <1>2, <2>3, <4>1
      <4>3. (K * (q + 1)) % (K * N) = K * (q + 1)
        BY <1>1, <4>2
      <4>4. n * K = K * (q + 1)
        BY SMTT(30), <1>1, <1>2, <4>1
      <4>5. QED
        BY <4>3, <4>4
    <3>3. QED
      BY <1>1, <1>2, <1>3, <3>1, <3>2
  <2>6. QED
    BY <1>1, <2>1, <2>2, <2>3, <2>4, <2>5 DEF EPtr, Aligned, K, a
<1>6. CASE p.posInPage # K - 1
  <2>1. INCR(p) = [element |-> a + 1, posInPage |-> p.posInPage + 1]
    BY <1>6 DEF INCR, K, a
  <2>2. /\ p.posInPage + 1 \in 0 .. K - 1
        /\ a + 1 = K * q + (p.posInPage + 1)
        /\ a + 1 \in 0 .. K * N - 1
    BY SMTT(30), <1>1, <1>2, <1>4, <1>6
  <2>3. (a + 1) % K = p.posInPage + 1
    <3> DEFINE j == p.posInPage + 1
    <3>1. j \in 0 .. K - 1 /\ a + 1 = K * q + j
      BY <2>2
    <3> HIDE DEF j
    <3>2. (K * q + j) % K = j
      BY <1>1, <1>2, <3>1, DivModUnique
    <3>3. QED
      BY <3>1, <3>2 DEF j
  <2>4. (a + 1) % (K * N) = a + 1
    BY <1>1, <2>2
  <2>5. QED
    BY <1>1, <2>1, <2>2, <2>3, <2>4 DEF EPtr, Aligned, K, a
<1>7. QED
  BY <1>5, <1>6

-----------------------------------------------------------------------------
(***************************************************************************)
(* The inductive invariant: the types, the positions and the counters.     *)
(* Each part relies on the others: INCR stays on the ring only from an     *)
(* aligned position, and rebasing keeps the counters natural only because  *)
(* the slowest reader lags most.                                           *)
(***************************************************************************)
IInv ==
    /\ TypeOK
    /\ PositionsAligned
    /\ SlowestLagsMost
    /\ CountersBounded

LEMMA InitIInv == Init => IInv
<1> SUFFICES ASSUME Init PROVE IInv
  OBVIOUS
<1>1. 0 \in Reader
  BY SizesAssumption DEF Reader
<1>2. 0 \in Address /\ 0 \in 0 .. numElementsPerPage - 1
  <2>1. numElementsPerPage * numPages \in Nat \ {0}
    BY SizesAssumption
  <2>2. QED
    BY <2>1, SizesType, SizesAssumption
<1>3. nextEnqueue \in EPtr
  BY <1>2 DEF Init, EPtr
<1>4. TypeOK
  BY <1>1, <1>3 DEF Init, TypeOK, Element
<1>5. 0 % numElementsPerPage = 0
  BY SizesAssumption
<1>6. PositionsAligned
  BY <1>5 DEF Init, PositionsAligned, Aligned
<1>7. SlowestLagsMost /\ CountersBounded
  BY <1>1, SizesType DEF Init, SlowestLagsMost, CountersBounded
<1>8. QED
  BY <1>4, <1>6, <1>7 DEF IInv

(***************************************************************************)
(* What a read by the slowest reader does to the counters.                 *)
(***************************************************************************)
LEMMA RebaseCounters ==
    ASSUME IInv, NEW r \in Reader, r = slowestReader, ~isEmpty(r), Rebase(r)
    PROVE  /\ totalEnqueued' \in Nat
           /\ totalDequeued' \in [Reader -> Nat]
           /\ slowestReader' \in Reader
           /\ SlowestLagsMost'
           /\ CountersBounded'
           /\ \A s \in Reader :
                 totalEnqueued' - totalDequeued'[s] =
                   IF s = r THEN totalEnqueued - totalDequeued[s] - 1
                            ELSE totalEnqueued - totalDequeued[s]
<1> DEFINE c == totalDequeued[r]
<1>1. /\ totalEnqueued \in Nat /\ c \in Nat /\ maxElements \in Nat
      /\ \A s \in Reader : /\ totalDequeued[s] \in Nat
                            /\ c <= totalDequeued[s]
                            /\ totalDequeued[s] <= totalEnqueued
  BY SizesType DEF IInv, TypeOK, SlowestLagsMost
<1>2. c < totalEnqueued /\ totalEnqueued - c <= maxElements
  BY <1>1 DEF isEmpty, IInv, CountersBounded
<1>3. totalEnqueued' = totalEnqueued - c
  BY DEF Rebase
<1>4. totalDequeued' = [s \in Reader |-> IF s = r THEN 1 ELSE totalDequeued[s] - c]
  BY DEF Rebase
<1>5. /\ totalEnqueued' \in Nat
      /\ totalDequeued' \in [Reader -> Nat]
  BY <1>1, <1>2, <1>3, <1>4
<1>6. /\ slowestReader' \in Reader
      /\ totalDequeued'[slowestReader'] <= 1
      /\ \A s \in Reader : totalDequeued'[slowestReader'] <= totalDequeued'[s]
  <2>1. CASE Level(r) = {}
    <3>1. slowestReader' = r
      BY <2>1 DEF Rebase
    <3>2. \A s \in Reader \ {r} : totalDequeued[s] # c
      BY <2>1 DEF Level
    <3>3. \A s \in Reader : 1 <= totalDequeued'[s]
      BY <1>1, <1>4, <3>2
    <3>4. QED
      BY <1>4, <3>1, <3>3
  <2>2. CASE Level(r) # {}
    <3>1. slowestReader' \in Level(r)
      BY <2>2, MaxReader DEF Rebase, Level
    <3>2. slowestReader' \in Reader /\ slowestReader' # r /\ totalDequeued[slowestReader'] = c
      BY <3>1 DEF Level
    <3>3. totalDequeued'[slowestReader'] = 0
      BY <1>1, <1>4, <3>2
    <3>4. QED
      BY <1>5, <3>2, <3>3
  <2>3. QED
    BY <2>1, <2>2
<1>7. \A s \in Reader : totalDequeued'[s] <= totalEnqueued'
  BY <1>1, <1>2, <1>3, <1>4
<1>8. SlowestLagsMost'
  BY <1>6, <1>7 DEF SlowestLagsMost
<1>9. CountersBounded'
  <2>1. totalEnqueued' <= maxElements
    BY <1>2, <1>3
  <2>2. totalDequeued'[slowestReader'] \in Nat
    BY <1>5, <1>6
  <2>3. QED
    BY <1>1, <1>5, <1>6, <2>1, <2>2 DEF CountersBounded
<1>10. QED
  BY <1>1, <1>3, <1>4, <1>5, <1>6, <1>8, <1>9

LEMMA AdvanceCounters ==
    ASSUME IInv, NEW r \in Reader, r # slowestReader, ~isEmpty(r), Advance(r)
    PROVE  /\ totalEnqueued' \in Nat
           /\ totalDequeued' \in [Reader -> Nat]
           /\ slowestReader' \in Reader
           /\ SlowestLagsMost'
           /\ CountersBounded'
           /\ \A s \in Reader :
                 totalEnqueued' - totalDequeued'[s] =
                   IF s = r THEN totalEnqueued - totalDequeued[s] - 1
                            ELSE totalEnqueued - totalDequeued[s]
<1>1. /\ totalEnqueued \in Nat /\ maxElements \in Nat /\ slowestReader \in Reader
      /\ totalDequeued \in [Reader -> Nat]
      /\ \A s \in Reader : /\ totalDequeued[slowestReader] <= totalDequeued[s]
                            /\ totalDequeued[s] <= totalEnqueued
  BY SizesType DEF IInv, TypeOK, SlowestLagsMost
<1>2. totalDequeued[r] < totalEnqueued
  BY <1>1 DEF isEmpty
<1>3. /\ totalEnqueued' = totalEnqueued
      /\ slowestReader' = slowestReader
      /\ totalDequeued' \in [Reader -> Nat]
      /\ \A s \in Reader : totalDequeued'[s] =
             IF s = r THEN totalDequeued[s] + 1 ELSE totalDequeued[s]
  BY <1>1 DEF Advance
<1>4. SlowestLagsMost'
  BY <1>1, <1>2, <1>3 DEF SlowestLagsMost
<1>5. totalDequeued'[slowestReader'] = totalDequeued[slowestReader]
  BY <1>1, <1>3
<1>6. CountersBounded'
  BY <1>3, <1>5 DEF IInv, CountersBounded
<1>7. QED
  BY <1>1, <1>3, <1>4, <1>6

LEMMA StepIInv == IInv /\ [Next]_vars => IInv'
<1> SUFFICES ASSUME IInv, [Next]_vars PROVE IInv'
  OBVIOUS
<1> USE DEF IInv
<1>1. ASSUME NEW t \in Tuple, newTuple(t) PROVE IInv'
  <2>1. UNCHANGED <<ring, count, held>>
    BY <1>1 DEF newTuple
  <2>2. refs' \in [Tuple -> Int] /\ inHand' \subseteq Tuple
    BY <1>1 DEF newTuple, TypeOK
  <2>3. QED
    BY <2>1, <2>2 DEF ring, count, TypeOK, PositionsAligned, Aligned,
                      SlowestLagsMost, CountersBounded
<1>2. ASSUME NEW e \in Element, enqueue(e) PROVE IInv'
  <2>1. /\ nextEnqueue' \in EPtr
        /\ Aligned(nextEnqueue)'
    <3>1. nextEnqueue \in EPtr /\ Aligned(nextEnqueue)
      BY DEF TypeOK, PositionsAligned
    <3>2. QED
      BY <1>2, <3>1, IncrStep DEF enqueue, Aligned
  <2>2. slots' \in [Address -> Element]
    BY <1>2 DEF enqueue, TypeOK
  <2>3. refs' \in [Tuple -> Int]
    BY <1>2, SizesAssumption DEF enqueue, addRef, TypeOK, Element
  <2>4. inHand' \subseteq Tuple
    BY <1>2 DEF enqueue, TypeOK
  <2>5. /\ totalEnqueued' = totalEnqueued + 1
        /\ UNCHANGED <<nextDequeue, totalDequeued, slowestReader, held>>
    BY <1>2 DEF enqueue
  <2>6. TypeOK'
    BY <2>1, <2>2, <2>3, <2>4, <2>5 DEF TypeOK
  <2>7. PositionsAligned'
    BY <2>1, <2>5 DEF PositionsAligned, Aligned
  <2>8. SlowestLagsMost'
    BY <2>5 DEF SlowestLagsMost, TypeOK
  <2>9. CountersBounded'
    <3>1. /\ totalEnqueued \in Nat /\ totalDequeued[slowestReader] \in Nat
          /\ maxElements \in Nat
      BY SizesType DEF TypeOK
    <3>2. totalEnqueued - totalDequeued[slowestReader] # maxElements
      BY <1>2 DEF enqueue, isFull
    <3>3. QED
      BY <2>5, <3>1, <3>2 DEF CountersBounded
  <2>10. QED
    BY <2>6, <2>7, <2>8, <2>9
<1>3. ASSUME NEW r \in Reader, dequeue(r) PROVE IInv'
  <2>1. /\ nextDequeue' = [nextDequeue EXCEPT ![r] = INCR(@)]
        /\ UNCHANGED <<slots, nextEnqueue, refs, inHand>>
        /\ ~isEmpty(r)
    BY <1>3 DEF dequeue
  <2>2. /\ INCR(nextDequeue[r]) \in EPtr
        /\ Aligned(INCR(nextDequeue[r]))
    BY IncrStep DEF TypeOK, PositionsAligned
  <2>3. nextDequeue' \in [Reader -> EPtr]
    BY <2>1, <2>2 DEF TypeOK
  <2>4. PositionsAligned'
    BY <2>1, <2>2 DEF PositionsAligned, Aligned, TypeOK
  <2>5. held' \in [Reader -> SUBSET Tuple]
    <3>1. slots[nextDequeue[r].element] \in Element
      BY DEF TypeOK, EPtr
    <3>2. {slots[nextDequeue[r].element]} \ {Heartbeat} \subseteq Tuple
      BY <3>1 DEF Element
    <3>3. QED
      BY <1>3, <3>2 DEF dequeue, TypeOK
  <2>6. /\ totalEnqueued' \in Nat
        /\ totalDequeued' \in [Reader -> Nat]
        /\ slowestReader' \in Reader
        /\ SlowestLagsMost'
        /\ CountersBounded'
    <3>1. CASE r = slowestReader
      BY <1>3, <2>1, <3>1, RebaseCounters DEF dequeue
    <3>2. CASE r # slowestReader
      BY <1>3, <2>1, <3>2, AdvanceCounters DEF dequeue
    <3>3. QED
      BY <3>1, <3>2
  <2>7. TypeOK'
    BY <2>1, <2>3, <2>5, <2>6 DEF TypeOK
  <2>8. QED
    BY <2>4, <2>6, <2>7
<1>4. ASSUME NEW r \in Reader, NEW t \in Tuple, decrRef(r, t) PROVE IInv'
  <2>1. UNCHANGED <<ring, count, inHand>>
    BY <1>4 DEF decrRef
  <2>2. refs' \in [Tuple -> Int] /\ held' \in [Reader -> SUBSET Tuple]
    BY <1>4 DEF decrRef, TypeOK
  <2>3. QED
    BY <2>1, <2>2 DEF ring, count, TypeOK, PositionsAligned, Aligned,
                      SlowestLagsMost, CountersBounded
<1>5. CASE UNCHANGED vars
  BY <1>5 DEF vars, ring, count, owned, TypeOK, PositionsAligned, Aligned,
              SlowestLagsMost, CountersBounded
<1>6. QED
  BY <1>1, <1>2, <1>3, <1>4, <1>5 DEF Next

(***************************************************************************)
(* The variables of the shared queue keep their types: in particular every *)
(* position stays on the ring and the unsigned counters never go negative. *)
(***************************************************************************)
THEOREM TypeCorrect == Spec => []TypeOK
<1>1. IInv => TypeOK
  BY DEF IInv
<1>2. QED
  BY <1>1, InitIInv, StepIInv, PTL DEF Spec

(***************************************************************************)
(* The reader that SharedQueueWriter::enqueue() trusts to decide whether   *)
(* there is space is never ahead of another one.                           *)
(***************************************************************************)
THEOREM SlowestIsSlowest == Spec => []SlowestLagsMost
<1>1. IInv => SlowestLagsMost
  BY DEF IInv
<1>2. QED
  BY <1>1, InitIInv, StepIInv, PTL DEF Spec

(***************************************************************************)
(* The counters that dequeue() rebases stay within one of the ring's size. *)
(***************************************************************************)
THEOREM CountersStayBounded == Spec => []CountersBounded
<1>1. IInv => CountersBounded
  BY DEF IInv
<1>2. QED
  BY <1>1, InitIInv, StepIInv, PTL DEF Spec

-----------------------------------------------------------------------------
(***************************************************************************)
(* The refinement.  Besides the invariant above it needs that the counters *)
(* measure the distance between the writer and each reader on the ring.    *)
(***************************************************************************)
LEMMA ModAdd ==
    ASSUME NEW m \in Nat \ {0}, NEW a \in Nat, NEW b \in Nat
    PROVE  ((a % m) + b) % m = (a + b) % m
<1> DEFINE q == a \div m
           r == a % m
           q2 == (r + b) \div m
           r2 == (r + b) % m
<1>1. q \in Nat /\ r \in Nat /\ a = m * q + r
  BY DivMod
<1>2. q2 \in Nat /\ r2 \in 0 .. m - 1 /\ r + b = m * q2 + r2
  <2>1. r + b \in Nat
    BY <1>1
  <2>2. QED
    BY <2>1, DivMod
<1> HIDE DEF q, r, q2, r2
<1>3. a + b = m * (q + q2) + r2
  BY <1>1, <1>2
<1>4. (m * (q + q2) + r2) % m = r2
  <2>1. q + q2 \in Nat
    BY <1>1, <1>2
  <2>2. QED
    BY <1>2, <2>1, DivModUnique
<1>5. QED
  BY <1>3, <1>4 DEF r, r2

LEMMA ModDistinct ==
    ASSUME NEW m \in Nat \ {0}, NEW a \in Nat, NEW b \in Nat, a < b, b < a + m
    PROVE  a % m # b % m
<1> SUFFICES ASSUME a % m = b % m PROVE FALSE
  OBVIOUS
<1> DEFINE qa == a \div m
           qb == b \div m
<1>1. qa \in Nat /\ a = m * qa + (a % m) /\ a % m \in 0 .. m - 1
  BY DivMod
<1>2. qb \in Nat /\ b = m * qb + (b % m)
  BY DivMod
<1> HIDE DEF qa, qb
<1>3. m * qa < m * qb /\ m * qb < m * qa + m
  BY <1>1, <1>2
<1>4. ASSUME qa < qb PROVE FALSE
  BY <1>1, <1>2, <1>3, <1>4, MulMono
<1>5. ASSUME qb < qa PROVE FALSE
  BY <1>1, <1>2, <1>3, <1>5, MulMono
<1>6. ASSUME qa = qb PROVE FALSE
  BY <1>1, <1>2, <1>3, <1>6
<1>7. QED
  BY <1>1, <1>2, <1>4, <1>5, <1>6

CountersMeasureRing ==
    \A r \in Reader :
        nextEnqueue.element = (nextDequeue[r].element + Lag(r)) % maxElements

RInv == IInv /\ CountersMeasureRing

LEMMA RInvFacts ==
    ASSUME RInv
    PROVE  /\ maxElements \in Nat \ {0}
           /\ \A r \in Reader : /\ nextDequeue[r].element \in Nat
                                 /\ Lag(r) \in 0 .. maxElements
           /\ Address = 0 .. maxElements - 1
           /\ slots \in [Address -> Element]
<1>1. maxElements \in Nat \ {0} /\ Address = 0 .. maxElements - 1
  BY SizesType DEF Address
<1>2. \A r \in Reader : nextDequeue[r].element \in Nat
  BY <1>1 DEF RInv, IInv, TypeOK, EPtr
<1>3. \A r \in Reader : Lag(r) \in 0 .. maxElements
  <2> SUFFICES ASSUME NEW r \in Reader PROVE Lag(r) \in 0 .. maxElements
    OBVIOUS
  <2>1. /\ totalEnqueued \in Nat /\ totalDequeued[r] \in Nat
        /\ totalDequeued[slowestReader] \in Nat
    BY DEF RInv, IInv, TypeOK
  <2>2. /\ totalDequeued[slowestReader] <= totalDequeued[r]
        /\ totalDequeued[r] <= totalEnqueued
        /\ totalEnqueued - totalDequeued[slowestReader] <= maxElements
    BY DEF RInv, IInv, SlowestLagsMost, CountersBounded
  <2>3. QED
    BY <1>1, <2>1, <2>2 DEF Lag
<1>4. QED
  BY <1>1, <1>2, <1>3 DEF RInv, IInv, TypeOK

LEMMA InitRefines == Init => RInv /\ Abstract!Init
<1> SUFFICES ASSUME Init PROVE RInv /\ Abstract!Init
  OBVIOUS
<1>1. \A r \in Reader : Lag(r) = 0
  BY DEF Init, Lag
<1>2. 0 % maxElements = 0
  BY SizesType
<1>3. CountersMeasureRing
  BY <1>1, <1>2 DEF Init, CountersMeasureRing
<1>4. \A r \in Reader : Unread(r) = <<>>
  BY <1>1 DEF Unread
<1>5. QED
  BY <1>3, <1>4, InitIInv DEF RInv, Abstract!Init

(***************************************************************************)
(* Writing: each reader's unread stretch grows by the element, because the *)
(* slot written lies outside every reader's stretch.                       *)
(***************************************************************************)
LEMMA EnqueueRefines ==
    ASSUME RInv, IInv', NEW e \in Element, enqueue(e)
    PROVE  Abstract!Enqueue(e) /\ CountersMeasureRing'
<1> DEFINE m == maxElements
           d(r) == nextDequeue[r].element
<1>1. /\ m \in Nat \ {0}
      /\ \A r \in Reader : d(r) \in Nat /\ Lag(r) \in 0 .. m
      /\ Address = 0 .. m - 1
      /\ slots \in [Address -> Element]
  BY RInvFacts
<1>2. \A r \in Reader : Lag(r) < m
  <2> SUFFICES ASSUME NEW r \in Reader PROVE Lag(r) < m
    OBVIOUS
  <2>1. /\ totalEnqueued \in Nat /\ totalDequeued[r] \in Nat
        /\ totalDequeued[slowestReader] \in Nat
        /\ totalDequeued[slowestReader] <= totalDequeued[r]
        /\ totalEnqueued - totalDequeued[slowestReader] <= m
    BY DEF RInv, IInv, TypeOK, SlowestLagsMost, CountersBounded
  <2>2. totalEnqueued - totalDequeued[slowestReader] # m
    BY DEF enqueue, isFull
  <2>3. QED
    BY <1>1, <2>1, <2>2 DEF Lag
<1>3. \A r \in Reader : Lag(r)' = Lag(r) + 1 /\ nextDequeue'[r] = nextDequeue[r]
  BY DEF enqueue, Lag, RInv, IInv, TypeOK
<1>4. \A r \in Reader : nextEnqueue.element = (d(r) + Lag(r)) % m
  BY DEF RInv, CountersMeasureRing
<1>5. nextEnqueue.element \in Address
  BY DEF RInv, IInv, TypeOK, EPtr
<1>6. slots' = [slots EXCEPT ![nextEnqueue.element] = e]
  BY DEF enqueue
<1>7. nextEnqueue'.element = (nextEnqueue.element + 1) % m
  BY IncrStep DEF enqueue, RInv, IInv, TypeOK, PositionsAligned
<1>8. CountersMeasureRing'
  <2> SUFFICES ASSUME NEW r \in Reader
               PROVE  nextEnqueue'.element = (d(r) + (Lag(r) + 1)) % m
    BY <1>3 DEF CountersMeasureRing, maxElements
  <2>1. d(r) + Lag(r) \in Nat
    BY <1>1
  <2>2. (((d(r) + Lag(r)) % m) + 1) % m = (d(r) + Lag(r) + 1) % m
    BY <1>1, <2>1, ModAdd
  <2>3. d(r) + Lag(r) + 1 = d(r) + (Lag(r) + 1)
    BY <1>1
  <2>4. QED
    BY <1>4, <1>7, <2>2, <2>3
<1>9. ASSUME NEW r \in Reader PROVE Unread(r)' = Append(Unread(r), e)
  <2> DEFINE L == Lag(r)
             addr(i) == (d(r) + (i - 1)) % m
  <2>1. L \in Nat /\ L < m /\ d(r) \in Nat
    BY <1>1, <1>2
  <2>2. \A i \in 1 .. L + 1 : addr(i) \in Address
    BY <1>1, <2>1
  <2>3. Unread(r) = [i \in 1 .. L |-> slots[addr(i)]]
    BY DEF Unread
  <2>4. Unread(r)' = [i \in 1 .. L + 1 |-> slots'[addr(i)]]
    BY <1>3 DEF Unread, maxElements
  <2>5. addr(L + 1) = nextEnqueue.element
    BY <1>4, <2>1
  <2>6. slots'[addr(L + 1)] = e
    BY <1>1, <1>5, <1>6, <2>5
  <2>7. ASSUME NEW i \in 1 .. L PROVE slots'[addr(i)] = slots[addr(i)]
    <3>1. d(r) + (i - 1) \in Nat /\ d(r) + L \in Nat
      BY <2>1
    <3>2. d(r) + (i - 1) < d(r) + L /\ d(r) + L < d(r) + (i - 1) + m
      BY <1>1, <2>1
    <3>3. addr(i) # (d(r) + L) % m
      BY <1>1, <3>1, <3>2, ModDistinct
    <3>4. addr(i) # nextEnqueue.element /\ addr(i) \in Address
      BY <1>4, <2>1, <2>2, <3>3
    <3>5. QED
      BY <1>1, <1>6, <3>4
  <2> HIDE DEF L, addr
  <2>8. \A i \in 1 .. L : slots[addr(i)] \in Element
    BY <1>1, <2>1, <2>2
  <2>9. /\ Unread(r) \in Seq(Element)
        /\ Len(Unread(r)) = L
    BY <2>1, <2>3, <2>8
  <2>10. Append(Unread(r), e) = [i \in 1 .. L + 1 |-> IF i = L + 1 THEN e ELSE slots[addr(i)]]
    BY <2>1, <2>3, <2>9
  <2>11. \A i \in 1 .. L + 1 : slots'[addr(i)] = IF i = L + 1 THEN e ELSE slots[addr(i)]
    BY <2>1, <2>6, <2>7
  <2>12. QED
    BY <2>4, <2>10, <2>11
<1>10. \A r \in Reader : Len(Unread(r)) < m
  BY <1>1, <1>2 DEF Unread
<1>11. QED
  BY <1>8, <1>9, <1>10 DEF Abstract!Enqueue, Abstract!HasSpace

(***************************************************************************)
(* Reading: the reader's stretch loses its first element, the others keep  *)
(* theirs although every counter may have been rebased.                    *)
(***************************************************************************)
LEMMA DequeueRefines ==
    ASSUME RInv, NEW r \in Reader, dequeue(r)
    PROVE  Abstract!Dequeue(r) /\ CountersMeasureRing'
<1> DEFINE m == maxElements
           d(s) == nextDequeue[s].element
<1>1. /\ m \in Nat \ {0}
      /\ \A s \in Reader : d(s) \in Nat /\ Lag(s) \in 0 .. m
      /\ Address = 0 .. m - 1
      /\ slots \in [Address -> Element]
  BY RInvFacts
<1>2. /\ nextDequeue' = [nextDequeue EXCEPT ![r] = INCR(@)]
      /\ UNCHANGED <<slots, nextEnqueue>>
      /\ ~isEmpty(r)
  BY DEF dequeue
<1>3. \A s \in Reader : Lag(s)' = IF s = r THEN Lag(s) - 1 ELSE Lag(s)
  <2>1. CASE r = slowestReader
    BY <1>2, <2>1, RebaseCounters DEF dequeue, Lag, RInv
  <2>2. CASE r # slowestReader
    BY <1>2, <2>2, AdvanceCounters DEF dequeue, Lag, RInv
  <2>3. QED
    BY <2>1, <2>2
<1>4. Lag(r) \in 1 .. m
  <2>1. totalEnqueued # totalDequeued[r] /\ totalEnqueued \in Nat /\ totalDequeued[r] \in Nat
    BY <1>2 DEF isEmpty, RInv, IInv, TypeOK
  <2>2. QED
    BY <1>1, <2>1 DEF Lag
<1>5. nextDequeue'[r].element = (d(r) + 1) % m
  BY <1>2, IncrStep DEF RInv, IInv, TypeOK, PositionsAligned
<1>6. \A s \in Reader \ {r} : nextDequeue'[s] = nextDequeue[s]
  BY <1>2 DEF RInv, IInv, TypeOK
<1>7. ASSUME NEW j \in Nat PROVE (((d(r) + 1) % m) + j) % m = (d(r) + 1 + j) % m
  <2>1. d(r) + 1 \in Nat
    BY <1>1
  <2>2. QED
    BY <1>1, <2>1, ModAdd
<1>8. CountersMeasureRing'
  <2> SUFFICES ASSUME NEW s \in Reader
               PROVE  nextEnqueue.element = (nextDequeue'[s].element + Lag(s)') % m
    BY <1>2 DEF CountersMeasureRing, maxElements
  <2>1. nextEnqueue.element = (d(s) + Lag(s)) % m
    BY DEF RInv, CountersMeasureRing
  <2>2. CASE s = r
    <3>1. Lag(r) - 1 \in Nat /\ d(r) + 1 + (Lag(r) - 1) = d(r) + Lag(r)
      BY <1>1, <1>4
    <3>2. (((d(r) + 1) % m) + (Lag(r) - 1)) % m = (d(r) + 1 + (Lag(r) - 1)) % m
      BY <1>7, <3>1
    <3>3. QED
      BY <1>3, <1>5, <2>1, <2>2, <3>1, <3>2
  <2>3. CASE s # r
    BY <1>3, <1>6, <2>1, <2>3
  <2>4. QED
    BY <2>2, <2>3
<1>9. ASSUME NEW s \in Reader \ {r} PROVE Unread(s)' = Unread(s)
  <2>1. Lag(s)' = Lag(s) /\ nextDequeue'[s] = nextDequeue[s] /\ slots' = slots
    BY <1>2, <1>3, <1>6
  <2>2. QED
    BY <2>1 DEF Unread, maxElements
<1>10. Unread(r)' = Tail(Unread(r)) /\ Unread(r) # <<>>
  <2> DEFINE L == Lag(r)
             addr(i) == (d(r) + (i - 1)) % m
  <2>1. L \in Nat /\ 1 <= L /\ d(r) \in Nat
    BY <1>1, <1>4
  <2>2. Unread(r) = [i \in 1 .. L |-> slots[addr(i)]]
    BY DEF Unread
  <2>3. Unread(r)' = [i \in 1 .. L - 1 |-> slots[(nextDequeue'[r].element + (i - 1)) % m]]
    BY <1>2, <1>3 DEF Unread, maxElements
  <2>4. \A i \in 1 .. L - 1 : (nextDequeue'[r].element + (i - 1)) % m = addr(i + 1)
    <3> SUFFICES ASSUME NEW i \in 1 .. L - 1
                 PROVE  (((d(r) + 1) % m) + (i - 1)) % m = (d(r) + ((i + 1) - 1)) % m
      BY <1>5
    <3>1. i - 1 \in Nat /\ d(r) + 1 + (i - 1) = d(r) + ((i + 1) - 1)
      BY <2>1
    <3>2. (((d(r) + 1) % m) + (i - 1)) % m = (d(r) + 1 + (i - 1)) % m
      BY <1>7, <3>1
    <3>3. QED
      BY <3>1, <3>2
  <2>5. \A i \in 1 .. L : addr(i) \in Address
    BY <1>1, <2>1
  <2> HIDE DEF L, addr
  <2>6. Unread(r) \in Seq(Element) /\ Len(Unread(r)) = L
    BY <1>1, <2>1, <2>2, <2>5
  <2>7. Tail(Unread(r)) = [i \in 1 .. L - 1 |-> slots[addr(i + 1)]]
    BY <2>1, <2>2, <2>6
  <2>8. Unread(r)' = [i \in 1 .. L - 1 |-> slots[addr(i + 1)]]
    BY <2>3, <2>4
  <2>9. QED
    BY <2>1, <2>6, <2>7, <2>8
<1>11. QED
  BY <1>8, <1>9, <1>10 DEF Abstract!Dequeue

LEMMA UnreadStutters ==
    ASSUME RInv, UNCHANGED <<ring, count>>
    PROVE  UNCHANGED [r \in Reader |-> Unread(r)] /\ CountersMeasureRing'
BY DEF RInv, CountersMeasureRing, Unread, Lag, ring, count, maxElements

LEMMA StepRefines ==
    RInv /\ [Next]_vars => RInv' /\ [Abstract!Next]_([r \in Reader |-> Unread(r)])
<1> SUFFICES ASSUME RInv, [Next]_vars
             PROVE  RInv' /\ [Abstract!Next]_([r \in Reader |-> Unread(r)])
  OBVIOUS
<1>1. IInv'
  BY StepIInv DEF RInv
<1>2. ASSUME NEW t \in Tuple, newTuple(t)
      PROVE  CountersMeasureRing' /\ UNCHANGED [r \in Reader |-> Unread(r)]
  BY <1>2, UnreadStutters DEF newTuple
<1>3. ASSUME NEW e \in Element, enqueue(e)
      PROVE  CountersMeasureRing' /\ Abstract!Next
  BY <1>1, <1>3, EnqueueRefines DEF Abstract!Next
<1>4. ASSUME NEW r \in Reader, dequeue(r)
      PROVE  CountersMeasureRing' /\ Abstract!Next
  BY <1>4, DequeueRefines DEF Abstract!Next
<1>5. ASSUME NEW r \in Reader, NEW t \in Tuple, decrRef(r, t)
      PROVE  CountersMeasureRing' /\ UNCHANGED [s \in Reader |-> Unread(s)]
  BY <1>5, UnreadStutters DEF decrRef
<1>6. ASSUME UNCHANGED vars
      PROVE  CountersMeasureRing' /\ UNCHANGED [r \in Reader |-> Unread(r)]
  BY <1>6, UnreadStutters DEF vars
<1>7. CountersMeasureRing' /\ (Abstract!Next \/ UNCHANGED [r \in Reader |-> Unread(r)])
  BY <1>2, <1>3, <1>4, <1>5, <1>6 DEF Next
<1>8. QED
  BY <1>1, <1>7 DEF RInv

(***************************************************************************)
(* The paged ring with its rebased counters implements the broadcast       *)
(* queue: whatever the number of readers, pages and slots, every reader    *)
(* dequeues every element that was enqueued, once and in order.            *)
(***************************************************************************)
THEOREM Refinement == Spec => ImplementsBroadcast
<1>1. Init => RInv /\ Abstract!Init
  BY InitRefines
<1>2. RInv /\ [Next]_vars => RInv' /\ [Abstract!Next]_([r \in Reader |-> Unread(r)])
  BY StepRefines
<1>3. QED
  BY <1>1, <1>2, PTL DEF Spec, ImplementsBroadcast, Abstract!Spec

-----------------------------------------------------------------------------
(***************************************************************************)
(* The references.  That their count is right is not inductive: enqueue()  *)
(* adds the readers' references for a tuple it takes to be nobody's, and   *)
(* decrRef() gives one back on the faith that its reader has no other.     *)
(***************************************************************************)
OwnedOnce ==
    /\ \A t \in inHand, r \in Reader : ~Awaits(r, t) /\ t \notin held[r]
    /\ \A r \in Reader, t \in Tuple : t \in held[r] => ~Awaits(r, t)
    /\ \A r \in Reader : \A i, j \in 1 .. Lag(r) :
          Unread(r)[i] = Unread(r)[j] /\ Unread(r)[i] \in Tuple => i = j

CInv == RInv /\ RefsCounted /\ OwnedOnce

Owners(t) == {r \in Reader : Awaits(r, t) \/ t \in held[r]}

LEMMA ReadersFinite ==
    /\ IsFiniteSet(Reader)
    /\ Cardinality(Reader) = numReaders
<1>1. 0 \in Int /\ numReaders - 1 \in Int /\ ~(0 > numReaders - 1) /\ numReaders \in Nat
  BY SizesAssumption
<1>2. /\ IsFiniteSet(0 .. numReaders - 1)
      /\ Cardinality(0 .. numReaders - 1) =
             IF 0 > numReaders - 1 THEN 0 ELSE (numReaders - 1) - 0 + 1
  BY <1>1, FS_Interval
<1>3. QED
  BY <1>1, <1>2 DEF Reader

LEMMA OwnersFinite ==
    ASSUME NEW t
    PROVE  IsFiniteSet(Owners(t)) /\ Cardinality(Owners(t)) \in Nat
<1>1. Owners(t) \in SUBSET Reader
  BY DEF Owners
<1>2. IsFiniteSet(Owners(t))
  BY <1>1, ReadersFinite, FS_Subset
<1>3. QED
  BY <1>2, FS_CardinalityType

LEMMA UnreadIsSequence ==
    ASSUME RInv, NEW r \in Reader
    PROVE  /\ Unread(r) \in Seq(Element)
           /\ Len(Unread(r)) = Lag(r)
           /\ Lag(r) \in Nat
<1>1. /\ Lag(r) \in Nat /\ nextDequeue[r].element \in Nat
      /\ maxElements \in Nat \ {0}
      /\ Address = 0 .. maxElements - 1
      /\ slots \in [Address -> Element]
  BY RInvFacts
<1>2. \A i \in 1 .. Lag(r) :
          (nextDequeue[r].element + (i - 1)) % maxElements \in Address
  BY <1>1
<1>3. \A i \in 1 .. Lag(r) :
          slots[(nextDequeue[r].element + (i - 1)) % maxElements] \in Element
  BY <1>1, <1>2
<1>4. QED
  BY <1>1, <1>3 DEF Unread

LEMMA InitCounts == Init => CInv
<1> SUFFICES ASSUME Init PROVE CInv
  OBVIOUS
<1>1. RInv
  BY InitRefines
<1>2. \A r \in Reader : Lag(r) = 0 /\ held[r] = {}
  BY DEF Init, Lag
<1>3. \A r \in Reader : \A t : ~Awaits(r, t)
  BY <1>2 DEF Awaits
<1>4. RefsCounted
  <2> SUFFICES ASSUME NEW t \in Tuple
               PROVE  refs[t] = Cardinality(Owners(t)) + (IF t \in inHand THEN 1 ELSE 0)
    BY DEF RefsCounted, Owners
  <2>1. Owners(t) = {}
    BY <1>2, <1>3 DEF Owners
  <2>2. refs[t] = 0 /\ t \notin inHand
    BY DEF Init
  <2>3. Cardinality(Owners(t)) = 0
    BY <2>1, FS_EmptySet
  <2>4. QED
    BY <2>2, <2>3
<1>5. OwnedOnce
  BY <1>2, <1>3 DEF OwnedOnce, Init
<1>6. QED
  BY <1>1, <1>4, <1>5 DEF CInv

(***************************************************************************)
(* A tuple without references is nowhere, so the store hands out no tuple  *)
(* that somebody may still see.                                            *)
(***************************************************************************)
LEMMA FreeIsNowhere ==
    ASSUME CInv, NEW t \in Tuple, refs[t] = 0
    PROVE  /\ t \notin inHand
           /\ \A r \in Reader : ~Awaits(r, t) /\ t \notin held[r]
<1>1. Cardinality(Owners(t)) + (IF t \in inHand THEN 1 ELSE 0) = 0
  BY DEF CInv, RefsCounted, Owners
<1>2. IsFiniteSet(Owners(t)) /\ Cardinality(Owners(t)) \in Nat
  BY OwnersFinite
<1>3. t \notin inHand /\ Cardinality(Owners(t)) = 0
  BY <1>1, <1>2
<1>4. Owners(t) = {}
  BY <1>2, <1>3, FS_EmptySet
<1>5. QED
  BY <1>3, <1>4 DEF Owners

LEMMA NewTupleCounts ==
    ASSUME CInv, RInv', NEW t \in Tuple, newTuple(t)
    PROVE  RefsCounted' /\ OwnedOnce'
<1>1. /\ refs[t] = 0 /\ refs \in [Tuple -> Int]
      /\ refs' = [refs EXCEPT ![t] = 1]
      /\ inHand' = inHand \cup {t}
      /\ held' = held
  BY DEF newTuple, CInv, RInv, IInv, TypeOK
<1>2. \A r \in Reader : Lag(r)' = Lag(r) /\ Unread(r)' = Unread(r)
  BY DEF newTuple, ring, count, Lag, Unread, maxElements
<1>3. \A r \in Reader : \A u : Awaits(r, u)' <=> Awaits(r, u)
  BY <1>2 DEF Awaits
<1>4. /\ t \notin inHand
      /\ \A r \in Reader : ~Awaits(r, t) /\ t \notin held[r]
  BY <1>1, FreeIsNowhere
<1>5. RefsCounted'
  <2> SUFFICES ASSUME NEW u \in Tuple
               PROVE  refs'[u] = Cardinality(Owners(u)') + (IF u \in inHand' THEN 1 ELSE 0)
    BY DEF RefsCounted, Owners
  <2>1. Owners(u)' = Owners(u)
    BY <1>1, <1>3 DEF Owners
  <2>2. refs[u] = Cardinality(Owners(u)) + (IF u \in inHand THEN 1 ELSE 0)
    BY DEF CInv, RefsCounted, Owners
  <2>3. Cardinality(Owners(u)) \in Nat
    BY OwnersFinite
  <2>4. CASE u = t
    BY <1>1, <1>4, <2>1, <2>2, <2>3, <2>4
  <2>5. CASE u # t
    BY <1>1, <2>1, <2>2, <2>5
  <2>6. QED
    BY <2>4, <2>5
<1>6. OwnedOnce'
  BY <1>1, <1>2, <1>3, <1>4 DEF CInv, OwnedOnce
<1>7. QED
  BY <1>5, <1>6

(***************************************************************************)
(* Writing: the one reference of the hand becomes one of every reader.     *)
(***************************************************************************)
LEMMA EnqueueCounts ==
    ASSUME CInv, RInv', NEW e \in Element, enqueue(e)
    PROVE  RefsCounted' /\ OwnedOnce'
<1>1. /\ e \in inHand \cup {Heartbeat} /\ refs' = addRef(e)
      /\ inHand' = inHand \ {e} /\ held' = held
      /\ refs \in [Tuple -> Int] /\ inHand \subseteq Tuple
      /\ numReaders \in Nat \ {0}
  BY SizesAssumption DEF enqueue, CInv, RInv, IInv, TypeOK
<1>2. \A r \in Reader : Unread(r)' = Append(Unread(r), e)
  <2>1. Abstract!Enqueue(e)
    BY EnqueueRefines DEF CInv, RInv
  <2>2. QED
    BY <2>1 DEF Abstract!Enqueue
<1>3. ASSUME NEW r \in Reader
      PROVE  /\ Lag(r) \in Nat /\ Lag(r)' = Lag(r) + 1
             /\ \A i \in 1 .. Lag(r) : Unread(r)'[i] = Unread(r)[i]
             /\ Unread(r)'[Lag(r) + 1] = e
  <2>1. /\ Unread(r) \in Seq(Element) /\ Len(Unread(r)) = Lag(r) /\ Lag(r) \in Nat
    BY UnreadIsSequence DEF CInv
  <2>2. Lag(r)' = Lag(r) + 1
    BY DEF enqueue, Lag, CInv, RInv, IInv, TypeOK
  <2>3. QED
    BY <1>2, <2>1, <2>2
<1>4. \A r \in Reader : \A t : Awaits(r, t)' <=> Awaits(r, t) \/ t = e
  <2> SUFFICES ASSUME NEW r \in Reader, NEW t
               PROVE  Awaits(r, t)' <=> Awaits(r, t) \/ t = e
    OBVIOUS
  <2>1. Awaits(r, t)' <=> \E i \in 1 .. Lag(r)' : Unread(r)'[i] = t
    BY DEF Awaits
  <2>2. Awaits(r, t) <=> \E i \in 1 .. Lag(r) : Unread(r)[i] = t
    BY DEF Awaits
  <2>3. QED
    BY <1>3, <2>1, <2>2
<1>5. ASSUME e # Heartbeat
      PROVE  /\ e \in inHand /\ e \in Tuple
             /\ \A r \in Reader : ~Awaits(r, e) /\ e \notin held[r]
  BY <1>1, <1>5 DEF CInv, OwnedOnce
<1>6. RefsCounted'
  <2> SUFFICES ASSUME NEW t \in Tuple
               PROVE  refs'[t] = Cardinality(Owners(t)') + (IF t \in inHand' THEN 1 ELSE 0)
    BY DEF RefsCounted, Owners
  <2>1. refs[t] = Cardinality(Owners(t)) + (IF t \in inHand THEN 1 ELSE 0)
    BY DEF CInv, RefsCounted, Owners
  <2>2. CASE t # e
    <3>1. Owners(t)' = Owners(t)
      BY <1>1, <1>4, <2>2 DEF Owners
    <3>2. refs'[t] = refs[t]
      BY <1>1, <2>2 DEF addRef
    <3>3. QED
      BY <1>1, <2>1, <2>2, <3>1, <3>2
  <2>3. CASE t = e
    <3>1. e # Heartbeat
      BY <2>3, HeartbeatAssumption
    <3>2. Owners(t) = {}
      BY <1>5, <2>3, <3>1 DEF Owners
    <3>3. Owners(t)' = Reader
      BY <1>4, <2>3 DEF Owners, Reader
    <3>4. Cardinality(Owners(t)) = 0 /\ Cardinality(Owners(t)') = numReaders
      BY <3>2, <3>3, FS_EmptySet, ReadersFinite
    <3>5. refs'[t] = refs[t] + (numReaders - 1)
      BY <1>1, <2>3, <3>1 DEF addRef
    <3>6. refs[t] = 1 /\ t \notin inHand'
      BY <1>1, <1>5, <2>1, <2>3, <3>1, <3>4
    <3>7. QED
      BY <1>1, <3>4, <3>5, <3>6
  <2>4. QED
    BY <2>2, <2>3
<1>7. OwnedOnce'
  <2>1. \A t \in inHand', r \in Reader : ~Awaits(r, t)' /\ t \notin held'[r]
    BY <1>1, <1>4 DEF CInv, OwnedOnce
  <2>2. \A r \in Reader, t \in Tuple : t \in held'[r] => ~Awaits(r, t)'
    BY <1>1, <1>4, <1>5, HeartbeatAssumption DEF CInv, OwnedOnce
  <2>3. ASSUME NEW r \in Reader, NEW i \in 1 .. Lag(r)', NEW j \in 1 .. Lag(r)',
               Unread(r)'[i] = Unread(r)'[j], Unread(r)'[i] \in Tuple
        PROVE  i = j
    <3> DEFINE L == Lag(r)
    <3>1. L \in Nat /\ i \in 1 .. L + 1 /\ j \in 1 .. L + 1
      BY <1>3
    <3>2. CASE i \in 1 .. L /\ j \in 1 .. L
      BY <1>3, <2>3, <3>2 DEF CInv, OwnedOnce
    <3>3. CASE i = L + 1 /\ j = L + 1
      BY <3>3
    <3>4. CASE i \in 1 .. L /\ j = L + 1
      <4>1. Unread(r)[i] = e /\ e \in Tuple
        BY <1>3, <2>3, <3>4
      <4>2. QED
        BY <1>5, <3>4, <4>1, HeartbeatAssumption DEF Awaits
    <3>5. CASE i = L + 1 /\ j \in 1 .. L
      <4>1. Unread(r)[j] = e /\ e \in Tuple
        BY <1>3, <2>3, <3>5
      <4>2. QED
        BY <1>5, <3>5, <4>1, HeartbeatAssumption DEF Awaits
    <3>6. (i \in 1 .. L \/ i = L + 1) /\ (j \in 1 .. L \/ j = L + 1)
      BY <3>1
    <3>7. QED
      BY <3>2, <3>3, <3>4, <3>5, <3>6
  <2>4. QED
    BY <2>1, <2>2, <2>3 DEF OwnedOnce
<1>8. QED
  BY <1>6, <1>7

(***************************************************************************)
(* Reading: the reader's reference is no longer to a tuple it awaits but   *)
(* to one it holds.                                                        *)
(***************************************************************************)
LEMMA DequeueCounts ==
    ASSUME CInv, RInv', NEW r \in Reader, dequeue(r)
    PROVE  RefsCounted' /\ OwnedOnce'
<1> DEFINE e == slots[nextDequeue[r].element]
           L == Lag(r)
<1>1. /\ refs' = refs /\ inHand' = inHand
      /\ held \in [Reader -> SUBSET Tuple]
      /\ held' = [held EXCEPT ![r] = @ \cup ({e} \ {Heartbeat})]
      /\ inHand \subseteq Tuple
  BY DEF dequeue, CInv, RInv, IInv, TypeOK
<1>2. /\ \A s \in Reader \ {r} : Unread(s)' = Unread(s)
      /\ Unread(r)' = Tail(Unread(r)) /\ Unread(r) # <<>>
  <2>1. Abstract!Dequeue(r)
    BY DequeueRefines DEF CInv
  <2>2. QED
    BY <2>1 DEF Abstract!Dequeue
<1>3. \A s \in Reader : /\ Unread(s) \in Seq(Element) /\ Len(Unread(s)) = Lag(s)
                         /\ Lag(s) \in Nat
  BY UnreadIsSequence DEF CInv
<1>4. \A s \in Reader : Lag(s)' = IF s = r THEN Lag(s) - 1 ELSE Lag(s)
  <2>1. CASE r = slowestReader
    BY <2>1, RebaseCounters DEF dequeue, Lag, CInv, RInv
  <2>2. CASE r # slowestReader
    BY <2>2, AdvanceCounters DEF dequeue, Lag, CInv, RInv
  <2>3. QED
    BY <2>1, <2>2
<1>5. /\ \A s \in Reader \ {r} : Lag(s)' = Lag(s)
      /\ L \in Nat /\ 1 <= L /\ Lag(r)' = L - 1
      /\ \A i \in 1 .. L - 1 : Unread(r)'[i] = Unread(r)[i + 1]
  <2>1. \A s \in Reader \ {r} : Lag(s)' = Lag(s)
    BY <1>4
  <2>2. 1 <= Len(Unread(r))
    BY <1>2, <1>3
  <2>3. \A i \in 1 .. L - 1 : Tail(Unread(r))[i] = Unread(r)[i + 1]
    BY <1>2, <1>3
  <2>4. QED
    BY <1>2, <1>3, <1>4, <2>1, <2>2, <2>3
<1>6. Unread(r)[1] = e /\ e \in Element
  <2>1. /\ nextDequeue[r].element \in 0 .. maxElements - 1
        /\ maxElements \in Nat \ {0}
        /\ slots \in [Address -> Element]
        /\ Address = 0 .. maxElements - 1
    BY RInvFacts DEF CInv, RInv, IInv, TypeOK, EPtr
  <2>2. (nextDequeue[r].element + (1 - 1)) % maxElements = nextDequeue[r].element
    BY <2>1
  <2>3. Unread(r)[1] = slots[(nextDequeue[r].element + (1 - 1)) % maxElements]
    BY <1>5 DEF Unread
  <2>4. QED
    BY <2>1, <2>2, <2>3
<1> HIDE DEF e, L
<1>7. \A s \in Reader \ {r} : \A t : Awaits(s, t)' <=> Awaits(s, t)
  BY <1>2, <1>5 DEF Awaits
<1>8. \A t : Awaits(r, t) <=> Awaits(r, t)' \/ t = e
  <2> SUFFICES ASSUME NEW t PROVE Awaits(r, t) <=> Awaits(r, t)' \/ t = e
    OBVIOUS
  <2>1. Awaits(r, t)' <=> \E i \in 1 .. L - 1 : Unread(r)[i + 1] = t
    BY <1>5 DEF Awaits
  <2>2. Awaits(r, t) <=> \E i \in 1 .. L : Unread(r)[i] = t
    BY DEF Awaits, L
  <2>3. (\E i \in 1 .. L : Unread(r)[i] = t) <=>
           (\E i \in 1 .. L - 1 : Unread(r)[i + 1] = t) \/ Unread(r)[1] = t
    <3>1. ASSUME NEW i \in 1 .. L, i # 1, Unread(r)[i] = t
          PROVE  \E k \in 1 .. L - 1 : Unread(r)[k + 1] = t
      <4>1. i - 1 \in 1 .. L - 1 /\ (i - 1) + 1 = i
        BY <1>5, <3>1
      <4>2. QED
        BY <3>1, <4>1
    <3>2. \A i \in 1 .. L - 1 : i + 1 \in 1 .. L
      BY <1>5
    <3>3. 1 \in 1 .. L
      BY <1>5
    <3>4. QED
      BY <3>1, <3>2, <3>3
  <2>4. QED
    BY <1>6, <2>1, <2>2, <2>3
<1>9. \A t \in Tuple : t = e => ~Awaits(r, t)'
  <2> SUFFICES ASSUME NEW t \in Tuple, t = e, Awaits(r, t)' PROVE FALSE
    OBVIOUS
  <2>1. PICK i \in 1 .. L - 1 : Unread(r)[i + 1] = t
    BY <1>5 DEF Awaits
  <2>2. i + 1 \in 1 .. L /\ 1 \in 1 .. L /\ i + 1 # 1
    BY <1>5
  <2>3. QED
    BY <1>6, <2>1, <2>2 DEF CInv, OwnedOnce, L
<1>10. \A s \in Reader : \A t \in Tuple :
          t \in held'[s] <=> t \in held[s] \/ (s = r /\ t = e)
  BY <1>1, HeartbeatAssumption
<1>11. RefsCounted'
  <2> SUFFICES ASSUME NEW t \in Tuple
               PROVE  refs'[t] = Cardinality(Owners(t)') + (IF t \in inHand' THEN 1 ELSE 0)
    BY DEF RefsCounted, Owners
  <2>1. Owners(t)' = Owners(t)
    BY <1>7, <1>8, <1>10 DEF Owners, Reader
  <2>2. refs[t] = Cardinality(Owners(t)) + (IF t \in inHand THEN 1 ELSE 0)
    BY DEF CInv, RefsCounted, Owners
  <2>3. QED
    BY <1>1, <2>1, <2>2
<1>12. OwnedOnce'
  <2>1. \A t \in inHand', s \in Reader : ~Awaits(s, t)' /\ t \notin held'[s]
    BY <1>1, <1>7, <1>8, <1>10 DEF CInv, OwnedOnce
  <2>2. \A s \in Reader, t \in Tuple : t \in held'[s] => ~Awaits(s, t)'
    BY <1>7, <1>8, <1>9, <1>10 DEF CInv, OwnedOnce
  <2>3. \A s \in Reader : \A i, j \in 1 .. Lag(s)' :
            Unread(s)'[i] = Unread(s)'[j] /\ Unread(s)'[i] \in Tuple => i = j
    <3>1. \A s \in Reader \ {r} : \A i, j \in 1 .. Lag(s)' :
              Unread(s)'[i] = Unread(s)'[j] /\ Unread(s)'[i] \in Tuple => i = j
      BY <1>2, <1>5 DEF CInv, OwnedOnce
    <3>2. ASSUME NEW i \in 1 .. L - 1, NEW j \in 1 .. L - 1,
                 Unread(r)[i + 1] = Unread(r)[j + 1], Unread(r)[i + 1] \in Tuple
          PROVE  i = j
      <4>1. i + 1 \in 1 .. L /\ j + 1 \in 1 .. L
        BY <1>5
      <4>2. i + 1 = j + 1
        BY <3>2, <4>1 DEF CInv, OwnedOnce, L
      <4>3. QED
        BY <4>2
    <3>3. QED
      BY <1>5, <3>1, <3>2
  <2>4. QED
    BY <2>1, <2>2, <2>3 DEF OwnedOnce
<1>13. QED
  BY <1>11, <1>12

(***************************************************************************)
(* Releasing: the reader has no other claim to the tuple.                  *)
(***************************************************************************)
LEMMA DecrRefCounts ==
    ASSUME CInv, RInv', NEW r \in Reader, NEW t \in Tuple, decrRef(r, t)
    PROVE  RefsCounted' /\ OwnedOnce'
<1>1. /\ t \in held[r] /\ held \in [Reader -> SUBSET Tuple]
      /\ held' = [held EXCEPT ![r] = @ \ {t}]
      /\ refs \in [Tuple -> Int]
      /\ refs' = [refs EXCEPT ![t] = @ - 1]
      /\ inHand' = inHand
  BY DEF decrRef, CInv, RInv, IInv, TypeOK
<1>2. \A s \in Reader : Lag(s)' = Lag(s) /\ Unread(s)' = Unread(s)
  BY DEF decrRef, ring, count, Lag, Unread, maxElements
<1>3. \A s \in Reader : \A u : Awaits(s, u)' <=> Awaits(s, u)
  BY <1>2 DEF Awaits
<1>4. ~Awaits(r, t)
  BY <1>1 DEF CInv, OwnedOnce
<1>5. RefsCounted'
  <2> SUFFICES ASSUME NEW u \in Tuple
               PROVE  refs'[u] = Cardinality(Owners(u)') + (IF u \in inHand' THEN 1 ELSE 0)
    BY DEF RefsCounted, Owners
  <2>1. refs[u] = Cardinality(Owners(u)) + (IF u \in inHand THEN 1 ELSE 0)
    BY DEF CInv, RefsCounted, Owners
  <2>2. IsFiniteSet(Owners(u)) /\ Cardinality(Owners(u)) \in Nat
    BY OwnersFinite
  <2>3. CASE u # t
    <3>1. Owners(u)' = Owners(u)
      BY <1>1, <1>3, <2>3 DEF Owners
    <3>2. QED
      BY <1>1, <2>1, <2>3, <3>1
  <2>4. CASE u = t
    <3>1. Owners(u)' = Owners(u) \ {r} /\ r \in Owners(u)
      BY <1>1, <1>3, <1>4, <2>4 DEF Owners
    <3>2. Cardinality(Owners(u) \ {r}) = Cardinality(Owners(u)) - 1
      BY <2>2, <3>1, FS_RemoveElement
    <3>3. refs'[u] = refs[u] - 1
      BY <1>1, <2>4
    <3>4. QED
      BY <1>1, <2>1, <2>2, <3>1, <3>2, <3>3
  <2>5. QED
    BY <2>3, <2>4
<1>6. OwnedOnce'
  BY <1>1, <1>2, <1>3 DEF CInv, OwnedOnce
<1>7. QED
  BY <1>5, <1>6

LEMMA StepCounts == CInv /\ [Next]_vars => CInv'
<1> SUFFICES ASSUME CInv, [Next]_vars PROVE CInv'
  OBVIOUS
<1>1. RInv'
  BY StepRefines DEF CInv
<1>2. CASE \E t \in Tuple : newTuple(t)
  BY <1>1, <1>2, NewTupleCounts DEF CInv
<1>3. CASE \E e \in Element : enqueue(e)
  BY <1>1, <1>3, EnqueueCounts DEF CInv
<1>4. CASE \E r \in Reader : dequeue(r)
  BY <1>1, <1>4, DequeueCounts DEF CInv
<1>5. CASE \E r \in Reader, t \in Tuple : decrRef(r, t)
  BY <1>1, <1>5, DecrRefCounts DEF CInv
<1>6. CASE UNCHANGED vars
  <2>1. \A r \in Reader : Lag(r)' = Lag(r) /\ Unread(r)' = Unread(r)
    BY <1>6 DEF vars, ring, count, Lag, Unread, maxElements
  <2>2. \A r \in Reader : \A t : Awaits(r, t)' <=> Awaits(r, t)
    BY <2>1 DEF Awaits
  <2>3. \A t : Owners(t)' = Owners(t)
    BY <1>6, <2>2 DEF Owners, vars, owned
  <2>4. RefsCounted'
    <3> SUFFICES ASSUME NEW t \in Tuple
                 PROVE  refs'[t] = Cardinality(Owners(t)') + (IF t \in inHand' THEN 1 ELSE 0)
      BY DEF RefsCounted, Owners
    <3>1. refs[t] = Cardinality(Owners(t)) + (IF t \in inHand THEN 1 ELSE 0)
      BY DEF CInv, RefsCounted, Owners
    <3>2. QED
      BY <1>6, <2>3, <3>1 DEF vars, owned
  <2>5. OwnedOnce'
    BY <1>6, <2>1, <2>2 DEF CInv, OwnedOnce, vars, owned
  <2>6. QED
    BY <1>1, <2>4, <2>5 DEF CInv
<1>7. QED
  BY <1>2, <1>3, <1>4, <1>5, <1>6 DEF Next

(***************************************************************************)
(* enqueue() and decrRef() keep exactly one counted reference for each     *)
(* operator that may still look at a tuple, however the readers spread out *)
(* along the ring: a tuple neither leaks nor returns to its store while a  *)
(* reader has yet to read or to release it.                                *)
(***************************************************************************)
THEOREM ReferencesCounted == Spec => []RefsCounted
<1>1. CInv => RefsCounted
  BY DEF CInv
<1>2. QED
  BY <1>1, InitCounts, StepCounts, PTL DEF Spec

=============================================================================
