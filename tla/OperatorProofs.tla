--------------------------- MODULE OperatorProofs ---------------------------
(***************************************************************************)
(* What the proof of the invariant of Pipeline needs of the queues, of the *)
(* wiring of a plan and of a step; and the operators with one input, with  *)
(* none and without an output: each of them keeps it, call by call.        *)
(***************************************************************************)
EXTENDS PipelineInvariant, FiniteSetTheorems, SequenceTheorems, WellFoundedInduction, TLAPS

-----------------------------------------------------------------------------
(***************************************************************************)
(* Sequences.                                                              *)
(***************************************************************************)
LEMMA SeqFacts ==
  ASSUME NEW s, IsSeq(s)
  PROVE  Len(s) \in Nat /\ DOMAIN s = 1 .. Len(s)
BY DEF IsSeq

LEMMA SeqIs ==
  ASSUME NEW S, NEW s \in Seq(S)
  PROVE  IsSeq(s)
<1>1. Len(s) \in Nat /\ s \in [1 .. Len(s) -> S] /\ DOMAIN s = 1 .. Len(s)
  BY LenProperties
<1> DEFINE T == {s[i] : i \in DOMAIN s}
<1>2. s \in [1 .. Len(s) -> T]
  BY <1>1
<1>3. s \in Seq(T)
  BY SMTT(30), <1>1, <1>2
<1> QED BY <1>3 DEF IsSeq

(* A function on 1 .. n is a sequence.                                     *)
LEMMA FunctionIsSeq ==
  ASSUME NEW n \in Nat, NEW h, h = [i \in 1 .. n |-> h[i]]
  PROVE  IsSeq(h) /\ Len(h) = n /\ DOMAIN h = 1 .. n
<1> DEFINE T == {h[i] : i \in 1 .. n}
<1>1. h \in [1 .. n -> T]
  OBVIOUS
<1>2. h \in Seq(T)
  BY <1>1
<1>3. DOMAIN h = 1 .. n
  OBVIOUS
<1>4. Len(h) = n
  BY <1>2, <1>3
<1> QED BY <1>2, <1>3, <1>4, SeqIs

LEMMA EmptyIsSeq == IsSeq(<<>>) /\ Len(<<>>) = 0
BY SeqIs, EmptySeq

LEMMA ConcatIsSeq ==
  ASSUME NEW s, NEW t, IsSeq(s), IsSeq(t)
  PROVE  /\ IsSeq(s \o t)
         /\ Len(s \o t) = Len(s) + Len(t)
         /\ \A i \in 1 .. Len(s) : (s \o t)[i] = s[i]
         /\ \A i \in Len(s) + 1 .. Len(s) + Len(t) : (s \o t)[i] = t[i - Len(s)]
<1> DEFINE S == {s[i] : i \in DOMAIN s} \cup {t[i] : i \in DOMAIN t}
<1>1. s \in Seq(S) /\ t \in Seq(S)
  BY SeqMonotonic DEF IsSeq
<1>2. s \o t \in Seq(S)
  BY <1>1, ConcatProperties
<1>3. Len(s) \in Nat /\ Len(t) \in Nat
  BY SeqFacts
<1>4. /\ Len(s \o t) = Len(s) + Len(t)
      /\ \A i \in 1 .. Len(s) + Len(t) : (s \o t)[i] = IF i <= Len(s) THEN s[i] ELSE t[i - Len(s)]
  BY <1>1, ConcatProperties
<1>5. IsSeq(s \o t)
  BY <1>2, SeqIs
<1>6. \A i \in 1 .. Len(s) : (s \o t)[i] = s[i]
  BY <1>3, <1>4
<1>7. \A i \in Len(s) + 1 .. Len(s) + Len(t) : (s \o t)[i] = t[i - Len(s)]
  BY <1>3, <1>4
<1> QED BY <1>4, <1>5, <1>6, <1>7

LEMMA AppendIsSeq ==
  ASSUME NEW s, NEW e, IsSeq(s)
  PROVE  /\ IsSeq(Append(s, e))
         /\ Len(Append(s, e)) = Len(s) + 1
         /\ \A i \in 1 .. Len(s) : Append(s, e)[i] = s[i]
         /\ Append(s, e)[Len(s) + 1] = e
<1> DEFINE S == {s[i] : i \in DOMAIN s} \cup {e}
<1>1. s \in Seq(S) /\ e \in S
  BY SeqMonotonic DEF IsSeq
<1>2. Append(s, e) \in Seq(S)
  BY <1>1, AppendProperties
<1>3. IsSeq(Append(s, e))
  BY <1>2, SeqIs
<1> QED BY <1>1, <1>3, AppendProperties

LEMMA TailIsSeq ==
  ASSUME NEW s, IsSeq(s), s # <<>>
  PROVE  /\ IsSeq(Tail(s))
         /\ Len(s) \in Nat \ {0}
         /\ Len(Tail(s)) = Len(s) - 1
         /\ \A i \in 1 .. Len(s) - 1 : Tail(s)[i] = s[i + 1]
         /\ Head(s) = s[1]
<1> DEFINE S == {s[i] : i \in DOMAIN s}
<1>1. s \in Seq(S)
  BY DEF IsSeq
<1>2. Tail(s) \in Seq(S)
  BY <1>1, HeadTailProperties
<1>3. Len(s) \in Nat \ {0}
  BY <1>1, EmptySeq
<1>4. Len(Tail(s)) = Len(s) - 1 /\ \A i \in 1 .. Len(Tail(s)) : Tail(s)[i] = s[i + 1]
  BY <1>1, HeadTailProperties
<1>5. Head(s) = s[1]
  BY <1>1
<1> HIDE DEF S
<1> QED BY <1>2, <1>3, <1>4, <1>5, SeqIs

LEMMA LeadIsSeq ==
  ASSUME NEW s, NEW e, IsSeq(s)
  PROVE  IsSeq(<<e>> \o s)
<1>1. IsSeq(<<e>>)
  <2>1. <<e>> \in Seq({e})
    OBVIOUS
  <2> QED BY <2>1, SeqIs
<1> QED BY <1>1, ConcatIsSeq

(* An entry of what is left is an entry.                                   *)
LEMMA RestIsSeq ==
  ASSUME NEW s, IsSeq(s), NEW n \in Nat
  PROVE  IsSeq(SubSeq(s, n + 1, Len(s)))
<1>1. Len(s) \in Nat
  BY SeqFacts
<1>2. \A i \in n + 1 .. Len(s) : s[i] \in {s[j] : j \in DOMAIN s}
  BY <1>1, SeqFacts
<1>3. SubSeq(s, n + 1, Len(s)) \in Seq({s[j] : j \in DOMAIN s})
  BY <1>1, <1>2, SubSeqProperties
<1> QED BY <1>3, SeqIs

(* The elements at some positions.  Each of them is found: the number of   *)
(* positions up to i tells the positions apart.                            *)
LEMMA AtIsSeq ==
  ASSUME NEW s, IsSeq(s), NEW P \in SUBSET DOMAIN s
  PROVE  /\ IsSeq(At(s, P))
         /\ \A k \in 1 .. Len(At(s, P)) : \E i \in P : At(s, P)[k] = s[i]
<1>1. Len(s) \in Nat /\ DOMAIN s = 1 .. Len(s) /\ IsFiniteSet(1 .. Len(s))
  BY SeqFacts, FS_Interval
<1>2. IsFiniteSet(P) /\ Cardinality(P) \in Nat
  BY <1>1, FS_Subset, FS_CardinalityType
<1> DEFINE upTo(i) == {j \in P : j <= i}
           rank == [i \in P |-> Cardinality(upTo(i))]
<1>3. \A i \in P : IsFiniteSet(upTo(i)) /\ Cardinality(upTo(i)) \in 1 .. Cardinality(P)
  <2> TAKE i \in P
  <2>1. IsFiniteSet(upTo(i)) /\ Cardinality(upTo(i)) <= Cardinality(P)
    BY <1>2, FS_Subset
  <2>2. i \in upTo(i)
    BY <1>1
  <2>3. Cardinality(upTo(i)) # 0 /\ Cardinality(upTo(i)) \in Nat
    BY <2>1, <2>2, FS_EmptySet, FS_CardinalityType
  <2> HIDE DEF upTo
  <2> QED BY <1>2, <2>1, <2>3
<1>4. ASSUME NEW i \in P, NEW j \in P, i < j
      PROVE  rank[i] < rank[j]
  <2>1. upTo(i) \in SUBSET upTo(j) /\ j \in upTo(j) /\ j \notin upTo(i)
    BY <1>1, <1>4
  <2>2. /\ Cardinality(upTo(i)) <= Cardinality(upTo(j))
        /\ Cardinality(upTo(i)) = Cardinality(upTo(j)) => upTo(i) = upTo(j)
    BY <1>3, <2>1, FS_Subset
  <2>3. Cardinality(upTo(i)) \in Nat /\ Cardinality(upTo(j)) \in Nat
    BY <1>3, FS_CardinalityType
  <2> HIDE DEF upTo
  <2> QED BY <2>1, <2>2, <2>3
<1>5. rank \in Injection(P, 1 .. Cardinality(P))
  <2>1. rank \in [P -> 1 .. Cardinality(P)]
    BY <1>3
  <2>2. \A i \in P : rank[i] \in Nat
    BY <1>2, <1>3
  <2>3. \A i, j \in P : rank[i] = rank[j] => i = j
    <3> SUFFICES ASSUME NEW i \in P, NEW j \in P, rank[i] = rank[j], i # j PROVE FALSE
      OBVIOUS
    <3> HIDE DEF rank
    <3>1. i < j \/ j < i
      BY <1>1
    <3> QED BY <1>4, <2>2, <3>1
  <2> HIDE DEF rank
  <2> QED BY <2>1, <2>3 DEF Injection, IsInjective
<1>6. rank \in Surjection(P, 1 .. Cardinality(P))
  <2>1. Cardinality(1 .. Cardinality(P)) = Cardinality(P) /\ IsFiniteSet(1 .. Cardinality(P))
    BY <1>2, FS_Interval
  <2> HIDE DEF rank
  <2> QED BY <1>5, <2>1, FS_Injection
<1>7. \A k \in 1 .. Cardinality(P) : \E i \in P : Cardinality(upTo(i)) = k
  <2> TAKE k \in 1 .. Cardinality(P)
  <2>1. \E i \in P : rank[i] = k
    <3> HIDE DEF rank
    <3> QED BY <1>6 DEF Surjection
  <2> QED BY <2>1
<1>8. \A k \in 1 .. Cardinality(P) :
         At(s, P)[k] = s[CHOOSE i \in P : Cardinality(upTo(i)) = k]
  BY DEF At
<1>9. \A k \in 1 .. Cardinality(P) : (CHOOSE i \in P : Cardinality(upTo(i)) = k) \in P
  <2> HIDE DEF upTo
  <2> QED BY <1>7
<1>10. At(s, P) = [k \in 1 .. Cardinality(P) |-> At(s, P)[k]]
  BY DEF At
<1>11. IsSeq(At(s, P)) /\ Len(At(s, P)) = Cardinality(P)
  BY <1>2, <1>10, FunctionIsSeq
<1> HIDE DEF upTo
<1> QED BY <1>8, <1>9, <1>11

LEMMA AllButIsSeq ==
  ASSUME NEW s, IsSeq(s), NEW x
  PROVE  IsSeq(AllBut(s, x))
<1>1. {i \in DOMAIN s : s[i] # x} \in SUBSET DOMAIN s
  OBVIOUS
<1> QED BY <1>1, AtIsSeq DEF AllBut

LEMMA MinOfTwo ==
  ASSUME NEW a \in Int, NEW b \in Int
  PROVE  Min({a, b}) = IF a <= b THEN a ELSE b
<1>1. \E x \in {a, b} : \A y \in {a, b} : x <= y
  OBVIOUS
<1> QED BY <1>1 DEF Min

-----------------------------------------------------------------------------
(***************************************************************************)
(* Space: what the fullest reader's queue leaves.                          *)
(***************************************************************************)
LEMMA LeastOf ==
  ASSUME NEW S, S \subseteq Nat, S # {}
  PROVE  \E x \in S : \A y \in S : x <= y
<1> DEFINE Smaller == {ss \in Nat \X Nat : ss[1] < ss[2]}
<1>1. Smaller = OpToRel(<, Nat)
  BY Zenon DEF OpToRel
<1>2. IsWellFoundedOn(Smaller, Nat)
  BY <1>1, NatLessThanWellFounded, Zenon
<1> HIDE DEF Smaller
<1>3. PICK x \in S : \A y \in S : ~ (<<y, x>> \in Smaller)
  BY <1>2, WFMin, Zenon
<1>4. ASSUME NEW y \in S PROVE x <= y
  <2>1. <<y, x>>[1] = y /\ <<y, x>>[2] = x /\ <<y, x>> \in Nat \X Nat
    OBVIOUS
  <2>2. ~ (<<y, x>>[1] < <<y, x>>[2])
    BY <1>3, <2>1, Zenon DEF Smaller
  <2> QED BY <2>1, <2>2
<1> QED BY <1>4

LEMMA MaxOfNats ==
  ASSUME NEW S, S \subseteq Nat, S # {}, NEW n \in Nat, \A x \in S : x <= n
  PROVE  Max(S) \in S /\ \A x \in S : x <= Max(S)
<1> DEFINE B == {k \in Nat : \A x \in S : x <= k}
<1>1. n \in B /\ B \subseteq Nat
  OBVIOUS
<1>2. PICK k \in B : \A m \in B : k <= m
  BY <1>1, LeastOf
<1>3. k \in S
  <2> SUFFICES ASSUME k \notin S PROVE FALSE
    OBVIOUS
  <2>1. k \in Nat /\ \A x \in S : x \in Nat /\ x <= k /\ x # k
    OBVIOUS
  <2>2. PICK x0 \in S : TRUE
    OBVIOUS
  <2>3. k - 1 \in B
    BY <2>1, <2>2
  <2> QED BY <1>2, <2>1, <2>3
<1> QED BY <1>3 DEF Max

-----------------------------------------------------------------------------
(***************************************************************************)
(* Calls that leave the queues alone, and calls that add to one.           *)
(***************************************************************************)
LEMMA FlowFields ==
  ASSUME NEW ops, NEW f, FlowOK(ops, f)
  PROVE  /\ "queue" \in DOMAIN f /\ "promise" \in DOMAIN f
         /\ \A q \in Outs(ops) : f.promise[q] \in Nat
         /\ \A q \in Outs(ops) : \A r \in Reader(q) :
               InOrder(f.queue[q][r], f.promise[q]) /\ IsSeq(f.queue[q][r])
BY DEF FlowOK, InOrder

LEMMA SameIsOK ==
  ASSUME NEW ops, NEW f, NEW g, FlowOK(ops, f), SameQueues(f, g)
  PROVE  FlowOK(ops, g)
BY DEF FlowOK, SameQueues

LEMMA SameOfCounts ==
  ASSUME NEW ops, NEW f, FlowOK(ops, f)
  PROVE  /\ SameQueues(f, f)
         /\ \A t, n : SameQueues(f, addRef(f, t, n))
         /\ \A t : SameQueues(f, decrRef(f, t))
         /\ \A ts : SameQueues(f, newTuples(f, ts))
         /\ \A t : SameQueues(f, newTuple(f, t))
         /\ \A ts, n : SameQueues(f, addRefs(f, ts, n))
BY DEF FlowOK, SameQueues, addRef, decrRef, newTuples, newTuple, addRefs

LEMMA SameSame ==
  ASSUME NEW f, NEW g, NEW h, SameQueues(f, g), SameQueues(g, h)
  PROVE  SameQueues(f, h)
BY DEF SameQueues

LEMMA ExtendsItself ==
  ASSUME NEW s, IsSeq(s), NEW p
  PROVE  Extends(s, s, p)
<1>1. Len(s) \in Nat
  BY SeqFacts
<1> QED BY <1>1 DEF Extends

LEMMA PutNothing ==
  ASSUME NEW ops, NEW q \in Outs(ops), NEW f, NEW g, FlowOK(ops, f), SameQueues(f, g)
  PROVE  Put(ops, q, f, g)
<1>1. FlowOK(ops, g)
  BY SameIsOK
<1>2. f.promise[q] \in Nat
  BY FlowFields
<1>3. \A r \in Reader(q) : Extends(f.queue[q][r], g.queue[q][r], f.promise[q])
  BY FlowFields, ExtendsItself DEF SameQueues
<1> QED BY <1>1, <1>2, <1>3 DEF Put, SameQueues

LEMMA PutPut ==
  ASSUME NEW ops, NEW q \in Outs(ops), NEW f, NEW g, NEW h,
         FlowOK(ops, f), Put(ops, q, f, g), Put(ops, q, g, h)
  PROVE  Put(ops, q, f, h)
<1>1. FlowOK(ops, g) /\ FlowOK(ops, h)
  BY DEF Put
<1>2. \A p \in Outs(ops) \ {q} : h.queue[p] = f.queue[p] /\ h.promise[p] = f.promise[p]
  BY DEF Put
<1>3. f.promise[q] \in Nat /\ g.promise[q] \in Nat /\ h.promise[q] \in Nat
  BY <1>1, FlowFields
<1>4. f.promise[q] <= g.promise[q] /\ g.promise[q] <= h.promise[q]
  BY DEF Put
<1>5. ASSUME NEW r \in Reader(q)
      PROVE  Extends(f.queue[q][r], h.queue[q][r], f.promise[q])
  <2> DEFINE s == f.queue[q][r]
             t == g.queue[q][r]
             u == h.queue[q][r]
  <2>1. Extends(s, t, f.promise[q]) /\ Extends(t, u, g.promise[q])
    BY DEF Put
  <2>2. Len(s) \in Nat /\ Len(t) \in Nat /\ Len(u) \in Nat
    BY <1>1, <1>5, FlowFields, SeqFacts
  <2>3. \A k \in 1 .. Len(u) : u[k].timestamp \in Nat
    BY <1>1, <1>5, FlowFields DEF InOrder
  <2> HIDE DEF s, t, u
  <2>4. Len(s) <= Len(u) /\ \A k \in 1 .. Len(s) : u[k] = s[k]
    BY <2>1, <2>2 DEF Extends
  <2>5. ASSUME NEW k \in Len(s) + 1 .. Len(u) PROVE f.promise[q] <= u[k].timestamp
    <3>0. u[k].timestamp \in Nat
      BY <2>2, <2>3
    <3>1. CASE k <= Len(t)
      <4>1. k \in Len(s) + 1 .. Len(t) /\ k \in 1 .. Len(t)
        BY <2>2, <3>1
      <4> QED BY <2>1, <4>1 DEF Extends
    <3>2. CASE ~(k <= Len(t))
      <4>1. k \in Len(t) + 1 .. Len(u)
        BY <2>2, <3>2
      <4>2. g.promise[q] <= u[k].timestamp
        BY <2>1, <4>1 DEF Extends
      <4> QED BY <1>3, <1>4, <3>0, <4>2
    <3> QED BY <3>1, <3>2
  <2>6. Extends(s, u, f.promise[q])
    BY <2>4, <2>5 DEF Extends
  <2> QED BY <2>6 DEF s, u
<1> QED BY <1>1, <1>2, <1>3, <1>4, <1>5 DEF Put

(***************************************************************************)
(* A queue to which the elements es are added keeps its order if they are  *)
(* in order themselves and not older than what was promised.               *)
(***************************************************************************)
Later(es, p) ==
    /\ IsSeq(es)
    /\ \A i \in 1 .. Len(es) : es[i].kind \in KindOf /\ es[i].timestamp \in Nat
    /\ \A i \in 1 .. Len(es) : p <= es[i].timestamp
    /\ \A i, j \in 1 .. Len(es) : i <= j => es[i].timestamp <= es[j].timestamp

LEMMA InOrderConcat ==
  ASSUME NEW s, NEW es, NEW p \in Nat, NEW n \in Nat, InOrder(s, p), Later(es, p),
         Len(s) + Len(es) <= MaxElements, p <= n,
         \A i \in 1 .. Len(es) : es[i].timestamp <= n
  PROVE  InOrder(s \o es, n) /\ Extends(s, s \o es, p)
<1> DEFINE t == s \o es
<1>0. IsSeq(s) /\ IsSeq(es) /\ Len(s) \in Nat /\ Len(es) \in Nat /\ MaxElements \in Nat
  BY SeqFacts, SizesAssumption DEF InOrder, Later
<1>1. /\ IsSeq(t) /\ Len(t) = Len(s) + Len(es)
      /\ \A i \in 1 .. Len(s) : t[i] = s[i]
      /\ \A i \in Len(s) + 1 .. Len(s) + Len(es) : t[i] = es[i - Len(s)]
  BY <1>0, ConcatIsSeq
<1> HIDE DEF t
<1>2. \A i \in 1 .. Len(s) : /\ t[i].kind \in KindOf /\ t[i].timestamp \in Nat
                             /\ t[i].timestamp <= p /\ t[i].timestamp <= n
  BY <1>1 DEF InOrder
<1>3. ASSUME NEW i \in Len(s) + 1 .. Len(t)
      PROVE  /\ t[i].kind \in KindOf /\ t[i].timestamp \in Nat
             /\ p <= t[i].timestamp /\ t[i].timestamp <= n
  <2>1. i - Len(s) \in 1 .. Len(es) /\ t[i] = es[i - Len(s)]
    BY <1>0, <1>1
  <2> QED BY <2>1 DEF Later
<1>4. ASSUME NEW i \in 1 .. Len(t), NEW j \in 1 .. Len(t), i <= j
      PROVE  t[i].timestamp <= t[j].timestamp
  <2>1. CASE j <= Len(s)
    <3>1. i \in 1 .. Len(s) /\ j \in 1 .. Len(s)
      BY <1>0, <1>1, <1>4, <2>1
    <3> QED BY <1>1, <1>4, <3>1 DEF InOrder
  <2>2. CASE i <= Len(s) /\ ~(j <= Len(s))
    <3>1. i \in 1 .. Len(s) /\ j \in Len(s) + 1 .. Len(t)
      BY <1>0, <1>1, <2>2
    <3>2. t[i].timestamp \in Nat /\ t[i].timestamp <= p
      BY <1>2, <3>1
    <3>3. t[j].timestamp \in Nat /\ p <= t[j].timestamp
      BY <1>3, <3>1
    <3> QED BY <3>2, <3>3
  <2>3. CASE ~(i <= Len(s))
    <3>1. /\ i - Len(s) \in 1 .. Len(es) /\ t[i] = es[i - Len(s)]
          /\ j - Len(s) \in 1 .. Len(es) /\ t[j] = es[j - Len(s)]
          /\ i - Len(s) <= j - Len(s)
      BY <1>0, <1>1, <1>4, <2>3
    <3> QED BY <3>1 DEF Later
  <2> QED BY <1>0, <1>1, <2>1, <2>2, <2>3
<1>5. ASSUME NEW i \in 1 .. Len(t)
      PROVE  t[i].kind \in KindOf /\ t[i].timestamp \in Nat /\ t[i].timestamp <= n
  <2>1. i \in 1 .. Len(s) \/ i \in Len(s) + 1 .. Len(t)
    BY <1>0, <1>1
  <2> QED BY <1>2, <1>3, <2>1
<1>6. InOrder(t, n)
  BY <1>1, <1>4, <1>5 DEF InOrder
<1>7. Extends(s, t, p)
  <2>1. Len(s) <= Len(t)
    BY <1>0, <1>1
  <2>2. \A k \in 1 .. Len(s) : t[k] = s[k]
    BY <1>1
  <2>3. \A k \in Len(s) + 1 .. Len(t) : p <= t[k].timestamp
    BY <1>3
  <2> QED BY <2>1, <2>2, <2>3 DEF Extends
<1> QED BY <1>6, <1>7 DEF t

LEMMA PutElements ==
  ASSUME NEW ops, NEW q \in Outs(ops), NEW f, NEW g, NEW es, NEW n \in Nat, FlowOK(ops, f),
         DOMAIN g = DOMAIN f, DOMAIN g.queue = Outs(ops), DOMAIN g.queue[q] = Reader(q),
         \A r \in Reader(q) : g.queue[q][r] = f.queue[q][r] \o es,
         \A p \in Outs(ops) \ {q} : g.queue[p] = f.queue[p] /\ g.promise[p] = f.promise[p],
         g.promise \in [Outs(ops) -> Nat], g.promise[q] = n,
         Later(es, f.promise[q]), f.promise[q] <= n,
         \A i \in 1 .. Len(es) : es[i].timestamp <= n,
         \A r \in Reader(q) : Len(f.queue[q][r]) + Len(es) <= MaxElements
  PROVE  Put(ops, q, f, g) /\ g.promise[q] = n
<1>1. /\ DOMAIN f = {"queue", "refs", "history", "promise"}
      /\ DOMAIN f.queue = Outs(ops) /\ f.promise \in [Outs(ops) -> Nat]
      /\ \A p \in Outs(ops) : DOMAIN f.queue[p] = Reader(p)
  BY DEF FlowOK
<1>3. ASSUME NEW r \in Reader(q)
      PROVE  InOrder(g.queue[q][r], n) /\ Extends(f.queue[q][r], g.queue[q][r], f.promise[q])
  <2>1. g.queue[q][r] = f.queue[q][r] \o es
    BY <1>3
  <2>2. InOrder(f.queue[q][r], f.promise[q]) /\ f.promise[q] \in Nat
    BY FlowFields
  <2>3. Len(f.queue[q][r]) + Len(es) <= MaxElements
    BY <1>3
  <2>4. InOrder(f.queue[q][r] \o es, n) /\ Extends(f.queue[q][r], f.queue[q][r] \o es, f.promise[q])
    BY <2>2, <2>3, InOrderConcat
  <2> QED BY <2>1, <2>4
<1>4. \A p \in Outs(ops) : \A r \in Reader(p) : InOrder(g.queue[p][r], g.promise[p])
  <2> TAKE p \in Outs(ops)
  <2> TAKE r \in Reader(p)
  <2>1. CASE p = q
    BY <1>3, <2>1
  <2>2. CASE p # q
    BY <2>2, FlowFields
  <2> QED BY <2>1, <2>2
<1>5. \A p \in Outs(ops) : DOMAIN g.queue[p] = Reader(p)
  <2> TAKE p \in Outs(ops)
  <2>1. CASE p = q
    BY <2>1
  <2>2. CASE p # q
    BY <1>1, <2>2
  <2> QED BY <2>1, <2>2
<1>6. FlowOK(ops, g)
  BY <1>1, <1>4, <1>5 DEF FlowOK
<1> QED BY <1>3, <1>6 DEF Put

LEMMA FullOrNot ==
  ASSUME NEW ops, NEW q \in Outs(ops), NEW f, FlowOK(ops, f), ~isFull(f, q)
  PROVE  \A r \in Reader(q) : Len(f.queue[q][r]) + 1 <= MaxElements
<1> TAKE r \in Reader(q)
<1>1. InOrder(f.queue[q][r], f.promise[q]) /\ DOMAIN f.queue[q] = Reader(q)
  BY DEF FlowOK
<1>2. Len(f.queue[q][r]) # MaxElements
  BY <1>1 DEF isFull
<1>3. Len(f.queue[q][r]) \in Nat /\ Len(f.queue[q][r]) <= MaxElements
  BY <1>1, SeqFacts DEF InOrder
<1> QED BY <1>2, <1>3, SizesAssumption

LEMMA EnqueuePuts ==
  ASSUME NEW ops, NEW q \in Outs(ops), NEW f, NEW e, FlowOK(ops, f), ~isFull(f, q),
         e.kind \in KindOf, e.timestamp \in Nat, f.promise[q] <= e.timestamp
  PROVE  Put(ops, q, f, enqueue(f, q, e)) /\ enqueue(f, q, e).promise[q] = e.timestamp
<1> DEFINE es == <<e>>
           g == enqueue(f, q, e)
<1>1. IsSeq(es) /\ Len(es) = 1 /\ es[1] = e
  <2>1. es \in Seq({e})
    OBVIOUS
  <2> QED BY <2>1, SeqIs
<1>2. Later(es, f.promise[q])
  <2> HIDE DEF es
  <2> QED BY <1>1 DEF Later
<1>3. \A r \in Reader(q) : Len(f.queue[q][r]) + Len(es) <= MaxElements
  BY <1>1, FullOrNot
<1>4. DOMAIN f = {"queue", "refs", "history", "promise"} /\ DOMAIN f.queue[q] = Reader(q)
  BY DEF FlowOK
<1>5. \A r \in Reader(q) : Append(f.queue[q][r], e) = f.queue[q][r] \o es
  <2> TAKE r \in Reader(q)
  <2> DEFINE s == f.queue[q][r]
             S == {s[i] : i \in DOMAIN s} \cup {e}
  <2>1. IsSeq(s)
    BY FlowFields
  <2>2. s \in Seq(S) /\ e \in S
    <3> HIDE DEF s
    <3> QED BY <2>1, SeqMonotonic DEF IsSeq
  <2> HIDE DEF S
  <2> QED BY <2>2, AppendIsConcat
<1>6. DOMAIN g = DOMAIN f
  BY DEF enqueue
<1>7. /\ DOMAIN g.queue = Outs(ops) /\ DOMAIN g.queue[q] = Reader(q)
      /\ \A r \in Reader(q) : g.queue[q][r] = f.queue[q][r] \o es
      /\ \A p \in Outs(ops) \ {q} : g.queue[p] = f.queue[p]
  <2>1. g.queue = [f.queue EXCEPT ![q] = [r \in DOMAIN f.queue[q] |-> Append(f.queue[q][r], e)]]
    BY <1>4 DEF enqueue
  <2>2. DOMAIN f.queue = Outs(ops)
    BY DEF FlowOK
  <2> HIDE DEF g, es
  <2>3. g.queue[q] = [r \in Reader(q) |-> Append(f.queue[q][r], e)] /\ DOMAIN g.queue = Outs(ops)
    BY <1>4, <2>1, <2>2
  <2>4. \A p \in Outs(ops) \ {q} : g.queue[p] = f.queue[p]
    BY <2>1, <2>2
  <2>5. DOMAIN g.queue[q] = Reader(q)
    BY <2>3
  <2>6. \A r \in Reader(q) : g.queue[q][r] = f.queue[q][r] \o es
    BY <1>5, <2>3
  <2> QED BY <2>3, <2>4, <2>5, <2>6
<1>8. /\ g.promise \in [Outs(ops) -> Nat] /\ g.promise[q] = e.timestamp
      /\ \A p \in Outs(ops) \ {q} : g.promise[p] = f.promise[p]
  <2>1. g.promise = [f.promise EXCEPT ![q] = e.timestamp]
    BY <1>4 DEF enqueue
  <2>2. f.promise \in [Outs(ops) -> Nat]
    BY DEF FlowOK
  <2> HIDE DEF g
  <2> QED BY <2>1, <2>2
<1> HIDE DEF g, es
<1>9. \A i \in 1 .. Len(es) : es[i].timestamp <= e.timestamp
  BY <1>1
<1>10. Put(ops, q, f, g) /\ g.promise[q] = e.timestamp
  BY <1>2, <1>3, <1>6, <1>7, <1>8, <1>9, PutElements
<1> QED BY <1>10 DEF g

LEMMA SpaceFacts ==
  ASSUME NEW ops, NEW q \in Outs(ops), NEW f, FlowOK(ops, f), Reader(q) # {}
  PROVE  /\ Space(f, q) \in 0 .. MaxElements
         /\ \A r \in Reader(q) : Len(f.queue[q][r]) + Space(f, q) <= MaxElements
<1> DEFINE S == {Len(f.queue[q][r]) : r \in DOMAIN f.queue[q]}
<1>1. DOMAIN f.queue[q] = Reader(q)
  BY DEF FlowOK
<1>2. \A r \in Reader(q) : Len(f.queue[q][r]) \in Nat /\ Len(f.queue[q][r]) <= MaxElements
  BY FlowFields, SeqFacts DEF InOrder
<1>3. S \subseteq Nat /\ S # {} /\ \A x \in S : x <= MaxElements
  BY <1>1, <1>2
<1>4. Max(S) \in S /\ \A x \in S : x <= Max(S)
  <2> HIDE DEF S
  <2> QED BY <1>3, MaxOfNats, SizesAssumption
<1>5. Space(f, q) = MaxElements - Max(S)
  BY DEF Space
<1>6. Max(S) \in Nat /\ Max(S) <= MaxElements
  <2> HIDE DEF S
  <2> QED BY <1>3, <1>4
<1>7. \A r \in Reader(q) : Len(f.queue[q][r]) <= Max(S)
  BY <1>1, <1>4
<1> HIDE DEF S
<1> QED BY <1>2, <1>5, <1>6, <1>7, SizesAssumption

LEMMA EnqueueAllPuts ==
  ASSUME NEW ops, NEW q \in Outs(ops), NEW f, NEW es, FlowOK(ops, f), Reader(q) # {},
         Later(es, f.promise[q]), Len(es) <= Space(f, q)
  PROVE  /\ Put(ops, q, f, enqueueAll(f, q, es))
         /\ es = <<>> => enqueueAll(f, q, es).promise[q] = f.promise[q]
         /\ es # <<>> => enqueueAll(f, q, es).promise[q] = es[Len(es)].timestamp
<1> DEFINE g == enqueueAll(f, q, es)
           n == IF es = <<>> THEN f.promise[q] ELSE es[Len(es)].timestamp
<1>1. DOMAIN f = {"queue", "refs", "history", "promise"} /\ f.promise[q] \in Nat
  BY FlowFields DEF FlowOK
<1>2. /\ DOMAIN g = DOMAIN f
      /\ DOMAIN g.queue = Outs(ops) /\ DOMAIN g.queue[q] = Reader(q)
      /\ \A r \in Reader(q) : g.queue[q][r] = f.queue[q][r] \o es
      /\ \A p \in Outs(ops) \ {q} : g.queue[p] = f.queue[p]
  <2>1. /\ DOMAIN g = DOMAIN f
        /\ g.queue = [f.queue EXCEPT ![q] = [r \in DOMAIN f.queue[q] |-> f.queue[q][r] \o es]]
    BY <1>1 DEF enqueueAll, addRefs
  <2>2. DOMAIN f.queue = Outs(ops) /\ DOMAIN f.queue[q] = Reader(q)
    BY DEF FlowOK
  <2> HIDE DEF g
  <2>3. g.queue[q] = [r \in Reader(q) |-> f.queue[q][r] \o es] /\ DOMAIN g.queue = Outs(ops)
    BY <2>1, <2>2
  <2>4. \A p \in Outs(ops) \ {q} : g.queue[p] = f.queue[p]
    BY <2>1, <2>2
  <2> QED BY <2>1, <2>3, <2>4
<1>3. g.promise = [f.promise EXCEPT ![q] = n]
  BY <1>1 DEF enqueueAll, addRefs, Last
<1>4. IsSeq(es) /\ Len(es) \in Nat
  BY SeqFacts DEF Later
<1>5. n \in Nat /\ f.promise[q] <= n /\ \A i \in 1 .. Len(es) : es[i].timestamp <= n
  <2>1. CASE es = <<>>
    BY <1>1, <2>1, EmptyIsSeq
  <2>2. CASE es # <<>>
    <3>1. Len(es) \in 1 .. Len(es)
      BY <1>4, <2>2, TailIsSeq
    <3> QED BY <2>2, <3>1 DEF Later
  <2> QED BY <2>1, <2>2
<1>6. \A r \in Reader(q) : Len(f.queue[q][r]) + Len(es) <= MaxElements
  <2> TAKE r \in Reader(q)
  <2>1. Len(f.queue[q][r]) \in Nat /\ Len(f.queue[q][r]) + Space(f, q) <= MaxElements
    BY FlowFields, SeqFacts, SpaceFacts
  <2>2. Space(f, q) \in Int
    BY SpaceFacts
  <2> QED BY <1>4, <2>1, <2>2, SizesAssumption
<1> HIDE DEF g
<1>7. Put(ops, q, f, g) /\ g.promise[q] = n
  <2> HIDE DEF n
  <2>1. f.promise \in [Outs(ops) -> Nat]
    BY DEF FlowOK
  <2>2. /\ g.promise \in [Outs(ops) -> Nat] /\ g.promise[q] = n
        /\ \A p \in Outs(ops) \ {q} : g.promise[p] = f.promise[p]
    BY <1>3, <1>5, <2>1
  <2> QED BY <1>2, <1>5, <1>6, <2>2, PutElements
<1> QED BY <1>7 DEF g

LEMMA InsertAllPuts ==
  ASSUME NEW ops, NEW q \in Outs(ops), NEW f, NEW ts, NEW time \in Nat, FlowOK(ops, f),
         Reader(q) # {}, IsSeq(ts), Len(ts) <= Space(f, q), f.promise[q] <= time
  PROVE  /\ Put(ops, q, f, insertAll(f, q, ts, time))
         /\ insertAll(f, q, ts, time).promise[q] <= time
<1> DEFINE h == newTuples(f, ts)
           es == [i \in DOMAIN ts |-> Element(PLUS, ts[i], time)]
           g == enqueueAll(h, q, es)
<1>1. Len(ts) \in Nat /\ DOMAIN ts = 1 .. Len(ts)
  BY SeqFacts
<1>2. es = [i \in 1 .. Len(ts) |-> es[i]]
  BY <1>1
<1>3. IsSeq(es) /\ Len(es) = Len(ts)
  <2> HIDE DEF es
  <2> QED BY <1>1, <1>2, FunctionIsSeq
<1>4. \A i \in 1 .. Len(es) : es[i].kind \in KindOf /\ es[i].timestamp = time
  BY <1>1, <1>3 DEF Element, KindOf
<1>5. SameQueues(f, h) /\ FlowOK(ops, h) /\ f.promise[q] \in Nat
  BY SameOfCounts, SameIsOK, FlowFields
<1>6. Space(h, q) = Space(f, q) /\ h.promise = f.promise
  BY <1>5 DEF Space, SameQueues
<1> HIDE DEF es, h
<1>7. Later(es, h.promise[q])
  BY <1>3, <1>4, <1>5, <1>6 DEF Later
<1>8. /\ Put(ops, q, h, g)
      /\ es = <<>> => g.promise[q] = h.promise[q]
      /\ es # <<>> => g.promise[q] = es[Len(es)].timestamp
  BY <1>3, <1>5, <1>6, <1>7, EnqueueAllPuts
<1> HIDE DEF g
<1>9. g.promise[q] <= time
  <2>1. CASE es = <<>>
    BY <1>6, <1>8, <2>1
  <2>2. CASE es # <<>>
    <3>1. Len(es) \in 1 .. Len(es)
      BY <1>3, <2>2, TailIsSeq
    <3>2. g.promise[q] = time
      BY <1>4, <1>8, <2>2, <3>1
    <3> QED BY <3>2
  <2> QED BY <2>1, <2>2
<1>10. Put(ops, q, f, h)
  BY <1>5, PutNothing
<1>11. Put(ops, q, f, g)
  BY <1>8, <1>10, PutPut
<1>12. insertAll(f, q, ts, time) = g
  BY DEF insertAll, g, h, es
<1> QED BY <1>9, <1>11, <1>12

-----------------------------------------------------------------------------
(***************************************************************************)
(* The wiring of a plan.                                                   *)
(***************************************************************************)
LEMMA PortOK ==
  ASSUME NEW ops \in Queries, NEW o \in ops, NEW side \in Ports(o)
  PROVE  /\ o \in Op
         /\ Plan[o][side][1] \in Outs(ops)
         /\ Plan[o][side][2] \in Reader(Plan[o][side][1])
         /\ HasOutput(o) => Plan[o][side][1] # Plan[o].out
<1>1. o \in Op
  BY QueuesAssumption
<1>2. Plan[o][side] \in Inputs(o)
  BY DEF Ports, Inputs
<1>3. Plan[o][side][1] \in Outs(ops)
  BY <1>2, QueuesAssumption
<1>4. ops \subseteq Op
  BY QueuesAssumption
<1>5. Plan[o][side][1] \in Outs(Op)
  BY <1>3, <1>4 DEF Outs
<1>6. Plan[o][side][2] \in Reader(Plan[o][side][1])
  BY <1>1, <1>2, <1>5 DEF Reader, Readers
<1> QED BY <1>1, <1>3, <1>6, QueuesAssumption

LEMMA OutOK ==
  ASSUME NEW ops \in Queries, NEW o \in ops, HasOutput(o)
  PROVE  /\ o \in Op
         /\ Plan[o].out \in Outs(ops)
         /\ Reader(Plan[o].out) # {}
         /\ \A p \in ops \ {o} : HasOutput(p) => Plan[p].out # Plan[o].out
BY QueuesAssumption DEF Outs, HasOutput

(***************************************************************************)
(* What is read next, and what is left after it.                           *)
(***************************************************************************)
LEMMA PeekFacts ==
  ASSUME NEW ops \in Queries, NEW o \in ops, NEW side \in Ports(o), NEW f, FlowOK(ops, f),
         ~isEmpty(f, Plan[o][side])
  PROVE  /\ peek(f, Plan[o][side]).kind \in KindOf
         /\ peek(f, Plan[o][side]).timestamp \in Nat
         /\ \A ts : NotBefore(f, Plan[o][side], ts) => ts <= peek(f, Plan[o][side]).timestamp
         /\ NotBefore(f, Plan[o][side], peek(f, Plan[o][side]).timestamp)
<1> DEFINE i == Plan[o][side]
           s == Pending(f, i)
<1>1. InOrder(s, f.promise[i[1]])
  BY PortOK, FlowFields DEF Pending
<1>2. s # <<>>
  BY DEF isEmpty
<1>3. peek(f, i) = Head(s)
  BY DEF peek
<1> HIDE DEF s
<1>4. Len(s) \in Nat \ {0} /\ peek(f, i) = s[1]
  BY <1>1, <1>2, <1>3, TailIsSeq DEF InOrder
<1>5. 1 \in 1 .. Len(s)
  BY <1>4
<1>6. \A ts : NotBefore(f, i, ts) => ts <= s[1].timestamp
  BY <1>5 DEF NotBefore, s
<1>7. s[1].timestamp <= f.promise[i[1]] /\ \A k \in 1 .. Len(s) : s[1].timestamp <= s[k].timestamp
  BY <1>1, <1>5 DEF InOrder
<1>8. NotBefore(f, i, s[1].timestamp)
  BY <1>7 DEF NotBefore, s
<1> QED BY <1>1, <1>4, <1>5, <1>6, <1>8 DEF InOrder

LEMMA InOrderTail ==
  ASSUME NEW s, NEW p, InOrder(s, p), s # <<>>
  PROVE  InOrder(Tail(s), p)
<1>1. /\ IsSeq(Tail(s)) /\ Len(s) \in Nat \ {0} /\ Len(Tail(s)) = Len(s) - 1
      /\ \A k \in 1 .. Len(s) - 1 : Tail(s)[k] = s[k + 1] /\ k + 1 \in 1 .. Len(s)
  BY TailIsSeq DEF InOrder
<1>2. Len(Tail(s)) <= MaxElements
  BY <1>1, SizesAssumption DEF InOrder
<1>3. \A k \in 1 .. Len(Tail(s)) : /\ Tail(s)[k].kind \in KindOf /\ Tail(s)[k].timestamp \in Nat
                                   /\ Tail(s)[k].timestamp <= p
  BY <1>1 DEF InOrder
<1>4. ASSUME NEW k \in 1 .. Len(Tail(s)), NEW l \in 1 .. Len(Tail(s)), k <= l
      PROVE  Tail(s)[k].timestamp <= Tail(s)[l].timestamp
  <2>1. k + 1 \in 1 .. Len(s) /\ l + 1 \in 1 .. Len(s) /\ k + 1 <= l + 1
    BY <1>1, <1>4
  <2>2. Tail(s)[k] = s[k + 1] /\ Tail(s)[l] = s[l + 1]
    BY <1>1, <1>4
  <2> QED BY <2>1, <2>2 DEF InOrder
<1> QED BY <1>1, <1>2, <1>3, <1>4 DEF InOrder

LEMMA DequeueReads ==
  ASSUME NEW ops \in Queries, NEW o \in ops, NEW side \in Ports(o), NEW f, FlowOK(ops, f),
         ~isEmpty(f, Plan[o][side])
  PROVE  LET g == dequeue(f, Plan[o][side])
         IN  /\ Read(ops, o, f, g)
             /\ Pending(g, Plan[o][side]) = Tail(Pending(f, Plan[o][side]))
             /\ \A port \in Ports(o) \ {side} : Pending(g, Plan[o][port]) = Pending(f, Plan[o][port])
             /\ \A ts : NotBefore(f, Plan[o][side], ts) => NotBefore(g, Plan[o][side], ts)
<1> DEFINE i == Plan[o][side]
           g == dequeue(f, i)
<1>1. /\ DOMAIN f = {"queue", "refs", "history", "promise"} /\ DOMAIN f.queue = Outs(ops)
      /\ \A q \in Outs(ops) : DOMAIN f.queue[q] = Reader(q)
      /\ f.promise \in [Outs(ops) -> Nat]
  BY DEF FlowOK
<1>2. i[1] \in Outs(ops) /\ i[2] \in Reader(i[1])
  BY PortOK
<1>3. DOMAIN g = DOMAIN f /\ g.promise = f.promise
  BY DEF dequeue
<1>4. g.queue = [f.queue EXCEPT ![i[1]] = [f.queue[i[1]] EXCEPT ![i[2]] = Tail(f.queue[i[1]][i[2]])]]
  BY <1>1, <1>2 DEF dequeue
<1> HIDE DEF g
<1>5. /\ DOMAIN g.queue = Outs(ops)
      /\ \A q \in Outs(ops) : DOMAIN g.queue[q] = Reader(q)
      /\ g.queue[i[1]][i[2]] = Tail(f.queue[i[1]][i[2]])
      /\ \A q \in Outs(ops) : \A r \in Reader(q) :
            ~(q = i[1] /\ r = i[2]) => g.queue[q][r] = f.queue[q][r]
  <2> HIDE DEF i
  <2>1. /\ DOMAIN g.queue = Outs(ops)
        /\ g.queue[i[1]] = [f.queue[i[1]] EXCEPT ![i[2]] = Tail(f.queue[i[1]][i[2]])]
        /\ \A q \in Outs(ops) : q # i[1] => g.queue[q] = f.queue[q]
    BY <1>1, <1>2, <1>4
  <2>2. g.queue[i[1]][i[2]] = Tail(f.queue[i[1]][i[2]])
    BY <1>1, <1>2, <2>1
  <2>3. \A q \in Outs(ops) : DOMAIN g.queue[q] = Reader(q)
    BY <1>1, <1>2, <2>1
  <2>4. \A q \in Outs(ops) : \A r \in Reader(q) :
            ~(q = i[1] /\ r = i[2]) => g.queue[q][r] = f.queue[q][r]
    BY <1>1, <1>2, <2>1
  <2> QED BY <2>1, <2>2, <2>3, <2>4
<1>6. f.queue[i[1]][i[2]] # <<>> /\ InOrder(f.queue[i[1]][i[2]], f.promise[i[1]])
  BY <1>2, FlowFields DEF isEmpty, Pending
<1>7. \A q \in Outs(ops) : \A r \in Reader(q) : InOrder(g.queue[q][r], g.promise[q])
  <2> TAKE q \in Outs(ops)
  <2> TAKE r \in Reader(q)
  <2>1. CASE q = i[1] /\ r = i[2]
    BY <1>3, <1>5, <1>6, <2>1, InOrderTail
  <2>2. CASE ~(q = i[1] /\ r = i[2])
    BY <1>3, <1>5, <2>2, FlowFields
  <2> QED BY <2>1, <2>2
<1>8. FlowOK(ops, g)
  BY <1>1, <1>3, <1>5, <1>7 DEF FlowOK
<1>9. Read(ops, o, f, g)
  BY <1>3, <1>5, <1>8 DEF Read
<1>10. \A port \in Ports(o) \ {side} : Pending(g, Plan[o][port]) = Pending(f, Plan[o][port])
  <2> TAKE port \in Ports(o) \ {side}
  <2>1. Plan[o][port][1] \in Outs(ops) /\ Plan[o][port][2] \in Reader(Plan[o][port][1])
    BY PortOK
  <2>2. ~(Plan[o][port][1] = i[1] /\ Plan[o][port][2] = i[2])
    BY PortOK, QueuesAssumption
  <2> QED BY <1>5, <2>1, <2>2 DEF Pending
<1>11. Pending(g, i) = Tail(Pending(f, i))
  BY <1>5 DEF Pending
<1>12. ASSUME NEW ts, NotBefore(f, i, ts) PROVE NotBefore(g, i, ts)
  <2> DEFINE s == Pending(f, i)
  <2>1. IsSeq(s) /\ s # <<>>
    BY <1>6 DEF InOrder, Pending
  <2>2. /\ Len(s) \in Nat \ {0} /\ Len(Tail(s)) = Len(s) - 1
        /\ \A k \in 1 .. Len(s) - 1 : Tail(s)[k] = s[k + 1] /\ k + 1 \in 1 .. Len(s)
    <3> HIDE DEF s
    <3> QED BY <2>1, TailIsSeq
  <2>3. \A k \in 1 .. Len(Tail(s)) : ts <= Tail(s)[k].timestamp
    BY <1>12, <2>2 DEF NotBefore
  <2> QED BY <1>3, <1>11, <1>12, <2>3 DEF NotBefore
<1> QED BY <1>9, <1>10, <1>11, <1>12 DEF g

-----------------------------------------------------------------------------
(***************************************************************************)
(* A step, put together from what it reads and what it writes.             *)
(***************************************************************************)
LEMMA ReadNothing ==
  ASSUME NEW ops, NEW o, NEW f, FlowOK(ops, f)
  PROVE  Read(ops, o, f, f)
BY DEF Read

LEMMA ReadSame ==
  ASSUME NEW ops, NEW o, NEW f, NEW g, NEW h, Read(ops, o, f, g), SameQueues(g, h)
  PROVE  Read(ops, o, f, h)
BY SameIsOK DEF Read, SameQueues

LEMMA MovedBy ==
  ASSUME NEW ops \in Queries, NEW o \in ops, HasOutput(o), NEW f, NEW g, NEW h,
         FlowOK(ops, f), Read(ops, o, f, g), Put(ops, Plan[o].out, g, h)
  PROVE  Moved(ops, o, f, h)
<1> DEFINE out == Plan[o].out
<1>1. out \in Outs(ops)
  BY OutOK
<1>2. \A r \in Reader(out) : g.queue[out][r] = f.queue[out][r]
  BY <1>1, PortOK DEF Read
<1>3. g.promise = f.promise
  BY DEF Read
<1>4. /\ f.promise[out] <= h.promise[out]
      /\ \A r \in Reader(out) : Extends(f.queue[out][r], h.queue[out][r], f.promise[out])
  BY <1>2, <1>3 DEF Put
<1>5. ASSUME NEW q \in Outs(ops), q # out
      PROVE  /\ f.promise[q] = h.promise[q]
             /\ \A r \in Reader(q) :
                  \/ h.queue[q][r] = f.queue[q][r]
                  \/ \E side \in Ports(o) : Plan[o][side][1] = q /\ Plan[o][side][2] = r
  <2>1. h.queue[q] = g.queue[q] /\ h.promise[q] = g.promise[q]
    BY <1>5 DEF Put
  <2> QED BY <1>3, <2>1 DEF Read
<1>6. FlowOK(ops, h)
  BY DEF Put
<1> HIDE DEF out
<1>7. \A q \in Outs(ops) :
         IF HasOutput(o) /\ q = out
         THEN /\ f.promise[q] <= h.promise[q]
              /\ \A r \in Reader(q) : Extends(f.queue[q][r], h.queue[q][r], f.promise[q])
         ELSE /\ f.promise[q] = h.promise[q]
              /\ \A r \in Reader(q) :
                   \/ h.queue[q][r] = f.queue[q][r]
                   \/ \E side \in Ports(o) : Plan[o][side][1] = q /\ Plan[o][side][2] = r
  BY <1>4, <1>5
<1> QED BY <1>6, <1>7 DEF Moved, out

LEMMA MovedByReading ==
  ASSUME NEW ops \in Queries, NEW o \in ops, ~HasOutput(o), NEW f, NEW g, NEW h,
         FlowOK(ops, f), Read(ops, o, f, g), SameQueues(g, h)
  PROVE  Moved(ops, o, f, h)
<1>1. Read(ops, o, f, h)
  BY ReadSame
<1> QED BY <1>1 DEF Read, Moved

(* What the writing of the output leaves of an input.                      *)
LEMMA PutKeepsInput ==
  ASSUME NEW ops \in Queries, NEW o \in ops, HasOutput(o), NEW side \in Ports(o),
         NEW f, NEW g, Put(ops, Plan[o].out, f, g)
  PROVE  /\ Pending(g, Plan[o][side]) = Pending(f, Plan[o][side])
         /\ \A ts : NotBefore(g, Plan[o][side], ts) <=> NotBefore(f, Plan[o][side], ts)
         /\ isEmpty(g, Plan[o][side]) <=> isEmpty(f, Plan[o][side])
         /\ peek(g, Plan[o][side]) = peek(f, Plan[o][side])
<1>1. Plan[o][side][1] \in Outs(ops) /\ Plan[o][side][1] # Plan[o].out
  BY PortOK
<1>2. /\ g.queue[Plan[o][side][1]] = f.queue[Plan[o][side][1]]
      /\ g.promise[Plan[o][side][1]] = f.promise[Plan[o][side][1]]
  BY <1>1 DEF Put
<1> QED BY <1>2 DEF Pending, NotBefore, isEmpty, peek

-----------------------------------------------------------------------------
(***************************************************************************)
(* What a step of o is to another operator p: its output is as it was, and *)
(* its inputs may have got more, no older than what they promised.         *)
(***************************************************************************)
Grown(f, g, i) ==
    /\ f.promise[i[1]] <= g.promise[i[1]]
    /\ Extends(Pending(f, i), Pending(g, i), f.promise[i[1]])

LEMMA OthersGrow ==
  ASSUME NEW ops \in Queries, NEW o \in ops, NEW p \in ops, p # o, NEW f, NEW g,
         FlowOK(ops, f), Moved(ops, o, f, g)
  PROVE  /\ HasOutput(p) => Promise(p, g) = Promise(p, f)
         /\ \A side \in Ports(p) : Grown(f, g, Plan[p][side])
<1>1. ASSUME HasOutput(p) PROVE Promise(p, g) = Promise(p, f)
  <2>1. Plan[p].out \in Outs(ops) /\ ~(HasOutput(o) /\ Plan[p].out = Plan[o].out)
    BY <1>1, OutOK
  <2> QED BY <2>1 DEF Moved, Promise
<1>2. ASSUME NEW side \in Ports(p) PROVE Grown(f, g, Plan[p][side])
  <2> DEFINE q == Plan[p][side][1]
             r == Plan[p][side][2]
  <2>1. q \in Outs(ops) /\ r \in Reader(q)
    BY PortOK
  <2>2. CASE HasOutput(o) /\ q = Plan[o].out
    BY <2>1, <2>2 DEF Moved, Grown, Pending
  <2>3. CASE ~(HasOutput(o) /\ q = Plan[o].out)
    <3>1. /\ f.promise[q] = g.promise[q]
          /\ \/ g.queue[q][r] = f.queue[q][r]
             \/ \E port \in Ports(o) : Plan[o][port][1] = q /\ Plan[o][port][2] = r
      BY <2>1, <2>3 DEF Moved
    <3>2. ~ \E port \in Ports(o) : Plan[o][port][1] = q /\ Plan[o][port][2] = r
      BY PortOK, QueuesAssumption
    <3>3. IsSeq(f.queue[q][r]) /\ f.promise[q] \in Nat
      BY <2>1, FlowFields
    <3> HIDE DEF q, r
    <3>4. Extends(f.queue[q][r], g.queue[q][r], f.promise[q])
      BY <3>1, <3>2, <3>3, ExtendsItself
    <3>5. f.promise[q] <= g.promise[q]
      BY <3>1, <3>3
    <3> QED BY <3>4, <3>5 DEF Grown, Pending, q, r
  <2> QED BY <2>2, <2>3
<1> QED BY <1>1, <1>2

LEMMA GrownKeeps ==
  ASSUME NEW ops \in Queries, NEW p \in ops, NEW side \in Ports(p), NEW f, NEW g,
         FlowOK(ops, f), FlowOK(ops, g), Grown(f, g, Plan[p][side])
  PROVE  /\ \A ts \in Nat : NotBefore(f, Plan[p][side], ts) => NotBefore(g, Plan[p][side], ts)
         /\ ~isEmpty(f, Plan[p][side]) =>
               ~isEmpty(g, Plan[p][side]) /\ peek(g, Plan[p][side]) = peek(f, Plan[p][side])
<1> DEFINE i == Plan[p][side]
           s == Pending(f, i)
           t == Pending(g, i)
<1>1. i[1] \in Outs(ops) /\ i[2] \in Reader(i[1])
  BY PortOK
<1>2. /\ IsSeq(s) /\ Len(s) \in Nat /\ IsSeq(t) /\ Len(t) \in Nat
      /\ f.promise[i[1]] \in Nat /\ g.promise[i[1]] \in Nat
      /\ \A k \in 1 .. Len(t) : t[k].timestamp \in Nat
  BY <1>1, FlowFields, SeqFacts DEF Pending, InOrder
<1>3. f.promise[i[1]] <= g.promise[i[1]] /\ Extends(s, t, f.promise[i[1]])
  BY DEF Grown
<1>4. ASSUME NEW ts \in Nat, NotBefore(f, i, ts) PROVE NotBefore(g, i, ts)
  <2>1. ts <= f.promise[i[1]] /\ \A k \in 1 .. Len(s) : ts <= s[k].timestamp
    BY <1>4 DEF NotBefore
  <2> HIDE DEF s, t
  <2>2. ts <= g.promise[i[1]]
    BY <1>2, <1>3, <2>1
  <2>3. ASSUME NEW k \in 1 .. Len(t) PROVE ts <= t[k].timestamp
    <3>1. CASE k <= Len(s)
      BY <1>2, <1>3, <2>1, <3>1 DEF Extends
    <3>2. CASE ~(k <= Len(s))
      <4>1. k \in Len(s) + 1 .. Len(t) /\ t[k].timestamp \in Nat
        BY <1>2, <3>2
      <4>2. f.promise[i[1]] <= t[k].timestamp
        BY <1>3, <4>1 DEF Extends
      <4> QED BY <1>2, <2>1, <4>1, <4>2
    <3> QED BY <3>1, <3>2
  <2> QED BY <2>2, <2>3 DEF NotBefore, s, t
<1>5. ASSUME s # <<>> PROVE t # <<>> /\ Head(t) = Head(s)
  <2> HIDE DEF s, t
  <2>1. Len(s) \in Nat \ {0} /\ Head(s) = s[1]
    BY <1>2, <1>5, TailIsSeq
  <2>2. 1 \in 1 .. Len(s) /\ t[1] = s[1] /\ Len(t) # 0
    BY <1>2, <1>3, <2>1 DEF Extends
  <2>3. t # <<>>
    BY <2>2, EmptyIsSeq
  <2> QED BY <1>2, <2>1, <2>2, <2>3, TailIsSeq
<1> QED BY <1>4, <1>5 DEF isEmpty, peek

-----------------------------------------------------------------------------
(***************************************************************************)
(* The kinds, their ports and their invariants.                            *)
(***************************************************************************)
LEMMA KindFacts ==
  ASSUME NEW o \in Op
  PROVE  /\ Plan[o].kind \in Kind
         /\ HasOutput(o) <=> Plan[o].kind \notin Terminal
         /\ Plan[o].kind \in Originating => Ports(o) = {}
         /\ Plan[o].kind \in Merging => Ports(o) = Sides
         /\ Plan[o].kind \notin Originating \cup Merging => Ports(o) = {"in"}
<1>1. /\ Plan[o].kind \in Kind
      /\ HasOutput(o) <=> Plan[o].kind \notin Terminal
      /\ Ports(o) = CASE Plan[o].kind \in Originating -> {}
                      [] Plan[o].kind \in Merging     -> Sides
                      [] OTHER                        -> {"in"}
  BY OperatorsAssumption
<1>2. ~(Plan[o].kind \in Originating /\ Plan[o].kind \in Merging)
  BY DEF Originating, Merging
<1> QED BY <1>1, <1>2

LEMMA OpInvIs ==
  ASSUME NEW o, NEW s, NEW f
  PROVE  /\ Plan[o].kind \in Originating => (OpInv(o, s, f) <=> OriginInv(o, s, f))
         /\ Plan[o].kind \in {"select", "project", "distinct"} =>
               (OpInv(o, s, f) <=> FilterInv(o, s, f))
         /\ Plan[o].kind \in {"group", "partn", "row"} => (OpInv(o, s, f) <=> PairInv(o, s, f))
         /\ Plan[o].kind = "range" => (OpInv(o, s, f) <=> RangeInv(o, s, f))
         /\ Plan[o].kind \in {"istream", "dstream"} => (OpInv(o, s, f) <=> ChangesInv(o, s, f))
         /\ Plan[o].kind = "rstream" => (OpInv(o, s, f) <=> RstreamInv(o, s, f))
         /\ Plan[o].kind \in {"union", "except"} => (OpInv(o, s, f) <=> MergeInv(o, s, f))
         /\ Plan[o].kind = "join" => (OpInv(o, s, f) <=> JoinInv(o, s, f))
         /\ Plan[o].kind = "streamjoin" => (OpInv(o, s, f) <=> StreamJoinInv(o, s, f))
         /\ Plan[o].kind \in Terminal => OpInv(o, s, f)
BY DEF OpInv, Originating, Terminal

LEMMA RunInvIs ==
  ASSUME NEW o, NEW s, NEW f, NEW left
  PROVE  /\ Plan[o].kind \in {"group", "range", "istream", "dstream", "rstream"} =>
               (RunInv(o, s, f, left) <=> ~s.bStalled)
         /\ Plan[o].kind \in {"partn", "row"} => (RunInv(o, s, f, left) <=> StalledMeansFull(o, s, f))
         /\ Plan[o].kind \in {"union", "except"} => (RunInv(o, s, f, left) <=> MergeRuns(o, s, f, left))
         /\ Plan[o].kind \in {"join", "streamjoin"} =>
               (RunInv(o, s, f, left) <=> ~s.bStalled /\ MergeRuns(o, s, f, left))
         /\ Plan[o].kind \in Originating \cup Terminal \cup {"select", "project", "distinct"} =>
               RunInv(o, s, f, left)
BY DEF RunInv, Originating, Terminal

(***************************************************************************)
(* The invariant of an operator survives the steps of the others.          *)
(***************************************************************************)
LEMMA AtLeastGrows ==
  ASSUME NEW ops \in Queries, NEW p \in ops, NEW side \in Ports(p), NEW s, NEW f, NEW g,
         FlowOK(ops, f), FlowOK(ops, g), Grown(f, g, Input(p, side)),
         s.lastTs[side] \in Nat, NotBefore(f, Input(p, side), s.lastTs[side]),
         NEW ts \in Nat, AtLeast(p, s, f, side, ts)
  PROVE  AtLeast(p, s, g, side, ts)
<1> DEFINE i == Input(p, side)
<1>1. Input(p, side) = Plan[p][side]
  BY DEF Input
<1>2. CASE isEmpty(f, i) /\ isEmpty(g, i)
  BY <1>2 DEF AtLeast
<1>3. CASE isEmpty(f, i) /\ ~isEmpty(g, i)
  <2>1. ts <= s.lastTs[side]
    BY <1>3 DEF AtLeast
  <2>2. NotBefore(g, i, s.lastTs[side])
    BY <1>1, GrownKeeps
  <2>3. s.lastTs[side] <= peek(g, i).timestamp /\ peek(g, i).timestamp \in Nat
    BY <1>1, <1>3, <2>2, PeekFacts
  <2>4. ts <= peek(g, i).timestamp
    BY <2>1, <2>3
  <2> QED BY <1>3, <2>4 DEF AtLeast
<1>4. CASE ~isEmpty(f, i)
  <2>1. ~isEmpty(g, i) /\ peek(g, i) = peek(f, i)
    BY <1>1, <1>4, GrownKeeps
  <2> QED BY <1>4, <2>1 DEF AtLeast
<1> QED BY <1>2, <1>3, <1>4

LEMMA OpInvSurvives ==
  ASSUME NEW ops \in Queries, NEW o \in ops, NEW p \in ops, p # o, NEW s, NEW f, NEW g,
         FlowOK(ops, f), Moved(ops, o, f, g), OpInv(p, s, f)
  PROVE  OpInv(p, s, g)
<1>0. p \in Op /\ FlowOK(ops, g)
  BY QueuesAssumption DEF Moved
<1>1. HasOutput(p) => Promise(p, g) = Promise(p, f)
  BY OthersGrow
<1>2. \A side \in Ports(p) : Grown(f, g, Plan[p][side])
  BY OthersGrow
<1>3. \A side \in Ports(p) : \A ts \in Nat :
         NotBefore(f, Plan[p][side], ts) => NotBefore(g, Plan[p][side], ts)
  BY <1>0, <1>2, GrownKeeps
<1>4. CASE Plan[p].kind \in Originating
  <2>1. HasOutput(p)
    BY <1>0, <1>4, KindFacts DEF Originating, Terminal
  <2> QED BY <1>1, <1>4, <2>1, OpInvIs DEF OriginInv
<1>5. CASE Plan[p].kind \in Terminal
  BY <1>5, OpInvIs
<1>6. CASE Plan[p].kind \in Merging
  <2>1. HasOutput(p) /\ Ports(p) = Sides
    BY <1>0, <1>6, KindFacts DEF Merging, Terminal
  <2>2. MergeInv(p, s, f)
    BY <1>6, OpInvIs DEF Merging, JoinInv, StreamJoinInv
  <2>3. ASSUME NEW side \in Sides, NEW ts \in Nat, AtLeast(p, s, f, side, ts)
        PROVE  AtLeast(p, s, g, side, ts)
    <3>1. /\ s.lastTs[side] \in Nat /\ NotBefore(f, Input(p, side), s.lastTs[side])
          /\ Grown(f, g, Input(p, side))
      BY <1>2, <2>1, <2>2 DEF MergeInv, Input
    <3> QED BY <1>0, <2>1, <2>3, <3>1, AtLeastGrows
  <2>4. Promise(p, f) \in Nat
    BY <2>1, OutOK, FlowFields DEF Promise
  <2>5. MergeInv(p, s, g)
    <3>1. /\ DOMAIN s = DOMAIN InitialState(Plan[p].kind)
          /\ s.lastTs \in [Sides -> Nat] /\ s.minTs \in [Sides -> Nat]
      BY <2>2 DEF MergeInv
    <3>2. ASSUME NEW side \in Sides
          PROVE  /\ NotBefore(g, Input(p, side), s.lastTs[side])
                 /\ AtLeast(p, s, g, side, Promise(p, g))
      <4>1. NotBefore(f, Input(p, side), s.lastTs[side]) /\ AtLeast(p, s, f, side, Promise(p, f))
        BY <2>2 DEF MergeInv
      <4>2. s.lastTs[side] \in Nat
        BY <3>1
      <4>3. AtLeast(p, s, g, side, Promise(p, f))
        BY <2>3, <2>4, <4>1
      <4> QED BY <1>1, <1>3, <2>1, <4>1, <4>2, <4>3 DEF Input
    <3> QED BY <3>1, <3>2 DEF MergeInv
  <2>6. CASE Plan[p].kind \in {"union", "except"}
    BY <2>5, <2>6, OpInvIs
  <2>7. CASE Plan[p].kind = "join"
    <3>1. JoinInv(p, s, f)
      BY <2>7, OpInvIs
    <3>2. JoinInv(p, s, g)
      BY <1>1, <2>1, <2>3, <2>5, <3>1 DEF JoinInv
    <3> QED BY <2>7, <3>2, OpInvIs
  <2>8. CASE Plan[p].kind = "streamjoin"
    <3>1. StreamJoinInv(p, s, f)
      BY <2>8, OpInvIs
    <3>2. s.lastTs["left"] \in Nat
      BY <2>2 DEF MergeInv, Sides
    <3>3. StreamJoinInv(p, s, g)
      BY <1>1, <2>1, <2>3, <2>5, <3>1, <3>2 DEF StreamJoinInv
    <3> QED BY <2>8, <3>3, OpInvIs
  <2> QED BY <1>6, <2>6, <2>7, <2>8 DEF Merging
<1>7. CASE Plan[p].kind \notin Originating \cup Terminal \cup Merging
  <2>1. HasOutput(p) /\ Ports(p) = {"in"} /\ Plan[p].kind \in Kind
    BY <1>0, <1>7, KindFacts
  <2>2. \A ts \in Nat : NotBefore(f, Plan[p].in, ts) => NotBefore(g, Plan[p].in, ts)
    BY <1>3, <2>1
  <2>3. Promise(p, g) = Promise(p, f)
    BY <1>1, <2>1
  <2>4. FilterInv(p, s, f) => FilterInv(p, s, g)
    BY <2>2, <2>3 DEF FilterInv, Reads
  <2>5. PairInv(p, s, f) => PairInv(p, s, g)
    BY <2>4 DEF PairInv
  <2>6. RangeInv(p, s, f) => RangeInv(p, s, g)
    BY <2>3, <2>5 DEF RangeInv, WindowInv
  <2>7. ChangesInv(p, s, f) => ChangesInv(p, s, g)
    BY <2>2, <2>3 DEF ChangesInv, Reads
  <2>8. RstreamInv(p, s, f) => RstreamInv(p, s, g)
    BY <2>2, <2>4 DEF RstreamInv
  <2>9. Plan[p].kind \in {"select", "project", "distinct", "group", "partn", "row", "range",
                          "istream", "dstream", "rstream"}
    BY <1>7, <2>1 DEF Kind, Originating, Terminal, Merging
  <2> QED BY <2>4, <2>5, <2>6, <2>7, <2>8, <2>9, OpInvIs
<1> QED BY <1>4, <1>5, <1>6, <1>7

-----------------------------------------------------------------------------
(***************************************************************************)
(* What has to be shown of a step of o, for the invariant to survive it.   *)
(***************************************************************************)
FeedsAfter(o) ==
    \A w \in query : Plan[w].kind = "range" /\ o \in {w, Plan[w].store} =>
        FeedInv(w, op'[w], op'[Plan[w].store], flow')

StepOf(o) ==
    /\ Moved(query, o, flow, flow')
    /\ DOMAIN op' = query /\ \A p \in query \ {o} : op'[p] = op[p]
    /\ OpInv(o, op'[o], flow')
    /\ running' \in {o, Idle, Failed}
    /\ running' = o => RunInv(o, op'[o], flow', slice')
    /\ slice' \in 0 .. TimeSlice
    /\ FeedsAfter(o)

(* The store of a time window is the source it reads.                      *)
LEMMA StoreIsSource ==
  ASSUME NEW ops \in Queries, NEW w \in ops, Plan[w].kind = "range"
  PROVE  /\ Plan[w].store \in ops /\ Plan[w].store # w
         /\ Plan[Plan[w].store].kind = "source" /\ HasOutput(Plan[w].store)
         /\ Plan[Plan[w].store].out = Plan[w].in[1]
         /\ Ports(w) = {"in"} /\ HasOutput(w)
<1> DEFINE t == Plan[w].store
<1>1. w \in Op /\ ops \subseteq Op
  BY QueuesAssumption
<1>2. t \in Op /\ Plan[t].kind = "source" /\ Plan[t].out = Plan[w].in[1]
  BY <1>1, WindowsAssumption
<1>3. HasOutput(t) /\ HasOutput(w) /\ Ports(w) = {"in"}
  BY <1>1, <1>2, KindFacts DEF Terminal, Originating, Merging
<1>4. Plan[w].in[1] \in Outs(ops)
  BY <1>3, PortOK
<1>5. PICK p \in ops : HasOutput(p) /\ Plan[p].out = Plan[w].in[1]
  BY <1>4 DEF Outs, HasOutput
<1>6. p = t
  BY <1>1, <1>2, <1>3, <1>5, QueuesAssumption
<1> QED BY <1>2, <1>3, <1>5, <1>6

LEMMA FeedsSurvive ==
  ASSUME IInv, NEW o \in query, StepOf(o), NEW w \in query, Plan[w].kind = "range"
  PROVE  FeedInv(w, op'[w], op'[Plan[w].store], flow')
<1> DEFINE t == Plan[w].store
           q == Plan[w].in[1]
           r == Plan[w].in[2]
<1>1. CASE o \in {w, t}
  BY <1>1 DEF StepOf, FeedsAfter
<1>2. CASE o \notin {w, t}
  <2>0. query \in Queries /\ DOMAIN op = query
    BY DEF IInv, Types
  <2>1. /\ t \in query /\ Plan[t].out = q /\ Ports(w) = {"in"} /\ HasOutput(t)
        /\ w \in Op /\ t \in Op /\ o \in Op
    BY <2>0, StoreIsSource, QueuesAssumption
  <2>2. op'[w] = op[w] /\ op'[t] = op[t]
    BY <1>2, <2>0, <2>1 DEF StepOf
  <2>3. q \in Outs(query) /\ r \in Reader(q)
    BY <2>0, <2>1, PortOK
  <2>4. ~(HasOutput(o) /\ q = Plan[o].out)
    BY <1>2, <2>1, QueuesAssumption
  <2>5. ~ \E side \in Ports(o) : Plan[o][side][1] = q /\ Plan[o][side][2] = r
    <3> SUFFICES ASSUME NEW side \in Ports(o), Plan[o][side][1] = q, Plan[o][side][2] = r
                 PROVE  FALSE
      OBVIOUS
    <3>1. "in" \in Ports(w)
      BY <2>1
    <3> QED BY <1>2, <2>1, <3>1, QueuesAssumption
  <2>6. flow'.queue[q][r] = flow.queue[q][r]
    BY <2>3, <2>4, <2>5 DEF StepOf, Moved
  <2>7. Pending(flow', Plan[w].in) = Pending(flow, Plan[w].in)
    BY <2>6 DEF Pending
  <2>8. FeedInv(w, op[w], op[t], flow)
    BY DEF IInv, Feeds
  <2>9. FeedInv(w, op[w], op[t], flow')
    BY <2>7, <2>8 DEF FeedInv
  <2> QED BY <2>2, <2>9
<1> QED BY <1>1, <1>2

LEMMA StepKeeps ==
  ASSUME IInv, NEW o \in query, StepOf(o), query' = query
  PROVE  IInv' /\ \A q \in Outs(query) : flow.promise[q] <= flow'.promise[q]
<1>0. query \in Queries /\ DOMAIN op = query /\ FlowOK(query, flow)
  BY DEF IInv, Types
<1>1. /\ Moved(query, o, flow, flow')
      /\ DOMAIN op' = query /\ \A p \in query \ {o} : op'[p] = op[p]
      /\ OpInv(o, op'[o], flow') /\ running' \in {o, Idle, Failed} /\ slice' \in 0 .. TimeSlice
  BY DEF StepOf
<1>2. Types'
  <2>1. DOMAIN op' = query
    BY <1>0, <1>1
  <2>2. FlowOK(query, flow')
    BY <1>1 DEF Moved
  <2> QED BY <1>0, <1>1, <2>1, <2>2 DEF Types
<1>3. Feeds'
  BY FeedsSurvive DEF Feeds
<1>4. \A p \in query : OpInv(p, op'[p], flow')
  <2> TAKE p \in query
  <2>1. CASE p = o
    BY <1>1, <2>1
  <2>2. CASE p # o
    <3>1. op'[p] = op[p]
      BY <1>0, <1>1, <2>2
    <3>2. OpInv(p, op[p], flow)
      BY DEF IInv
    <3> QED BY <1>0, <1>1, <2>2, <3>1, <3>2, OpInvSurvives
  <2> QED BY <2>1, <2>2
<1>5. running' \in query => RunInv(running', op'[running'], flow', slice')
  <2>1. Idle \notin query /\ Failed \notin query
    BY <1>0, OperatorsAssumption, QueuesAssumption
  <2> QED BY <1>1, <2>1 DEF StepOf
<1>6. ASSUME NEW q \in Outs(query) PROVE flow.promise[q] <= flow'.promise[q]
  <2>1. flow.promise[q] \in Nat
    BY <1>0, FlowFields
  <2> QED BY <1>1, <2>1 DEF Moved
<1> QED BY <1>2, <1>3, <1>4, <1>5, <1>6 DEF IInv

-----------------------------------------------------------------------------
(***************************************************************************)
(* What every kind of operator does: start with nothing done, read an      *)
(* input, and end with a heartbeat.                                        *)
(***************************************************************************)
LEMMA Base ==
  ASSUME IInv, NEW o \in query
  PROVE  /\ query \in Queries /\ o \in Op /\ DOMAIN op = query /\ FlowOK(query, flow)
         /\ slice \in 0 .. TimeSlice /\ TimeSlice \in Nat \ {0} /\ MaxElements \in Nat \ {0}
         /\ o # Idle /\ o # Failed
         /\ OpInv(o, op[o], flow)
         /\ running = o => RunInv(o, op[o], flow, slice)
<1>1. query \in Queries /\ DOMAIN op = query /\ FlowOK(query, flow) /\ slice \in 0 .. TimeSlice
  BY DEF IInv, Types
<1>2. o \in Op
  BY <1>1, QueuesAssumption
<1> QED BY <1>1, <1>2, OperatorsAssumption, SizesAssumption DEF IInv

LEMMA NoFeeds ==
  ASSUME IInv, NEW o \in query, Plan[o].kind \notin {"source", "range"}
  PROVE  FeedsAfter(o)
<1>1. \A w \in query : Plan[w].kind = "range" => Plan[Plan[w].store].kind = "source"
  BY Base, WindowsAssumption
<1> QED BY <1>1 DEF FeedsAfter

LEMMA NothingMoves ==
  ASSUME NEW ops \in Queries, NEW o \in ops, NEW f, FlowOK(ops, f)
  PROVE  Moved(ops, o, f, f)
<1>1. Read(ops, o, f, f) /\ SameQueues(f, f)
  BY ReadNothing, SameOfCounts
<1>2. CASE HasOutput(o)
  BY <1>1, <1>2, PutNothing, MovedBy, OutOK
<1>3. CASE ~HasOutput(o)
  BY <1>1, <1>3, MovedByReading
<1> QED BY <1>2, <1>3

LEMMA NothingDone ==
  ASSUME IInv, NEW o \in query, UNCHANGED <<flow, op>>,
         running' \in {o, Idle, Failed}, slice' \in 0 .. TimeSlice,
         running' = o => RunInv(o, op[o], flow, slice')
  PROVE  StepOf(o)
<1>1. Moved(query, o, flow, flow')
  BY Base, NothingMoves
<1>2. FeedsAfter(o)
  BY DEF IInv, Feeds, FeedsAfter
<1>3. OpInv(o, op'[o], flow')
  BY Base
<1> QED BY <1>1, <1>2, <1>3, Base DEF StepOf

LEMMA ReadKeepsOutput ==
  ASSUME NEW ops \in Queries, NEW o \in ops, HasOutput(o), NEW f, NEW g,
         FlowOK(ops, f), Read(ops, o, f, g)
  PROVE  /\ isFull(g, Plan[o].out) <=> isFull(f, Plan[o].out)
         /\ Space(g, Plan[o].out) = Space(f, Plan[o].out)
         /\ Promise(o, g) = Promise(o, f)
<1> DEFINE q == Plan[o].out
<1>1. q \in Outs(ops)
  BY OutOK
<1>2. DOMAIN f.queue[q] = Reader(q) /\ DOMAIN g.queue[q] = Reader(q)
  BY <1>1 DEF FlowOK, Read
<1>3. \A r \in Reader(q) : g.queue[q][r] = f.queue[q][r]
  BY <1>1, PortOK DEF Read
<1>4. {Len(g.queue[q][r]) : r \in DOMAIN g.queue[q]} = {Len(f.queue[q][r]) : r \in DOMAIN f.queue[q]}
  BY <1>2, <1>3
<1> QED BY <1>2, <1>3, <1>4 DEF isFull, Space, Promise, Read

LEMMA SameOutput ==
  ASSUME NEW o, NEW f, NEW g, SameQueues(f, g)
  PROVE  /\ isFull(g, Plan[o].out) <=> isFull(f, Plan[o].out)
         /\ Space(g, Plan[o].out) = Space(f, Plan[o].out)
         /\ Promise(o, g) = Promise(o, f)
BY DEF SameQueues, isFull, Space, Promise

LEMMA Taking ==
  ASSUME IInv, NEW o \in query, HasOutput(o), NEW side \in Ports(o),
         ~isEmpty(flow, Plan[o][side])
  PROVE  LET h  == dequeue(flow, Plan[o][side])
             ts == peek(flow, Plan[o][side]).timestamp
         IN  /\ FlowOK(query, h) /\ Read(query, o, flow, h)
             /\ isFull(h, Plan[o].out) <=> isFull(flow, Plan[o].out)
             /\ Promise(o, h) = Promise(o, flow) /\ Promise(o, flow) \in Nat
             /\ peek(flow, Plan[o][side]).kind \in KindOf /\ ts \in Nat
             /\ \A n : NotBefore(flow, Plan[o][side], n) => n <= ts
             /\ \A g : Put(query, Plan[o].out, h, g) =>
                   /\ Moved(query, o, flow, g)
                   /\ FlowOK(query, g) /\ Promise(o, g) \in Nat
                   /\ NotBefore(g, Plan[o][side], ts)
<1> DEFINE i == Plan[o][side]
           h == dequeue(flow, i)
           ts == peek(flow, i).timestamp
<1>1. query \in Queries /\ FlowOK(query, flow)
  BY Base
<1>2. Read(query, o, flow, h) /\ \A n : NotBefore(flow, i, n) => NotBefore(h, i, n)
  BY <1>1, DequeueReads
<1>3. FlowOK(query, h)
  BY <1>2 DEF Read
<1>4. /\ isFull(h, Plan[o].out) <=> isFull(flow, Plan[o].out)
      /\ Promise(o, h) = Promise(o, flow)
  BY <1>1, <1>2, ReadKeepsOutput
<1>5. Promise(o, flow) \in Nat
  BY <1>1, OutOK, FlowFields DEF Promise
<1>6. /\ peek(flow, i).kind \in KindOf /\ ts \in Nat
      /\ NotBefore(flow, i, ts) /\ \A n : NotBefore(flow, i, n) => n <= ts
  BY <1>1, PeekFacts
<1> HIDE DEF h, ts
<1>7. ASSUME NEW g, Put(query, Plan[o].out, h, g)
      PROVE  /\ Moved(query, o, flow, g) /\ FlowOK(query, g) /\ Promise(o, g) \in Nat
             /\ NotBefore(g, i, ts)
  <2>1. Moved(query, o, flow, g)
    BY <1>1, <1>2, <1>7, MovedBy
  <2>2. FlowOK(query, g)
    BY <1>7 DEF Put
  <2>3. Promise(o, g) \in Nat
    BY <1>1, <2>2, OutOK, FlowFields DEF Promise
  <2>4. NotBefore(g, i, ts)
    BY <1>1, <1>2, <1>6, <1>7, PutKeepsInput
  <2> QED BY <2>1, <2>2, <2>3, <2>4
<1>8. /\ FlowOK(query, h) /\ Read(query, o, flow, h)
      /\ isFull(h, Plan[o].out) <=> isFull(flow, Plan[o].out)
      /\ Promise(o, h) = Promise(o, flow) /\ Promise(o, flow) \in Nat
      /\ peek(flow, Plan[o][side]).kind \in KindOf /\ ts \in Nat
      /\ \A n : NotBefore(flow, Plan[o][side], n) => n <= ts
  BY <1>2, <1>3, <1>4, <1>5, <1>6
<1> QED BY <1>7, <1>8 DEF h, ts

(* The heartbeat at the end of a run.                                      *)
LEMMA EndPuts ==
  ASSUME IInv, NEW o \in query, HasOutput(o), NEW ts \in Nat, Promise(o, flow) <= ts,
         flow' = IF HeartbeatDue(o, ts) THEN enqueue(flow, Plan[o].out, Heartbeat(ts)) ELSE flow
  PROVE  /\ Put(query, Plan[o].out, flow, flow') /\ Moved(query, o, flow, flow')
         /\ Promise(o, flow') \in Nat /\ Promise(o, flow') <= ts
         /\ \A side \in Ports(o) : \A n :
               NotBefore(flow, Plan[o][side], n) => NotBefore(flow', Plan[o][side], n)
<1> DEFINE out == Plan[o].out
<1>1. query \in Queries /\ FlowOK(query, flow) /\ out \in Outs(query)
  BY Base, OutOK
<1>2. Put(query, out, flow, flow') /\ Promise(o, flow') <= ts
  <2>1. CASE HeartbeatDue(o, ts)
    <3>1. ~isFull(flow, out)
      BY <2>1 DEF HeartbeatDue
    <3>2. Heartbeat(ts).kind \in KindOf /\ Heartbeat(ts).timestamp = ts
      BY DEF Heartbeat, Element, KindOf
    <3>3. /\ Put(query, out, flow, enqueue(flow, out, Heartbeat(ts)))
          /\ enqueue(flow, out, Heartbeat(ts)).promise[out] = ts
      BY <1>1, <3>1, <3>2, EnqueuePuts DEF Promise
    <3> QED BY <2>1, <3>3 DEF Promise
  <2>2. CASE ~HeartbeatDue(o, ts)
    <3>1. flow' = flow
      BY <2>2
    <3>2. SameQueues(flow, flow)
      BY <1>1, SameOfCounts
    <3>3. Put(query, out, flow, flow)
      BY <1>1, <3>2, PutNothing
    <3> QED BY <3>1, <3>3
  <2> QED BY <2>1, <2>2
<1>3. Moved(query, o, flow, flow')
  BY <1>1, <1>2, ReadNothing, MovedBy
<1>4. Promise(o, flow') \in Nat
  BY <1>1, <1>2, FlowFields DEF Put, Promise
<1> QED BY <1>1, <1>2, <1>3, <1>4, PutKeepsInput

LEMMA Control ==
  ASSUME IInv, NEW o \in query
  PROVE  /\ Begin(o) => running' = o /\ slice' = TimeSlice /\ slice' \in 0 .. TimeSlice
         /\ MayIterate(o) /\ Loop => /\ running' = o /\ slice' = slice - 1
                                     /\ slice' \in 0 .. TimeSlice /\ slice' < TimeSlice
         /\ Return \/ ReturnError => /\ running' \in {Idle, Failed} /\ running' # o
                                     /\ slice' = 0 /\ slice' \in 0 .. TimeSlice
BY Base DEF Begin, MayIterate, Loop, Return, ReturnError

(* The end of a run whose heartbeat counts as output.                      *)
LEMMA EndOp ==
  ASSUME IInv, NEW o \in query, HasOutput(o), "lastOutputTs" \in DOMAIN op[o],
         op[o].lastInputTs \in Nat, Promise(o, flow) <= op[o].lastInputTs,
         IF HeartbeatDue(o, op[o].lastInputTs)
         THEN /\ flow' = enqueue(flow, Plan[o].out, Heartbeat(op[o].lastInputTs))
              /\ op' = [op EXCEPT ![o].lastOutputTs = op[o].lastInputTs]
         ELSE UNCHANGED <<flow, op>>
  PROVE  /\ Moved(query, o, flow, flow')
         /\ Promise(o, flow') \in Nat /\ Promise(o, flow') <= op[o].lastInputTs
         /\ \A side \in Ports(o) : \A n :
               NotBefore(flow, Plan[o][side], n) => NotBefore(flow', Plan[o][side], n)
         /\ DOMAIN op' = query /\ \A p \in query \ {o} : op'[p] = op[p]
         /\ DOMAIN op'[o] = DOMAIN op[o]
         /\ \A x \in DOMAIN op[o] \ {"lastOutputTs"} : op'[o][x] = op[o][x]
<1>1. flow' = IF HeartbeatDue(o, op[o].lastInputTs)
              THEN enqueue(flow, Plan[o].out, Heartbeat(op[o].lastInputTs)) ELSE flow
  OBVIOUS
<1>2. /\ Moved(query, o, flow, flow')
      /\ Promise(o, flow') \in Nat /\ Promise(o, flow') <= op[o].lastInputTs
      /\ \A side \in Ports(o) : \A n :
            NotBefore(flow, Plan[o][side], n) => NotBefore(flow', Plan[o][side], n)
  BY <1>1, EndPuts
<1>3. DOMAIN op = query
  BY Base
<1>4. /\ DOMAIN op' = query /\ \A p \in query \ {o} : op'[p] = op[p]
      /\ DOMAIN op'[o] = DOMAIN op[o]
      /\ \A x \in DOMAIN op[o] \ {"lastOutputTs"} : op'[o][x] = op[o][x]
  <2>1. CASE op' = op
    BY <1>3, <2>1
  <2>2. CASE op' = [op EXCEPT ![o].lastOutputTs = op[o].lastInputTs]
    BY <1>3, <2>2
  <2> QED BY <2>1, <2>2
<1> QED BY <1>2, <1>4

-----------------------------------------------------------------------------
(***************************************************************************)
(* The filters: what they send has the timestamp of what they just read.   *)
(***************************************************************************)
LEMMA Single ==
  ASSUME IInv, NEW o \in query,
         Plan[o].kind \in {"select", "project", "distinct", "group", "partn", "row", "range",
                           "istream", "dstream", "rstream"}
  PROVE  HasOutput(o) /\ Ports(o) = {"in"}
BY Base, KindFacts DEF Originating, Merging, Terminal

LEMMA FilterReads ==
  ASSUME IInv, NEW o \in query, HasOutput(o), Ports(o) = {"in"}, FilterInv(o, op[o], flow),
         ~isEmpty(flow, Plan[o].in), NEW g, Put(query, Plan[o].out, dequeue(flow, Plan[o].in), g),
         Promise(o, g) <= peek(flow, Plan[o].in).timestamp,
         NEW s, DOMAIN s = DOMAIN op[o], s.lastInputTs = peek(flow, Plan[o].in).timestamp
  PROVE  FilterInv(o, s, g) /\ Moved(query, o, flow, g)
<1>1. "in" \in Ports(o)
  OBVIOUS
<1>2. /\ Moved(query, o, flow, g) /\ s.lastInputTs \in Nat
      /\ NotBefore(g, Plan[o].in, s.lastInputTs)
  BY <1>1, Taking
<1> QED BY <1>2 DEF FilterInv, Reads

LEMMA FilterEnds ==
  ASSUME IInv, NEW o \in query,
         Plan[o].kind \in {"select", "project", "distinct"},
         Return,
         IF HeartbeatDue(o, op[o].lastInputTs)
         THEN /\ flow' = enqueue(flow, Plan[o].out, Heartbeat(op[o].lastInputTs))
              /\ op' = [op EXCEPT ![o].lastOutputTs = op[o].lastInputTs]
         ELSE UNCHANGED <<flow, op>>
  PROVE  StepOf(o)
<1>1. HasOutput(o) /\ "in" \in Ports(o)
  BY Single
<1>2. FilterInv(o, op[o], flow)
  BY Base, OpInvIs
<1>3. "lastOutputTs" \in DOMAIN op[o] /\ "lastInputTs" \in DOMAIN op[o]
  BY <1>2 DEF FilterInv, InitialState, SelectInit, ProjectInit, DistinctInit
<1>4. /\ Moved(query, o, flow, flow') /\ Promise(o, flow') <= op[o].lastInputTs
      /\ NotBefore(flow', Plan[o].in, op[o].lastInputTs)
      /\ DOMAIN op' = query /\ \A p \in query \ {o} : op'[p] = op[p]
      /\ DOMAIN op'[o] = DOMAIN op[o] /\ op'[o].lastInputTs = op[o].lastInputTs
  BY <1>1, <1>2, <1>3, EndOp DEF FilterInv, Reads
<1>5. FilterInv(o, op'[o], flow')
  BY <1>2, <1>4 DEF FilterInv, Reads
<1> QED BY <1>4, <1>5, OpInvIs, NoFeeds, Control DEF StepOf

LEMMA FilterLoops ==
  ASSUME IInv, NEW o \in query,
         Plan[o].kind \in {"select", "project", "distinct"},
         FilterInv(o, op'[o], flow'), Moved(query, o, flow, flow'),
         DOMAIN op' = query, \A p \in query \ {o} : op'[p] = op[p],
         MayIterate(o), Loop
  PROVE  StepOf(o)
BY OpInvIs, RunInvIs, NoFeeds, Control DEF StepOf

LEMMA SelectStep ==
  ASSUME IInv, NEW o \in query, Plan[o].kind = "select",
         SelectBegin(o) \/ SelectIterate(o) \/ SelectEnd(o)
  PROVE  StepOf(o)
<1>1. CASE SelectBegin(o)
  BY <1>1, NothingDone, Control, RunInvIs DEF SelectBegin
<1>2. CASE SelectEnd(o)
  BY <1>2, FilterEnds DEF SelectEnd
<1>3. CASE SelectIterate(o)
  <2> DEFINE e == peek(flow, Plan[o].in)
             f == dequeue(flow, Plan[o].in)
             out == Plan[o].out
             passes == IsData(e) /\ e.tuple \in Plan[o].satisfy
  <2>1. HasOutput(o) /\ Ports(o) = {"in"} /\ "in" \in Ports(o) /\ out \in Outs(query)
    BY Base, Single, OutOK
  <2>2. FilterInv(o, op[o], flow) /\ DOMAIN op = query
    BY Base, OpInvIs
  <2>3. /\ MayIterate(o) /\ ~isFull(flow, out) /\ ~isEmpty(flow, Plan[o].in) /\ Loop
        /\ op' = [op EXCEPT ![o].lastInputTs = e.timestamp,
                            ![o].lastOutputTs = IF passes THEN e.timestamp ELSE @]
        /\ flow' = CASE passes               -> enqueue(f, out, e)
                     [] IsData(e) /\ ~passes -> Discard(f, e.tuple)
                     [] ~IsData(e)           -> f
    BY <1>3 DEF SelectIterate, SelectStuck
  <2>4. /\ FlowOK(query, f) /\ ~isFull(f, out) /\ Promise(o, f) \in Nat
        /\ e.kind \in KindOf /\ e.timestamp \in Nat /\ Promise(o, f) <= e.timestamp
    BY <2>1, <2>2, <2>3, Taking DEF FilterInv, Reads
  <2> HIDE DEF e, f, out
  <2>5. Put(query, out, f, flow') /\ Promise(o, flow') <= e.timestamp
    <3>1. CASE flow' = enqueue(f, out, e)
      BY <2>1, <2>4, <3>1, EnqueuePuts DEF Promise, out
    <3>2. CASE flow' = f \/ flow' = decrRef(f, e.tuple)
      <4>1. SameQueues(f, flow')
        BY <2>4, <3>2, SameOfCounts
      <4> QED BY <2>1, <2>4, <4>1, PutNothing, SameOutput
    <3> QED BY <2>3, <3>1, <3>2 DEF Discard
  <2>6. DOMAIN op[o] = {"lastInputTs", "lastOutputTs"}
    BY <2>2 DEF FilterInv, InitialState, SelectInit
  <2>7. /\ DOMAIN op' = query /\ \A p \in query \ {o} : op'[p] = op[p]
        /\ DOMAIN op'[o] = DOMAIN op[o] /\ op'[o].lastInputTs = e.timestamp
    BY <2>2, <2>3, <2>6
  <2>8. FilterInv(o, op'[o], flow') /\ Moved(query, o, flow, flow')
    BY <2>1, <2>2, <2>3, <2>5, <2>7, FilterReads DEF e, f, out
  <2> QED BY <2>3, <2>7, <2>8, FilterLoops
<1> QED BY <1>1, <1>2, <1>3

(* One element goes out; references are counted before and after.          *)
LEMMA SendOne ==
  ASSUME NEW ops \in Queries, NEW o \in ops, HasOutput(o), NEW f, NEW g, NEW h, NEW e,
         FlowOK(ops, f), ~isFull(f, Plan[o].out), SameQueues(f, g),
         e.kind \in KindOf, e.timestamp \in Nat, Promise(o, f) <= e.timestamp,
         SameQueues(enqueue(g, Plan[o].out, e), h)
  PROVE  Put(ops, Plan[o].out, f, h) /\ Promise(o, h) = e.timestamp /\ FlowOK(ops, h)
<1> DEFINE q == Plan[o].out
<1>1. q \in Outs(ops) /\ FlowOK(ops, g)
  BY OutOK, SameIsOK
<1>2. ~isFull(g, q) /\ g.promise[q] <= e.timestamp
  BY SameOutput DEF Promise
<1> DEFINE k == enqueue(g, q, e)
<1>3. Put(ops, q, g, k) /\ k.promise[q] = e.timestamp
  BY <1>1, <1>2, EnqueuePuts
<1> HIDE DEF k
<1>4. SameQueues(k, h)
  BY DEF k
<1>5. FlowOK(ops, k)
  BY <1>3 DEF Put
<1>6. Put(ops, q, f, g) /\ Put(ops, q, k, h)
  BY <1>1, <1>4, <1>5, PutNothing
<1>7. Put(ops, q, f, h)
  BY <1>1, <1>3, <1>6, PutPut
<1>8. Promise(o, h) = e.timestamp
  BY <1>3, <1>4 DEF SameQueues, Promise
<1> QED BY <1>7, <1>8 DEF Put

LEMMA SendNone ==
  ASSUME NEW ops \in Queries, NEW o \in ops, HasOutput(o), NEW f, NEW g,
         FlowOK(ops, f), SameQueues(f, g)
  PROVE  Put(ops, Plan[o].out, f, g) /\ Promise(o, g) = Promise(o, f) /\ FlowOK(ops, g)
BY OutOK, PutNothing, SameOutput, SameIsOK

(* A filter's iteration, from what it does to the flow.                    *)
LEMMA FilterIterates ==
  ASSUME IInv, NEW o \in query, Plan[o].kind \in {"select", "project", "distinct"},
         MayIterate(o), Loop, ~isEmpty(flow, Plan[o].in),
         Put(query, Plan[o].out, dequeue(flow, Plan[o].in), flow'),
         Promise(o, flow') <= peek(flow, Plan[o].in).timestamp,
         DOMAIN op' = query, \A p \in query \ {o} : op'[p] = op[p],
         DOMAIN op'[o] = DOMAIN op[o],
         op'[o].lastInputTs = peek(flow, Plan[o].in).timestamp
  PROVE  StepOf(o)
<1>1. HasOutput(o) /\ Ports(o) = {"in"} /\ FilterInv(o, op[o], flow)
  BY Base, Single, OpInvIs
<1>2. FilterInv(o, op'[o], flow') /\ Moved(query, o, flow, flow')
  BY <1>1, FilterReads
<1> QED BY <1>2, FilterLoops

LEMMA ProjectStep ==
  ASSUME IInv, NEW o \in query, Plan[o].kind = "project",
         ProjectBegin(o) \/ ProjectIterate(o) \/ ProjectEnd(o)
  PROVE  StepOf(o)
<1>1. CASE ProjectBegin(o)
  BY <1>1, NothingDone, Control, RunInvIs DEF ProjectBegin
<1>2. CASE ProjectEnd(o)
  BY <1>2, FilterEnds DEF ProjectEnd
<1>3. CASE ProjectIterate(o)
  <2> DEFINE e == peek(flow, Plan[o].in)
             f == dequeue(flow, Plan[o].in)
             out == Plan[o].out
  <2>1. /\ HasOutput(o) /\ Ports(o) = {"in"} /\ "in" \in Ports(o)
        /\ query \in Queries /\ DOMAIN op = query
    BY Base, Single
  <2>2. FilterInv(o, op[o], flow) /\ DOMAIN op[o] = {"lastInputTs", "lastOutputTs", "outSynopsis"}
    BY Base, OpInvIs DEF FilterInv, InitialState, ProjectInit
  <2>3. MayIterate(o) /\ ~isFull(flow, out) /\ ~isEmpty(flow, Plan[o].in)
    BY <1>3 DEF ProjectIterate, ProjectStuck
  <2>4. /\ FlowOK(query, f) /\ ~isFull(f, out) /\ Promise(o, f) \in Nat
        /\ e.kind \in KindOf /\ e.timestamp \in Nat /\ Promise(o, f) <= e.timestamp
    BY <2>1, <2>2, <2>3, Taking DEF FilterInv, Reads
  <2>5. CASE ReturnError /\ UNCHANGED <<flow, op>>
    BY <2>5, NothingDone, Control
  <2>6. CASE e.kind = PLUS /\ ProjectPlus(o, e, f)
    <3> DEFINE t == Projected(o, e.tuple)
               g == newTuple(f, t)
               x == Element(PLUS, t, e.timestamp)
               h == enqueue(g, out, x)
               k == IF Plan[o].relation THEN addRef(h, t, 1) ELSE h
               s == <<[out |-> t, lineage |-> e.tuple]>> \o op[o].outSynopsis
    <3>1. /\ flow' = decrRef(k, e.tuple) /\ Loop
          /\ op' = [op EXCEPT ![o].lastInputTs = e.timestamp,
                              ![o].lastOutputTs = e.timestamp,
                              ![o].outSynopsis = IF Plan[o].relation THEN s ELSE @]
      BY <2>6 DEF ProjectPlus
    <3> HIDE DEF e, f, out
    <3>2. x.kind \in KindOf /\ x.timestamp = e.timestamp
      BY DEF Element, KindOf
    <3>3. SameQueues(f, g)
      BY <2>4, SameOfCounts
    <3> HIDE DEF g, x, s, t
    <3>4. FlowOK(query, h)
      <4>1. SameQueues(enqueue(g, out, x), h)
        BY DEF SameQueues
      <4> HIDE DEF h
      <4> QED BY <2>1, <2>4, <3>2, <3>3, <4>1, SendOne DEF out
    <3> HIDE DEF h
    <3>5. SameQueues(h, k) /\ FlowOK(query, k)
      BY <3>4, SameOfCounts, SameIsOK
    <3> HIDE DEF k
    <3>6. SameQueues(h, flow')
      BY <3>1, <3>5, SameOfCounts, SameSame
    <3>7. Put(query, out, f, flow') /\ Promise(o, flow') = e.timestamp
      BY SMTT(60), <2>1, <2>4, <3>2, <3>3, <3>6, SendOne DEF out, h
    <3>8. /\ DOMAIN op' = query /\ \A p \in query \ {o} : op'[p] = op[p]
          /\ DOMAIN op'[o] = DOMAIN op[o] /\ op'[o].lastInputTs = e.timestamp
      BY <2>1, <2>2, <3>1
    <3>9. /\ Put(query, Plan[o].out, dequeue(flow, Plan[o].in), flow')
          /\ Promise(o, flow') <= peek(flow, Plan[o].in).timestamp
          /\ op'[o].lastInputTs = peek(flow, Plan[o].in).timestamp
      BY <2>4, <3>7, <3>8 DEF e, f, out
    <3>10. Loop
      BY <3>1
    <3> QED BY <2>3, <3>8, <3>9, <3>10, FilterIterates
  <2>7. CASE e.kind = MINUS /\ ProjectMinus(o, e, f)
    <3> DEFINE s == Head(MadeOf(o, e.tuple))
               x == Element(MINUS, s.out, e.timestamp)
               h == enqueue(f, out, x)
               syn == SelectSeq(op[o].outSynopsis, LAMBDA y : y # s)
    <3>1. /\ flow' = decrRef(h, e.tuple) /\ Loop
          /\ op' = [op EXCEPT ![o].lastInputTs = e.timestamp,
                              ![o].lastOutputTs = e.timestamp,
                              ![o].outSynopsis = syn]
      BY <2>1, <2>7 DEF ProjectMinus
    <3> HIDE DEF e, f, out, syn
    <3>2. x.kind \in KindOf /\ x.timestamp = e.timestamp
      BY DEF Element, KindOf
    <3> HIDE DEF x
    <3>3. SameQueues(f, f)
      BY DEF SameQueues
    <3>4. FlowOK(query, h)
      <4>1. SameQueues(enqueue(f, out, x), enqueue(f, out, x))
        BY DEF SameQueues
      <4> QED BY <2>1, <2>4, <3>2, <3>3, <4>1, SendOne DEF out
    <3> HIDE DEF h
    <3>6. SameQueues(h, flow')
      BY <3>1, <3>4, SameOfCounts
    <3>7. Put(query, out, f, flow') /\ Promise(o, flow') = e.timestamp
      BY <2>1, <2>4, <3>2, <3>3, <3>6, SendOne DEF out, h
    <3>8. /\ DOMAIN op' = query /\ \A p \in query \ {o} : op'[p] = op[p]
          /\ DOMAIN op'[o] = DOMAIN op[o] /\ op'[o].lastInputTs = e.timestamp
      BY <2>1, <2>2, <3>1
    <3>9. /\ Put(query, Plan[o].out, dequeue(flow, Plan[o].in), flow')
          /\ Promise(o, flow') <= peek(flow, Plan[o].in).timestamp
          /\ op'[o].lastInputTs = peek(flow, Plan[o].in).timestamp
      BY <2>4, <3>7, <3>8 DEF e, f, out
    <3>10. Loop
      BY <3>1
    <3> QED BY <2>3, <3>8, <3>9, <3>10, FilterIterates
  <2>8. CASE flow' = f /\ op' = [op EXCEPT ![o].lastInputTs = e.timestamp] /\ Loop
    <3> HIDE DEF e, f, out
    <3>1. Put(query, out, f, flow') /\ Promise(o, flow') = Promise(o, f)
      BY <2>1, <2>4, <2>8, SameOfCounts, SendNone DEF out
    <3>2. /\ DOMAIN op' = query /\ \A p \in query \ {o} : op'[p] = op[p]
          /\ DOMAIN op'[o] = DOMAIN op[o] /\ op'[o].lastInputTs = e.timestamp
      BY <2>1, <2>2, <2>8
    <3>3. /\ Put(query, Plan[o].out, dequeue(flow, Plan[o].in), flow')
          /\ Promise(o, flow') <= peek(flow, Plan[o].in).timestamp
          /\ op'[o].lastInputTs = peek(flow, Plan[o].in).timestamp
      BY <2>4, <3>1, <3>2 DEF e, f, out
    <3> QED BY <2>3, <2>8, <3>2, <3>3, FilterIterates
  <2>9. e.kind \in {PLUS, MINUS, HEARTBEAT}
    BY <2>4 DEF KindOf
  <2>10. /\ e.kind = PLUS => ProjectPlus(o, e, f)
         /\ e.kind = MINUS => ProjectMinus(o, e, f) \/ (ReturnError /\ UNCHANGED <<flow, op>>)
         /\ e.kind = HEARTBEAT =>
               flow' = f /\ op' = [op EXCEPT ![o].lastInputTs = e.timestamp] /\ Loop
    <3>1. CASE e.kind = PLUS
      BY <1>3, <3>1 DEF ProjectIterate, PLUS, MINUS, HEARTBEAT
    <3>2. CASE e.kind = MINUS
      BY <1>3, <3>2 DEF ProjectIterate, PLUS, MINUS, HEARTBEAT
    <3>3. CASE e.kind = HEARTBEAT
      BY <1>3, <3>3 DEF ProjectIterate, PLUS, MINUS, HEARTBEAT
    <3> QED BY <2>9, <3>1, <3>2, <3>3 DEF PLUS, MINUS, HEARTBEAT
  <2> QED BY <2>5, <2>6, <2>7, <2>8, <2>9, <2>10
<1> QED BY <1>1, <1>2, <1>3

(***************************************************************************)
(* Calls that take the flow from f to g and send nothing later than ts.    *)
(***************************************************************************)
Sends(ops, o, f, g, ts) == Put(ops, Plan[o].out, f, g) /\ Promise(o, g) <= ts

LEMMA SendsNothing ==
  ASSUME NEW ops \in Queries, NEW o \in ops, HasOutput(o), NEW f, NEW g, NEW ts,
         FlowOK(ops, f), SameQueues(f, g), Promise(o, f) <= ts
  PROVE  Sends(ops, o, f, g, ts) /\ FlowOK(ops, g)
BY SendNone DEF Sends

LEMMA SendsOne ==
  ASSUME NEW ops \in Queries, NEW o \in ops, HasOutput(o), NEW f, NEW e,
         FlowOK(ops, f), ~isFull(f, Plan[o].out),
         e.kind \in KindOf, e.timestamp \in Nat, Promise(o, f) <= e.timestamp
  PROVE  /\ Sends(ops, o, f, enqueue(f, Plan[o].out, e), e.timestamp)
         /\ FlowOK(ops, enqueue(f, Plan[o].out, e))
<1>1. SameQueues(f, f)
  BY DEF SameQueues
<1>2. SameQueues(enqueue(f, Plan[o].out, e), enqueue(f, Plan[o].out, e))
  BY DEF SameQueues
<1> DEFINE h == enqueue(f, Plan[o].out, e)
<1>3. Put(ops, Plan[o].out, f, h) /\ Promise(o, h) = e.timestamp /\ FlowOK(ops, h)
  BY <1>1, <1>2, SendOne
<1> HIDE DEF h
<1>4. Sends(ops, o, f, h, e.timestamp) /\ FlowOK(ops, h)
  BY <1>3 DEF Sends
<1> QED BY <1>4 DEF h

LEMMA SendsThen ==
  ASSUME NEW ops \in Queries, NEW o \in ops, HasOutput(o), NEW f, NEW g, NEW h, NEW t, NEW ts,
         FlowOK(ops, f), Sends(ops, o, f, g, t), Sends(ops, o, g, h, ts)
  PROVE  Sends(ops, o, f, h, ts) /\ FlowOK(ops, h)
BY OutOK, PutPut DEF Sends, Put

LEMMA SendsSame ==
  ASSUME NEW ops \in Queries, NEW o \in ops, HasOutput(o), NEW f, NEW g, NEW h, NEW ts,
         FlowOK(ops, f), Sends(ops, o, f, g, ts), SameQueues(g, h)
  PROVE  Sends(ops, o, f, h, ts) /\ FlowOK(ops, h)
<1>1. FlowOK(ops, g) /\ Promise(o, g) <= ts
  BY DEF Sends, Put
<1>2. Sends(ops, o, g, h, ts)
  BY <1>1, SendsNothing
<1> QED BY <1>2, SendsThen

LEMMA SameSends ==
  ASSUME NEW ops \in Queries, NEW o \in ops, HasOutput(o), NEW f, NEW g, NEW h, NEW ts,
         FlowOK(ops, f), SameQueues(f, g), Sends(ops, o, g, h, ts)
  PROVE  Sends(ops, o, f, h, ts) /\ FlowOK(ops, h)
<1>1. Put(ops, Plan[o].out, f, g) /\ Put(ops, Plan[o].out, g, h) /\ Promise(o, h) <= ts
  BY SendNone DEF Sends
<1> QED BY <1>1, OutOK, PutPut DEF Sends, Put

LEMMA DistinctPlusSends ==
  ASSUME IInv, NEW o \in query, HasOutput(o), NEW f, NEW e, FlowOK(query, f),
         ~isFull(f, Plan[o].out), e.timestamp \in Nat, Promise(o, f) <= e.timestamp,
         DOMAIN op[o] = DOMAIN DistinctInit
  PROVE  LET x == DistinctPlus(o, e, f)
         IN  /\ Sends(query, o, f, x.flow, e.timestamp)
             /\ DOMAIN x.op = DOMAIN op[o] /\ x.op.lastInputTs = e.timestamp
<1> DEFINE v == Plan[o].value[e.tuple]
           t == DistinctTuple(o, v)
           s == [op[o] EXCEPT !.lastInputTs = e.timestamp]
           x == DistinctPlus(o, e, f)
<1>0. query \in Queries
  BY Base
<1>1. /\ DOMAIN s = DOMAIN op[o] /\ s.lastInputTs = e.timestamp
      /\ DOMAIN s = {"lastInputTs", "lastOutputTs", "count"}
  BY DEF DistinctInit
<1>2. CASE v \in DOMAIN s.count
  <2>1. x = [flow |-> f, op |-> [s EXCEPT !.count[v] = @ + 1]]
    BY <1>2 DEF DistinctPlus
  <2> HIDE DEF s
  <2>2. x.flow = f /\ DOMAIN x.op = DOMAIN op[o] /\ x.op.lastInputTs = e.timestamp
    BY <1>1, <2>1
  <2> QED BY <1>0, <2>2, SameOfCounts, SendsNothing
<1>3. CASE v \notin DOMAIN s.count
  <2> DEFINE g == newTuple(f, t)
             h == addRef(g, t, 1)
             y == Element(PLUS, t, e.timestamp)
  <2>1. x = [flow |-> enqueue(h, Plan[o].out, y), op |-> [s EXCEPT !.count = With(@, v, 1)]]
    BY <1>3 DEF DistinctPlus
  <2>2. y.kind \in KindOf /\ y.timestamp = e.timestamp
    BY DEF Element, KindOf
  <2>3. SameQueues(f, g) /\ FlowOK(query, g)
    BY SameOfCounts, SameIsOK
  <2>4. SameQueues(g, h) /\ FlowOK(query, h)
    <3> HIDE DEF g
    <3> QED BY <2>3, SameOfCounts, SameIsOK
  <2> HIDE DEF g, h, y, s, x
  <2>5. SameQueues(f, h)
    BY <2>3, <2>4, SameSame
  <2>6. ~isFull(h, Plan[o].out) /\ Promise(o, h) <= e.timestamp
    BY <2>5, SameOutput
  <2>7. Sends(query, o, h, enqueue(h, Plan[o].out, y), e.timestamp)
    BY <1>0, <2>2, <2>4, <2>6, SendsOne
  <2>8. Sends(query, o, f, enqueue(h, Plan[o].out, y), e.timestamp)
    BY <1>0, <2>5, <2>7, SameSends
  <2>9. /\ x.flow = enqueue(h, Plan[o].out, y) /\ DOMAIN x.op = DOMAIN s
        /\ x.op.lastInputTs = s.lastInputTs
    BY <1>1, <2>1
  <2> QED BY <1>1, <2>8, <2>9 DEF x
<1> QED BY <1>2, <1>3

LEMMA DistinctMinusSends ==
  ASSUME IInv, NEW o \in query, HasOutput(o), NEW f, NEW e, FlowOK(query, f),
         ~isFull(f, Plan[o].out), e.timestamp \in Nat, Promise(o, f) <= e.timestamp,
         DOMAIN op[o] = DOMAIN DistinctInit
  PROVE  LET x == DistinctMinus(o, e, f)
         IN  /\ Sends(query, o, f, x.flow, e.timestamp)
             /\ DOMAIN x.op = DOMAIN op[o] /\ x.op.lastInputTs = e.timestamp
<1> DEFINE v == Plan[o].value[e.tuple]
           t == DistinctTuple(o, v)
           s == [op[o] EXCEPT !.lastInputTs = e.timestamp]
           x == DistinctMinus(o, e, f)
<1>0. query \in Queries
  BY Base
<1>1. /\ DOMAIN s = DOMAIN op[o] /\ s.lastInputTs = e.timestamp
      /\ DOMAIN s = {"lastInputTs", "lastOutputTs", "count"}
  BY DEF DistinctInit
<1>2. CASE s.count[v] # 1
  <2>1. x = [flow |-> f, op |-> [s EXCEPT !.count[v] = @ - 1]]
    BY <1>2 DEF DistinctMinus
  <2> HIDE DEF s
  <2>2. x.flow = f /\ DOMAIN x.op = DOMAIN op[o] /\ x.op.lastInputTs = e.timestamp
    BY <1>1, <2>1
  <2> QED BY <1>0, <2>2, SameOfCounts, SendsNothing
<1>3. CASE s.count[v] = 1
  <2> DEFINE y == Element(MINUS, t, e.timestamp)
  <2>1. x = [flow |-> enqueue(f, Plan[o].out, y),
             op   |-> [s EXCEPT !.count = Without(@, v), !.lastOutputTs = e.timestamp]]
    BY <1>3 DEF DistinctMinus
  <2>2. y.kind \in KindOf /\ y.timestamp = e.timestamp
    BY DEF Element, KindOf
  <2> HIDE DEF y, s, x
  <2>3. Sends(query, o, f, enqueue(f, Plan[o].out, y), e.timestamp)
    BY <1>0, <2>2, SendsOne
  <2>4. /\ x.flow = enqueue(f, Plan[o].out, y) /\ DOMAIN x.op = DOMAIN s
        /\ x.op.lastInputTs = s.lastInputTs
    BY <1>1, <2>1
  <2> QED BY <1>1, <2>3, <2>4 DEF x
<1> QED BY <1>2, <1>3

LEMMA DistinctStep ==
  ASSUME IInv, NEW o \in query, Plan[o].kind = "distinct",
         DistinctBegin(o) \/ DistinctIterate(o) \/ DistinctEnd(o)
  PROVE  StepOf(o)
<1>1. CASE DistinctBegin(o)
  BY <1>1, NothingDone, Control, RunInvIs DEF DistinctBegin
<1>2. CASE DistinctEnd(o)
  BY <1>2, FilterEnds DEF DistinctEnd
<1>3. CASE DistinctIterate(o)
  <2> DEFINE e == peek(flow, Plan[o].in)
             f == dequeue(flow, Plan[o].in)
             x == CASE e.kind = PLUS  -> DistinctPlus(o, e, f)
                    [] e.kind = MINUS -> DistinctMinus(o, e, f)
                    [] e.kind = HEARTBEAT ->
                         [flow |-> f, op |-> [op[o] EXCEPT !.lastInputTs = e.timestamp]]
  <2>1. /\ HasOutput(o) /\ Ports(o) = {"in"} /\ "in" \in Ports(o)
        /\ query \in Queries /\ DOMAIN op = query
    BY Base, Single
  <2>2. FilterInv(o, op[o], flow) /\ DOMAIN op[o] = DOMAIN DistinctInit
    BY Base, OpInvIs DEF FilterInv, InitialState
  <2>3. /\ MayIterate(o) /\ ~isFull(flow, Plan[o].out) /\ ~isEmpty(flow, Plan[o].in) /\ Loop
        /\ flow' = IF IsData(e) THEN decrRef(x.flow, e.tuple) ELSE x.flow
        /\ op' = [op EXCEPT ![o] = x.op]
    BY <1>3 DEF DistinctIterate, DistinctStuck
  <2>4. /\ FlowOK(query, f) /\ ~isFull(f, Plan[o].out) /\ Promise(o, f) \in Nat
        /\ e.kind \in {PLUS, MINUS, HEARTBEAT} /\ e.timestamp \in Nat
        /\ Promise(o, f) <= e.timestamp
    BY <2>1, <2>2, <2>3, Taking DEF FilterInv, Reads, KindOf
  <2>5. /\ Sends(query, o, f, x.flow, e.timestamp)
        /\ DOMAIN x.op = DOMAIN op[o] /\ x.op.lastInputTs = e.timestamp
    <3>1. CASE e.kind = PLUS
      <4>1. x = DistinctPlus(o, e, f)
        BY <3>1 DEF PLUS, MINUS, HEARTBEAT
      <4> HIDE DEF x, e, f
      <4> QED BY <2>1, <2>2, <2>4, <4>1, DistinctPlusSends
    <3>2. CASE e.kind = MINUS
      <4>1. x = DistinctMinus(o, e, f)
        BY <3>2 DEF PLUS, MINUS, HEARTBEAT
      <4> HIDE DEF x, e, f
      <4> QED BY <2>1, <2>2, <2>4, <4>1, DistinctMinusSends
    <3>3. CASE e.kind = HEARTBEAT
      <4>1. x = [flow |-> f, op |-> [op[o] EXCEPT !.lastInputTs = e.timestamp]]
        BY <3>3 DEF PLUS, MINUS, HEARTBEAT
      <4> HIDE DEF x, e, f
      <4>2. x.flow = f /\ DOMAIN x.op = DOMAIN op[o] /\ x.op.lastInputTs = e.timestamp
        BY <2>2, <4>1 DEF DistinctInit
      <4> QED BY <2>1, <2>4, <4>2, SameOfCounts, SendsNothing
    <3> QED BY <2>4, <3>1, <3>2, <3>3
  <2> HIDE DEF e, f, x
  <2>6. Sends(query, o, f, flow', e.timestamp)
    <3>1. FlowOK(query, x.flow)
      BY <2>5 DEF Sends, Put
    <3>2. SameQueues(x.flow, flow')
      BY <2>3, <3>1, SameOfCounts
    <3> QED BY <2>1, <2>4, <2>5, <3>2, SendsSame
  <2>7. /\ DOMAIN op' = query /\ \A p \in query \ {o} : op'[p] = op[p]
        /\ DOMAIN op'[o] = DOMAIN op[o] /\ op'[o].lastInputTs = e.timestamp
    BY <2>1, <2>3, <2>5
  <2> QED BY <2>3, <2>6, <2>7, FilterIterates DEF Sends, e, f
<1> QED BY <1>1, <1>2, <1>3

-----------------------------------------------------------------------------
(***************************************************************************)
(* The ends of a query, which have no output.                              *)
(***************************************************************************)
LEMMA TerminalReads ==
  ASSUME IInv, NEW o \in query, Plan[o].kind \in Terminal, ~isEmpty(flow, Plan[o].in),
         SameQueues(dequeue(flow, Plan[o].in), flow'),
         DOMAIN op' = query, \A p \in query \ {o} : op'[p] = op[p],
         running' \in {o, Idle, Failed}, slice' \in 0 .. TimeSlice
  PROVE  StepOf(o)
<1>1. query \in Queries /\ o \in Op /\ FlowOK(query, flow)
  BY Base
<1>2. ~HasOutput(o) /\ "in" \in Ports(o)
  BY <1>1, KindFacts DEF Terminal, Originating, Merging
<1>3. Read(query, o, flow, dequeue(flow, Plan[o].in))
  BY <1>1, <1>2, DequeueReads
<1>4. Moved(query, o, flow, flow')
  BY <1>1, <1>2, <1>3, MovedByReading
<1>5. FeedsAfter(o)
  BY NoFeeds DEF Terminal
<1> QED BY <1>4, <1>5, OpInvIs, RunInvIs DEF StepOf

LEMMA ConsumedSame ==
  ASSUME IInv, NEW o \in query, Plan[o].kind \in Terminal, ~isEmpty(flow, Plan[o].in), NEW e,
         NEW g, g = IF IsData(e) THEN decrRef(dequeue(flow, Plan[o].in), e.tuple)
                    ELSE dequeue(flow, Plan[o].in)
  PROVE  SameQueues(dequeue(flow, Plan[o].in), g)
<1>1. query \in Queries /\ o \in Op /\ FlowOK(query, flow)
  BY Base
<1>2. "in" \in Ports(o)
  BY <1>1, KindFacts DEF Terminal, Originating, Merging
<1>3. FlowOK(query, dequeue(flow, Plan[o].in))
  BY <1>1, <1>2, DequeueReads DEF Read
<1> QED BY <1>3, SameOfCounts

LEMMA OutputStep ==
  ASSUME IInv, NEW o \in query, Plan[o].kind = "output",
         OutputBegin(o) \/ OutputIterate(o) \/ OutputEnd(o)
  PROVE  StepOf(o)
<1>0. Plan[o].kind \in Terminal /\ DOMAIN op = query
  BY Base DEF Terminal
<1>1. CASE OutputBegin(o)
  BY <1>0, <1>1, NothingDone, Control, RunInvIs DEF OutputBegin
<1>2. CASE OutputEnd(o)
  BY <1>2, NothingDone, Control DEF OutputEnd
<1>3. CASE OutputIterate(o)
  <2> DEFINE e == peek(flow, Plan[o].in)
  <2>1. /\ MayIterate(o) /\ ~isEmpty(flow, Plan[o].in)
        /\ flow' = IF IsData(e) THEN decrRef(dequeue(flow, Plan[o].in), e.tuple)
                   ELSE dequeue(flow, Plan[o].in)
        /\ \/ (op' = [op EXCEPT ![o].sent = Append(@, e)] \/ op' = op) /\ Loop
           \/ op' = op /\ ReturnError
    BY <1>3 DEF OutputIterate, OutputStuck
  <2>2. SameQueues(dequeue(flow, Plan[o].in), flow')
    BY <1>0, <2>1, ConsumedSame
  <2>3. DOMAIN op' = query /\ \A p \in query \ {o} : op'[p] = op[p]
    BY <1>0, <2>1
  <2>4. running' \in {o, Idle, Failed} /\ slice' \in 0 .. TimeSlice
    BY <2>1, Control
  <2> QED BY <1>0, <2>1, <2>2, <2>3, <2>4, TerminalReads
<1> QED BY <1>1, <1>2, <1>3

LEMMA SinkStep ==
  ASSUME IInv, NEW o \in query, Plan[o].kind = "sink",
         SinkBegin(o) \/ SinkIterate(o) \/ SinkEnd(o)
  PROVE  StepOf(o)
<1>0. Plan[o].kind \in Terminal /\ DOMAIN op = query
  BY Base DEF Terminal
<1>1. CASE SinkBegin(o)
  BY <1>0, <1>1, NothingDone, Control, RunInvIs DEF SinkBegin
<1>2. CASE SinkEnd(o)
  BY <1>2, NothingDone, Control DEF SinkEnd
<1>3. CASE SinkIterate(o)
  <2> DEFINE e == peek(flow, Plan[o].in)
  <2>1. /\ MayIterate(o) /\ ~isEmpty(flow, Plan[o].in) /\ op' = op /\ Loop
        /\ flow' = IF IsData(e) THEN decrRef(dequeue(flow, Plan[o].in), e.tuple)
                   ELSE dequeue(flow, Plan[o].in)
    BY <1>3 DEF SinkIterate
  <2>2. SameQueues(dequeue(flow, Plan[o].in), flow')
    BY <1>0, <2>1, ConsumedSame
  <2>3. running' \in {o, Idle, Failed} /\ slice' \in 0 .. TimeSlice
    BY <2>1, Control
  <2> QED BY <1>0, <2>1, <2>2, <2>3, TerminalReads
<1> QED BY <1>1, <1>2, <1>3

-----------------------------------------------------------------------------
(***************************************************************************)
(* The relation source sends what it was told just now.                    *)
(***************************************************************************)
LEMMA OriginSends ==
  ASSUME IInv, NEW o \in query, Plan[o].kind = "relsource", NEW ts \in Nat,
         Sends(query, o, flow, flow', ts), MayIterate(o), Loop,
         DOMAIN op' = query, \A p \in query \ {o} : op'[p] = op[p],
         DOMAIN op'[o] = DOMAIN op[o], op'[o].lastInputTs = ts
  PROVE  StepOf(o)
<1>1. query \in Queries /\ o \in Op /\ FlowOK(query, flow) /\ HasOutput(o)
  BY Base, KindFacts DEF Terminal
<1>2. OriginInv(o, op[o], flow)
  BY Base, OpInvIs DEF Originating
<1>3. OriginInv(o, op'[o], flow')
  BY <1>2 DEF OriginInv, Sends
<1>4. Moved(query, o, flow, flow')
  BY <1>1, ReadNothing, MovedBy DEF Sends
<1>5. OpInv(o, op'[o], flow') /\ RunInv(o, op'[o], flow', slice')
  BY <1>3, OpInvIs, RunInvIs DEF Originating
<1> QED BY <1>4, <1>5, NoFeeds, Control DEF StepOf

LEMMA RelSourceStep ==
  ASSUME IInv, NEW o \in query, Plan[o].kind = "relsource",
         RelSourceBegin(o) \/ RelSourceIterate(o) \/ RelSourceEnd(o)
  PROVE  StepOf(o)
<1>0. /\ query \in Queries /\ o \in Op /\ FlowOK(query, flow) /\ HasOutput(o) /\ DOMAIN op = query
      /\ OriginInv(o, op[o], flow)
      /\ DOMAIN op[o] = {"lastInputTs", "lastOutputTs", "next", "rel"}
  BY Base, KindFacts, OpInvIs DEF Terminal, Originating, OriginInv, InitialState, RelSourceInit
<1>1. CASE RelSourceBegin(o)
  BY <1>1, NothingDone, Control, RunInvIs DEF RelSourceBegin, Originating
<1>2. CASE RelSourceEnd(o)
  <2>1. /\ Return
        /\ IF HeartbeatDue(o, op[o].lastInputTs)
           THEN /\ flow' = enqueue(flow, Plan[o].out, Heartbeat(op[o].lastInputTs))
                /\ op' = [op EXCEPT ![o].lastOutputTs = op[o].lastInputTs]
           ELSE UNCHANGED <<flow, op>>
    BY <1>2 DEF RelSourceEnd
  <2>2. /\ Moved(query, o, flow, flow') /\ Promise(o, flow') <= op[o].lastInputTs
        /\ DOMAIN op' = query /\ \A p \in query \ {o} : op'[p] = op[p]
        /\ DOMAIN op'[o] = DOMAIN op[o] /\ op'[o].lastInputTs = op[o].lastInputTs
    BY <1>0, <2>1, EndOp DEF OriginInv
  <2>3. OpInv(o, op'[o], flow')
    BY <1>0, <2>2, OpInvIs DEF OriginInv, Originating
  <2> QED BY <2>1, <2>2, <2>3, NoFeeds, Control DEF StepOf
<1>3. CASE RelSourceIterate(o)
  <2>1. CASE RelSourceFails(o)
    BY <2>1, NothingDone, Control DEF RelSourceFails
  <2>2. CASE ~RelSourceFails(o)
    <3>1. PICK ts \in Plan[o].timestamps :
            /\ ts >= op[o].lastInputTs
            /\ \/ RelSourceInsert(o, ts)
               \/ \E v : RelSourceDelete(o, v, ts)
               \/ RelSourceHeartbeat(o, ts)
            /\ Loop
      BY <1>3, <2>2 DEF RelSourceIterate
    <3>2. MayIterate(o) /\ ~isFull(flow, Plan[o].out)
      BY <1>3 DEF RelSourceIterate
    <3>3. ts \in Nat /\ Promise(o, flow) <= ts
      <4>1. Plan[o].timestamps \subseteq Nat
        BY <1>0, WindowsAssumption DEF Originating
      <4>2. Promise(o, flow) \in Nat
        BY <1>0, OutOK, FlowFields DEF Promise
      <4> QED BY <1>0, <3>1, <4>1, <4>2 DEF OriginInv
    <3>4. CASE RelSourceInsert(o, ts)
      <4> DEFINE t == <<Plan[o].tuples[op[o].next]>>
                 g == newTuple(flow, t)
                 h == addRef(g, t, 1)
                 e == Element(PLUS, t, ts)
      <4>1. /\ flow' = enqueue(h, Plan[o].out, e)
            /\ op' = [op EXCEPT ![o] = [lastInputTs |-> ts, lastOutputTs |-> ts,
                                        next |-> @.next + 1, rel |-> <<t>> \o @.rel]]
        BY <3>4 DEF RelSourceInsert
      <4>2. e.kind \in KindOf /\ e.timestamp = ts
        BY DEF Element, KindOf
      <4>3. SameQueues(flow, g) /\ FlowOK(query, g)
        BY <1>0, SameOfCounts, SameIsOK
      <4> HIDE DEF e, g
      <4>4. SameQueues(g, h) /\ FlowOK(query, h)
        BY <4>3, SameOfCounts, SameIsOK
      <4> HIDE DEF h
      <4>5. SameQueues(flow, h)
        BY <4>3, <4>4, SameSame
      <4>6. ~isFull(h, Plan[o].out) /\ Promise(o, h) <= e.timestamp
        BY <3>2, <3>3, <4>2, <4>5, SameOutput
      <4>7. Sends(query, o, h, flow', ts)
        BY <1>0, <3>3, <4>1, <4>2, <4>4, <4>6, SendsOne
      <4>8. Sends(query, o, flow, flow', ts)
        BY <1>0, <4>5, <4>7, SameSends
      <4>9. /\ DOMAIN op' = query /\ \A p \in query \ {o} : op'[p] = op[p]
            /\ DOMAIN op'[o] = DOMAIN op[o] /\ op'[o].lastInputTs = ts
        BY <1>0, <4>1
      <4> QED BY <3>1, <3>2, <3>3, <4>8, <4>9, OriginSends
    <3>5. ASSUME NEW v, RelSourceDelete(o, v, ts)
          PROVE  StepOf(o)
      <4> DEFINE e == Element(MINUS, SynTuple(o, v), ts)
                 rel == SelectSeq(op[o].rel, LAMBDA u : u # SynTuple(o, v))
      <4>1. /\ flow' = enqueue(flow, Plan[o].out, e)
            /\ op' = [op EXCEPT ![o].lastInputTs = ts, ![o].lastOutputTs = ts, ![o].rel = rel]
        BY <1>0, <3>5 DEF RelSourceDelete
      <4>2. e.kind \in KindOf /\ e.timestamp = ts
        BY DEF Element, KindOf
      <4> HIDE DEF e, rel
      <4>3. Sends(query, o, flow, flow', ts)
        BY <1>0, <3>2, <3>3, <4>1, <4>2, SendsOne
      <4>4. /\ DOMAIN op' = query /\ \A p \in query \ {o} : op'[p] = op[p]
            /\ DOMAIN op'[o] = DOMAIN op[o] /\ op'[o].lastInputTs = ts
        BY <1>0, <4>1
      <4> QED BY <3>1, <3>2, <3>3, <4>3, <4>4, OriginSends
    <3>6. CASE RelSourceHeartbeat(o, ts)
      <4>1. flow' = flow /\ op' = [op EXCEPT ![o].lastInputTs = ts]
        BY <3>6 DEF RelSourceHeartbeat
      <4>2. Sends(query, o, flow, flow', ts)
        BY <1>0, <3>3, <4>1, SameOfCounts, SendsNothing
      <4>3. /\ DOMAIN op' = query /\ \A p \in query \ {o} : op'[p] = op[p]
            /\ DOMAIN op'[o] = DOMAIN op[o] /\ op'[o].lastInputTs = ts
        BY <1>0, <4>1
      <4> QED BY <3>1, <3>2, <3>3, <4>2, <4>3, OriginSends
    <3> QED BY <3>1, <3>4, <3>5, <3>6
  <2> QED BY <2>1, <2>2
<1> QED BY <1>1, <1>2, <1>3

-----------------------------------------------------------------------------
(***************************************************************************)
(* The operators that may send two elements for one: the second waits if   *)
(* the first took the last space.  s has the operator's member variables   *)
(* once it has read an element of instant ts, x these and the flow.        *)
(***************************************************************************)
PairOp(o, s, ts) ==
    /\ DOMAIN s = DOMAIN op[o]
    /\ s.lastInputTs = ts
    /\ s.bStalled \in BOOLEAN
    /\ s.bStalled => s.stalledElement.kind \in KindOf /\ s.stalledElement.timestamp = ts

Paired(o, f, x, ts) ==
    /\ Sends(query, o, f, x.flow, ts)
    /\ FlowOK(query, x.flow)
    /\ PairOp(o, x.op, ts)
    /\ x.op.bStalled => isFull(x.flow, Plan[o].out)

Pairing == {"group", "partn", "row"}

LEMMA PairKept ==
  ASSUME IInv, NEW o \in query, Plan[o].kind \in Pairing,
         Sends(query, o, flow, flow', op[o].lastInputTs),
         DOMAIN op' = query, \A p \in query \ {o} : op'[p] = op[p],
         PairOp(o, op'[o], op[o].lastInputTs),
         running' \in {o, Idle, Failed}, slice' \in 0 .. TimeSlice,
         running' = o => RunInv(o, op'[o], flow', slice')
  PROVE  StepOf(o)
<1>1. query \in Queries /\ FlowOK(query, flow) /\ HasOutput(o) /\ "in" \in Ports(o)
  BY Base, Single DEF Pairing
<1>2. PairInv(o, op[o], flow)
  BY Base, OpInvIs DEF Pairing
<1>3. Moved(query, o, flow, flow')
  BY <1>1, ReadNothing, MovedBy DEF Sends
<1>4. NotBefore(flow', Plan[o].in, op[o].lastInputTs)
  BY <1>1, <1>2, PutKeepsInput DEF Sends, PairInv, FilterInv, Reads
<1>5. PairInv(o, op'[o], flow')
  BY <1>2, <1>4 DEF PairOp, PairInv, FilterInv, Reads, Sends
<1>6. OpInv(o, op'[o], flow') /\ FeedsAfter(o)
  BY <1>5, OpInvIs, NoFeeds DEF Pairing
<1> QED BY <1>3, <1>6 DEF StepOf

LEMMA PairReads ==
  ASSUME IInv, NEW o \in query, Plan[o].kind \in Pairing, ~isEmpty(flow, Plan[o].in),
         NEW ts, ts = peek(flow, Plan[o].in).timestamp,
         Sends(query, o, dequeue(flow, Plan[o].in), flow', ts),
         DOMAIN op' = query, \A p \in query \ {o} : op'[p] = op[p],
         PairOp(o, op'[o], ts),
         running' \in {o, Idle, Failed}, slice' \in 0 .. TimeSlice,
         running' = o => RunInv(o, op'[o], flow', slice')
  PROVE  StepOf(o)
<1>1. HasOutput(o) /\ Ports(o) = {"in"}
  BY Single DEF Pairing
<1>2. PairInv(o, op[o], flow)
  BY Base, OpInvIs DEF Pairing
<1>3. FilterInv(o, op'[o], flow') /\ Moved(query, o, flow, flow')
  BY <1>1, <1>2, FilterReads DEF PairInv, PairOp, Sends
<1>4. PairInv(o, op'[o], flow')
  BY <1>3 DEF PairInv, PairOp
<1>5. OpInv(o, op'[o], flow') /\ FeedsAfter(o)
  BY <1>4, OpInvIs, NoFeeds DEF Pairing
<1> QED BY <1>3, <1>5 DEF StepOf

LEMMA EndSends ==
  ASSUME IInv, NEW o \in query, HasOutput(o), NEW ts \in Nat, Promise(o, flow) <= ts,
         flow' = IF HeartbeatDue(o, ts) THEN enqueue(flow, Plan[o].out, Heartbeat(ts)) ELSE flow
  PROVE  Sends(query, o, flow, flow', ts)
BY EndPuts DEF Sends

LEMMA PairEnds ==
  ASSUME IInv, NEW o \in query, Plan[o].kind \in {"group", "partn"}, NEW stuck, PairEnd(o, stuck)
  PROVE  StepOf(o)
<1>1. /\ Return
      /\ IF HeartbeatDue(o, op[o].lastInputTs)
         THEN /\ flow' = enqueue(flow, Plan[o].out, Heartbeat(op[o].lastInputTs))
              /\ op' = [op EXCEPT ![o].lastOutputTs = op[o].lastInputTs]
         ELSE UNCHANGED <<flow, op>>
  BY DEF PairEnd
<1>2. HasOutput(o) /\ DOMAIN op = query
  BY Base, Single
<1>3. PairInv(o, op[o], flow)
  BY Base, OpInvIs
<1>4. {"lastInputTs", "lastOutputTs", "bStalled", "stalledElement"} \subseteq DOMAIN op[o]
  BY <1>3 DEF PairInv, FilterInv, InitialState, GroupAggrInit, PartnWindowInit
<1>5. op[o].lastInputTs \in Nat /\ Promise(o, flow) <= op[o].lastInputTs
  BY <1>3 DEF PairInv, FilterInv, Reads
<1>6. Sends(query, o, flow, flow', op[o].lastInputTs)
  BY <1>1, <1>2, <1>5, EndSends
<1>7. /\ DOMAIN op' = query /\ \A p \in query \ {o} : op'[p] = op[p]
      /\ DOMAIN op'[o] = DOMAIN op[o]
      /\ \A x \in DOMAIN op[o] \ {"lastOutputTs"} : op'[o][x] = op[o][x]
  BY <1>1, <1>2, <1>4, <1>5, EndOp
<1>8. PairOp(o, op'[o], op[o].lastInputTs)
  BY <1>3, <1>4, <1>7 DEF PairInv, PairOp
<1> QED BY <1>1, <1>6, <1>7, <1>8, Control, PairKept DEF Pairing

LEMMA PairBegins ==
  ASSUME IInv, NEW o \in query, Plan[o].kind \in {"group", "partn"}, ResumePair(o)
  PROVE  StepOf(o)
<1>1. HasOutput(o) /\ query \in Queries /\ FlowOK(query, flow) /\ DOMAIN op = query
  BY Base, Single
<1>2. PairInv(o, op[o], flow)
  BY Base, OpInvIs
<1>3. CASE ~op[o].bStalled
  <2>1. Begin(o) /\ UNCHANGED <<flow, op>>
    BY <1>3 DEF ResumePair
  <2>2. RunInv(o, op[o], flow, slice')
    BY <1>3, RunInvIs DEF StalledMeansFull
  <2> QED BY <2>1, <2>2, Control, NothingDone
<1>4. CASE op[o].bStalled /\ isFull(flow, Plan[o].out)
  BY <1>4, Control, NothingDone DEF ResumePair
<1>5. CASE op[o].bStalled /\ ~isFull(flow, Plan[o].out)
  <2> DEFINE e == op[o].stalledElement
             ts == op[o].lastInputTs
  <2>1. /\ Begin(o) /\ flow' = enqueue(flow, Plan[o].out, e)
        /\ op' = [op EXCEPT ![o].bStalled = FALSE, ![o].stalledElement = Heartbeat(0)]
    BY <1>5 DEF ResumePair
  <2>2. e.kind \in KindOf /\ e.timestamp = ts /\ ts \in Nat /\ Promise(o, flow) <= ts
    BY <1>2, <1>5 DEF PairInv, FilterInv, Reads
  <2>3. {"lastInputTs", "lastOutputTs", "bStalled", "stalledElement"} \subseteq DOMAIN op[o]
    BY <1>2 DEF PairInv, FilterInv, InitialState, GroupAggrInit, PartnWindowInit
  <2> HIDE DEF e
  <2>4. Sends(query, o, flow, flow', ts)
    BY <1>1, <1>5, <2>1, <2>2, SendsOne
  <2>5. /\ DOMAIN op' = query /\ \A p \in query \ {o} : op'[p] = op[p]
        /\ DOMAIN op'[o] = DOMAIN op[o] /\ op'[o].lastInputTs = ts /\ op'[o].bStalled = FALSE
    BY <1>1, <2>1, <2>3
  <2>6. PairOp(o, op'[o], ts)
    BY <2>5 DEF PairOp
  <2>7. RunInv(o, op'[o], flow', slice')
    BY <2>5, RunInvIs DEF StalledMeansFull
  <2> QED BY <2>1, <2>4, <2>5, <2>6, <2>7, Control, PairKept DEF Pairing
<1>6. op[o].bStalled \in BOOLEAN
  BY <1>2 DEF PairInv
<1> QED BY <1>3, <1>4, <1>5, <1>6

(* A pair sent for what was read, if nothing waits already.                *)
LEMMA SendPairSends ==
  ASSUME IInv, NEW o \in query, HasOutput(o), {"bStalled", "stalledElement"} \subseteq DOMAIN op[o],
         NEW ts \in Nat, NEW f, NEW g, NEW s, NEW plus, NEW minus,
         FlowOK(query, f), SameQueues(f, g), ~isFull(f, Plan[o].out), Promise(o, f) <= ts,
         PairOp(o, s, ts), ~s.bStalled, "lastInputTs" \in DOMAIN s,
         plus.kind \in KindOf, plus.timestamp = ts, minus.kind \in KindOf, minus.timestamp = ts
  PROVE  Paired(o, f, SendPair(o, [flow |-> g, op |-> s], plus, minus), ts)
<1> DEFINE h == enqueue(g, Plan[o].out, plus)
           x == SendPair(o, [flow |-> g, op |-> s], plus, minus)
<1>1. query \in Queries /\ FlowOK(query, g) /\ ~isFull(g, Plan[o].out) /\ Promise(o, g) <= ts
  BY Base, SameIsOK, SameOutput
<1>2. Sends(query, o, g, h, ts) /\ FlowOK(query, h)
  BY <1>1, SendsOne
<1>3. x = SendMinus(o, h, s, minus)
  BY DEF SendPair
<1> HIDE DEF h, x
<1>4. Sends(query, o, f, h, ts)
  BY <1>1, <1>2, SameSends
<1>5. ASSUME isFull(h, Plan[o].out) PROVE Paired(o, f, x, ts)
  <2>1. x = [flow |-> h, op |-> [s EXCEPT !.bStalled = TRUE, !.stalledElement = minus]]
    BY <1>3, <1>5 DEF SendMinus
  <2>2. /\ x.flow = h /\ DOMAIN x.op = DOMAIN s /\ x.op.lastInputTs = s.lastInputTs
        /\ x.op.bStalled = TRUE /\ x.op.stalledElement = minus
    BY <2>1 DEF PairOp
  <2>3. PairOp(o, x.op, ts)
    BY <2>2 DEF PairOp
  <2>4. isFull(x.flow, Plan[o].out) /\ Sends(query, o, f, x.flow, ts) /\ FlowOK(query, x.flow)
    BY <1>2, <1>4, <1>5, <2>2
  <2> QED BY <2>3, <2>4 DEF Paired
<1>6. ASSUME ~isFull(h, Plan[o].out) PROVE Paired(o, f, x, ts)
  <2> DEFINE k == enqueue(h, Plan[o].out, minus)
  <2>1. x = [flow |-> k, op |-> s]
    BY <1>3, <1>6 DEF SendMinus
  <2>2. Promise(o, h) <= ts
    BY <1>4 DEF Sends
  <2>3. Sends(query, o, h, k, ts) /\ FlowOK(query, k)
    BY <1>1, <1>2, <1>6, <2>2, SendsOne
  <2> HIDE DEF k
  <2>4. Sends(query, o, f, k, ts)
    BY <1>1, <1>4, <2>3, SendsThen
  <2>5. x.flow = k /\ x.op = s
    BY <2>1
  <2>6. Sends(query, o, f, x.flow, ts) /\ FlowOK(query, x.flow)
    BY <2>3, <2>4, <2>5
  <2>7. PairOp(o, x.op, ts) /\ ~x.op.bStalled
    BY <2>5, Zenon
  <2> QED BY <2>6, <2>7 DEF Paired
<1> QED BY <1>5, <1>6 DEF x

(* One element sent, or none.                                              *)
LEMMA SendOnePaired ==
  ASSUME IInv, NEW o \in query, HasOutput(o),
         NEW ts \in Nat, NEW f, NEW g, NEW s, NEW e,
         FlowOK(query, f), SameQueues(f, g), ~isFull(f, Plan[o].out), Promise(o, f) <= ts,
         PairOp(o, s, ts), ~s.bStalled, e.kind \in KindOf, e.timestamp = ts
  PROVE  Paired(o, f, [flow |-> enqueue(g, Plan[o].out, e), op |-> s], ts)
<1> DEFINE h == enqueue(g, Plan[o].out, e)
<1>1. query \in Queries /\ FlowOK(query, g) /\ ~isFull(g, Plan[o].out) /\ Promise(o, g) <= ts
  BY Base, SameIsOK, SameOutput
<1>2. Sends(query, o, g, h, ts) /\ FlowOK(query, h)
  BY <1>1, SendsOne
<1> HIDE DEF h
<1>3. Sends(query, o, f, h, ts)
  BY <1>1, <1>2, SameSends
<1> QED BY <1>2, <1>3 DEF Paired, h

LEMMA SendNonePaired ==
  ASSUME IInv, NEW o \in query, HasOutput(o), NEW ts, NEW f, NEW x,
         FlowOK(query, f), SameQueues(f, x.flow), Promise(o, f) <= ts,
         PairOp(o, x.op, ts), ~x.op.bStalled
  PROVE  Paired(o, f, x, ts)
BY Base, SendsNothing DEF Paired

LEMMA PairedSame ==
  ASSUME IInv, NEW o \in query, HasOutput(o), NEW ts, NEW f, NEW x, NEW y,
         FlowOK(query, f), Paired(o, f, x, ts), SameQueues(x.flow, y.flow),
         PairOp(o, y.op, ts), y.op.bStalled = x.op.bStalled
  PROVE  Paired(o, f, y, ts)
<1>1. query \in Queries
  BY Base
<1>2. Sends(query, o, f, y.flow, ts) /\ FlowOK(query, y.flow)
  BY <1>1, SendsSame DEF Paired
<1>3. isFull(y.flow, Plan[o].out) <=> isFull(x.flow, Plan[o].out)
  BY SameOutput
<1> QED BY <1>2, <1>3 DEF Paired

LEMMA PublishSame ==
  ASSUME NEW ops, NEW f, NEW t, FlowOK(ops, f)
  PROVE  SameQueues(f, Publish(f, t))
<1> DEFINE g == newTuple(f, t)
<1>1. SameQueues(f, g) /\ FlowOK(ops, g)
  BY SameOfCounts, SameIsOK
<1>2. Publish(f, t) = addRef(g, t, 1)
  BY DEF Publish
<1> HIDE DEF g
<1>3. SameQueues(g, addRef(g, t, 1))
  BY <1>1, SameOfCounts
<1> QED BY <1>1, <1>2, <1>3, SameSame

LEMMA DroppedPaired ==
  ASSUME IInv, NEW o \in query, HasOutput(o), NEW ts, NEW f, NEW x, NEW e,
         FlowOK(query, f), Paired(o, f, x, ts), DOMAIN x = {"flow", "op"}
  PROVE  Paired(o, f, Dropped(x, e), ts)
<1>1. CASE ~IsData(e)
  BY <1>1 DEF Dropped
<1>2. CASE IsData(e)
  <2> DEFINE y == Dropped(x, e)
  <2>1. y.flow = decrRef(x.flow, e.tuple) /\ y.op = x.op
    BY <1>2 DEF Dropped
  <2>2. SameQueues(x.flow, y.flow)
    BY <2>1, SameOfCounts DEF Paired
  <2> HIDE DEF y
  <2>3. Paired(o, f, y, ts)
    BY <2>1, <2>2, PairedSame DEF Paired
  <2> QED BY <2>3 DEF y
<1> QED BY <1>1, <1>2

(* What a group or a partition makes of the element it has taken.          *)
LEMMA TakenFacts ==
  ASSUME IInv, NEW o \in query, Plan[o].kind \in {"group", "partn"}, ~op[o].bStalled,
         ~isEmpty(flow, Plan[o].in), NEW e, e = peek(flow, Plan[o].in)
  PROVE  LET x == Taken(o, e)
             f == dequeue(flow, Plan[o].in)
         IN  /\ FlowOK(query, f) /\ x.flow = f /\ DOMAIN x = {"flow", "op"}
             /\ isFull(f, Plan[o].out) <=> isFull(flow, Plan[o].out)
             /\ e.kind \in KindOf /\ e.timestamp \in Nat /\ Promise(o, f) <= e.timestamp
             /\ PairOp(o, x.op, e.timestamp) /\ ~x.op.bStalled
             /\ {"lastInputTs", "lastOutputTs", "bStalled", "stalledElement"} \subseteq DOMAIN op[o]
<1> DEFINE f == dequeue(flow, Plan[o].in)
           x == Taken(o, e)
<1>1. HasOutput(o) /\ "in" \in Ports(o)
  BY Single
<1>2. PairInv(o, op[o], flow)
  BY Base, OpInvIs
<1>3. {"lastInputTs", "lastOutputTs", "bStalled", "stalledElement"} \subseteq DOMAIN op[o]
  BY <1>2 DEF PairInv, FilterInv, InitialState, GroupAggrInit, PartnWindowInit
<1>4. /\ FlowOK(query, f)
      /\ isFull(f, Plan[o].out) <=> isFull(flow, Plan[o].out)
      /\ e.kind \in KindOf /\ e.timestamp \in Nat
      /\ Promise(o, flow) = Promise(o, f) /\ op[o].lastInputTs <= e.timestamp
      /\ Promise(o, flow) \in Nat
  BY <1>1, <1>2, Taking DEF PairInv, FilterInv, Reads
<1>5. Promise(o, f) <= e.timestamp
  BY <1>2, <1>4 DEF PairInv, FilterInv, Reads
<1>6. x.flow = f /\ x.op = [op[o] EXCEPT !.lastInputTs = e.timestamp] /\ DOMAIN x = {"flow", "op"}
  BY DEF Taken
<1> HIDE DEF x, f
<1>7. PairOp(o, x.op, e.timestamp) /\ ~x.op.bStalled
  <2>1. op[o].bStalled \in BOOLEAN
    BY <1>2 DEF PairInv
  <2>2. /\ DOMAIN x.op = DOMAIN op[o] /\ x.op.lastInputTs = e.timestamp
        /\ x.op.bStalled = op[o].bStalled
    BY <1>3, <1>6
  <2> QED BY <2>1, <2>2 DEF PairOp
<1> QED BY <1>3, <1>4, <1>5, <1>6, <1>7 DEF x, f

(***************************************************************************)
(* Grouping.                                                               *)
(***************************************************************************)
LEMMA ReplacePaired ==
  ASSUME IInv, NEW o \in query, Plan[o].kind = "group", HasOutput(o),
         DOMAIN op[o] = DOMAIN GroupAggrInit, NEW ts \in Nat, NEW f, NEW x, NEW g, NEW members,
         FlowOK(query, f), SameQueues(f, x.flow), ~isFull(f, Plan[o].out), Promise(o, f) <= ts,
         PairOp(o, x.op, ts), ~x.op.bStalled
  PROVE  /\ Paired(o, f, Replace(o, x, g, members, ts), ts)
         /\ DOMAIN Replace(o, x, g, members, ts) = {"flow", "op"}
<1> DEFINE s     == [x.op EXCEPT !.outputSynopsis[g] = members, !.lastOutputTs = ts]
           old   == Aggregate(o, g, x.op.outputSynopsis[g])
           new   == Aggregate(o, g, members)
           h     == Publish(x.flow, new)
           plus  == Element(PLUS, new, ts)
           minus == Element(MINUS, old, ts)
<1>1. Replace(o, x, g, members, ts) = SendPair(o, [flow |-> h, op |-> s], plus, minus)
  BY DEF Replace, ReplaceTuple
<1>2. /\ plus.kind \in KindOf /\ plus.timestamp = ts
      /\ minus.kind \in KindOf /\ minus.timestamp = ts
  BY DEF Element, KindOf
<1>3. DOMAIN x.op = {"lastInputTs", "lastOutputTs", "inputSynopsis", "outputSynopsis", "bStalled",
                     "stalledElement"}
  BY DEF PairOp, GroupAggrInit
<1>4. /\ DOMAIN s = DOMAIN x.op /\ s.lastInputTs = x.op.lastInputTs
      /\ s.bStalled = x.op.bStalled /\ s.stalledElement = x.op.stalledElement
  BY <1>3
<1> HIDE DEF s, new, plus, minus
<1>5. PairOp(o, s, ts) /\ ~s.bStalled
  BY <1>4 DEF PairOp
<1>6. FlowOK(query, x.flow)
  BY SameIsOK
<1>7. SameQueues(f, h)
  BY <1>6, PublishSame, SameSame
<1> HIDE DEF h
<1>8. {"bStalled", "stalledElement"} \subseteq DOMAIN op[o] /\ "lastInputTs" \in DOMAIN s
  BY <1>3, <1>4 DEF PairOp
<1>9. Paired(o, f, SendPair(o, [flow |-> h, op |-> s], plus, minus), ts)
  BY <1>2, <1>5, <1>7, <1>8, SendPairSends
<1>10. DOMAIN SendPair(o, [flow |-> h, op |-> s], plus, minus) = {"flow", "op"}
  BY DEF SendPair, SendMinus
<1> QED BY <1>1, <1>9, <1>10

LEMMA EnterPaired ==
  ASSUME IInv, NEW o \in query, Plan[o].kind = "group", HasOutput(o),
         DOMAIN op[o] = DOMAIN GroupAggrInit, NEW ts \in Nat, NEW f, NEW x, NEW t,
         FlowOK(query, f), SameQueues(f, x.flow), ~isFull(f, Plan[o].out), Promise(o, f) <= ts,
         PairOp(o, x.op, ts), ~x.op.bStalled
  PROVE  /\ Paired(o, f, AggrPlus(o, x, t, ts), ts)
         /\ DOMAIN AggrPlus(o, x, t, ts) = {"flow", "op"}
<1> DEFINE g == Plan[o].value[t]
           y == Enter(o, x, g, t, ts)
<1>0. DOMAIN x.op = {"lastInputTs", "lastOutputTs", "inputSynopsis", "outputSynopsis", "bStalled",
                     "stalledElement"}
  BY DEF PairOp, GroupAggrInit
<1>1. Paired(o, f, y, ts) /\ DOMAIN y = {"flow", "op"}
  <2>1. CASE g \in DOMAIN x.op.outputSynopsis
    <3>1. y = Replace(o, x, g, x.op.outputSynopsis[g] \cup {t}, ts)
      BY <2>1 DEF Enter
    <3> HIDE DEF y, g
    <3> QED BY <3>1, ReplacePaired
  <2>2. CASE g \notin DOMAIN x.op.outputSynopsis
    <3> DEFINE new == Aggregate(o, g, {t})
               e == Element(PLUS, new, ts)
               h == Publish(x.flow, new)
               s == [x.op EXCEPT
                       !.outputSynopsis = [k \in DOMAIN @ \cup {g} |-> IF k = g THEN {t} ELSE @[k]],
                       !.lastOutputTs = ts]
    <3>1. y = [flow |-> enqueue(h, Plan[o].out, e), op |-> s]
      BY <2>2 DEF Enter, Open, SendNew
    <3>2. e.kind \in KindOf /\ e.timestamp = ts
      BY DEF Element, KindOf
    <3>3. /\ DOMAIN s = DOMAIN x.op /\ s.lastInputTs = x.op.lastInputTs
          /\ s.bStalled = x.op.bStalled /\ s.stalledElement = x.op.stalledElement
      BY <1>0
    <3> HIDE DEF s, e, y, new
    <3>4. PairOp(o, s, ts) /\ ~s.bStalled
      BY <3>3 DEF PairOp
    <3>5. SameQueues(f, h)
      BY SameIsOK, PublishSame, SameSame
    <3> HIDE DEF h
    <3>6. Paired(o, f, [flow |-> enqueue(h, Plan[o].out, e), op |-> s], ts)
      BY <3>2, <3>4, <3>5, SendOnePaired
    <3> QED BY <3>1, <3>6
  <2> QED BY <2>1, <2>2
<1> DEFINE z == Keep(o, y, t)
<1>2. AggrPlus(o, x, t, ts) = z
  BY DEF AggrPlus
<1> HIDE DEF y
<1>3. CASE ~Plan[o].inputSynopsis
  BY <1>1, <1>2, <1>3 DEF Keep
<1>4. CASE Plan[o].inputSynopsis
  <2>1. z = [flow |-> addRef(y.flow, t, 1), op |-> [y.op EXCEPT !.inputSynopsis = @ \cup {t}]]
    BY <1>4 DEF Keep
  <2>2. SameQueues(y.flow, addRef(y.flow, t, 1))
    BY <1>1, SameOfCounts DEF Paired
  <2> HIDE DEF z
  <2>3. z.flow = addRef(y.flow, t, 1) /\ DOMAIN z = {"flow", "op"}
    BY <2>1
  <2>4. DOMAIN y.op = {"lastInputTs", "lastOutputTs", "inputSynopsis", "outputSynopsis", "bStalled",
                     "stalledElement"}
    BY <1>1 DEF Paired, PairOp, GroupAggrInit
  <2>5. /\ DOMAIN z.op = DOMAIN y.op /\ z.op.lastInputTs = y.op.lastInputTs
        /\ z.op.bStalled = y.op.bStalled /\ z.op.stalledElement = y.op.stalledElement
    BY <2>1, <2>4
  <2>6. PairOp(o, z.op, ts)
    BY <1>1, <2>5 DEF Paired, PairOp
  <2>7. SameQueues(y.flow, z.flow)
    BY <2>2, <2>3
  <2>8. Paired(o, f, z, ts)
    BY <1>1, <2>5, <2>6, <2>7, PairedSame
  <2> QED BY <1>2, <2>3, <2>8
<1> QED BY <1>3, <1>4

LEMMA LeavePaired ==
  ASSUME IInv, NEW o \in query, Plan[o].kind = "group", HasOutput(o),
         DOMAIN op[o] = DOMAIN GroupAggrInit, NEW ts \in Nat, NEW f, NEW x, NEW t,
         FlowOK(query, f), SameQueues(f, x.flow), ~isFull(f, Plan[o].out), Promise(o, f) <= ts,
         PairOp(o, x.op, ts), ~x.op.bStalled
  PROVE  /\ Paired(o, f, AggrMinus(o, x, t, ts), ts)
         /\ DOMAIN AggrMinus(o, x, t, ts) = {"flow", "op"}
<1> DEFINE g == Plan[o].value[t]
           y == Forget(o, x, t)
<1>0. DOMAIN x.op = {"lastInputTs", "lastOutputTs", "inputSynopsis", "outputSynopsis", "bStalled",
                     "stalledElement"}
  BY DEF PairOp, GroupAggrInit
<1>1. SameQueues(f, y.flow) /\ PairOp(o, y.op, ts) /\ ~y.op.bStalled
  <2>1. CASE ~Plan[o].inputSynopsis
    <3>1. y = x
      BY <2>1 DEF Forget
    <3> HIDE DEF y
    <3> QED BY <3>1, Zenon
  <2>2. CASE Plan[o].inputSynopsis
    <3>1. y = [flow |-> decrRef(x.flow, t), op |-> [x.op EXCEPT !.inputSynopsis = @ \ {t}]]
      BY <2>2 DEF Forget
    <3>2. FlowOK(query, x.flow)
      BY SameIsOK
    <3>3. SameQueues(x.flow, decrRef(x.flow, t))
      BY <3>2, SameOfCounts
    <3> HIDE DEF y
    <3>4. y.flow = decrRef(x.flow, t)
      BY <3>1
    <3>5. /\ DOMAIN y.op = DOMAIN x.op /\ y.op.lastInputTs = x.op.lastInputTs
          /\ y.op.bStalled = x.op.bStalled /\ y.op.stalledElement = x.op.stalledElement
      BY <1>0, <3>1
    <3>6. PairOp(o, y.op, ts) /\ ~y.op.bStalled
      BY <3>5 DEF PairOp
    <3> QED BY <3>3, <3>4, <3>6, SameSame
  <2> QED BY <2>1, <2>2
<1> DEFINE z == Leave(o, y, g, t, ts)
<1>2. AggrMinus(o, x, t, ts) = z
  BY DEF AggrMinus
<1> HIDE DEF y, g
<1>3. CASE Cardinality(y.op.outputSynopsis[g]) # 1
  <2>1. z = Replace(o, y, g, Remaining(o, y.op, g, t), ts)
    BY <1>3 DEF Leave
  <2> QED BY <1>1, <1>2, <2>1, ReplacePaired
<1>4. CASE Cardinality(y.op.outputSynopsis[g]) = 1
  <2> DEFINE e == Element(MINUS, Aggregate(o, g, y.op.outputSynopsis[g]), ts)
             s == [y.op EXCEPT !.outputSynopsis = [h \in DOMAIN @ \ {g} |-> @[h]],
                               !.lastOutputTs = ts]
  <2>1. z = [flow |-> enqueue(y.flow, Plan[o].out, e), op |-> s]
    BY <1>4 DEF Leave, Close
  <2>2. e.kind \in KindOf /\ e.timestamp = ts
    BY DEF Element, KindOf
  <2>3. DOMAIN y.op = {"lastInputTs", "lastOutputTs", "inputSynopsis", "outputSynopsis", "bStalled",
                       "stalledElement"}
    BY <1>1 DEF PairOp, GroupAggrInit
  <2>4. /\ DOMAIN s = DOMAIN y.op /\ s.lastInputTs = y.op.lastInputTs
        /\ s.bStalled = y.op.bStalled /\ s.stalledElement = y.op.stalledElement
    BY <2>3
  <2> HIDE DEF s, e, z
  <2>5. PairOp(o, s, ts) /\ ~s.bStalled
    BY <1>1, <2>4 DEF PairOp
  <2>6. Paired(o, f, [flow |-> enqueue(y.flow, Plan[o].out, e), op |-> s], ts)
    BY <1>1, <2>2, <2>5, SendOnePaired
  <2> QED BY <1>2, <2>1, <2>6
<1> QED BY <1>3, <1>4

LEMMA GroupAggrStep ==
  ASSUME IInv, NEW o \in query, Plan[o].kind = "group",
         GroupAggrBegin(o) \/ GroupAggrIterate(o) \/ GroupAggrEnd(o)
  PROVE  StepOf(o)
<1>1. CASE GroupAggrBegin(o)
  BY <1>1, PairBegins DEF GroupAggrBegin
<1>2. CASE GroupAggrEnd(o)
  BY <1>2, PairEnds DEF GroupAggrEnd
<1>3. CASE GroupAggrIterate(o)
  <2> DEFINE e == peek(flow, Plan[o].in)
             f == dequeue(flow, Plan[o].in)
             x == Taken(o, e)
             y == Aggregated(o, x, e)
             z == Dropped(y, e)
  <2>1. HasOutput(o) /\ DOMAIN op = query
    BY Base, Single
  <2>2. DOMAIN op[o] = DOMAIN GroupAggrInit
    BY Base, OpInvIs DEF PairInv, FilterInv, InitialState
  <2>3. /\ MayIterate(o) /\ ~isFull(flow, Plan[o].out) /\ ~isEmpty(flow, Plan[o].in)
        /\ LoopUnlessStalled(o, z)
    BY <1>3 DEF GroupAggrIterate, GroupAggrStuck
  <2>4. ~op[o].bStalled
    BY <2>3, Base, RunInvIs DEF MayIterate
  <2>5. /\ FlowOK(query, f) /\ x.flow = f /\ DOMAIN x = {"flow", "op"} /\ ~isFull(f, Plan[o].out)
        /\ e.kind \in KindOf /\ e.timestamp \in Nat /\ Promise(o, f) <= e.timestamp
        /\ PairOp(o, x.op, e.timestamp) /\ ~x.op.bStalled
    BY <2>3, <2>4, TakenFacts
  <2>6. SameQueues(f, x.flow)
    BY <2>5, SameOfCounts
  <2>7. Paired(o, f, y, e.timestamp) /\ DOMAIN y = {"flow", "op"}
    <3>1. CASE e.kind = PLUS
      <4>1. y = AggrPlus(o, x, e.tuple, e.timestamp)
        BY <3>1 DEF Aggregated, PLUS, MINUS, HEARTBEAT
      <4> HIDE DEF y, x, e, f
      <4> QED BY <2>1, <2>2, <2>5, <2>6, <4>1, EnterPaired
    <3>2. CASE e.kind = MINUS
      <4>1. y = AggrMinus(o, x, e.tuple, e.timestamp)
        BY <3>2 DEF Aggregated, PLUS, MINUS, HEARTBEAT
      <4> HIDE DEF y, x, e, f
      <4> QED BY <2>1, <2>2, <2>5, <2>6, <4>1, LeavePaired
    <3>3. CASE e.kind = HEARTBEAT
      <4>1. y = x
        BY <3>3 DEF Aggregated, PLUS, MINUS, HEARTBEAT
      <4> HIDE DEF y, x, e, f
      <4> QED BY <2>1, <2>5, <2>6, <4>1, SendNonePaired
    <3> QED BY <2>5, <3>1, <3>2, <3>3 DEF KindOf
  <2> HIDE DEF e, f, x, y
  <2>8. Paired(o, f, z, e.timestamp)
    BY <2>1, <2>5, <2>7, DroppedPaired
  <2> HIDE DEF z
  <2>9. flow' = z.flow /\ op' = [op EXCEPT ![o] = z.op]
    BY <2>3 DEF LoopUnlessStalled, Became
  <2>10. /\ running' \in {o, Idle, Failed} /\ slice' \in 0 .. TimeSlice
         /\ running' = o => ~z.op.bStalled
    BY <2>3, Control DEF LoopUnlessStalled
  <2>11. DOMAIN op' = query /\ op'[o] = z.op /\ \A p \in query \ {o} : op'[p] = op[p]
    BY <2>1, <2>9
  <2>12. running' = o => RunInv(o, op'[o], flow', slice')
    BY <2>10, <2>11, RunInvIs
  <2>13. Sends(query, o, f, flow', e.timestamp) /\ PairOp(o, op'[o], e.timestamp)
    BY <2>8, <2>9, <2>11 DEF Paired
  <2> QED BY <2>3, <2>10, <2>11, <2>12, <2>13, PairReads DEF e, f, Pairing
<1> QED BY <1>1, <1>2, <1>3

(***************************************************************************)
(* The partitioned window.                                                 *)
(***************************************************************************)
LEMMA PartnPlusPaired ==
  ASSUME IInv, NEW o \in query, Plan[o].kind = "partn", HasOutput(o),
         DOMAIN op[o] = DOMAIN PartnWindowInit, NEW f, NEW x, NEW e, NEW copy, e.timestamp \in Nat,
         FlowOK(query, f), SameQueues(f, x.flow), ~isFull(f, Plan[o].out),
         Promise(o, f) <= e.timestamp, PairOp(o, x.op, e.timestamp), ~x.op.bStalled
  PROVE  /\ Paired(o, f, PartnWindowPlus(o, x, e, copy), e.timestamp)
         /\ DOMAIN PartnWindowPlus(o, x, e, copy) = {"flow", "op"}
<1> DEFINE ts   == e.timestamp
           s    == [x.op EXCEPT !.partn = Append(@, copy), !.lastOutputTs = ts]
           h    == Publish(x.flow, copy)
           plus == Element(PLUS, copy, ts)
           part == Partition(o, s, e.tuple)
           y    == PartnWindowPlus(o, x, e, copy)
<1>1. DOMAIN x.op = {"lastInputTs", "lastOutputTs", "partn", "bStalled", "stalledElement"}
  BY DEF PairOp, PartnWindowInit
<1>2. y = PartnInsert(o, h, s, plus, part)
  BY DEF PartnWindowPlus
<1>3. plus.kind \in KindOf /\ plus.timestamp = ts
  BY DEF Element, KindOf
<1>4. /\ DOMAIN s = DOMAIN x.op /\ s.lastInputTs = x.op.lastInputTs
      /\ s.bStalled = x.op.bStalled /\ s.stalledElement = x.op.stalledElement
  BY <1>1
<1> HIDE DEF s, part, y
<1>5. PairOp(o, s, ts) /\ ~s.bStalled
  BY <1>4 DEF PairOp
<1>6. SameQueues(f, h)
  BY SameIsOK, PublishSame, SameSame
<1> HIDE DEF h, plus
<1>7. CASE ~PartnIsFull(o, part)
  <2>1. y = [flow |-> enqueue(h, Plan[o].out, plus), op |-> s]
    BY <1>2, <1>7 DEF PartnInsert
  <2>2. Paired(o, f, [flow |-> enqueue(h, Plan[o].out, plus), op |-> s], ts)
    BY <1>3, <1>5, <1>6, SendOnePaired
  <2> QED BY <2>1, <2>2 DEF y
<1>8. CASE PartnIsFull(o, part)
  <2> DEFINE minus == Element(MINUS, Head(part), plus.timestamp)
             left  == SelectSeq(s.partn, LAMBDA t : t # Head(part))
             r     == [s EXCEPT !.partn = left]
             z     == SendPair(o, [flow |-> h, op |-> r], plus, minus)
  <2>1. y = z
    BY <1>2, <1>8 DEF PartnInsert, PartnEvict
  <2>2. minus.kind \in KindOf /\ minus.timestamp = ts
    BY <1>3 DEF Element, KindOf
  <2> HIDE DEF left
  <2>3. /\ DOMAIN r = DOMAIN s /\ r.lastInputTs = s.lastInputTs
        /\ r.bStalled = s.bStalled /\ r.stalledElement = s.stalledElement
    BY <1>1, <1>4
  <2> HIDE DEF r, minus
  <2>4. PairOp(o, r, ts) /\ ~r.bStalled
    BY <1>5, <2>3 DEF PairOp
  <2>5. {"bStalled", "stalledElement"} \subseteq DOMAIN op[o] /\ "lastInputTs" \in DOMAIN r
    BY <1>1, <1>4, <2>3 DEF PairOp
  <2>6. Paired(o, f, z, ts)
    BY <1>3, <1>6, <2>2, <2>4, <2>5, SendPairSends
  <2>7. DOMAIN z = {"flow", "op"}
    BY DEF SendPair, SendMinus
  <2> HIDE DEF z
  <2> QED BY <2>1, <2>6, <2>7 DEF y
<1> QED BY <1>7, <1>8

LEMMA PartnWindowStep ==
  ASSUME IInv, NEW o \in query, Plan[o].kind = "partn",
         PartnWindowBegin(o) \/ PartnWindowIterate(o) \/ PartnWindowEnd(o)
  PROVE  StepOf(o)
<1>1. CASE PartnWindowBegin(o)
  BY <1>1, PairBegins DEF PartnWindowBegin
<1>2. CASE PartnWindowEnd(o)
  BY <1>2, PairEnds DEF PartnWindowEnd
<1>3. CASE PartnWindowIterate(o)
  <2> DEFINE e == peek(flow, Plan[o].in)
             f == dequeue(flow, Plan[o].in)
             x == Taken(o, e)
             y == PartnWindowReceive(o, x, e)
             z == Dropped(y, e)
  <2>1. HasOutput(o) /\ DOMAIN op = query
    BY Base, Single
  <2>2. DOMAIN op[o] = DOMAIN PartnWindowInit
    BY Base, OpInvIs DEF PairInv, FilterInv, InitialState
  <2>3. /\ MayIterate(o) /\ ~isFull(flow, Plan[o].out) /\ ~isEmpty(flow, Plan[o].in)
        /\ Became(o, z) /\ Loop
    BY <1>3 DEF PartnWindowIterate, PartnWindowStuck
  <2>4. ~op[o].bStalled
    BY <2>3, Base, RunInvIs DEF MayIterate, StalledMeansFull
  <2>5. /\ FlowOK(query, f) /\ x.flow = f /\ DOMAIN x = {"flow", "op"} /\ ~isFull(f, Plan[o].out)
        /\ e.kind \in KindOf /\ e.timestamp \in Nat /\ Promise(o, f) <= e.timestamp
        /\ PairOp(o, x.op, e.timestamp) /\ ~x.op.bStalled
    BY <2>3, <2>4, TakenFacts
  <2>6. SameQueues(f, x.flow)
    BY <2>5, SameOfCounts
  <2>7. Paired(o, f, y, e.timestamp) /\ DOMAIN y = {"flow", "op"}
    <3>1. CASE IsData(e)
      <4>1. y = PartnWindowPlus(o, x, e, CopyOf(o, e.tuple))
        BY <3>1 DEF PartnWindowReceive
      <4> HIDE DEF y, x, e, f
      <4> QED BY <2>1, <2>2, <2>5, <2>6, <4>1, PartnPlusPaired
    <3>2. CASE ~IsData(e)
      <4>1. y = x
        BY <3>2 DEF PartnWindowReceive
      <4> HIDE DEF y, x, e, f
      <4> QED BY <2>1, <2>5, <2>6, <4>1, SendNonePaired
    <3> QED BY <3>1, <3>2
  <2> HIDE DEF e, f, x, y
  <2>8. Paired(o, f, z, e.timestamp)
    BY <2>1, <2>5, <2>7, DroppedPaired
  <2> HIDE DEF z
  <2>9. flow' = z.flow /\ op' = [op EXCEPT ![o] = z.op]
    BY <2>3 DEF Became
  <2>10. DOMAIN op' = query /\ op'[o] = z.op /\ \A p \in query \ {o} : op'[p] = op[p]
    BY <2>1, <2>9
  <2>11. RunInv(o, op'[o], flow', slice')
    BY <2>8, <2>9, <2>10, RunInvIs DEF Paired, StalledMeansFull
  <2>12. Sends(query, o, f, flow', e.timestamp) /\ PairOp(o, op'[o], e.timestamp)
    BY <2>8, <2>9, <2>10 DEF Paired
  <2> QED BY <2>3, <2>10, <2>11, <2>12, Control, PairReads DEF e, f, Pairing
<1> QED BY <1>1, <1>2, <1>3

(***************************************************************************)
(* The row window.                                                         *)
(***************************************************************************)
LEMMA RowWindowStep ==
  ASSUME IInv, NEW o \in query, Plan[o].kind = "row",
         RowWindowBegin(o) \/ RowWindowIterate(o) \/ RowWindowEnd(o)
  PROVE  StepOf(o)
<1>1. /\ HasOutput(o) /\ DOMAIN op = query /\ query \in Queries /\ FlowOK(query, flow)
      /\ "in" \in Ports(o) /\ Plan[o].kind \in Pairing
  BY Base, Single DEF Pairing
<1>2. PairInv(o, op[o], flow)
  BY Base, OpInvIs
<1>3. DOMAIN op[o] = {"lastInputTs", "lastOutputTs", "window", "numProcessed", "bStalled",
                      "stalledElement"}
  BY <1>2 DEF PairInv, FilterInv, InitialState, RowWindowInit
<1>4. /\ op[o].lastInputTs \in Nat /\ Promise(o, flow) <= op[o].lastInputTs
      /\ op[o].bStalled \in BOOLEAN /\ PairOp(o, op[o], op[o].lastInputTs)
  BY <1>2 DEF PairInv, FilterInv, Reads, PairOp
<1>5. CASE RowWindowBegin(o)
  <2>1. CASE op[o].bStalled /\ ~isFull(flow, Plan[o].out)
    <3> DEFINE e == op[o].stalledElement
    <3>1. /\ flow' = enqueue(flow, Plan[o].out, e)
          /\ op' = [op EXCEPT ![o].bStalled = FALSE]
          /\ Return
      BY <1>5, <2>1 DEF RowWindowBegin
    <3>2. e.kind \in KindOf /\ e.timestamp = op[o].lastInputTs
      BY <1>2, <2>1 DEF PairInv
    <3> HIDE DEF e
    <3>3. Sends(query, o, flow, flow', op[o].lastInputTs)
      BY <1>1, <1>4, <2>1, <3>1, <3>2, SendsOne
    <3>4. /\ DOMAIN op' = query /\ \A p \in query \ {o} : op'[p] = op[p]
          /\ DOMAIN op'[o] = DOMAIN op[o] /\ op'[o].lastInputTs = op[o].lastInputTs
          /\ op'[o].bStalled = FALSE
      BY <1>1, <1>3, <3>1
    <3>5. PairOp(o, op'[o], op[o].lastInputTs)
      BY <3>4 DEF PairOp
    <3> QED BY <1>1, <3>1, <3>3, <3>4, <3>5, Control, PairKept
  <2>2. CASE ~(op[o].bStalled /\ ~isFull(flow, Plan[o].out))
    <3>1. Begin(o) /\ UNCHANGED <<flow, op>>
      BY <1>5, <2>2 DEF RowWindowBegin
    <3>2. RunInv(o, op[o], flow, slice')
      BY <2>2, RunInvIs DEF StalledMeansFull
    <3> QED BY <3>1, <3>2, Control, NothingDone
  <2> QED BY <2>1, <2>2
<1>6. CASE RowWindowEnd(o)
  <2>1. /\ Return /\ op' = op
        /\ flow' = IF HeartbeatDue(o, op[o].lastInputTs)
                   THEN enqueue(flow, Plan[o].out, Heartbeat(op[o].lastInputTs)) ELSE flow
    BY <1>6 DEF RowWindowEnd
  <2>2. Sends(query, o, flow, flow', op[o].lastInputTs)
    BY <1>1, <1>4, <2>1, EndSends
  <2>3. /\ DOMAIN op' = query /\ \A p \in query \ {o} : op'[p] = op[p]
        /\ PairOp(o, op'[o], op[o].lastInputTs)
    BY <1>1, <1>4, <2>1
  <2> QED BY <1>1, <2>1, <2>2, <2>3, Control, PairKept
<1>7. CASE RowWindowIterate(o)
  <2> DEFINE e == peek(flow, Plan[o].in)
             f == dequeue(flow, Plan[o].in)
             ts == e.timestamp
  <2>1. /\ MayIterate(o) /\ ~isFull(flow, Plan[o].out) /\ ~isEmpty(flow, Plan[o].in)
        /\ \/ /\ flow' = f
              /\ op' = [op EXCEPT ![o].lastInputTs = ts]
              /\ Loop
           \/ Disqualify(o, e, f)
           \/ Expels(o, e, f)
    BY <1>7 DEF RowWindowIterate, RowWindowStuck
  <2>2. ~op[o].bStalled /\ running = o
    BY <2>1, Base, RunInvIs DEF MayIterate, StalledMeansFull
  <2>3. /\ FlowOK(query, f) /\ ~isFull(f, Plan[o].out) /\ Promise(o, f) <= ts
        /\ e.kind \in KindOf /\ ts \in Nat
    <3>1. /\ FlowOK(query, f)
          /\ isFull(f, Plan[o].out) <=> isFull(flow, Plan[o].out)
          /\ Promise(o, flow) = Promise(o, f) /\ Promise(o, flow) \in Nat
          /\ e.kind \in KindOf /\ ts \in Nat /\ op[o].lastInputTs <= ts
      BY <1>1, <1>2, <2>1, Taking DEF PairInv, FilterInv, Reads
    <3> QED BY <1>4, <2>1, <3>1
  <2> HIDE DEF e, f
  <2>4. ASSUME Sends(query, o, f, flow', ts), DOMAIN op' = query,
               \A p \in query \ {o} : op'[p] = op[p],
               PairOp(o, op'[o], ts), Loop \/ (slice' = 0 /\ UNCHANGED running),
               op'[o].bStalled => isFull(flow', Plan[o].out)
        PROVE  StepOf(o)
    <3>1. RunInv(o, op'[o], flow', slice')
      BY <2>4, RunInvIs DEF StalledMeansFull
    <3>2. running' = o /\ slice' \in 0 .. TimeSlice
      BY <2>1, <2>2, <2>4, Base, Control DEF Loop
    <3> QED BY <1>1, <2>1, <2>4, <3>1, <3>2, PairReads DEF e, f
  <2>5. CASE flow' = f /\ op' = [op EXCEPT ![o].lastInputTs = ts] /\ Loop
    <3>1. Sends(query, o, f, flow', ts)
      BY <1>1, <2>3, <2>5, SameOfCounts, SendsNothing
    <3>2. /\ DOMAIN op' = query /\ \A p \in query \ {o} : op'[p] = op[p]
          /\ DOMAIN op'[o] = DOMAIN op[o] /\ op'[o].lastInputTs = ts
          /\ op'[o].bStalled = op[o].bStalled
      BY <1>1, <1>3, <2>5
    <3>3. PairOp(o, op'[o], ts) /\ ~op'[o].bStalled
      BY <1>4, <2>2, <3>2 DEF PairOp
    <3> QED BY <2>4, <2>5, <3>1, <3>2, <3>3
  <2>6. CASE Disqualify(o, e, f)
    <3> DEFINE w == deleteUnqualifiedTuple(op[o].window)
    <3>1. op' = [op EXCEPT ![o].lastInputTs = ts, ![o].window = w] /\ flow' = f /\ Loop
      BY <1>1, <1>3, <2>6 DEF Disqualify
    <3> HIDE DEF w
    <3>2. Sends(query, o, f, flow', ts)
      BY <1>1, <2>3, <3>1, SameOfCounts, SendsNothing
    <3>3. /\ DOMAIN op' = query /\ \A p \in query \ {o} : op'[p] = op[p]
          /\ DOMAIN op'[o] = DOMAIN op[o] /\ op'[o].lastInputTs = ts
          /\ op'[o].bStalled = op[o].bStalled
      BY <1>1, <1>3, <3>1
    <3>4. PairOp(o, op'[o], ts) /\ ~op'[o].bStalled
      BY <1>4, <2>2, <3>3 DEF PairOp
    <3> QED BY <2>4, <3>1, <3>2, <3>3, <3>4
  <2>7. CASE Expels(o, e, f)
    <3> DEFINE w == insertTuple(op[o].window, e.tuple, ts)
               s == [op[o] EXCEPT !.lastInputTs = ts, !.lastOutputTs = ts, !.window = w]
               g == enqueue(Lock(f, e.tuple), Plan[o].out, e)
               minus == Element(MINUS, OldestTuple(o, s.window), ts)
               d == [s EXCEPT !.window = deleteOldestTuple(@)]
               n == [s EXCEPT !.numProcessed = @ + 1]
               b == [d EXCEPT !.bStalled = TRUE, !.stalledElement = minus]
    <3>1. \/ flow' = g /\ op' = [op EXCEPT ![o] = n] /\ Loop
          \/ /\ isFull(g, Plan[o].out) /\ flow' = g
             /\ op' = [op EXCEPT ![o] = b] /\ slice' = 0 /\ UNCHANGED running
          \/ /\ ~isFull(g, Plan[o].out) /\ flow' = enqueue(g, Plan[o].out, minus)
             /\ op' = [op EXCEPT ![o] = d] /\ Loop
      BY <1>3, <2>7 DEF Expels, NoSpace
    <3> HIDE DEF w
    <3>2. /\ DOMAIN s = DOMAIN op[o] /\ s.lastInputTs = ts /\ s.bStalled = op[o].bStalled
      BY <1>3
    <3>3. /\ minus.kind \in KindOf /\ minus.timestamp = ts
      BY DEF Element, KindOf
    <3> HIDE DEF s, minus
    <3>4. /\ DOMAIN n = DOMAIN op[o] /\ n.lastInputTs = ts /\ n.bStalled = op[o].bStalled
          /\ DOMAIN d = DOMAIN op[o] /\ d.lastInputTs = ts /\ d.bStalled = op[o].bStalled
      BY <1>3, <3>2
    <3> HIDE DEF n, d
    <3>5. /\ DOMAIN b = DOMAIN op[o] /\ b.lastInputTs = ts /\ b.bStalled = TRUE
          /\ b.stalledElement = minus
      BY <1>3, <3>4
    <3> HIDE DEF b
    <3>6. PairOp(o, n, ts) /\ ~n.bStalled /\ PairOp(o, d, ts) /\ ~d.bStalled
      BY <1>4, <2>2, <3>4 DEF PairOp
    <3>7. PairOp(o, b, ts)
      BY <3>3, <3>5 DEF PairOp
    <3>8. Sends(query, o, f, g, ts) /\ FlowOK(query, g)
      <4>1. SameQueues(f, Lock(f, e.tuple)) /\ FlowOK(query, Lock(f, e.tuple))
        BY <2>3, SameOfCounts, SameIsOK DEF Lock
      <4> DEFINE h == Lock(f, e.tuple)
      <4> HIDE DEF h
      <4>2. ~isFull(h, Plan[o].out) /\ Promise(o, h) <= ts
        BY <2>3, <4>1, SameOutput DEF h
      <4>3. Sends(query, o, h, enqueue(h, Plan[o].out, e), ts)
        BY <1>1, <2>3, <4>1, <4>2, SendsOne DEF h
      <4> QED BY <1>1, <2>3, <4>1, <4>3, SameSends DEF h
    <3> HIDE DEF g
    <3>9. CASE flow' = g /\ op' = [op EXCEPT ![o] = n] /\ Loop
      <4>1. DOMAIN op' = query /\ op'[o] = n /\ \A p \in query \ {o} : op'[p] = op[p]
        BY <1>1, <3>9
      <4> QED BY <2>4, <3>6, <3>8, <3>9, <4>1
    <3>10. CASE /\ isFull(g, Plan[o].out) /\ flow' = g
                /\ op' = [op EXCEPT ![o] = b] /\ slice' = 0 /\ UNCHANGED running
      <4>1. DOMAIN op' = query /\ op'[o] = b /\ \A p \in query \ {o} : op'[p] = op[p]
        BY <1>1, <3>10
      <4> QED BY <2>4, <3>7, <3>8, <3>10, <4>1
    <3>11. CASE /\ ~isFull(g, Plan[o].out) /\ flow' = enqueue(g, Plan[o].out, minus)
                /\ op' = [op EXCEPT ![o] = d] /\ Loop
      <4>1. DOMAIN op' = query /\ op'[o] = d /\ \A p \in query \ {o} : op'[p] = op[p]
        BY <1>1, <3>11
      <4>2. Promise(o, g) <= ts
        BY <3>8 DEF Sends
      <4>3. Sends(query, o, g, flow', ts)
        BY <1>1, <2>3, <3>3, <3>8, <3>11, <4>2, SendsOne
      <4>4. Sends(query, o, f, flow', ts)
        BY <1>1, <2>3, <3>8, <4>3, SendsThen
      <4> QED BY <2>4, <3>6, <3>11, <4>1, <4>4
    <3> QED BY <3>1, <3>9, <3>10, <3>11
  <2> QED BY <2>1, <2>5, <2>6, <2>7
<1> QED BY <1>5, <1>6, <1>7

-----------------------------------------------------------------------------
(***************************************************************************)
(* The stream source.  What it sends reaches the time windows that share   *)
(* its store, in the order in which the store keeps it.                    *)
(***************************************************************************)
LEMMA TuplesApart ==
  ASSUME NEW w \in Op, Plan[w].kind = "range",
         NEW m \in 1 .. Len(Allocated(w)), NEW n \in 1 .. Len(Allocated(w)), NEW e,
         Nth(w, e, m), Nth(w, e, n)
  PROVE  m = n
<1>1. Plan[w].store \in Op /\ Plan[Plan[w].store].kind = "source"
  BY WindowsAssumption
<1>2. <<Allocated(w)[m]>> = <<Allocated(w)[n]>>
  BY DEF Nth, TupleAt
<1>3. Allocated(w)[m] = Allocated(w)[n]
  BY <1>2
<1> QED BY <1>1, <1>3, WindowsAssumption DEF Allocated

LEMMA FeedSurvivesHeartbeat ==
  ASSUME NEW w, NEW s, NEW t, NEW u, NEW f, NEW g, NEW e, FeedInv(w, s, t, f), u.next = t.next,
         IsSeq(Pending(f, Plan[w].in)), Pending(g, Plan[w].in) = Append(Pending(f, Plan[w].in), e),
         e.kind = HEARTBEAT, t.next \in Nat, s.window.lastIns \in Nat
  PROVE  FeedInv(w, s, u, g)
<1> DEFINE old == Pending(f, Plan[w].in)
           new == Pending(g, Plan[w].in)
           L == s.window.lastIns
           N == t.next
<1>1. /\ Len(old) \in Nat /\ Len(new) = Len(old) + 1 /\ new[Len(old) + 1] = e
      /\ \A k \in 1 .. Len(old) : new[k] = old[k]
  BY AppendIsSeq, SeqFacts
<1>2. /\ L < N
      /\ \A k \in 1 .. Len(old) : old[k].kind # MINUS
      /\ \A k \in 1 .. Len(old) : IsData(old[k]) => \E n \in L + 1 .. N - 1 : Nth(w, old[k], n)
      /\ \A n \in L + 1 .. N - 1 : \E k \in 1 .. Len(old) : Nth(w, old[k], n)
      /\ \A k, l \in 1 .. Len(old) : \A m, n \in L + 1 .. N - 1 :
            Nth(w, old[k], m) /\ Nth(w, old[l], n) /\ k < l => m < n
  BY DEF FeedInv
<1>3. ~IsData(e) /\ e.kind # MINUS /\ \A n : ~Nth(w, e, n)
  BY DEF IsData, HEARTBEAT, MINUS, Nth
<1> HIDE DEF old, new, L, N
<1>4. \A k \in 1 .. Len(new) : new[k].kind # MINUS
  BY <1>1, <1>2, <1>3
<1>5. \A k \in 1 .. Len(new) : IsData(new[k]) => \E n \in L + 1 .. N - 1 : Nth(w, new[k], n)
  BY <1>1, <1>2, <1>3
<1>6. \A n \in L + 1 .. N - 1 : \E k \in 1 .. Len(new) : Nth(w, new[k], n)
  <2> TAKE n \in L + 1 .. N - 1
  <2>1. PICK k \in 1 .. Len(old) : Nth(w, old[k], n)
    BY <1>2
  <2> QED BY <1>1, <2>1
<1>7. \A k, l \in 1 .. Len(new) : \A m, n \in L + 1 .. N - 1 :
         Nth(w, new[k], m) /\ Nth(w, new[l], n) /\ k < l => m < n
  <2> SUFFICES ASSUME NEW k \in 1 .. Len(new), NEW l \in 1 .. Len(new),
                      NEW m \in L + 1 .. N - 1, NEW n \in L + 1 .. N - 1,
                      Nth(w, new[k], m), Nth(w, new[l], n), k < l
               PROVE  m < n
    OBVIOUS
  <2>1. k # Len(old) + 1 /\ l # Len(old) + 1
    BY <1>1, <1>3
  <2>2. k \in 1 .. Len(old) /\ l \in 1 .. Len(old)
    BY <1>1, <2>1
  <2> QED BY <1>1, <1>2, <2>2
<1> QED BY <1>2, <1>4, <1>5, <1>6, <1>7 DEF FeedInv, new, L, N

LEMMA LastOrNot ==
  ASSUME NEW n \in Nat, NEW i \in 1 .. n + 1
  PROVE  i \in 1 .. n \/ i = n + 1
OBVIOUS

LEMMA FeedGetsTuple ==
  ASSUME NEW w \in Op, Plan[w].kind = "range", NEW s, NEW t, NEW u, NEW f, NEW g, NEW e,
         FeedInv(w, s, t, f), s.window.lastIns \in Nat,
         IsSeq(Pending(f, Plan[w].in)), Pending(g, Plan[w].in) = Append(Pending(f, Plan[w].in), e),
         t.next \in 1 .. Len(Allocated(w)), Len(Allocated(w)) \in Nat, u.next = t.next + 1,
         e.kind = PLUS, e.tuple = TupleAt(w, t.next)
  PROVE  FeedInv(w, s, u, g)
<1> DEFINE old == Pending(f, Plan[w].in)
           new == Pending(g, Plan[w].in)
           L == s.window.lastIns
           N == t.next
<1>1. /\ Len(old) \in Nat /\ Len(new) = Len(old) + 1 /\ new[Len(old) + 1] = e
      /\ \A k \in 1 .. Len(old) : new[k] = old[k]
  BY AppendIsSeq, SeqFacts
<1>2. /\ L < N
      /\ \A k \in 1 .. Len(old) : old[k].kind # MINUS
      /\ \A k \in 1 .. Len(old) : IsData(old[k]) => \E n \in L + 1 .. N - 1 : Nth(w, old[k], n)
      /\ \A n \in L + 1 .. N - 1 : \E k \in 1 .. Len(old) : Nth(w, old[k], n)
      /\ \A k, l \in 1 .. Len(old) : \A m, n \in L + 1 .. N - 1 :
            Nth(w, old[k], m) /\ Nth(w, old[l], n) /\ k < l => m < n
  BY DEF FeedInv
<1>3. Nth(w, e, N) /\ e.kind # MINUS
  BY DEF Nth, IsData, PLUS, MINUS, HEARTBEAT
<1>4. \A x, m, n : m \in L + 1 .. N /\ n \in L + 1 .. N /\ Nth(w, x, m) /\ Nth(w, x, n) => m = n
  <2> SUFFICES ASSUME NEW x, NEW m \in L + 1 .. N, NEW n \in L + 1 .. N, Nth(w, x, m), Nth(w, x, n)
               PROVE  m = n
    OBVIOUS
  <2>1. m \in 1 .. Len(Allocated(w)) /\ n \in 1 .. Len(Allocated(w))
    OBVIOUS
  <2> QED BY <2>1, TuplesApart
<1>5. L \in Nat /\ N \in Nat
  OBVIOUS
<1> HIDE DEF old, new, L, N
<1>6. \A k \in 1 .. Len(new) : new[k].kind # MINUS
  BY <1>1, <1>2, <1>3
<1>7. \A k \in 1 .. Len(new) : IsData(new[k]) => \E n \in L + 1 .. N : Nth(w, new[k], n)
  <2> SUFFICES ASSUME NEW k \in 1 .. Len(new), IsData(new[k])
               PROVE  \E n \in L + 1 .. N : Nth(w, new[k], n)
    OBVIOUS
  <2>1. CASE k = Len(old) + 1
    <3>1. N \in L + 1 .. N
      BY <1>2, <1>5
    <3> QED BY <1>1, <1>3, <2>1, <3>1
  <2>2. CASE k # Len(old) + 1
    <3>1. k \in 1 .. Len(old)
      BY <1>1, <2>2
    <3>2. PICK n \in L + 1 .. N - 1 : Nth(w, old[k], n)
      BY <1>1, <1>2, <3>1
    <3>3. n \in L + 1 .. N
      BY <1>5
    <3> QED BY <1>1, <3>1, <3>2, <3>3
  <2> QED BY <2>1, <2>2
<1>8. \A n \in L + 1 .. N : \E k \in 1 .. Len(new) : Nth(w, new[k], n)
  <2> TAKE n \in L + 1 .. N
  <2>1. CASE n = N
    <3>1. Len(old) + 1 \in 1 .. Len(new)
      BY <1>1
    <3> QED BY <1>1, <1>3, <2>1, <3>1
  <2>2. CASE n # N
    <3>1. n \in L + 1 .. N - 1
      BY <1>5, <2>2
    <3>2. PICK k \in 1 .. Len(old) : Nth(w, old[k], n)
      BY <1>2, <3>1
    <3>3. k \in 1 .. Len(new)
      BY <1>1
    <3> QED BY <1>1, <3>2, <3>3
  <2> QED BY <2>1, <2>2
<1>9. \A k \in 1 .. Len(old) : \A n \in L + 1 .. N : Nth(w, old[k], n) => n \in L + 1 .. N - 1
  <2> SUFFICES ASSUME NEW k \in 1 .. Len(old), NEW n \in L + 1 .. N, Nth(w, old[k], n)
               PROVE  n \in L + 1 .. N - 1
    OBVIOUS
  <2>1. PICK m \in L + 1 .. N - 1 : Nth(w, old[k], m)
    BY <1>2 DEF Nth
  <2>2. m \in L + 1 .. N
    BY <1>5
  <2>3. m = n
    BY <1>4, <2>1, <2>2
  <2> QED BY <2>3
<1>10. \A k, l \in 1 .. Len(new) : \A m, n \in L + 1 .. N :
         Nth(w, new[k], m) /\ Nth(w, new[l], n) /\ k < l => m < n
  <2> SUFFICES ASSUME NEW k \in 1 .. Len(new), NEW l \in 1 .. Len(new),
                      NEW m \in L + 1 .. N, NEW n \in L + 1 .. N,
                      Nth(w, new[k], m), Nth(w, new[l], n), k < l
               PROVE  m < n
    OBVIOUS
  <2>1. k \in 1 .. Len(old)
    BY <1>1
  <2>2. m \in L + 1 .. N - 1
    BY <1>1, <1>9, <2>1
  <2>3. CASE l \in 1 .. Len(old)
    <3>1. n \in L + 1 .. N - 1
      BY <1>1, <1>9, <2>3
    <3> QED BY <1>1, <1>2, <2>1, <2>2, <2>3, <3>1
  <2>4. CASE l = Len(old) + 1
    <3>1. N \in L + 1 .. N
      BY <1>2, <1>5
    <3>2. n = N
      BY <1>1, <1>3, <1>4, <2>4, <3>1
    <3> QED BY <1>5, <2>2, <3>2
  <2>5. l \in 1 .. Len(old) \/ l = Len(old) + 1
    <3>1. l \in 1 .. Len(old) + 1 /\ Len(old) \in Nat
      BY <1>1, Zenon
    <3> QED BY <3>1, LastOrNot, Zenon
  <2> QED BY <2>3, <2>4, <2>5
<1>11. u.next - 1 = N /\ L < u.next
  BY <1>2, <1>5 DEF N
<1> QED BY <1>6, <1>7, <1>8, <1>10, <1>11 DEF FeedInv, new, L

(* The exact effect of an enqueue on a reader's pending elements.          *)
Appended(q, f, g, e) == \A r \in Reader(q) : g.queue[q][r] = Append(f.queue[q][r], e)

LEMMA EnqueuePending ==
  ASSUME NEW ops, NEW f, FlowOK(ops, f), NEW q \in Outs(ops), NEW e
  PROVE  Appended(q, f, enqueue(f, q, e), e)
<1> SUFFICES ASSUME NEW r \in Reader(q)
             PROVE  enqueue(f, q, e).queue[q][r] = Append(f.queue[q][r], e)
  BY DEF Appended
<1> DEFINE g == enqueue(f, q, e)
<1>1. /\ DOMAIN f = {"queue", "refs", "history", "promise"}
      /\ DOMAIN f.queue = Outs(ops) /\ DOMAIN f.queue[q] = Reader(q)
  BY DEF FlowOK
<1>2. g.queue = [f.queue EXCEPT ![q] = [p \in DOMAIN f.queue[q] |-> Append(f.queue[q][p], e)]]
  BY <1>1 DEF enqueue
<1> HIDE DEF g
<1>3. g.queue[q] = [p \in Reader(q) |-> Append(f.queue[q][p], e)]
  BY <1>1, <1>2
<1> QED BY <1>3 DEF g

(* A window that shares the store, before and after a step of the source.  *)
LEMMA FedBySource ==
  ASSUME IInv, NEW o \in query, Plan[o].kind = "source", \A p \in query \ {o} : op'[p] = op[p],
         NEW w \in query, Plan[w].kind = "range", Plan[w].store = o
  PROVE  /\ w \in Op /\ op'[w] = op[w] /\ w # o
         /\ Plan[o].out = Plan[w].in[1] /\ Plan[w].in[2] \in Reader(Plan[o].out)
         /\ FeedInv(w, op[w], op[o], flow)
         /\ op[w].window.lastIns \in Nat
         /\ IsSeq(Pending(flow, Plan[w].in))
         /\ Allocated(w) = Plan[o].tuples
<1>1. query \in Queries /\ FlowOK(query, flow) /\ w \in Op
  BY Base
<1>2. Plan[o].out = Plan[w].in[1] /\ w # o /\ "in" \in Ports(w)
  BY <1>1, StoreIsSource
<1>3. Plan[w].in[1] \in Outs(query) /\ Plan[w].in[2] \in Reader(Plan[w].in[1])
  BY <1>1, <1>2, PortOK
<1>4. FeedInv(w, op[w], op[o], flow)
  BY DEF IInv, Feeds
<1>5. op[w].window.lastIns \in Nat
  BY Base, OpInvIs DEF RangeInv, WindowInv
<1>6. IsSeq(Pending(flow, Plan[w].in))
  BY <1>1, <1>3, FlowFields DEF Pending
<1> QED BY <1>1, <1>2, <1>3, <1>4, <1>5, <1>6 DEF Allocated

LEMMA SourceKept ==
  ASSUME IInv, NEW o \in query, Plan[o].kind = "source",
         DOMAIN op' = query, \A p \in query \ {o} : op'[p] = op[p],
         DOMAIN op'[o] = DOMAIN op[o], op'[o].lastInputTs \in Nat,
         op[o].lastInputTs <= op'[o].lastInputTs,
         op'[o].next = op[o].next,
         flow' = flow \/ (/\ ~isFull(flow, Plan[o].out)
                          /\ flow' = enqueue(flow, Plan[o].out, Heartbeat(op'[o].lastInputTs))),
         running' \in {o, Idle, Failed}, slice' \in 0 .. TimeSlice
  PROVE  StepOf(o)
<1>1. query \in Queries /\ o \in Op /\ FlowOK(query, flow) /\ HasOutput(o)
  BY Base, KindFacts DEF Terminal
<1>2. OriginInv(o, op[o], flow)
  BY Base, OpInvIs DEF Originating
<1> DEFINE ts == op'[o].lastInputTs
           e == Heartbeat(ts)
<1>3. e.kind = HEARTBEAT /\ e.timestamp = ts /\ e.kind \in KindOf
  BY DEF Heartbeat, Element, KindOf
<1>4. Promise(o, flow) <= ts /\ Promise(o, flow) \in Nat
  <2>1. Promise(o, flow) \in Nat
    BY <1>1, OutOK, FlowFields DEF Promise
  <2> QED BY <1>2, <2>1 DEF OriginInv
<1> HIDE DEF e
<1>5. Sends(query, o, flow, flow', ts)
  <2>1. CASE flow' = flow
    BY <1>1, <1>4, <2>1, SameOfCounts, SendsNothing
  <2>2. CASE ~isFull(flow, Plan[o].out) /\ flow' = enqueue(flow, Plan[o].out, e)
    BY <1>1, <1>3, <1>4, <2>2, SendsOne
  <2> QED BY <2>1, <2>2 DEF e
<1>6. Moved(query, o, flow, flow')
  BY <1>1, <1>5, ReadNothing, MovedBy DEF Sends
<1>7. OpInv(o, op'[o], flow') /\ RunInv(o, op'[o], flow', slice')
  <2>1. OriginInv(o, op'[o], flow')
    BY <1>2, <1>5 DEF OriginInv, Sends
  <2> QED BY <2>1, OpInvIs, RunInvIs DEF Originating
<1>8. FeedsAfter(o)
  <2> SUFFICES ASSUME NEW w \in query, Plan[w].kind = "range", o \in {w, Plan[w].store}
               PROVE  FeedInv(w, op'[w], op'[Plan[w].store], flow')
    BY DEF FeedsAfter
  <2>1. Plan[w].store = o
    OBVIOUS
  <2>2. /\ op'[w] = op[w] /\ Plan[o].out = Plan[w].in[1] /\ Plan[w].in[2] \in Reader(Plan[o].out)
        /\ FeedInv(w, op[w], op[o], flow) /\ op[w].window.lastIns \in Nat
        /\ IsSeq(Pending(flow, Plan[w].in))
    BY <2>1, FedBySource
  <2>3. FeedInv(w, op[w], op'[o], flow')
    <3>1. CASE flow' = flow
      BY <2>2, <3>1 DEF FeedInv
    <3>2. CASE flow' = enqueue(flow, Plan[o].out, e)
      <4> DEFINE q == Plan[o].out
                 r == Plan[w].in[2]
      <4>0. q \in Outs(query) /\ r \in Reader(q) /\ q = Plan[w].in[1]
        BY <1>1, <2>2, OutOK
      <4> HIDE DEF q, r
      <4>1. Pending(flow', Plan[w].in) = Append(Pending(flow, Plan[w].in), e)
        <5>0. Appended(q, flow, enqueue(flow, q, e), e)
          BY <1>1, <4>0, EnqueuePending
        <5>1. enqueue(flow, q, e).queue[q][r] = Append(flow.queue[q][r], e)
          BY <4>0, <5>0 DEF Appended
        <5>2. flow' = enqueue(flow, q, e)
          BY <3>2 DEF q
        <5> QED BY <4>0, <5>1, <5>2 DEF Pending, r
      <4>2. op[o].next \in Nat
        BY <1>1, <1>2, WindowsAssumption DEF OriginInv
      <4> QED BY <1>3, <2>2, <4>1, <4>2, FeedSurvivesHeartbeat
    <3> QED BY <3>1, <3>2 DEF e
  <2> QED BY <2>1, <2>2, <2>3
<1> QED BY <1>6, <1>7, <1>8 DEF StepOf

LEMMA SourceSends ==
  ASSUME IInv, NEW o \in query, Plan[o].kind = "source", NEW ts \in Nat,
         op[o].lastInputTs <= ts, ~isFull(flow, Plan[o].out), StreamSourceTuple(o, ts),
         running' \in {o, Idle, Failed}, slice' \in 0 .. TimeSlice
  PROVE  StepOf(o)
<1>1. /\ query \in Queries /\ o \in Op /\ FlowOK(query, flow) /\ HasOutput(o) /\ DOMAIN op = query
      /\ OriginInv(o, op[o], flow)
      /\ DOMAIN op[o] = {"lastInputTs", "lastOutputTs", "next"}
  BY Base, KindFacts, OpInvIs DEF Terminal, Originating, OriginInv, InitialState, StreamSourceInit
<1> DEFINE t == <<Plan[o].tuples[op[o].next]>>
           g == newTuple(flow, t)
           e == Element(PLUS, t, ts)
<1>2. /\ op[o].next <= Len(Plan[o].tuples) /\ flow' = enqueue(g, Plan[o].out, e)
      /\ op' = [op EXCEPT ![o].lastInputTs = ts, ![o].lastOutputTs = ts, ![o].next = @ + 1]
  BY DEF StreamSourceTuple
<1>3. e.kind = PLUS /\ e.kind \in KindOf /\ e.timestamp = ts /\ e.tuple = t
  BY DEF Element, KindOf
<1>4. SameQueues(flow, g) /\ FlowOK(query, g)
  BY <1>1, SameOfCounts, SameIsOK
<1> HIDE DEF e, g
<1>5. Promise(o, flow) <= ts /\ Promise(o, flow) \in Nat
  <2>1. Promise(o, flow) \in Nat
    BY <1>1, OutOK, FlowFields DEF Promise
  <2> QED BY <1>1, <2>1 DEF OriginInv
<1>6. Sends(query, o, flow, flow', ts)
  <2>1. ~isFull(g, Plan[o].out) /\ Promise(o, g) <= ts
    BY <1>4, <1>5, SameOutput
  <2>2. Sends(query, o, g, flow', ts)
    BY <1>1, <1>2, <1>3, <1>4, <2>1, SendsOne
  <2> QED BY <1>1, <1>4, <2>2, SameSends
<1>7. Moved(query, o, flow, flow')
  BY <1>1, <1>6, ReadNothing, MovedBy DEF Sends
<1>8. /\ DOMAIN op' = query /\ \A p \in query \ {o} : op'[p] = op[p]
      /\ DOMAIN op'[o] = DOMAIN op[o] /\ op'[o].lastInputTs = ts /\ op'[o].next = op[o].next + 1
  BY <1>1, <1>2
<1>9. Len(Plan[o].tuples) \in Nat /\ op[o].next \in 1 .. Len(Plan[o].tuples)
  <2>1. Len(Plan[o].tuples) \in Nat
    BY <1>1, WindowsAssumption
  <2> QED BY <1>1, <1>2, <2>1 DEF OriginInv
<1>10. OpInv(o, op'[o], flow') /\ RunInv(o, op'[o], flow', slice')
  <2>1. op'[o].next \in 1 .. Len(Plan[o].tuples) + 1
    BY <1>8, <1>9
  <2>2. DOMAIN op'[o] = DOMAIN InitialState(Plan[o].kind)
    BY <1>1, <1>8 DEF OriginInv
  <2>3. OriginInv(o, op'[o], flow')
    BY <1>6, <1>8, <2>1, <2>2 DEF OriginInv, Sends
  <2> QED BY <2>3, OpInvIs, RunInvIs DEF Originating
<1>11. FeedsAfter(o)
  <2> SUFFICES ASSUME NEW w \in query, Plan[w].kind = "range", o \in {w, Plan[w].store}
               PROVE  FeedInv(w, op'[w], op'[Plan[w].store], flow')
    BY DEF FeedsAfter
  <2>1. Plan[w].store = o
    OBVIOUS
  <2>2. /\ w \in Op
        /\ op'[w] = op[w] /\ Plan[o].out = Plan[w].in[1] /\ Plan[w].in[2] \in Reader(Plan[o].out)
        /\ FeedInv(w, op[w], op[o], flow) /\ op[w].window.lastIns \in Nat
        /\ IsSeq(Pending(flow, Plan[w].in)) /\ Allocated(w) = Plan[o].tuples
    BY <1>8, <2>1, FedBySource
  <2>3. Pending(flow', Plan[w].in) = Append(Pending(flow, Plan[w].in), e)
    <3> DEFINE q == Plan[o].out
               r == Plan[w].in[2]
    <3>1. q \in Outs(query) /\ r \in Reader(q) /\ q = Plan[w].in[1]
      BY <1>1, <2>2, OutOK
    <3> HIDE DEF q, r
    <3>0. Appended(q, g, enqueue(g, q, e), e)
      BY <1>4, <3>1, EnqueuePending
    <3>2. enqueue(g, q, e).queue[q][r] = Append(g.queue[q][r], e)
      BY <3>0, <3>1 DEF Appended
    <3>3. flow' = enqueue(g, q, e)
      BY <1>2 DEF q
    <3> QED BY <1>4, <3>1, <3>2, <3>3 DEF SameQueues, Pending, r
  <2>4. e.tuple = TupleAt(w, op[o].next)
    BY <1>3, <2>2 DEF TupleAt
  <2>5. FeedInv(w, op[w], op'[o], flow')
    BY <1>3, <1>8, <1>9, <2>2, <2>3, <2>4, FeedGetsTuple
  <2> QED BY <2>1, <2>2, <2>5
<1> QED BY <1>7, <1>8, <1>10, <1>11 DEF StepOf

LEMMA SourceStep ==
  ASSUME IInv, NEW o \in query, Plan[o].kind = "source",
         StreamSourceBegin(o) \/ StreamSourceIterate(o) \/ StreamSourceEnd(o)
  PROVE  StepOf(o)
<1>1. /\ o \in Op /\ DOMAIN op = query /\ op[o].lastInputTs \in Nat
      /\ DOMAIN op[o] = {"lastInputTs", "lastOutputTs", "next"}
  BY Base, OpInvIs DEF Originating, OriginInv, InitialState, StreamSourceInit
<1>2. CASE StreamSourceBegin(o)
  BY <1>2, NothingDone, Control, RunInvIs DEF StreamSourceBegin, Originating
<1>3. CASE StreamSourceEnd(o)
  <2>1. CASE HeartbeatDue(o, op[o].lastInputTs)
    <3>1. /\ Return /\ flow' = enqueue(flow, Plan[o].out, Heartbeat(op[o].lastInputTs))
          /\ op' = [op EXCEPT ![o].lastOutputTs = op[o].lastInputTs]
          /\ ~isFull(flow, Plan[o].out)
      BY <1>3, <2>1 DEF StreamSourceEnd, HeartbeatDue
    <3>2. /\ DOMAIN op' = query /\ \A p \in query \ {o} : op'[p] = op[p]
          /\ DOMAIN op'[o] = DOMAIN op[o] /\ op'[o].lastInputTs = op[o].lastInputTs
          /\ op'[o].next = op[o].next
      BY <1>1, <3>1
    <3> QED BY <1>1, <3>1, <3>2, Control, SourceKept
  <2>2. CASE ~HeartbeatDue(o, op[o].lastInputTs)
    BY <1>3, <2>2, Control, NothingDone DEF StreamSourceEnd
  <2> QED BY <2>1, <2>2
<1>4. CASE StreamSourceIterate(o)
  <2>1. PICK ts \in Plan[o].timestamps :
          \/ ~Misordered(o, ts) /\ StreamSourceTuple(o, ts) /\ Loop
          \/ ~Misordered(o, ts) /\ StreamSourceHeartbeat(o, ts) /\ Loop
          \/ ReturnError /\ UNCHANGED <<flow, op>>
    BY <1>4 DEF StreamSourceIterate
  <2>2. MayIterate(o) /\ ~isFull(flow, Plan[o].out)
    BY <1>4 DEF StreamSourceIterate
  <2>3. ts \in Nat
    BY <1>1, WindowsAssumption DEF Originating
  <2>4. CASE ~Misordered(o, ts) /\ StreamSourceTuple(o, ts) /\ Loop
    BY <1>1, <2>2, <2>3, <2>4, Control, SourceSends DEF Misordered
  <2>5. CASE ~Misordered(o, ts) /\ StreamSourceHeartbeat(o, ts) /\ Loop
    <3>1. flow' = flow /\ op' = [op EXCEPT ![o].lastInputTs = ts]
      BY <2>5 DEF StreamSourceHeartbeat
    <3>2. /\ DOMAIN op' = query /\ \A p \in query \ {o} : op'[p] = op[p]
          /\ DOMAIN op'[o] = DOMAIN op[o] /\ op'[o].lastInputTs = ts
          /\ op'[o].next = op[o].next
      BY <1>1, <3>1
    <3>3. op[o].lastInputTs <= ts
      BY <1>1, <2>3, <2>5 DEF Misordered
    <3> QED BY <2>2, <2>3, <2>5, <3>1, <3>2, <3>3, Control, SourceKept
  <2>6. CASE ReturnError /\ UNCHANGED <<flow, op>>
    BY <2>6, Control, NothingDone
  <2> QED BY <2>1, <2>4, <2>5, <2>6
<1> QED BY <1>2, <1>3, <1>4

(***************************************************************************)
(* The time window.                                                        *)
(***************************************************************************)
LEMMA PutKeepsIn ==
  ASSUME NEW ops \in Queries, NEW o \in ops, HasOutput(o), Ports(o) = {"in"},
         NEW f, NEW g, Put(ops, Plan[o].out, f, g)
  PROVE  /\ Pending(g, Plan[o].in) = Pending(f, Plan[o].in)
         /\ \A ts : NotBefore(g, Plan[o].in, ts) <=> NotBefore(f, Plan[o].in, ts)
<1>1. "in" \in Ports(o)
  OBVIOUS
<1>2. Pending(g, Plan[o]["in"]) = Pending(f, Plan[o]["in"])
  BY <1>1, PutKeepsInput
<1>3. \A ts : NotBefore(g, Plan[o]["in"], ts) <=> NotBefore(f, Plan[o]["in"], ts)
  BY <1>1, PutKeepsInput
<1> QED BY <1>2, <1>3

LEMMA RangeDone ==
  ASSUME IInv, NEW o \in query, Plan[o].kind = "range", Moved(query, o, flow, flow'),
         DOMAIN op' = query, \A p \in query \ {o} : op'[p] = op[p],
         RangeInv(o, op'[o], flow'), FeedInv(o, op'[o], op[Plan[o].store], flow'),
         running' \in {o, Idle, Failed}, running' = o => ~op'[o].bStalled,
         slice' \in 0 .. TimeSlice
  PROVE  StepOf(o)
<1>1. query \in Queries
  BY Base
<1>2. FeedsAfter(o)
  <2> SUFFICES ASSUME NEW w \in query, Plan[w].kind = "range", o \in {w, Plan[w].store}
               PROVE  FeedInv(w, op'[w], op'[Plan[w].store], flow')
    BY DEF FeedsAfter
  <2>1. w = o
    BY <1>1, StoreIsSource
  <2>2. Plan[o].store \in query \ {o}
    BY <1>1, StoreIsSource
  <2> QED BY <2>1, <2>2
<1>3. OpInv(o, op'[o], flow') /\ (running' = o => RunInv(o, op'[o], flow', slice'))
  BY OpInvIs, RunInvIs
<1> QED BY <1>2, <1>3 DEF StepOf

(* Tuples that are oldest first expire from the front.                     *)
LEMMA ExpiredFacts ==
  ASSUME NEW o, NEW s, NEW p, WindowInv(o, s, p)
  PROVE  LET due  == NumExpired(o, s)
             size == s.window.lastIns - s.window.lastDel
         IN  /\ due \in 0 .. size
             /\ \A i \in 1 .. due : Expired(o, s, TupleAt(o, s.window.lastDel + i))
             /\ due < size => ~Expired(o, s, TupleAt(o, s.window.lastDel + due + 1))
<1> DEFINE L == s.window.lastIns
           D == s.window.lastDel
           size == L - D
           ts == WindowTuples(o, s.window)
           upTo(n) == \A i \in 1 .. n : Expired(o, s, ts[i])
           S == {n \in 0 .. Len(ts) : upTo(n)}
           due == Max(S)
<1>1. L \in Nat /\ D \in 0 .. L /\ size \in Nat
  BY DEF WindowInv
<1>2. Len(ts) = size /\ \A i \in 1 .. size : ts[i] = TupleAt(o, D + i)
  <2>1. ts = [i \in 1 .. size |-> TupleAt(o, D + i)]
    BY DEF WindowTuples
  <2> HIDE DEF ts
  <2>2. \A i \in 1 .. size : ts[i] = TupleAt(o, D + i)
    BY <2>1
  <2>3. ts = [i \in 1 .. size |-> ts[i]]
    BY <2>1, <2>2
  <2>4. Len(ts) = size
    BY <1>1, <2>3, FunctionIsSeq
  <2> QED BY <2>2, <2>4
<1>3. due = NumExpired(o, s)
  BY DEF NumExpired
<1> HIDE DEF ts, size, due, L, D
<1>4. S \subseteq Nat /\ 0 \in S /\ \A x \in S : x <= size
  BY <1>1, <1>2
<1>5. due \in S /\ \A x \in S : x <= due
  <2> HIDE DEF S
  <2> QED BY <1>1, <1>4, MaxOfNats DEF due
<1>6. due \in 0 .. size /\ \A i \in 1 .. due : Expired(o, s, TupleAt(o, D + i))
  BY <1>1, <1>2, <1>5
<1>7. ASSUME due < size, Expired(o, s, TupleAt(o, D + due + 1))  PROVE FALSE
  <2>1. due + 1 \in 0 .. size /\ due + 1 \in 1 .. size /\ D + (due + 1) = D + due + 1
    BY <1>1, <1>6, <1>7
  <2>2. \A i \in 1 .. due + 1 : Expired(o, s, ts[i])
    <3> TAKE i \in 1 .. due + 1
    <3>1. i \in 1 .. size
      BY <1>1, <2>1
    <3>2. i \in 1 .. due \/ i = due + 1
      BY <1>1, <1>6, LastOrNot
    <3> QED BY <1>2, <1>6, <1>7, <2>1, <3>1, <3>2
  <2>3. due + 1 \in S
    BY <1>2, <2>1, <2>2
  <2> QED BY <1>1, <1>5, <1>6, <2>3
<1> QED BY <1>3, <1>6, <1>7 DEF size, L, D

(* What the calls of a time window do.                                     *)
Windowed(o, f, s, x) ==
    /\ Sends(query, o, f, x.flow, s.lastInputTs)
    /\ FlowOK(query, x.flow)
    /\ WindowInv(o, x.op, Promise(o, x.flow))
    /\ x.op.lastInputTs = s.lastInputTs
    /\ x.op.bStalled \in BOOLEAN
    /\ ~x.op.bStalled => Unexpired(o, x.op)
    /\ x.op.window.lastIns = s.window.lastIns
    /\ x.op.stalledElement = s.stalledElement
    /\ DOMAIN x = {"flow", "op"}

LEMMA ExpireWindowed ==
  ASSUME IInv, NEW o \in query, Plan[o].kind = "range", NEW f, NEW s, FlowOK(query, f),
         WindowInv(o, s, Promise(o, f)), s.lastInputTs \in Nat, Promise(o, f) <= s.lastInputTs
  PROVE  Windowed(o, f, s, ExpireTuples(o, s, f))
<1>1. /\ query \in Queries /\ o \in Op /\ HasOutput(o) /\ Plan[o].out \in Outs(query)
      /\ Reader(Plan[o].out) # {} /\ Plan[o].windowSize \in Nat
      /\ Promise(o, f) \in Nat /\ f.promise[Plan[o].out] = Promise(o, f)
  BY Base, Single, OutOK, WindowsAssumption, FlowFields DEF Promise
<1> DEFINE L == s.window.lastIns
           D == s.window.lastDel
           at(n) == Stamp_w(o, s, n)
           W == Plan[o].windowSize
           due == NumExpired(o, s)
           space == Space(f, Plan[o].out)
           K == Sendable(due, space)
           gone == [i \in 1 .. K |-> MinusOf(o, s, WindowTuples(o, s.window)[i])]
           g == enqueueAll(f, Plan[o].out, gone)
           x == ExpireTuples(o, s, f)
<1>2. L \in Nat /\ D \in 0 .. L
  BY DEF WindowInv
<1>3. due \in 0 .. L - D /\ space \in Nat /\ K \in 0 .. due /\ K <= space /\ (K < due => K = space)
  <2>1. due \in 0 .. L - D
    BY ExpiredFacts
  <2>2. space \in Nat
    BY <1>1, SpaceFacts, SizesAssumption
  <2> HIDE DEF due, space
  <2> QED BY <2>1, <2>2 DEF Sendable
<1>4. \A n \in 1 .. L : at(n) \in Nat /\ at(n) <= s.lastInputTs
  BY DEF WindowInv
<1>5. \A m, n \in 1 .. L : m <= n => at(m) <= at(n)
  BY DEF WindowInv
<1>6. \A n \in D + 1 .. L : Promise(o, f) <= at(n) + W
  BY DEF WindowInv
<1>7. \A i \in 1 .. due : at(D + i) + W <= s.lastInputTs
  BY ExpiredFacts DEF Expired, Stamp_w
<1>8. due < L - D => s.lastInputTs < at(D + due + 1) + W
  <2> SUFFICES ASSUME due < L - D PROVE s.lastInputTs < at(D + due + 1) + W
    OBVIOUS
  <2>1. ~(at(D + due + 1) + W <= s.lastInputTs)
    BY ExpiredFacts DEF Expired, Stamp_w
  <2>2. D + due + 1 \in 1 .. L
    BY <1>2, <1>3
  <2>3. at(D + due + 1) \in Nat
    BY <1>4, <2>2
  <2> QED BY <1>1, <2>1, <2>3
<1>9. /\ IsSeq(gone) /\ Len(gone) = K
      /\ \A i \in 1 .. K : gone[i].kind = MINUS /\ gone[i].timestamp = at(D + i) + W
  <2>1. \A i \in 1 .. K : gone[i] = Element(MINUS, TupleAt(o, D + i), at(D + i) + W)
    <3> TAKE i \in 1 .. K
    <3>1. i \in 1 .. L - D
      BY <1>2, <1>3
    <3>2. WindowTuples(o, s.window)[i] = TupleAt(o, D + i)
      BY <3>1 DEF WindowTuples
    <3>3. gone[i] = MinusOf(o, s, WindowTuples(o, s.window)[i])
      OBVIOUS
    <3> QED BY <3>2, <3>3 DEF MinusOf, Stamp_w
  <2>2. gone = [i \in 1 .. K |-> gone[i]]
    OBVIOUS
  <2> HIDE DEF gone, K
  <2>3. IsSeq(gone) /\ Len(gone) = K
    BY <1>3, <2>2, FunctionIsSeq
  <2> QED BY <2>1, <2>3 DEF Element
<1>10. /\ DOMAIN x = {"flow", "op"} /\ x.flow = g
       /\ x.op = [s EXCEPT !.window.lastDel = @ + Len(gone),
                           !.lastOutputTs = IF gone = <<>> THEN @ ELSE Last(gone).timestamp,
                           !.bStalled = Len(gone) < due]
  BY DEF ExpireTuples, ExpireUpTo, SendExpired
<1> HIDE DEF gone, K, due, space, g, x, at, L, D, W
<1>11. Later(gone, Promise(o, f))
  <2>1. \A i \in 1 .. K : D + i \in D + 1 .. L /\ D + i \in 1 .. L
    BY <1>2, <1>3
  <2>2. \A i \in 1 .. Len(gone) : gone[i].kind \in KindOf /\ gone[i].timestamp \in Nat
    BY <1>1, <1>4, <1>9, <2>1 DEF KindOf, W
  <2>3. \A i \in 1 .. Len(gone) : Promise(o, f) <= gone[i].timestamp
    BY <1>6, <1>9, <2>1
  <2>4. \A i, j \in 1 .. Len(gone) : i <= j => gone[i].timestamp <= gone[j].timestamp
    <3> SUFFICES ASSUME NEW i \in 1 .. K, NEW j \in 1 .. K, i <= j
                 PROVE  at(D + i) + W <= at(D + j) + W
      BY <1>9
    <3>1. at(D + i) <= at(D + j) /\ at(D + i) \in Nat /\ at(D + j) \in Nat
      BY <1>2, <1>3, <1>4, <1>5, <2>1
    <3> QED BY <1>1, <3>1 DEF W
  <2> QED BY <1>9, <2>2, <2>3, <2>4 DEF Later
<1>12. /\ Put(query, Plan[o].out, f, g)
       /\ K = 0 => Promise(o, g) = Promise(o, f)
       /\ K > 0 => Promise(o, g) = at(D + K) + W
  <2>1. /\ Put(query, Plan[o].out, f, g)
        /\ gone = <<>> => g.promise[Plan[o].out] = f.promise[Plan[o].out]
        /\ gone # <<>> => g.promise[Plan[o].out] = gone[Len(gone)].timestamp
    BY <1>1, <1>3, <1>9, <1>11, EnqueueAllPuts DEF g, space
  <2>2. gone = <<>> <=> K = 0
    BY <1>3, <1>9, EmptyIsSeq DEF IsSeq
  <2>3. K > 0 => K \in 1 .. K
    BY <1>3
  <2> QED BY <1>3, <1>9, <2>1, <2>2, <2>3 DEF Promise
<1>13. Promise(o, g) <= s.lastInputTs
  <2>1. CASE K = 0
    BY <1>12, <2>1
  <2>2. CASE K > 0
    <3>1. K \in 1 .. due
      BY <1>3, <2>2
    <3> QED BY <1>7, <1>12, <2>2, <3>1
  <2> QED BY <1>3, <2>1, <2>2
<1>14. Sends(query, o, f, x.flow, s.lastInputTs) /\ FlowOK(query, x.flow)
  BY <1>10, <1>12, <1>13 DEF Sends, Put
<1>15. /\ DOMAIN s = DOMAIN RangeWindowInit
       /\ DOMAIN s.window = {"lastIns", "lastDel", "stamp"}
  BY DEF WindowInv
<1>16. /\ DOMAIN x.op = DOMAIN s /\ DOMAIN x.op.window = DOMAIN s.window
       /\ x.op.window.lastDel = D + K /\ x.op.window.lastIns = L
       /\ x.op.window.stamp = s.window.stamp
       /\ x.op.lastInputTs = s.lastInputTs /\ x.op.stalledElement = s.stalledElement
       /\ x.op.bStalled \in BOOLEAN
       /\ x.op.bStalled <=> K < due
  <2>1. DOMAIN s = {"lastInputTs", "lastOutputTs", "window", "bStalled", "stalledElement"}
    BY <1>15 DEF RangeWindowInit
  <2>2. DOMAIN x.op = DOMAIN s
    BY <1>10
  <2>3. x.op.window = [s.window EXCEPT !.lastDel = D + K]
    BY <1>9, <1>10, <2>1 DEF D
  <2>4. DOMAIN x.op.window = DOMAIN s.window /\ x.op.window.lastDel = D + K
        /\ x.op.window.lastIns = L /\ x.op.window.stamp = s.window.stamp
    BY <1>15, <2>3 DEF L
  <2>5. x.op.lastInputTs = s.lastInputTs /\ x.op.stalledElement = s.stalledElement
    BY <1>10, <2>1
  <2>6. x.op.bStalled = (K < due)
    BY <1>9, <1>10, <2>1
  <2>7. CASE K < due
    <3>1. x.op.bStalled = TRUE
      BY <2>6, <2>7, Zenon
    <3> QED BY <2>2, <2>4, <2>5, <2>7, <3>1
  <2>8. CASE ~(K < due)
    <3>0. (K < due) = FALSE
      BY <2>8
    <3>1. x.op.bStalled = FALSE
      BY <2>6, <3>0, Zenon
    <3> QED BY <2>2, <2>4, <2>5, <2>8, <3>1
  <2> QED BY <2>7, <2>8
<1>17. \A n : Stamp_w(o, x.op, n) = at(n)
  BY <1>16 DEF Stamp_w, at
<1>18. \A n \in D + K + 1 .. L : Promise(o, g) <= at(n) + W
  <2> TAKE n \in D + K + 1 .. L
  <2>0. n \in D + 1 .. L /\ n \in 1 .. L
    BY <1>2, <1>3
  <2>1. CASE K = 0
    BY <1>6, <1>12, <2>0, <2>1
  <2>2. CASE K > 0
    <3>1. D + K \in 1 .. L /\ D + K <= n
      BY <1>2, <1>3, <2>2
    <3>2. at(D + K) <= at(n) /\ at(D + K) \in Nat /\ at(n) \in Nat
      BY <1>4, <1>5, <2>0, <3>1
    <3> QED BY <1>1, <1>12, <2>2, <3>2 DEF W
  <2> QED BY <1>3, <2>1, <2>2
<1>19. WindowInv(o, x.op, Promise(o, x.flow))
  <2>1. x.op.window.lastIns \in Nat /\ x.op.window.lastDel \in 0 .. x.op.window.lastIns
    BY <1>2, <1>3, <1>16
  <2>2. \A n \in 1 .. x.op.window.lastIns :
          /\ TupleAt(o, n) \in DOMAIN x.op.window.stamp
          /\ Stamp_w(o, x.op, n) \in Nat /\ Stamp_w(o, x.op, n) <= x.op.lastInputTs
    BY <1>4, <1>16, <1>17 DEF WindowInv, L
  <2>3. \A m, n \in 1 .. x.op.window.lastIns : m <= n => Stamp_w(o, x.op, m) <= Stamp_w(o, x.op, n)
    BY <1>5, <1>16, <1>17
  <2>4. \A n \in x.op.window.lastDel + 1 .. x.op.window.lastIns :
          Promise(o, x.flow) <= Stamp_w(o, x.op, n) + Plan[o].windowSize
    BY <1>10, <1>16, <1>17, <1>18 DEF W
  <2>5. x.op.window.lastIns <= Len(Allocated(o))
    BY <1>16 DEF WindowInv, L
  <2> QED BY <1>15, <1>16, <2>1, <2>2, <2>3, <2>4, <2>5 DEF WindowInv
<1>20. ~x.op.bStalled => Unexpired(o, x.op)
  <2> SUFFICES ASSUME ~x.op.bStalled, NEW n \in D + K + 1 .. L
               PROVE  s.lastInputTs < at(n) + W
    BY <1>16, <1>17 DEF Unexpired, W
  <2>1. K = due
    BY <1>3, <1>16
  <2>2. due < L - D /\ D + due + 1 \in 1 .. L /\ n \in 1 .. L /\ D + due + 1 <= n
    BY <1>2, <1>3, <2>1
  <2>3. at(D + due + 1) <= at(n) /\ at(D + due + 1) \in Nat /\ at(n) \in Nat
    BY <1>4, <1>5, <2>2
  <2> QED BY <1>1, <1>8, <2>2, <2>3 DEF W
<1> QED BY <1>10, <1>14, <1>16, <1>19, <1>20 DEF Windowed, x, L

LEMMA SendUnlessWindowed ==
  ASSUME IInv, NEW o \in query, Plan[o].kind = "range", NEW f, NEW s, NEW x, NEW e,
         FlowOK(query, f), Windowed(o, f, s, x), s.lastInputTs \in Nat,
         e.kind \in KindOf, e.timestamp = s.lastInputTs
  PROVE  Windowed(o, f, s, SendUnlessStalled(o, x, e))
<1> DEFINE y == SendUnlessStalled(o, x, e)
           g == enqueue(x.flow, Plan[o].out, e)
<1>1. /\ query \in Queries /\ o \in Op /\ HasOutput(o) /\ Plan[o].windowSize \in Nat
      /\ Plan[o].out \in Outs(query)
  BY Base, Single, OutOK, WindowsAssumption
<1>2. CASE x.op.bStalled \/ ~IsData(e)
  BY <1>2 DEF SendUnlessStalled
<1>3. CASE ~(x.op.bStalled \/ ~IsData(e)) /\ isFull(x.flow, Plan[o].out)
  <2>1. y = [x EXCEPT !.op.bStalled = TRUE]
    BY <1>3 DEF SendUnlessStalled, SendPlus
  <2>2. DOMAIN x = {"flow", "op"} /\ WindowInv(o, x.op, Promise(o, x.flow))
    BY DEF Windowed
  <2>3. DOMAIN x.op = {"lastInputTs", "lastOutputTs", "window", "bStalled", "stalledElement"}
    BY <2>2 DEF WindowInv, RangeWindowInit
  <2>4. /\ DOMAIN y = DOMAIN x /\ y.flow = x.flow /\ DOMAIN y.op = DOMAIN x.op
        /\ y.op.bStalled = TRUE /\ y.op.window = x.op.window
        /\ y.op.lastInputTs = x.op.lastInputTs /\ y.op.stalledElement = x.op.stalledElement
    BY <2>1, <2>2, <2>3
  <2> HIDE DEF y
  <2>5. WindowInv(o, y.op, Promise(o, y.flow))
    BY <2>2, <2>4 DEF WindowInv, Stamp_w
  <2>6. Windowed(o, f, s, y)
    BY <2>4, <2>5 DEF Windowed
  <2> QED BY <2>6 DEF y
<1>4. CASE ~(x.op.bStalled \/ ~IsData(e)) /\ ~isFull(x.flow, Plan[o].out)
  <2>1. y = [flow |-> g, op |-> [x.op EXCEPT !.lastOutputTs = e.timestamp]]
    BY <1>4 DEF SendUnlessStalled, SendPlus
  <2>2. WindowInv(o, x.op, Promise(o, x.flow)) /\ FlowOK(query, x.flow) /\ Unexpired(o, x.op)
        /\ x.op.lastInputTs = s.lastInputTs /\ Sends(query, o, f, x.flow, s.lastInputTs)
    BY <1>4 DEF Windowed
  <2>3. DOMAIN x.op = {"lastInputTs", "lastOutputTs", "window", "bStalled", "stalledElement"}
    BY <2>2 DEF WindowInv, RangeWindowInit
  <2>4. /\ DOMAIN y = {"flow", "op"} /\ y.flow = g /\ DOMAIN y.op = DOMAIN x.op
        /\ y.op.bStalled = x.op.bStalled /\ y.op.window = x.op.window
        /\ y.op.lastInputTs = x.op.lastInputTs /\ y.op.stalledElement = x.op.stalledElement
    BY <2>1, <2>3
  <2>5. /\ Promise(o, x.flow) <= e.timestamp
        /\ Sends(query, o, x.flow, g, s.lastInputTs) /\ FlowOK(query, g)
    <3>1. Promise(o, x.flow) <= e.timestamp
      BY <2>2 DEF Sends
    <3> QED BY <1>1, <1>4, <2>2, <3>1, SendsOne
  <2>6. Sends(query, o, f, g, s.lastInputTs)
    BY <1>1, <2>2, <2>5, SendsThen
  <2>7. Promise(o, g) <= s.lastInputTs /\ Promise(o, g) \in Nat
    BY <1>1, <2>5, FlowFields DEF Sends, Promise
  <2> HIDE DEF g, y
  <2>8. \A n \in x.op.window.lastDel + 1 .. x.op.window.lastIns :
           Promise(o, g) <= Stamp_w(o, x.op, n) + Plan[o].windowSize
    <3> TAKE n \in x.op.window.lastDel + 1 .. x.op.window.lastIns
    <3>1. n \in 1 .. x.op.window.lastIns
      BY <2>2 DEF WindowInv
    <3>2. Stamp_w(o, x.op, n) \in Nat
      BY <2>2, <3>1 DEF WindowInv
    <3>3. s.lastInputTs < Stamp_w(o, x.op, n) + Plan[o].windowSize
      BY <2>2 DEF Unexpired
    <3> QED BY <1>1, <2>7, <3>2, <3>3
  <2>9. WindowInv(o, y.op, Promise(o, y.flow))
    BY <2>2, <2>4, <2>8 DEF WindowInv, Stamp_w
  <2>10. ~y.op.bStalled => Unexpired(o, y.op)
    BY <2>2, <2>4 DEF Unexpired, Stamp_w
  <2>11. Windowed(o, f, s, y)
    BY <2>4, <2>5, <2>6, <2>9, <2>10 DEF Windowed
  <2> QED BY <2>11 DEF y
<1> QED BY <1>2, <1>3, <1>4

LEMMA ExpireThenSendWindowed ==
  ASSUME IInv, NEW o \in query, Plan[o].kind = "range", NEW f, NEW s, NEW e, FlowOK(query, f),
         WindowInv(o, s, Promise(o, f)), s.lastInputTs \in Nat, Promise(o, f) <= s.lastInputTs,
         e.kind \in KindOf, e.timestamp = s.lastInputTs
  PROVE  Windowed(o, f, s, ExpireThenSend(o, s, e, f))
BY ExpireWindowed, SendUnlessWindowed DEF ExpireThenSend

(* A run that begins.                                                      *)
LEMMA RangeBegins ==
  ASSUME IInv, NEW o \in query, Plan[o].kind = "range", RangeWindowBegin(o)
  PROVE  StepOf(o)
<1>1. /\ query \in Queries /\ o \in Op /\ HasOutput(o) /\ Ports(o) = {"in"}
      /\ FlowOK(query, flow) /\ DOMAIN op = query /\ RangeInv(o, op[o], flow)
      /\ FeedInv(o, op[o], op[Plan[o].store], flow)
  BY Base, Single, OpInvIs DEF IInv, Feeds
<1>2. CASE ~op[o].bStalled
  BY <1>2, Control, NothingDone, RunInvIs DEF RangeWindowBegin
<1>3. CASE op[o].bStalled
  <2> DEFINE s == [op[o] EXCEPT !.bStalled = FALSE]
             e == op[o].stalledElement
             x == ExpireThenSend(o, s, e, flow)
  <2>1. x = clearStall(o, op[o], flow)
    BY DEF clearStall
  <2>2. /\ flow' = x.flow /\ op' = [op EXCEPT ![o] = x.op]
        /\ IF x.op.bStalled THEN Return ELSE Begin(o)
    BY <1>3, <2>1 DEF RangeWindowBegin, BeginUnlessStalled, Became
  <2>3. /\ DOMAIN op[o] = {"lastInputTs", "lastOutputTs", "window", "bStalled", "stalledElement"}
        /\ WindowInv(o, op[o], Promise(o, flow))
        /\ op[o].lastInputTs \in Nat /\ Promise(o, flow) <= op[o].lastInputTs
        /\ e.kind \in KindOf /\ e.timestamp = op[o].lastInputTs
        /\ NotBefore(flow, Plan[o].in, op[o].lastInputTs)
    BY <1>1, <1>3 DEF RangeInv, PairInv, FilterInv, Reads, WindowInv, RangeWindowInit
  <2>4. /\ DOMAIN s = DOMAIN op[o] /\ s.lastInputTs = op[o].lastInputTs
        /\ s.window = op[o].window /\ s.stalledElement = e
    BY <2>3
  <2>5. WindowInv(o, s, Promise(o, flow))
    <3> HIDE DEF s
    <3> QED BY <2>3, <2>4 DEF WindowInv, Stamp_w
  <2> HIDE DEF s, e
  <2>6. Windowed(o, flow, s, x)
    BY <1>1, <2>3, <2>4, <2>5, ExpireThenSendWindowed
  <2> HIDE DEF x
  <2>7. /\ DOMAIN op' = query /\ \A p \in query \ {o} : op'[p] = op[p] /\ op'[o] = x.op
    BY <1>1, <2>2
  <2>8. op'[o] = x.op
    BY <1>1, <2>2
  <2>9. Moved(query, o, flow, flow') /\ Pending(flow', Plan[o].in) = Pending(flow, Plan[o].in)
        /\ NotBefore(flow', Plan[o].in, op[o].lastInputTs)
    <3>1. Put(query, Plan[o].out, flow, flow')
      BY <2>2, <2>6 DEF Windowed, Sends
    <3>2. Read(query, o, flow, flow)
      BY <1>1, ReadNothing
    <3>3. Moved(query, o, flow, flow')
      BY <1>1, <3>1, <3>2, MovedBy
    <3>4. Pending(flow', Plan[o].in) = Pending(flow, Plan[o].in)
      BY <1>1, <3>1, PutKeepsIn
    <3>5. NotBefore(flow', Plan[o].in, op[o].lastInputTs)
      BY <1>1, <2>3, <3>1, PutKeepsIn
    <3> QED BY <3>3, <3>4, <3>5
  <2>10. RangeInv(o, op'[o], flow')
    <3>1. FilterInv(o, x.op, flow')
      BY <2>2, <2>3, <2>4, <2>6, <2>9, <1>1
         DEF FilterInv, Reads, Windowed, WindowInv, Sends, RangeInv, PairInv
    <3>2. PairInv(o, x.op, flow')
      BY <2>3, <2>4, <2>6, <3>1 DEF PairInv, Windowed, e
    <3> QED BY <2>2, <2>6, <2>8, <3>2 DEF RangeInv, Windowed
  <2>11. FeedInv(o, op'[o], op[Plan[o].store], flow')
    <3>1. op'[o].window.lastIns = op[o].window.lastIns
      BY <2>4, <2>6, <2>8 DEF Windowed
    <3> QED BY <1>1, <2>9, <3>1 DEF FeedInv
  <2>12. running' \in {o, Idle, Failed} /\ slice' \in 0 .. TimeSlice
         /\ (running' = o => ~op'[o].bStalled)
    BY <2>2, <2>8, Control
  <2> QED BY <2>7, <2>9, <2>10, <2>11, <2>12, RangeDone
<1> QED BY <1>2, <1>3

LEMMA RangeEnds ==
  ASSUME IInv, NEW o \in query, Plan[o].kind = "range", RangeWindowEnd(o)
  PROVE  StepOf(o)
<1>1. /\ query \in Queries /\ o \in Op /\ HasOutput(o) /\ Ports(o) = {"in"}
      /\ FlowOK(query, flow) /\ DOMAIN op = query /\ RangeInv(o, op[o], flow)
      /\ FeedInv(o, op[o], op[Plan[o].store], flow) /\ Plan[o].windowSize \in Nat
  BY Base, Single, OpInvIs, WindowsAssumption DEF IInv, Feeds
<1>2. /\ running = o /\ Return /\ op' = op
      /\ flow' = IF HeartbeatDue(o, op[o].lastInputTs)
                 THEN enqueue(flow, Plan[o].out, Heartbeat(op[o].lastInputTs)) ELSE flow
  BY DEF RangeWindowEnd, MayEnd
<1>3. ~op[o].bStalled
  BY <1>2, Base, RunInvIs
<1>4. /\ op[o].lastInputTs \in Nat /\ Promise(o, flow) <= op[o].lastInputTs
      /\ WindowInv(o, op[o], Promise(o, flow)) /\ Unexpired(o, op[o])
  BY <1>1, <1>3 DEF RangeInv, PairInv, FilterInv, Reads
<1>5. Sends(query, o, flow, flow', op[o].lastInputTs)
  BY <1>1, <1>2, <1>4, EndSends
<1>6. /\ Moved(query, o, flow, flow') /\ Pending(flow', Plan[o].in) = Pending(flow, Plan[o].in)
      /\ \A ts : NotBefore(flow', Plan[o].in, ts) <=> NotBefore(flow, Plan[o].in, ts)
      /\ Promise(o, flow') <= op[o].lastInputTs /\ Promise(o, flow') \in Nat
  <2>1. Put(query, Plan[o].out, flow, flow') /\ Promise(o, flow') <= op[o].lastInputTs
    BY <1>5 DEF Sends
  <2>2. Read(query, o, flow, flow)
    BY <1>1, ReadNothing
  <2>3. Moved(query, o, flow, flow')
    BY <1>1, <2>1, <2>2, MovedBy
  <2>4. FlowOK(query, flow') /\ Plan[o].out \in Outs(query)
    BY <1>1, <2>1, OutOK DEF Put
  <2>5. Promise(o, flow') \in Nat
    BY <2>4, FlowFields DEF Promise
  <2>6. Pending(flow', Plan[o].in) = Pending(flow, Plan[o].in)
    BY <1>1, <2>1, PutKeepsIn
  <2>7. \A ts : NotBefore(flow', Plan[o].in, ts) <=> NotBefore(flow, Plan[o].in, ts)
    BY <1>1, <2>1, PutKeepsIn
  <2> QED BY <2>1, <2>3, <2>5, <2>6, <2>7
<1>7. WindowInv(o, op[o], Promise(o, flow'))
  <2>1. \A n \in op[o].window.lastDel + 1 .. op[o].window.lastIns :
           Promise(o, flow') <= Stamp_w(o, op[o], n) + Plan[o].windowSize
    <3> TAKE n \in op[o].window.lastDel + 1 .. op[o].window.lastIns
    <3>1. n \in 1 .. op[o].window.lastIns
      BY <1>4 DEF WindowInv
    <3>2. Stamp_w(o, op[o], n) \in Nat
      BY <1>4, <3>1 DEF WindowInv
    <3>3. op[o].lastInputTs < Stamp_w(o, op[o], n) + Plan[o].windowSize
      BY <1>4 DEF Unexpired
    <3> QED BY <1>1, <1>4, <1>6, <3>2, <3>3
  <2> QED BY <1>4, <2>1 DEF WindowInv
<1>8. RangeInv(o, op'[o], flow')
  <2>1. PairInv(o, op[o], flow')
    BY <1>1, <1>6 DEF RangeInv, PairInv, FilterInv, Reads
  <2> QED BY <1>2, <1>4, <1>7, <2>1 DEF RangeInv
<1>9. FeedInv(o, op'[o], op[Plan[o].store], flow')
  BY SMTT(30), <1>1, <1>2, <1>6 DEF FeedInv
<1>10. running' \in {o, Idle, Failed} /\ running' # o /\ slice' \in 0 .. TimeSlice
  BY <1>2, Control
<1> QED BY <1>1, <1>2, <1>6, <1>8, <1>9, <1>10, RangeDone

(* What a window reads next is the next tuple of its source, or no tuple.  *)
LEMMA NextOfSource ==
  ASSUME NEW o \in Op, Plan[o].kind = "range", NEW s, NEW t, NEW f, FeedInv(o, s, t, f),
         s.window.lastIns \in Nat, t.next \in 1 .. Len(Allocated(o)) + 1, Len(Allocated(o)) \in Nat,
         IsSeq(Pending(f, Plan[o].in)), ~isEmpty(f, Plan[o].in),
         NEW e, e = peek(f, Plan[o].in), e.kind \in KindOf
  PROVE  /\ e.kind = PLUS => /\ s.window.lastIns + 1 \in 1 .. t.next - 1
                             /\ s.window.lastIns + 1 <= Len(Allocated(o))
                             /\ e.tuple = TupleAt(o, s.window.lastIns + 1)
         /\ e.kind # PLUS => e.kind = HEARTBEAT
<1> DEFINE old == Pending(f, Plan[o].in)
           L == s.window.lastIns
           N == t.next - 1
<1>1. /\ L < t.next
      /\ \A k \in 1 .. Len(old) : old[k].kind # MINUS
      /\ \A k \in 1 .. Len(old) : IsData(old[k]) => \E n \in L + 1 .. N : Nth(o, old[k], n)
      /\ \A n \in L + 1 .. N : \E k \in 1 .. Len(old) : Nth(o, old[k], n)
      /\ \A k, l \in 1 .. Len(old) : \A m, n \in L + 1 .. N :
            Nth(o, old[k], m) /\ Nth(o, old[l], n) /\ k < l => m < n
  BY DEF FeedInv
<1>2. 1 \in 1 .. Len(old) /\ e = old[1] /\ Len(old) \in Nat
  <2>1. old # <<>>
    BY DEF isEmpty
  <2> QED BY <2>1, TailIsSeq DEF peek
<1>3. e.kind # PLUS => e.kind = HEARTBEAT
  BY <1>1, <1>2 DEF KindOf
<1>4. ASSUME e.kind = PLUS
      PROVE  L + 1 \in 1 .. N /\ L + 1 <= Len(Allocated(o)) /\ e.tuple = TupleAt(o, L + 1)
  <2> HIDE DEF old, L, N
  <2>1. PICK n \in L + 1 .. N : Nth(o, old[1], n)
    BY <1>1, <1>2, <1>4 DEF IsData, PLUS, HEARTBEAT
  <2>2. L + 1 \in L + 1 .. N /\ n \in 1 .. Len(Allocated(o)) /\ L + 1 \in 1 .. Len(Allocated(o))
        /\ L + 1 \in 1 .. N
    BY SMTT(30) DEF L, N
  <2>3. PICK k \in 1 .. Len(old) : Nth(o, old[k], L + 1)
    BY <1>1, <2>2
  <2>4. CASE k = 1
    <3>1. Nth(o, e, L + 1)
      BY <1>2, <2>3, <2>4
    <3> QED BY <2>2, <3>1 DEF Nth
  <2>5. CASE k # 1
    <3>1. 1 < k
      BY <2>5
    <3>2. n < L + 1
      BY <1>1, <1>2, <2>1, <2>2, <2>3, <3>1
    <3> QED BY <3>2 DEF L
  <2> QED BY <2>4, <2>5
<1> QED BY <1>3, <1>4

LEMMA FeedAfterReading ==
  ASSUME NEW o \in Op, Plan[o].kind = "range", NEW s, NEW t, NEW f, NEW r, NEW g, FeedInv(o, s, t, f),
         s.window.lastIns \in Nat, t.next \in 1 .. Len(Allocated(o)) + 1, Len(Allocated(o)) \in Nat,
         IsSeq(Pending(f, Plan[o].in)), ~isEmpty(f, Plan[o].in),
         NEW e, e = peek(f, Plan[o].in), e.kind \in KindOf,
         Pending(g, Plan[o].in) = Tail(Pending(f, Plan[o].in)),
         r.window.lastIns = IF e.kind = PLUS THEN s.window.lastIns + 1 ELSE s.window.lastIns
  PROVE  FeedInv(o, r, t, g)
<1> DEFINE old == Pending(f, Plan[o].in)
           new == Pending(g, Plan[o].in)
           L == s.window.lastIns
           N == t.next - 1
           M == r.window.lastIns
<1>1. /\ L < t.next
      /\ \A k \in 1 .. Len(old) : old[k].kind # MINUS
      /\ \A k \in 1 .. Len(old) : IsData(old[k]) => \E n \in L + 1 .. N : Nth(o, old[k], n)
      /\ \A n \in L + 1 .. N : \E k \in 1 .. Len(old) : Nth(o, old[k], n)
      /\ \A k, l \in 1 .. Len(old) : \A m, n \in L + 1 .. N :
            Nth(o, old[k], m) /\ Nth(o, old[l], n) /\ k < l => m < n
  BY DEF FeedInv
<1>2. /\ old # <<>> /\ e = old[1] /\ Len(old) \in Nat \ {0} /\ Len(new) = Len(old) - 1
      /\ \A k \in 1 .. Len(old) - 1 : new[k] = old[k + 1]
  <2>1. old # <<>>
    BY DEF isEmpty
  <2> QED BY <2>1, TailIsSeq DEF peek
<1>3. /\ e.kind = PLUS => L + 1 \in 1 .. N /\ e.tuple = TupleAt(o, L + 1) /\ M = L + 1
      /\ e.kind # PLUS => ~IsData(e) /\ M = L
  BY NextOfSource DEF IsData
<1>4. L \in Nat /\ M \in Nat /\ N \in Int /\ M < t.next /\ L <= M /\ t.next = N + 1
  <2> HIDE DEF M
  <2> QED BY <1>1, <1>3
<1> HIDE DEF old, new, L, N, M
(* Later elements are of later tuples.                                     *)
<1>5. \A k \in 1 .. Len(new) : \A n \in L + 1 .. N : Nth(o, new[k], n) => n \in M + 1 .. N
  <2> SUFFICES ASSUME NEW k \in 1 .. Len(new), NEW n \in L + 1 .. N, Nth(o, new[k], n), n \notin M + 1 .. N
               PROVE  FALSE
    OBVIOUS
  <2>1. e.kind = PLUS /\ n = L + 1
    BY <1>3, <1>4
  <2>2. Nth(o, old[1], L + 1)
    BY <1>2, <1>3, <2>1 DEF Nth, IsData, PLUS, HEARTBEAT
  <2>3. 1 \in 1 .. Len(old) /\ k + 1 \in 1 .. Len(old) /\ 1 < k + 1 /\ Nth(o, old[k + 1], L + 1)
    BY <1>2, <2>1
  <2>4. L + 1 < L + 1
    BY <1>1, <2>1, <2>2, <2>3
  <2> QED BY <1>4, <2>4
<1>6. M + 1 .. N \subseteq L + 1 .. N
  BY <1>4
<1>7. \A k \in 1 .. Len(new) : k + 1 \in 1 .. Len(old) /\ new[k] = old[k + 1]
  BY <1>2
<1>8. \A k \in 1 .. Len(new) : new[k].kind # MINUS
  BY <1>1, <1>7
<1>9. \A k \in 1 .. Len(new) : IsData(new[k]) => \E n \in M + 1 .. N : Nth(o, new[k], n)
  <2> SUFFICES ASSUME NEW k \in 1 .. Len(new), IsData(new[k])
               PROVE  \E n \in M + 1 .. N : Nth(o, new[k], n)
    OBVIOUS
  <2>1. PICK n \in L + 1 .. N : Nth(o, new[k], n)
    BY <1>1, <1>7
  <2> QED BY <1>5, <2>1
<1>10. \A n \in M + 1 .. N : \E k \in 1 .. Len(new) : Nth(o, new[k], n)
  <2> TAKE n \in M + 1 .. N
  <2>1. PICK k \in 1 .. Len(old) : Nth(o, old[k], n)
    BY <1>1, <1>6
  <2>2. CASE k # 1
    <3>1. k - 1 \in 1 .. Len(new) /\ new[k - 1] = old[k]
      BY <1>2, <2>2
    <3> QED BY <2>1, <3>1
  <2>3. CASE k = 1
    <3>1. IsData(e) /\ e.tuple = TupleAt(o, n)
      BY <1>2, <2>1, <2>3 DEF Nth
    <3>2. e.kind = PLUS /\ L + 1 \in 1 .. N /\ e.tuple = TupleAt(o, L + 1) /\ M = L + 1
      BY <1>3, <3>1
    <3>3. Nth(o, e, n) /\ Nth(o, e, L + 1)
      BY <3>1, <3>2 DEF Nth
    <3>4. n \in 1 .. Len(Allocated(o)) /\ L + 1 \in 1 .. Len(Allocated(o))
      BY <1>4, <3>2
    <3>5. n = L + 1
      BY <3>3, <3>4, TuplesApart
    <3> QED BY <1>4, <3>2, <3>5
  <2> QED BY <2>2, <2>3
<1>11. \A k, l \in 1 .. Len(new) : \A m, n \in M + 1 .. N :
          Nth(o, new[k], m) /\ Nth(o, new[l], n) /\ k < l => m < n
  <2> SUFFICES ASSUME NEW k \in 1 .. Len(new), NEW l \in 1 .. Len(new),
                      NEW m \in M + 1 .. N, NEW n \in M + 1 .. N,
                      Nth(o, new[k], m), Nth(o, new[l], n), k < l
               PROVE  m < n
    OBVIOUS
  <2>1. k + 1 \in 1 .. Len(old) /\ l + 1 \in 1 .. Len(old) /\ k + 1 < l + 1
        /\ Nth(o, old[k + 1], m) /\ Nth(o, old[l + 1], n)
    BY <1>2, <1>7
  <2> QED BY <1>1, <1>6, <2>1
<1> QED BY <1>4, <1>8, <1>9, <1>10, <1>11 DEF FeedInv, new, M, N

LEMMA RangeIterates ==
  ASSUME IInv, NEW o \in query, Plan[o].kind = "range", RangeWindowIterate(o)
  PROVE  StepOf(o)
<1> DEFINE e == peek(flow, Plan[o].in)
           f == dequeue(flow, Plan[o].in)
           s == [op[o] EXCEPT !.lastInputTs = e.timestamp]
           u == [s EXCEPT !.window = insertTuple(@, e.tuple, e.timestamp)]
           x == InsertThenExpire(o, s, f, e)
           y == Remember(x, e)
           t == op[Plan[o].store]
           p == Promise(o, flow)
           ts == e.timestamp
           L == op[o].window.lastIns
<1>1. /\ query \in Queries /\ o \in Op /\ HasOutput(o) /\ Ports(o) = {"in"} /\ "in" \in Ports(o)
      /\ FlowOK(query, flow) /\ DOMAIN op = query /\ RangeInv(o, op[o], flow)
      /\ FeedInv(o, op[o], op[Plan[o].store], flow) /\ Plan[o].windowSize \in Nat
  BY Base, Single, OpInvIs, WindowsAssumption DEF IInv, Feeds
<1>2. /\ running = o /\ ~isEmpty(flow, Plan[o].in) /\ MayIterate(o)
      /\ flow' = y.flow /\ op' = [op EXCEPT ![o] = y.op]
      /\ IF y.op.bStalled THEN Return ELSE Loop
  BY DEF RangeWindowIterate, RangeWindowStuck, LoopUnlessStalled, Became, InsertAndRemember, MayIterate
<1>3. /\ FlowOK(query, f) /\ Read(query, o, flow, f) /\ Promise(o, f) = p /\ p \in Nat
      /\ e.kind \in KindOf /\ ts \in Nat /\ NotBefore(f, Plan[o].in, ts)
      /\ \A n : NotBefore(flow, Plan[o].in, n) => n <= ts
  <2>1. /\ FlowOK(query, f) /\ Read(query, o, flow, f) /\ Promise(o, f) = p /\ p \in Nat
        /\ e.kind \in KindOf /\ ts \in Nat
    BY <1>1, <1>2, Taking
  <2>2. \A n : NotBefore(flow, Plan[o].in, n) => n <= ts
    BY <1>1, <1>2, Taking
  <2>3. NotBefore(flow, Plan[o].in, ts)
    BY <1>1, <1>2, PeekFacts
  <2>4. NotBefore(f, Plan[o].in, ts)
    BY <1>1, <1>2, <2>3, DequeueReads
  <2> QED BY <2>1, <2>2, <2>4
<1>4. Pending(f, Plan[o].in) = Tail(Pending(flow, Plan[o].in))
  BY <1>1, <1>2, DequeueReads
<1>5. /\ DOMAIN op[o] = {"lastInputTs", "lastOutputTs", "window", "bStalled", "stalledElement"}
      /\ DOMAIN op[o].window = {"lastIns", "lastDel", "stamp"}
      /\ WindowInv(o, op[o], p) /\ L \in Nat /\ op[o].window.lastDel \in 0 .. L
      /\ op[o].lastInputTs \in Nat /\ p <= op[o].lastInputTs /\ op[o].lastInputTs <= ts
      /\ op[o].bStalled \in BOOLEAN
  BY <1>1, <1>3 DEF RangeInv, PairInv, FilterInv, Reads, WindowInv, RangeWindowInit
<1>6. t.next \in 1 .. Len(Allocated(o)) + 1 /\ Len(Allocated(o)) \in Nat
  <2>1. Plan[o].store \in query /\ Plan[Plan[o].store].kind = "source"
    BY <1>1, StoreIsSource
  <2>2. OriginInv(Plan[o].store, t, flow) /\ Plan[o].store \in Op
    BY <2>1, Base, OpInvIs DEF Originating
  <2> QED BY <2>1, <2>2, WindowsAssumption DEF OriginInv, Allocated
<1>7. IsSeq(Pending(flow, Plan[o].in))
  BY <1>1, PortOK, FlowFields DEF Pending
<1>8. /\ e.kind = PLUS => /\ L + 1 \in 1 .. t.next - 1
                          /\ L + 1 <= Len(Allocated(o))
                          /\ e.tuple = TupleAt(o, L + 1)
      /\ e.kind # PLUS => e.kind = HEARTBEAT
  BY <1>1, <1>2, <1>3, <1>5, <1>6, <1>7, NextOfSource
<1>9. /\ DOMAIN s = DOMAIN op[o] /\ s.lastInputTs = ts /\ s.window = op[o].window
      /\ s.bStalled = op[o].bStalled /\ s.stalledElement = op[o].stalledElement
  BY <1>5
<1>10. WindowInv(o, s, p)
  <2> HIDE DEF s
  <2>1. \A n \in 1 .. L : Stamp_w(o, op[o], n) \in Nat /\ Stamp_w(o, op[o], n) <= ts
    <3> TAKE n \in 1 .. L
    <3>1. Stamp_w(o, op[o], n) \in Nat /\ Stamp_w(o, op[o], n) <= op[o].lastInputTs
      BY <1>5 DEF WindowInv
    <3> QED BY <1>3, <1>5, <3>1
  <2> QED BY <1>5, <1>9, <2>1 DEF WindowInv, Stamp_w
<1>11. ASSUME e.kind = PLUS
       PROVE  /\ WindowInv(o, u, p) /\ u.lastInputTs = ts /\ u.window.lastIns = L + 1
              /\ u.stalledElement = op[o].stalledElement
  <2>1. /\ DOMAIN u = DOMAIN op[o] /\ u.lastInputTs = ts
        /\ u.window = insertTuple(op[o].window, e.tuple, ts)
        /\ u.stalledElement = op[o].stalledElement
    BY <1>5, <1>9
  <2> DEFINE w == insertTuple(op[o].window, e.tuple, ts)
             stamp == op[o].window.stamp
  <2>2. /\ DOMAIN w = {"lastIns", "lastDel", "stamp"} /\ w.lastIns = L + 1
        /\ w.lastDel = op[o].window.lastDel
        /\ w.stamp = [v \in DOMAIN stamp \cup {e.tuple} |-> IF v = e.tuple THEN ts ELSE stamp[v]]
    BY <1>5 DEF insertTuple
  <2>3. \A n \in 1 .. L : TupleAt(o, n) # e.tuple
    <3> SUFFICES ASSUME NEW n \in 1 .. L, TupleAt(o, n) = e.tuple PROVE FALSE
      OBVIOUS
    <3>1. n \in 1 .. Len(Allocated(o)) /\ L + 1 \in 1 .. Len(Allocated(o)) /\ n # L + 1
      BY <1>5, <1>6, <1>8, <1>11
    <3>2. Nth(o, e, n) /\ Nth(o, e, L + 1)
      BY <1>8, <1>11 DEF Nth, IsData, PLUS, HEARTBEAT
    <3> QED BY <1>1, <3>1, <3>2, TuplesApart
  <2> HIDE DEF u, w, stamp
  <2>4. \A n \in 1 .. L : /\ TupleAt(o, n) \in DOMAIN w.stamp
                          /\ w.stamp[TupleAt(o, n)] = Stamp_w(o, op[o], n)
                          /\ Stamp_w(o, op[o], n) \in Nat
                          /\ Stamp_w(o, op[o], n) <= ts
    <3> TAKE n \in 1 .. L
    <3>1. /\ TupleAt(o, n) \in DOMAIN stamp
          /\ Stamp_w(o, op[o], n) \in Nat /\ Stamp_w(o, op[o], n) <= op[o].lastInputTs
      BY <1>5 DEF WindowInv, stamp
    <3>2. TupleAt(o, n) # e.tuple
      BY <2>3
    <3>3. w.stamp[TupleAt(o, n)] = stamp[TupleAt(o, n)]
      BY <2>2, <3>1, <3>2
    <3> QED BY SMTT(30), <1>3, <1>5, <2>2, <3>1, <3>3 DEF Stamp_w, stamp
  <2>5. TupleAt(o, L + 1) \in DOMAIN w.stamp /\ w.stamp[TupleAt(o, L + 1)] = ts
    BY <1>8, <1>11, <2>2
  <2>6. \A n \in 1 .. L + 1 : n \in 1 .. L \/ n = L + 1
    BY <1>5
  <2>7. \A n : Stamp_w(o, u, n) = w.stamp[TupleAt(o, n)]
    BY <2>1 DEF Stamp_w, w
  <2>8. \A n \in 1 .. L + 1 : /\ TupleAt(o, n) \in DOMAIN w.stamp
                              /\ Stamp_w(o, u, n) \in Nat /\ Stamp_w(o, u, n) <= ts
    BY <1>3, <2>4, <2>5, <2>6, <2>7
  <2>9. \A m, n \in 1 .. L + 1 : m <= n => Stamp_w(o, u, m) <= Stamp_w(o, u, n)
    <3> SUFFICES ASSUME NEW m \in 1 .. L + 1, NEW n \in 1 .. L + 1, m <= n
                 PROVE  Stamp_w(o, u, m) <= Stamp_w(o, u, n)
      OBVIOUS
    <3>1. CASE n = L + 1
      BY <2>5, <2>7, <2>8, <3>1
    <3>2. CASE n # L + 1
      <4>1. m \in 1 .. L /\ n \in 1 .. L
        BY <1>5, <3>2
      <4>2. Stamp_w(o, op[o], m) <= Stamp_w(o, op[o], n)
        BY <1>5, <4>1 DEF WindowInv
      <4> QED BY <2>4, <2>7, <4>1, <4>2
    <3> QED BY <3>1, <3>2
  <2>10. \A n \in op[o].window.lastDel + 1 .. L + 1 : p <= Stamp_w(o, u, n) + Plan[o].windowSize
    <3> TAKE n \in op[o].window.lastDel + 1 .. L + 1
    <3>1. CASE n = L + 1
      BY <1>1, <1>3, <1>5, <2>5, <2>7, <3>1
    <3>2. CASE n # L + 1
      <4>1. n \in op[o].window.lastDel + 1 .. L /\ n \in 1 .. L
        BY <1>5, <3>2
      <4>2. p <= Stamp_w(o, op[o], n) + Plan[o].windowSize
        BY <1>5, <4>1 DEF WindowInv
      <4> QED BY <2>4, <2>7, <4>1, <4>2
    <3> QED BY <3>1, <3>2
  <2>11. u.window = w
    BY <2>1 DEF w
  <2>12. op[o].window.lastDel \in 0 .. L + 1 /\ L + 1 \in Nat /\ L + 1 <= Len(Allocated(o))
    BY <1>5, <1>8, <1>11
  <2>13. WindowInv(o, u, p)
    <3>1. DOMAIN u = DOMAIN RangeWindowInit
      BY <1>5, <2>1 DEF RangeWindowInit
    <3> QED BY <2>1, <2>2, <2>8, <2>9, <2>10, <2>11, <2>12, <3>1 DEF WindowInv
  <2> QED BY <2>1, <2>2, <2>11, <2>13
<1> HIDE DEF s, u, e, f, t
<1>12. ASSUME e.kind = PLUS
       PROVE  Windowed(o, f, u, x)
  <2> DEFINE g == Lock(f, e.tuple)
  <2>1. x = ExpireThenSend(o, u, e, g)
    BY <1>12 DEF InsertThenExpire, u
  <2>2. SameQueues(f, g) /\ FlowOK(query, g)
    BY <1>3, SameOfCounts, SameIsOK DEF Lock
  <2>3. Promise(o, g) = p
    BY <1>3, <2>2, SameOutput
  <2> HIDE DEF g, x
  <2>4. p <= ts
    BY <1>3, <1>5
  <2>5. Windowed(o, g, u, ExpireThenSend(o, u, e, g))
    BY <1>3, <1>11, <1>12, <2>2, <2>3, <2>4, ExpireThenSendWindowed
  <2>6. Sends(query, o, f, x.flow, u.lastInputTs)
    BY <1>1, <1>3, <2>1, <2>2, <2>5, SameSends DEF Windowed
  <2> QED BY <2>1, <2>5, <2>6 DEF Windowed
<1>13. ASSUME e.kind # PLUS
       PROVE  Windowed(o, f, s, x)
  <2>1. x = ExpireThenSend(o, s, e, f)
    BY <1>13 DEF InsertThenExpire
  <2>2. p <= ts
    BY <1>3, <1>5
  <2> HIDE DEF x
  <2> QED BY <1>3, <1>9, <1>10, <2>1, <2>2, ExpireThenSendWindowed
<1> DEFINE v == IF e.kind = PLUS THEN u ELSE s
<1>14. /\ Windowed(o, f, v, x) /\ v.lastInputTs = ts
       /\ v.window.lastIns = IF e.kind = PLUS THEN L + 1 ELSE L
  BY <1>9, <1>11, <1>12, <1>13
<1> HIDE DEF v, x
<1>15. /\ DOMAIN x.op = DOMAIN op[o] /\ DOMAIN x = {"flow", "op"} /\ x.op.bStalled \in BOOLEAN
  BY <1>5, <1>14 DEF Windowed, WindowInv, RangeWindowInit
<1>16. /\ y.flow = x.flow /\ DOMAIN y.op = DOMAIN op[o]
       /\ y.op.lastInputTs = ts /\ y.op.window = x.op.window
       /\ y.op.bStalled = x.op.bStalled /\ (y.op.bStalled => y.op.stalledElement = e)
  <2>1. x.op.lastInputTs = ts
    BY <1>14 DEF Windowed
  <2>2. CASE x.op.bStalled
    <3>1. y = [x EXCEPT !.op.stalledElement = e]
      BY <2>2 DEF Remember
    <3> HIDE DEF y
    <3> QED BY <1>5, <1>15, <2>1, <3>1
  <2>3. CASE ~x.op.bStalled
    <3>1. y = x
      BY <2>3 DEF Remember
    <3> QED BY <1>15, <2>1, <2>3, <3>1
  <2> QED BY <2>2, <2>3
<1> HIDE DEF y
<1>17. DOMAIN op' = query /\ op'[o] = y.op /\ \A q \in query \ {o} : op'[q] = op[q]
  BY <1>1, <1>2
<1>18. Put(query, Plan[o].out, f, flow') /\ Promise(o, flow') <= ts
  BY <1>2, <1>14, <1>16 DEF Windowed, Sends
<1>19. Moved(query, o, flow, flow')
  BY <1>1, <1>3, <1>18, MovedBy
<1>20. Pending(flow', Plan[o].in) = Pending(f, Plan[o].in) /\ NotBefore(flow', Plan[o].in, ts)
  BY <1>1, <1>3, <1>18, PutKeepsIn
<1>21. RangeInv(o, op'[o], flow')
  <2>1. PairInv(o, y.op, flow')
    BY <1>1, <1>3, <1>15, <1>16, <1>18, <1>20 DEF RangeInv, PairInv, FilterInv, Reads
  <2>2. WindowInv(o, x.op, Promise(o, flow')) /\ (~x.op.bStalled => Unexpired(o, x.op))
        /\ x.op.lastInputTs = ts
    BY <1>2, <1>14, <1>16 DEF Windowed
  <2>3. WindowInv(o, y.op, Promise(o, flow'))
    BY <1>15, <1>16, <2>2 DEF WindowInv, Stamp_w
  <2>4. ~y.op.bStalled => Unexpired(o, y.op)
    BY <1>16, <2>2 DEF Unexpired, Stamp_w
  <2> QED BY <1>17, <2>1, <2>3, <2>4 DEF RangeInv
<1>22. FeedInv(o, op'[o], t, flow')
  <2>1. op'[o].window.lastIns = IF e.kind = PLUS THEN L + 1 ELSE L
    BY <1>14, <1>16, <1>17 DEF Windowed
  <2>2. FeedInv(o, op[o], t, flow) /\ e = peek(flow, Plan[o].in)
    BY <1>1 DEF t, e
  <2>3. Pending(flow', Plan[o].in) = Tail(Pending(flow, Plan[o].in))
    BY <1>4, <1>20
  <2> QED BY <1>1, <1>2, <1>3, <1>5, <1>6, <1>7, <2>1, <2>2, <2>3, FeedAfterReading
<1>23. running' \in {o, Idle, Failed} /\ slice' \in 0 .. TimeSlice
       /\ (running' = o => ~op'[o].bStalled)
  BY <1>2, <1>17, Control
<1> QED BY <1>17, <1>19, <1>21, <1>22, <1>23, RangeDone DEF t

LEMMA RangeWindowStep ==
  ASSUME IInv, NEW o \in query, Plan[o].kind = "range",
         RangeWindowBegin(o) \/ RangeWindowIterate(o) \/ RangeWindowEnd(o)
  PROVE  StepOf(o)
BY RangeBegins, RangeIterates, RangeEnds

-----------------------------------------------------------------------------
(***************************************************************************)
(* The streams of insertions and of deletions.                             *)
(***************************************************************************)
LEMMA CountsFacts ==
  ASSUME NEW s, Counts(s), NEW e, Entry(e)
  PROVE  Counts(Append(s, e)) /\ Counts(<<e>> \o s) /\ Counts(<<e>>) /\ <<e>> # <<>>
         /\ Append(s, e) # <<>>
<1>1. IsSeq(s) /\ Len(s) \in Nat /\ \A i \in 1 .. Len(s) : Entry(s[i])
  BY SeqFacts DEF Counts
<1>2. Counts(Append(s, e))
  <2>1. /\ IsSeq(Append(s, e)) /\ Len(Append(s, e)) = Len(s) + 1
        /\ \A i \in 1 .. Len(s) : Append(s, e)[i] = s[i]
        /\ Append(s, e)[Len(s) + 1] = e
    BY <1>1, AppendIsSeq
  <2>2. \A i \in 1 .. Len(s) + 1 : i \in 1 .. Len(s) \/ i = Len(s) + 1
    BY <1>1
  <2> QED BY <1>1, <2>1, <2>2 DEF Counts
<1>3. IsSeq(<<e>>) /\ Len(<<e>>) = 1 /\ <<e>>[1] = e
  <2>1. <<e>> \in Seq({e})
    OBVIOUS
  <2> QED BY <2>1, SeqIs
<1>4. Counts(<<e>>)
  BY <1>3 DEF Counts
<1>5. Counts(<<e>> \o s)
  <2> DEFINE t == <<e>>
  <2>1. IsSeq(t) /\ Len(t) = 1 /\ t[1] = e
    BY <1>3
  <2> HIDE DEF t
  <2>2. /\ IsSeq(t \o s) /\ Len(t \o s) = 1 + Len(s) /\ (t \o s)[1] = e
        /\ \A i \in 2 .. 1 + Len(s) : (t \o s)[i] = s[i - 1]
    <3>1. /\ IsSeq(t \o s) /\ Len(t \o s) = Len(t) + Len(s)
          /\ \A i \in 1 .. Len(t) : (t \o s)[i] = t[i]
          /\ \A i \in Len(t) + 1 .. Len(t) + Len(s) : (t \o s)[i] = s[i - Len(t)]
      BY <1>1, <2>1, ConcatIsSeq
    <3>2. Len(t) + 1 = 2 /\ 1 \in 1 .. Len(t)
      BY <2>1
    <3> QED BY <2>1, <3>1, <3>2
  <2>3. \A i \in 1 .. 1 + Len(s) : i = 1 \/ (i \in 2 .. 1 + Len(s) /\ i - 1 \in 1 .. Len(s))
    BY <1>1
  <2>4. Counts(t \o s)
    BY <1>1, <2>2, <2>3 DEF Counts
  <2> QED BY <2>4 DEF t
<1>6. <<e>> # <<>> /\ Append(s, e) # <<>>
  <2>1. Len(Append(s, e)) # 0
    BY <1>1, AppendIsSeq
  <2> QED BY <1>3, <2>1, EmptyIsSeq
<1> QED BY <1>2, <1>4, <1>5, <1>6

LEMMA NoCounts == Counts(<<>>)
BY EmptyIsSeq DEF Counts

LEMMA CountsParts ==
  ASSUME NEW s, Counts(s), s # <<>>
  PROVE  Entry(Head(s)) /\ Counts(Tail(s))
<1>1. IsSeq(s) /\ \A i \in 1 .. Len(s) : Entry(s[i])
  BY DEF Counts
<1>2. /\ IsSeq(Tail(s)) /\ Len(s) \in Nat \ {0} /\ Len(Tail(s)) = Len(s) - 1
      /\ \A i \in 1 .. Len(s) - 1 : Tail(s)[i] = s[i + 1]
      /\ Head(s) = s[1]
  BY <1>1, TailIsSeq
<1>3. \A i \in 1 .. Len(s) - 1 : i + 1 \in 1 .. Len(s)
  BY <1>2
<1>4. 1 \in 1 .. Len(s)
  BY <1>2
<1> QED BY <1>1, <1>2, <1>3, <1>4 DEF Counts

LEMMA TalliedCounts ==
  ASSUME NEW s, Counts(s.synopsis), NEW v, NEW unit \in Int
  PROVE  Counts(Tallied(s, v, unit))
<1> DEFINE syn == s.synopsis
           E == EntryOf(s, v)
           e == [value |-> v, count |-> unit]
           upd == [i \in DOMAIN syn |-> IF i \in E THEN [syn[i] EXCEPT !.count = @ + unit] ELSE syn[i]]
           P == {i \in DOMAIN syn : i \in E => syn[i].count # -unit}
<1>1. CASE E = {}
  <2>1. Entry(e)
    BY DEF Entry
  <2>2. Tallied(s, v, unit) = <<e>> \o syn
    BY <1>1 DEF Tallied
  <2> HIDE DEF e, syn
  <2>3. Counts(<<e>> \o syn)
    BY <2>1, CountsFacts DEF syn
  <2> QED BY <2>2, <2>3
<1>2. CASE E # {}
  <2>1. Tallied(s, v, unit) = At(upd, P)
    BY <1>2 DEF Tallied
  <2>2. IsSeq(syn) /\ Len(syn) \in Nat /\ DOMAIN syn = 1 .. Len(syn)
        /\ \A i \in 1 .. Len(syn) : Entry(syn[i])
    BY SeqFacts DEF Counts
  <2> HIDE DEF syn, E
  <2>3. IsSeq(upd) /\ Len(upd) = Len(syn) /\ DOMAIN upd = DOMAIN syn
    <3>1. upd = [i \in 1 .. Len(syn) |-> upd[i]]
      BY <2>2
    <3> HIDE DEF upd
    <3> QED BY <2>2, <3>1, FunctionIsSeq
  <2>4. \A i \in 1 .. Len(syn) : Entry(upd[i])
    <3> TAKE i \in 1 .. Len(syn)
    <3>1. Entry(syn[i]) /\ upd[i] = IF i \in E THEN [syn[i] EXCEPT !.count = @ + unit] ELSE syn[i]
      BY <2>2
    <3> HIDE DEF upd
    <3>2. CASE i \in E
      <4>1. upd[i] = [syn[i] EXCEPT !.count = @ + unit]
        BY <3>1, <3>2
      <4>2. DOMAIN upd[i] = {"value", "count"} /\ upd[i].count = syn[i].count + unit
        BY <3>1, <4>1 DEF Entry
      <4> QED BY <3>1, <4>2 DEF Entry
    <3>3. CASE i \notin E
      BY <3>1, <3>3
    <3> QED BY <3>2, <3>3
  <2>5. P \in SUBSET DOMAIN upd
    BY <2>3
  <2> HIDE DEF upd, P
  <2>6. IsSeq(At(upd, P)) /\ \A k \in 1 .. Len(At(upd, P)) : \E i \in P : At(upd, P)[k] = upd[i]
    BY <2>3, <2>5, AtIsSeq
  <2>7. \A k \in 1 .. Len(At(upd, P)) : Entry(At(upd, P)[k])
    BY <2>2, <2>3, <2>4, <2>5, <2>6
  <2> QED BY <2>1, <2>6, <2>7 DEF Counts
<1> QED BY <1>1, <1>2

Changing == {"istream", "dstream"}

(* The scan of the synopsis so far.                                        *)
Sending(o, f, y) ==
    /\ DOMAIN y = {"flow", "bStalled", "sent", "rest"}
    /\ Sends(query, o, f, y.flow, op[o].curTs) /\ FlowOK(query, y.flow)
    /\ y.bStalled \in BOOLEAN
    /\ Counts(y.rest)
    /\ y.bStalled => y.rest # <<>>

LEMMA CopiesSent ==
  ASSUME IInv, NEW o \in query, Plan[o].kind \in Changing, op[o].curTs \in Nat,
         NEW f, FlowOK(query, f), NEW y, Sending(o, f, y), ~y.bStalled,
         NEW ts, IsSeq(ts), Len(ts) <= Space(y.flow, Plan[o].out), NEW left, Entry(left), NEW n
  PROVE  Sending(o, f, AfterCopies(o, y, SendChanges(o, y.flow, ts), n, left))
<1> DEFINE g == SendChanges(o, y.flow, ts)
           z == AfterCopies(o, y, g, n, left)
<1>1. /\ query \in Queries /\ o \in Op /\ HasOutput(o)
      /\ Plan[o].out \in Outs(query) /\ Reader(Plan[o].out) # {}
  BY Base, Single, OutOK DEF Changing
<1>2. /\ Sends(query, o, f, y.flow, op[o].curTs) /\ FlowOK(query, y.flow)
      /\ Promise(o, y.flow) <= op[o].curTs /\ DOMAIN y = {"flow", "bStalled", "sent", "rest"}
  BY DEF Sending, Sends
<1>3. Sends(query, o, y.flow, g, op[o].curTs)
  BY <1>1, <1>2, InsertAllPuts DEF Sends, Promise, SendChanges
<1> HIDE DEF g
<1>4. Sends(query, o, f, g, op[o].curTs) /\ FlowOK(query, g)
  BY <1>1, <1>2, <1>3, SendsThen
<1>5. CASE isFull(g, Plan[o].out)
  <2>1. z = [flow |-> g, bStalled |-> TRUE, sent |-> y.sent \/ n > 0, rest |-> <<left>>]
    BY <1>5 DEF AfterCopies
  <2>2. /\ DOMAIN z = {"flow", "bStalled", "sent", "rest"} /\ z.flow = g
        /\ z.bStalled = TRUE /\ z.rest = <<left>>
    BY <2>1
  <2>3. Counts(<<left>>) /\ <<left>> # <<>>
    BY NoCounts, CountsFacts
  <2> HIDE DEF z
  <2>4. Sending(o, f, z)
    BY <1>4, <2>2, <2>3 DEF Sending
  <2> QED BY <2>4 DEF z, g
<1>6. CASE ~isFull(g, Plan[o].out)
  <2> DEFINE h == decrRef(g, NetTuple(o, left.value))
  <2>1. z = [y EXCEPT !.flow = h, !.sent = @ \/ n > 0]
    BY <1>6 DEF AfterCopies
  <2>2. SameQueues(g, h)
    BY <1>4, SameOfCounts
  <2> HIDE DEF h
  <2>3. /\ DOMAIN z = {"flow", "bStalled", "sent", "rest"} /\ z.flow = h
        /\ z.bStalled = y.bStalled /\ z.rest = y.rest
    BY <1>2, <2>1
  <2>4. Sends(query, o, f, h, op[o].curTs) /\ FlowOK(query, h)
    BY <1>1, <1>4, <2>2, SendsSame
  <2> HIDE DEF z
  <2>5. Sending(o, f, z)
    BY <2>3, <2>4 DEF Sending
  <2> QED BY <2>5 DEF z, g
<1> QED BY <1>5, <1>6

LEMMA SendNetSends ==
  ASSUME IInv, NEW o \in query, Plan[o].kind \in Changing, op[o].curTs \in Nat,
         NEW f, FlowOK(query, f), NEW y, Sending(o, f, y), NEW s, Entry(s), NEW sign \in {1, -1}
  PROVE  Sending(o, f, SendNet(o, sign, y, s))
<1>1. CASE y.bStalled
  <2> DEFINE z == [y EXCEPT !.rest = Append(@, s)]
  <2>1. SendNet(o, sign, y, s) = z
    BY <1>1 DEF SendNet
  <2>2. /\ DOMAIN z = {"flow", "bStalled", "sent", "rest"} /\ z.flow = y.flow
        /\ z.bStalled = y.bStalled /\ z.rest = Append(y.rest, s)
    BY DEF Sending
  <2>3. Counts(Append(y.rest, s)) /\ Append(y.rest, s) # <<>>
    BY CountsFacts DEF Sending
  <2> HIDE DEF z
  <2>4. Sending(o, f, z)
    BY <2>2, <2>3 DEF Sending
  <2> QED BY <2>1, <2>4
<1>2. CASE ~y.bStalled
  <2> DEFINE owed == Owed(sign, s.count)
             space == Space(y.flow, Plan[o].out)
             n == Min({owed, space})
             left == Unsent(sign, s, n)
             ts == [i \in 1 .. n |-> Change(o, s.value, op[o].curTs, owed - i + 1)]
  <2>1. owed \in Nat
    BY DEF Owed, Entry
  <2>2. space \in Nat
    <3>1. query \in Queries /\ HasOutput(o) /\ FlowOK(query, y.flow)
      BY Base, Single DEF Changing, Sending
    <3> QED BY <3>1, SpaceFacts, OutOK, SizesAssumption
  <2>3. n \in Nat /\ n <= space
    <3> HIDE DEF owed, space
    <3> QED BY <2>1, <2>2, MinOfTwo
  <2>4. Entry(left)
    <3> HIDE DEF n
    <3>1. sign * n \in Int
      BY <2>3
    <3>2. left = [s EXCEPT !.count = @ - sign * n]
      BY DEF Unsent
    <3> HIDE DEF left
    <3> DEFINE k == sign * n
    <3>3. left = [s EXCEPT !.count = @ - k] /\ k \in Int
      BY <3>1, <3>2
    <3> HIDE DEF k
    <3>4. DOMAIN left = DOMAIN s /\ left.count = s.count - k
      BY <3>3 DEF Entry
    <3> QED BY <3>3, <3>4 DEF Entry
  <2>5. SendNet(o, sign, y, s) = AfterCopies(o, y, SendChanges(o, y.flow, ts), n, left)
    BY <1>2 DEF SendNet, SendSome, SendCopies
  <2> HIDE DEF owed, space, n, left
  <2>6. IsSeq(ts) /\ Len(ts) = n
    <3>1. ts = [i \in 1 .. n |-> ts[i]]
      OBVIOUS
    <3> HIDE DEF ts
    <3> QED BY <2>3, <3>1, FunctionIsSeq
  <2> HIDE DEF ts
  <2> QED BY <1>2, <2>3, <2>4, <2>5, <2>6, CopiesSent DEF space
<1> QED BY <1>1, <1>2

LEMMA ResumeNetSends ==
  ASSUME IInv, NEW o \in query, Plan[o].kind \in Changing, op[o].curTs \in Nat,
         NEW f, FlowOK(query, f), NEW y, Sending(o, f, y), ~y.bStalled, NEW s, Entry(s),
         NEW sign \in {1, -1}
  PROVE  Sending(o, f, ResumeNet(o, sign, y, s))
<1>1. CASE sign = -1 /\ s.count < 0
  <2> DEFINE n == Space(y.flow, Plan[o].out)
             left == Unsent(1, s, n)
             ts == [i \in 1 .. n |-> Surplus(o, s, i)]
  <2>1. n \in Nat
    <3>1. query \in Queries /\ HasOutput(o) /\ FlowOK(query, y.flow)
      BY Base, Single DEF Changing, Sending
    <3> QED BY <3>1, SpaceFacts, OutOK, SizesAssumption
  <2>2. ResumeNet(o, sign, y, s) = AfterCopies(o, y, SendChanges(o, y.flow, ts), n, left)
    BY <1>1 DEF ResumeNet, SendSurplus
  <2>3. Entry(left)
    <3> HIDE DEF n
    <3>1. left = [s EXCEPT !.count = @ - 1 * n]
      BY DEF Unsent
    <3> HIDE DEF left
    <3>2. DOMAIN left = DOMAIN s /\ left.count = s.count - n
      BY <2>1, <3>1 DEF Entry
    <3> QED BY <2>1, <3>2 DEF Entry
  <2> HIDE DEF n, left
  <2>4. IsSeq(ts) /\ Len(ts) = n
    <3>1. ts = [i \in 1 .. n |-> ts[i]]
      OBVIOUS
    <3> HIDE DEF ts
    <3> QED BY <2>1, <3>1, FunctionIsSeq
  <2> HIDE DEF ts
  <2>5. Len(ts) <= Space(y.flow, Plan[o].out)
    BY <2>1, <2>4 DEF n
  <2>6. Sending(o, f, AfterCopies(o, y, SendChanges(o, y.flow, ts), n, left))
    BY <2>3, <2>4, <2>5, CopiesSent
  <2> QED BY <2>2, <2>6
<1>2. CASE ~(sign = -1 /\ s.count < 0)
  <2>1. ResumeNet(o, sign, y, s) = SendNet(o, sign, y, s)
    BY <1>2 DEF ResumeNet
  <2> QED BY <2>1, SendNetSends
<1> QED BY <1>1, <1>2

(* The scan exists, for it goes on from what it was an entry before.       *)
ScanOf(o, sign, y, entries, h) ==
    /\ SendAll(o, sign, y, entries) = h[Len(entries)]
    /\ h[0] = y
    /\ \A n \in 1 .. Len(entries) : h[n] = SendNet(o, sign, h[n - 1], entries[n])

LEMMA ScanExists ==
  ASSUME NEW o, NEW sign, NEW y, NEW entries, Len(entries) \in Nat
  PROVE  \E h : ScanOf(o, sign, y, entries, h)
<1> DEFINE N == Len(entries)
           Is(h, k) == h = [n \in 0 .. k |->
                               IF n = 0 THEN y ELSE SendNet(o, sign, h[n - 1], entries[n])]
           all == CHOOSE h : Is(h, N)
           bad == {k \in 0 .. N : ~\E h : Is(h, k)}
<1>1. SendAll(o, sign, y, entries) = all[N]
  BY DEF SendAll
<1>2. bad = {}
  <2> SUFFICES ASSUME bad # {} PROVE FALSE
    OBVIOUS
  <2>1. PICK k \in bad : \A l \in bad : k <= l
    <3>1. bad \subseteq Nat
      OBVIOUS
    <3> HIDE DEF bad
    <3> QED BY <3>1, LeastOf
  <2>2. k \in Nat /\ k <= N
    OBVIOUS
  <2>3. CASE k = 0
    <3> DEFINE h == [n \in 0 .. 0 |-> y]
    <3>1. h = [n \in 0 .. 0 |-> IF n = 0 THEN y ELSE SendNet(o, sign, h[n - 1], entries[n])]
      OBVIOUS
    <3>2. Is(h, k)
      BY <2>3, <3>1
    <3> QED BY <2>1, <3>2
  <2>4. CASE k # 0
    <3>0. k - 1 \in 0 .. N /\ ~(k <= k - 1)
      BY <2>2, <2>4
    <3>1. k - 1 \in 0 .. N /\ k - 1 \notin bad
      BY <2>1, <3>0
    <3>2. PICK g : Is(g, k - 1)
      BY <3>1
    <3> DEFINE h == [n \in 0 .. k |-> IF n = k THEN SendNet(o, sign, g[k - 1], entries[k]) ELSE g[n]]
    <3>3. \A n \in 0 .. k - 1 : g[n] = IF n = 0 THEN y ELSE SendNet(o, sign, g[n - 1], entries[n])
      BY <3>2
    <3>4. \A n \in 0 .. k : h[n] = IF n = 0 THEN y ELSE SendNet(o, sign, h[n - 1], entries[n])
      <4> TAKE n \in 0 .. k
      <4>1. CASE n = k
        <5>1. h[n] = SendNet(o, sign, g[k - 1], entries[k]) /\ h[n - 1] = g[n - 1]
          BY <2>2, <2>4, <4>1
        <5> QED BY <2>4, <4>1, <5>1
      <4>2. CASE n # k /\ n = 0
        BY <2>2, <2>4, <3>3, <4>2
      <4>3. CASE n # k /\ n # 0
        <5>1. n \in 0 .. k - 1 /\ h[n] = g[n] /\ h[n - 1] = g[n - 1]
          BY <2>2, <2>4, <4>3
        <5> QED BY <3>3, <4>3, <5>1
      <4> QED BY <4>1, <4>2, <4>3
    <3>5. h = [n \in 0 .. k |-> h[n]]
      OBVIOUS
    <3> HIDE DEF h
    <3>6. Is(h, k)
      BY <3>4, <3>5
    <3> QED BY <2>1, <3>6
  <2> QED BY <2>3, <2>4
<1>3. \E h : Is(h, N)
  <2>1. N \in 0 .. N
    OBVIOUS
  <2> QED BY <1>2, <2>1
<1>4. Is(all, N)
  BY <1>3, Zenon
<1> HIDE DEF all
<1>5. \A n \in 0 .. N : all[n] = IF n = 0 THEN y ELSE SendNet(o, sign, all[n - 1], entries[n])
  BY <1>4
<1>6. all[0] = y /\ \A n \in 1 .. N : all[n] = SendNet(o, sign, all[n - 1], entries[n])
  BY <1>5
<1> QED BY <1>1, <1>6 DEF ScanOf

LEMMA SendAllSends ==
  ASSUME IInv, NEW o \in query, Plan[o].kind \in Changing, op[o].curTs \in Nat,
         NEW f, FlowOK(query, f), NEW y, Sending(o, f, y), NEW entries, Counts(entries),
         NEW sign \in {1, -1}
  PROVE  Sending(o, f, SendAll(o, sign, y, entries))
<1>1. Len(entries) \in Nat /\ \A n \in 1 .. Len(entries) : Entry(entries[n])
  BY SeqFacts DEF Counts
<1>0. \E h : ScanOf(o, sign, y, entries, h)
  BY <1>1, ScanExists
<1>2. PICK h : /\ SendAll(o, sign, y, entries) = h[Len(entries)]
               /\ h[0] = y
               /\ \A n \in 1 .. Len(entries) : h[n] = SendNet(o, sign, h[n - 1], entries[n])
  BY <1>0 DEF ScanOf
<1> DEFINE bad == {n \in 0 .. Len(entries) : ~Sending(o, f, h[n])}
<1>3. bad = {}
  <2> SUFFICES ASSUME bad # {} PROVE FALSE
    OBVIOUS
  <2>1. PICK k \in bad : \A l \in bad : k <= l
    <3>1. bad \subseteq Nat
      OBVIOUS
    <3> HIDE DEF bad
    <3> QED BY <3>1, LeastOf
  <2>2. k # 0
    BY <1>2
  <2>3. k - 1 \in 0 .. Len(entries) /\ k - 1 \notin bad /\ k \in 1 .. Len(entries)
    BY <1>1, <2>1, <2>2
  <2>4. Sending(o, f, h[k - 1]) /\ h[k] = SendNet(o, sign, h[k - 1], entries[k])
        /\ Entry(entries[k])
    BY <1>1, <1>2, <2>3
  <2>5. Sending(o, f, SendNet(o, sign, h[k - 1], entries[k]))
    BY <2>4, SendNetSends
  <2> QED BY <2>1, <2>4, <2>5
<1>4. Len(entries) \in 0 .. Len(entries)
  BY <1>1
<1> QED BY <1>2, <1>3, <1>4

(* What the calls of the operator do, and what they leave in its state.    *)
Changed(o, f, x, ts) ==
    /\ DOMAIN x = {"flow", "op"} /\ DOMAIN x.op = DOMAIN IstreamInit
    /\ Put(query, Plan[o].out, f, x.flow) /\ FlowOK(query, x.flow)
    /\ x.op.lastInputTs = ts
    /\ x.op.curTs \in Nat /\ x.op.curTs <= ts /\ Promise(o, x.flow) <= x.op.curTs
    /\ x.op.bStalled \in BOOLEAN
    /\ ~x.op.bStalled => x.op.curTs = ts
    /\ x.op.bStalled => x.op.synopsis # <<>>
    /\ Counts(x.op.synopsis)

LEMMA ProducedChanged ==
  ASSUME IInv, NEW o \in query, Plan[o].kind \in Changing, NEW f, NEW s, NEW y, Sending(o, f, y),
         DOMAIN s = DOMAIN IstreamInit, s.curTs = op[o].curTs, s.curTs \in Nat,
         s.lastInputTs \in Nat, s.curTs <= s.lastInputTs
  PROVE  Changed(o, f, Produced(s, y), s.lastInputTs)
<1> DEFINE x == Produced(s, y)
<1>1. DOMAIN s = {"lastInputTs", "lastOutputTs", "curTs", "synopsis", "bStalled", "stallElement"}
  BY DEF IstreamInit
<1>2. /\ DOMAIN x = {"flow", "op"} /\ x.flow = y.flow /\ DOMAIN x.op = DOMAIN s
      /\ x.op.synopsis = y.rest /\ x.op.bStalled = y.bStalled /\ x.op.lastInputTs = s.lastInputTs
      /\ x.op.curTs = IF y.bStalled THEN s.curTs ELSE s.lastInputTs
  BY <1>1 DEF Produced
<1> HIDE DEF x
<1>3. Put(query, Plan[o].out, f, y.flow) /\ Promise(o, y.flow) <= s.curTs /\ FlowOK(query, y.flow)
      /\ y.bStalled \in BOOLEAN /\ Counts(y.rest) /\ (y.bStalled => y.rest # <<>>)
  BY DEF Sending, Sends
<1>4. Promise(o, y.flow) \in Nat
  <2>1. Plan[o].out \in Outs(query)
    BY Base, Single, OutOK DEF Changing
  <2> QED BY <1>3, <2>1, FlowFields DEF Promise
<1>5. Changed(o, f, x, s.lastInputTs)
  BY <1>2, <1>3, <1>4 DEF Changed
<1> QED BY <1>5 DEF x

LEMMA NetChanged ==
  ASSUME IInv, NEW o \in query, Plan[o].kind \in Changing, NEW f, FlowOK(query, f),
         NEW x, NEW ts, Changed(o, f, x, ts), ~x.op.bStalled, NEW e
  PROVE  Changed(o, f, Net(o, x, e), ts) /\ ~Net(o, x, e).op.bStalled
<1> DEFINE v == Plan[o].value[e.tuple]
           unit == IF e.kind = PLUS THEN 1 ELSE -1
           g == NetTupleCounted(o, x.op, x.flow, v, unit)
           h == decrRef(g, e.tuple)
           syn == Tallied(x.op, v, unit)
           z == Net(o, x, e)
<1>1. CASE ~IsData(e)
  BY <1>1 DEF Net
<1>2. CASE IsData(e)
  <2>1. z = [flow |-> h, op |-> [x.op EXCEPT !.synopsis = syn]]
    BY <1>2 DEF Net
  <2>2. FlowOK(query, x.flow) /\ DOMAIN x.op = DOMAIN IstreamInit
    BY DEF Changed
  <2>3. SameQueues(x.flow, g)
    <3> HIDE DEF v, unit
    <3>1. CASE EntryOf(x.op, v) = {}
      <4>1. g = newTuple(x.flow, NetTuple(o, v))
        BY <3>1 DEF NetTupleCounted, EntryOf
      <4> QED BY <2>2, <4>1, SameOfCounts
    <3>2. CASE EntryOf(x.op, v) # {}
      <4>1. g = x.flow \/ g = decrRef(x.flow, NetTuple(o, v))
        BY <3>2 DEF NetTupleCounted
      <4> QED BY <2>2, <4>1, SameOfCounts
    <3> QED BY <3>1, <3>2
  <2>4. SameQueues(x.flow, h) /\ FlowOK(query, h)
    <3> HIDE DEF g
    <3>1. FlowOK(query, g)
      BY <2>2, <2>3, SameIsOK
    <3>2. SameQueues(g, h)
      BY <3>1, SameOfCounts
    <3> HIDE DEF h
    <3> QED BY <2>2, <2>3, <3>2, SameSame, SameIsOK
  <2>5. Counts(syn)
    <3>1. unit \in Int /\ Counts(x.op.synopsis)
      BY DEF Changed
    <3> HIDE DEF unit, v
    <3> QED BY <3>1, TalliedCounts
  <2> HIDE DEF h, syn
  <2>6. DOMAIN x.op = {"lastInputTs", "lastOutputTs", "curTs", "synopsis", "bStalled", "stallElement"}
    BY <2>2 DEF IstreamInit
  <2>7. /\ DOMAIN z = {"flow", "op"} /\ z.flow = h /\ DOMAIN z.op = DOMAIN x.op
        /\ z.op.synopsis = syn /\ z.op.bStalled = x.op.bStalled
        /\ z.op.lastInputTs = x.op.lastInputTs /\ z.op.curTs = x.op.curTs
    BY <2>1, <2>6
  <2> HIDE DEF z
  <2>8. Put(query, Plan[o].out, f, h) /\ Promise(o, h) = Promise(o, x.flow)
    <3>1. query \in Queries /\ HasOutput(o)
      BY Base, Single DEF Changing
    <3>2. Plan[o].out \in Outs(query)
      BY <3>1, OutOK
    <3>3. Put(query, Plan[o].out, x.flow, h)
      BY <2>2, <2>4, <3>2, PutNothing
    <3>4. Put(query, Plan[o].out, f, x.flow)
      BY DEF Changed
    <3> QED BY <2>4, <3>2, <3>3, <3>4, PutPut, SameOutput
  <2>9. Changed(o, f, z, ts) /\ ~z.op.bStalled
    BY <2>4, <2>5, <2>7, <2>8 DEF Changed
  <2> QED BY <2>9 DEF z
<1> QED BY <1>1, <1>2

LEMMA NetOrStallChanged ==
  ASSUME IInv, NEW o \in query, Plan[o].kind \in Changing, NEW f, FlowOK(query, f),
         NEW x, NEW ts, Changed(o, f, x, ts), NEW e, e.kind \in KindOf
  PROVE  LET z == NetOrStall(o, x, e)
         IN  Changed(o, f, z, ts) /\ (z.op.bStalled => z.op.stallElement.kind \in KindOf)
<1> DEFINE z == NetOrStall(o, x, e)
<1>1. DOMAIN x = {"flow", "op"}
      /\ DOMAIN x.op = {"lastInputTs", "lastOutputTs", "curTs", "synopsis", "bStalled", "stallElement"}
  BY DEF Changed, IstreamInit
<1> DEFINE y(d) == [x EXCEPT !.op.stallElement = d]
<1>2. \A d : /\ DOMAIN y(d) = DOMAIN x /\ y(d).flow = x.flow /\ DOMAIN y(d).op = DOMAIN x.op
             /\ y(d).op.stallElement = d /\ y(d).op.synopsis = x.op.synopsis
             /\ y(d).op.bStalled = x.op.bStalled /\ y(d).op.lastInputTs = x.op.lastInputTs
             /\ y(d).op.curTs = x.op.curTs
  BY <1>1
<1> HIDE DEF y
<1>3. \A d : Changed(o, f, y(d), ts)
  BY <1>2 DEF Changed
<1>4. CASE x.op.bStalled
  <2>1. z = y(e)
    BY <1>4 DEF NetOrStall, y
  <2> QED BY <1>2, <1>3, <2>1
<1>5. CASE ~x.op.bStalled
  <2>1. z = Net(o, y(Heartbeat(0)), e)
    BY <1>5 DEF NetOrStall, y
  <2>2. Changed(o, f, y(Heartbeat(0)), ts) /\ ~y(Heartbeat(0)).op.bStalled
    BY <1>2, <1>3, <1>5
  <2>3. Changed(o, f, z, ts) /\ ~z.op.bStalled
    BY <2>1, <2>2, NetChanged
  <2> QED BY <2>3
<1> QED BY <1>4, <1>5

LEMMA ProduceChanged ==
  ASSUME IInv, NEW o \in query, Plan[o].kind \in Changing, NEW f, FlowOK(query, f), NEW s,
         DOMAIN s = DOMAIN IstreamInit, s.curTs = op[o].curTs, s.curTs \in Nat,
         s.lastInputTs \in Nat, s.curTs <= s.lastInputTs, Counts(s.synopsis),
         Promise(o, f) <= s.curTs, NEW sign \in {1, -1}
  PROVE  Changed(o, f, ProduceOutput(o, sign, s, f), s.lastInputTs)
<1> DEFINE y == NothingSent(f)
<1>1. query \in Queries /\ HasOutput(o)
  BY Base, Single DEF Changing
<1>2. DOMAIN y = {"flow", "bStalled", "sent", "rest"} /\ y.flow = f /\ y.bStalled = FALSE
      /\ y.rest = <<>>
  BY DEF NothingSent
<1> HIDE DEF y
<1>3. Sending(o, f, y)
  BY <1>1, <1>2, SameOfCounts, SendsNothing, NoCounts DEF Sending
<1>4. Sending(o, f, SendAll(o, sign, y, s.synopsis))
  BY <1>3, SendAllSends
<1> QED BY <1>4, ProducedChanged DEF ProduceOutput, y

LEMMA ResumeChanged ==
  ASSUME IInv, NEW o \in query, Plan[o].kind \in Changing, FlowOK(query, flow), NEW s, s = op[o],
         DOMAIN s = DOMAIN IstreamInit, s.curTs \in Nat,
         s.lastInputTs \in Nat, s.curTs <= s.lastInputTs, Counts(s.synopsis), s.synopsis # <<>>,
         Promise(o, flow) <= s.curTs, NEW sign \in {1, -1}
  PROVE  Changed(o, flow, ResumeOutput(o, sign, s), s.lastInputTs)
<1> DEFINE y == NothingSent(flow)
           first == ResumeNet(o, sign, y, Head(s.synopsis))
           z == SendAll(o, sign, first, Tail(s.synopsis))
<1>1. query \in Queries /\ HasOutput(o)
  BY Base, Single DEF Changing
<1>2. DOMAIN y = {"flow", "bStalled", "sent", "rest"} /\ y.flow = flow /\ y.bStalled = FALSE
      /\ y.rest = <<>>
  BY DEF NothingSent
<1>3. ResumeOutput(o, sign, s) = Produced(s, z)
  BY DEF ResumeOutput
<1> HIDE DEF y
<1>4. Sending(o, flow, y)
  BY <1>1, <1>2, SameOfCounts, SendsNothing, NoCounts DEF Sending
<1>5. Entry(Head(s.synopsis)) /\ Counts(Tail(s.synopsis))
  BY CountsParts
<1>6. Sending(o, flow, first)
  BY <1>2, <1>4, <1>5, ResumeNetSends
<1> HIDE DEF first
<1>7. Sending(o, flow, z)
  BY <1>5, <1>6, SendAllSends
<1> HIDE DEF z
<1> QED BY <1>3, <1>7, ProducedChanged

LEMMA ChangesKept ==
  ASSUME IInv, NEW o \in query, Plan[o].kind \in Changing, Moved(query, o, flow, flow'),
         DOMAIN op' = query, \A p \in query \ {o} : op'[p] = op[p],
         ChangesInv(o, op'[o], flow'), running' \in {o, Idle, Failed},
         running' = o => ~op'[o].bStalled, slice' \in 0 .. TimeSlice
  PROVE  StepOf(o)
<1>1. OpInv(o, op'[o], flow') /\ (running' = o => RunInv(o, op'[o], flow', slice'))
  BY OpInvIs, RunInvIs DEF Changing
<1> QED BY <1>1, NoFeeds DEF StepOf, Changing

LEMMA ChangesBegins ==
  ASSUME IInv, NEW o \in query, Plan[o].kind \in Changing, NEW sign \in {1, -1}, ChangesBegin(o, sign)
  PROVE  StepOf(o)
<1>1. /\ query \in Queries /\ o \in Op /\ HasOutput(o) /\ Ports(o) = {"in"}
      /\ FlowOK(query, flow) /\ DOMAIN op = query /\ ChangesInv(o, op[o], flow)
  BY Base, Single, OpInvIs DEF Changing
<1>2. CASE ~op[o].bStalled
  BY <1>2, Control, NothingDone, RunInvIs DEF ChangesBegin, Changing
<1>3. CASE op[o].bStalled
  <2> DEFINE s == op[o]
             e == op[o].stallElement
             ts == s.lastInputTs
             x == NetOrStall(o, ResumeOutput(o, sign, s), e)
  <2>1. /\ flow' = x.flow /\ op' = [op EXCEPT ![o] = x.op]
        /\ IF x.op.bStalled THEN Return ELSE Begin(o)
    BY <1>3 DEF ChangesBegin, BeginUnlessStalled, Became, ClearNetStall
  <2>2. /\ DOMAIN s = DOMAIN IstreamInit /\ s.curTs \in Nat /\ s.lastInputTs \in Nat
        /\ s.curTs <= s.lastInputTs /\ Counts(s.synopsis) /\ s.synopsis # <<>>
        /\ Promise(o, flow) <= s.curTs /\ e.kind \in KindOf
        /\ NotBefore(flow, Plan[o].in, ts)
    BY <1>1, <1>3 DEF ChangesInv, Reads
  <2>3. Changed(o, flow, ResumeOutput(o, sign, s), ts)
    BY <1>1, <2>2, ResumeChanged
  <2> HIDE DEF e, ts
  <2>4. Changed(o, flow, x, ts) /\ (x.op.bStalled => x.op.stallElement.kind \in KindOf)
    BY <1>1, <2>2, <2>3, NetOrStallChanged
  <2> HIDE DEF x, s
  <2>5. DOMAIN op' = query /\ op'[o] = x.op /\ \A q \in query \ {o} : op'[q] = op[q]
    BY <1>1, <2>1
  <2>6. Put(query, Plan[o].out, flow, flow')
    BY <2>1, <2>4 DEF Changed
  <2>7. Moved(query, o, flow, flow')
    BY <1>1, <2>6, ReadNothing, MovedBy
  <2>8. NotBefore(flow', Plan[o].in, ts) /\ ts \in Nat
    BY <1>1, <2>2, <2>6, PutKeepsIn DEF ts
  <2>9. ChangesInv(o, op'[o], flow')
    BY <2>1, <2>4, <2>5, <2>8 DEF ChangesInv, Changed, Reads
  <2>10. running' \in {o, Idle, Failed} /\ slice' \in 0 .. TimeSlice
         /\ (running' = o => ~op'[o].bStalled)
    BY <2>1, <2>5, Control
  <2> QED BY <2>5, <2>7, <2>9, <2>10, ChangesKept
<1> QED BY <1>2, <1>3

LEMMA ChangesIterates ==
  ASSUME IInv, NEW o \in query, Plan[o].kind \in Changing, NEW sign \in {1, -1},
         ChangesIterate(o, sign)
  PROVE  StepOf(o)
<1> DEFINE e == peek(flow, Plan[o].in)
           f == dequeue(flow, Plan[o].in)
           s == [op[o] EXCEPT !.lastInputTs = e.timestamp]
           x == Receive(o, sign, s, f, e)
           ts == e.timestamp
<1>1. /\ query \in Queries /\ o \in Op /\ HasOutput(o) /\ Ports(o) = {"in"} /\ "in" \in Ports(o)
      /\ FlowOK(query, flow) /\ DOMAIN op = query /\ ChangesInv(o, op[o], flow)
  BY Base, Single, OpInvIs DEF Changing
<1>2. /\ running = o /\ ~isEmpty(flow, Plan[o].in) /\ MayIterate(o)
      /\ flow' = x.flow /\ op' = [op EXCEPT ![o] = x.op]
      /\ IF x.op.bStalled THEN Return ELSE Loop
  BY DEF ChangesIterate, ChangesStuck, LoopUnlessStalled, Became, MayIterate
<1>3. /\ FlowOK(query, f) /\ Read(query, o, flow, f) /\ Promise(o, f) = Promise(o, flow)
      /\ e.kind \in KindOf /\ ts \in Nat /\ NotBefore(f, Plan[o].in, ts)
      /\ \A n : NotBefore(flow, Plan[o].in, n) => n <= ts
  <2>1. /\ FlowOK(query, f) /\ Read(query, o, flow, f) /\ Promise(o, f) = Promise(o, flow)
        /\ e.kind \in KindOf /\ ts \in Nat
    BY <1>1, <1>2, Taking
  <2>2. \A n : NotBefore(flow, Plan[o].in, n) => n <= ts
    BY <1>1, <1>2, Taking
  <2>3. NotBefore(flow, Plan[o].in, ts)
    BY <1>1, <1>2, PeekFacts
  <2>4. NotBefore(f, Plan[o].in, ts)
    BY <1>1, <1>2, <2>3, DequeueReads
  <2> QED BY <2>1, <2>2, <2>4
<1>4. ~op[o].bStalled /\ op[o].bStalled \in BOOLEAN
  BY <1>1, <1>2, Base, RunInvIs DEF ChangesInv, Changing
<1>5. /\ DOMAIN op[o] = {"lastInputTs", "lastOutputTs", "curTs", "synopsis", "bStalled", "stallElement"}
      /\ op[o].curTs \in Nat /\ op[o].curTs = op[o].lastInputTs /\ op[o].lastInputTs <= ts
      /\ Promise(o, flow) <= op[o].curTs /\ Counts(op[o].synopsis)
  BY <1>1, <1>3, <1>4 DEF ChangesInv, Reads, IstreamInit
<1>6. /\ DOMAIN s = DOMAIN IstreamInit /\ s.lastInputTs = ts /\ s.curTs = op[o].curTs
      /\ s.synopsis = op[o].synopsis /\ s.bStalled = op[o].bStalled
  BY <1>5 DEF IstreamInit
<1> HIDE DEF s, f, e
<1>7. Changed(o, f, x, ts) /\ (x.op.bStalled => x.op.stallElement.kind \in KindOf)
  <2>1. CASE Late(s)
    <3> DEFINE y == ProduceOutput(o, sign, s, f)
    <3>1. x = NetOrStall(o, y, e)
      BY <2>1 DEF Receive
    <3>2. Changed(o, f, y, ts)
      BY <1>3, <1>5, <1>6, ProduceChanged
    <3> HIDE DEF x, y
    <3> QED BY <1>3, <3>1, <3>2, NetOrStallChanged
  <2>2. CASE ~Late(s)
    <3> DEFINE y == [flow |-> f, op |-> s]
    <3>1. x = Net(o, y, e)
      BY <2>2 DEF Receive
    <3>2. s.curTs = ts
      BY <1>3, <1>5, <1>6, <2>2 DEF Late
    <3>3. DOMAIN y = {"flow", "op"} /\ y.flow = f /\ y.op = s
      OBVIOUS
    <3> HIDE DEF y
    <3>4. Put(query, Plan[o].out, f, f)
      BY <1>1, <1>3, OutOK, SameOfCounts, PutNothing
    <3>5. Changed(o, f, y, ts)
      BY <1>3, <1>4, <1>5, <1>6, <3>2, <3>3, <3>4 DEF Changed
    <3> HIDE DEF x
    <3> QED BY <1>3, <1>4, <1>6, <3>1, <3>3, <3>5, NetChanged
  <2> QED BY <2>1, <2>2
<1> HIDE DEF x
<1>8. DOMAIN op' = query /\ op'[o] = x.op /\ \A q \in query \ {o} : op'[q] = op[q]
  BY <1>1, <1>2
<1>9. Put(query, Plan[o].out, f, flow')
  BY <1>2, <1>7 DEF Changed
<1>10. Moved(query, o, flow, flow')
  BY <1>1, <1>3, <1>9, MovedBy
<1>11. NotBefore(flow', Plan[o].in, ts)
  BY <1>1, <1>3, <1>9, PutKeepsIn
<1>12. ChangesInv(o, op'[o], flow')
  BY <1>2, <1>3, <1>7, <1>8, <1>11 DEF ChangesInv, Changed, Reads
<1>13. running' \in {o, Idle, Failed} /\ slice' \in 0 .. TimeSlice
       /\ (running' = o => ~op'[o].bStalled)
  BY <1>2, <1>8, Control
<1> QED BY <1>8, <1>10, <1>12, <1>13, ChangesKept

LEMMA DstreamStep ==
  ASSUME IInv, NEW o \in query, Plan[o].kind = "dstream",
         DstreamBegin(o) \/ DstreamIterate(o) \/ DstreamEnd(o)
  PROVE  StepOf(o)
<1>1. Plan[o].kind \in Changing
  BY DEF Changing
<1>2. CASE DstreamBegin(o)
  BY <1>1, <1>2, ChangesBegins DEF DstreamBegin
<1>3. CASE DstreamIterate(o)
  BY <1>1, <1>3, ChangesIterates DEF DstreamIterate
<1>4. CASE DstreamEnd(o)
  BY <1>4, Control, NothingDone DEF DstreamEnd
<1> QED BY <1>2, <1>3, <1>4

LEMMA IstreamStep ==
  ASSUME IInv, NEW o \in query, Plan[o].kind = "istream",
         IstreamBegin(o) \/ IstreamIterate(o) \/ IstreamEnd(o)
  PROVE  StepOf(o)
<1>1. Plan[o].kind \in Changing
  BY DEF Changing
<1>2. CASE IstreamBegin(o)
  BY <1>1, <1>2, ChangesBegins DEF IstreamBegin
<1>3. CASE IstreamIterate(o)
  BY <1>1, <1>3, ChangesIterates DEF IstreamIterate
<1>4. CASE IstreamEnd(o)
  <2>1. /\ query \in Queries /\ HasOutput(o) /\ Ports(o) = {"in"} /\ ChangesInv(o, op[o], flow)
        /\ running = o /\ Return
    BY <1>4, Base, Single, OpInvIs DEF IstreamEnd, MayEnd
  <2>2. ~op[o].bStalled
    BY <2>1, Base, RunInvIs
  <2>3. /\ DOMAIN op[o] = {"lastInputTs", "lastOutputTs", "curTs", "synopsis", "bStalled", "stallElement"}
        /\ op[o].lastInputTs \in Nat /\ op[o].curTs = op[o].lastInputTs
        /\ Promise(o, flow) <= op[o].lastInputTs
    BY <2>1, <2>2 DEF ChangesInv, Reads, IstreamInit
  <2>4. IF HeartbeatDue(o, op[o].lastInputTs)
        THEN /\ flow' = enqueue(flow, Plan[o].out, Heartbeat(op[o].lastInputTs))
             /\ op' = [op EXCEPT ![o].lastOutputTs = op[o].lastInputTs]
        ELSE UNCHANGED <<flow, op>>
    BY <1>4 DEF IstreamEnd
  <2>5. "lastOutputTs" \in DOMAIN op[o]
    BY <2>3
  <2>6. /\ Moved(query, o, flow, flow') /\ Promise(o, flow') <= op[o].lastInputTs
        /\ DOMAIN op' = query /\ \A p \in query \ {o} : op'[p] = op[p]
    BY <2>1, <2>3, <2>4, <2>5, EndOp
  <2>7. DOMAIN op'[o] = DOMAIN op[o] /\ \A x \in DOMAIN op[o] \ {"lastOutputTs"} : op'[o][x] = op[o][x]
    BY <2>1, <2>3, <2>4, <2>5, EndOp
  <2>8. NotBefore(flow', Plan[o].in, op[o].lastInputTs)
    <3>1. "in" \in Ports(o) /\ NotBefore(flow, Plan[o].in, op[o].lastInputTs)
      BY <2>1 DEF ChangesInv, Reads
    <3> QED BY <2>1, <2>3, <2>4, <2>5, <3>1, EndOp
  <2>9. /\ op'[o].lastInputTs = op[o].lastInputTs /\ op'[o].curTs = op[o].curTs
        /\ op'[o].bStalled = op[o].bStalled /\ op'[o].synopsis = op[o].synopsis
        /\ op'[o].stallElement = op[o].stallElement
    BY <2>3, <2>7
  <2>10. ChangesInv(o, op'[o], flow')
    BY <2>1, <2>3, <2>6, <2>7, <2>8, <2>9 DEF ChangesInv, Reads
  <2> QED BY <1>1, <2>1, <2>6, <2>10, Control, ChangesKept
<1> QED BY <1>2, <1>3, <1>4

-----------------------------------------------------------------------------
(***************************************************************************)
(* The stream of a relation at every instant.                              *)
(***************************************************************************)
ScansOf(o, x, N, h) == h = [n \in 0 .. N |-> IF n = 0 THEN x ELSE SendInstant(o, h[n - 1])]

LEMMA ScansExist ==
  ASSUME NEW o, NEW x, NEW N \in Nat
  PROVE  \E h : ScansOf(o, x, N, h)
<1> DEFINE Is(h, k) == h = [n \in 0 .. k |-> IF n = 0 THEN x ELSE SendInstant(o, h[n - 1])]
           bad == {k \in 0 .. N : ~\E h : Is(h, k)}
<1>2. bad = {}
  <2> SUFFICES ASSUME bad # {} PROVE FALSE
    OBVIOUS
  <2>1. PICK k \in bad : \A l \in bad : k <= l
    <3>1. bad \subseteq Nat
      OBVIOUS
    <3> HIDE DEF bad
    <3> QED BY <3>1, LeastOf
  <2>2. k \in Nat /\ k <= N
    OBVIOUS
  <2>3. CASE k = 0
    <3> DEFINE h == [n \in 0 .. 0 |-> x]
    <3>1. h = [n \in 0 .. 0 |-> IF n = 0 THEN x ELSE SendInstant(o, h[n - 1])]
      OBVIOUS
    <3>2. Is(h, k)
      BY <2>3, <3>1
    <3> QED BY <2>1, <3>2
  <2>4. CASE k # 0
    <3>0. k - 1 \in 0 .. N /\ ~(k <= k - 1)
      BY <2>2, <2>4
    <3>1. k - 1 \in 0 .. N /\ k - 1 \notin bad
      BY <2>1, <3>0
    <3>2. PICK g : Is(g, k - 1)
      BY <3>1
    <3> DEFINE h == [n \in 0 .. k |-> IF n = k THEN SendInstant(o, g[k - 1]) ELSE g[n]]
    <3>3. \A n \in 0 .. k - 1 : g[n] = IF n = 0 THEN x ELSE SendInstant(o, g[n - 1])
      BY <3>2
    <3>4. \A n \in 0 .. k : h[n] = IF n = 0 THEN x ELSE SendInstant(o, h[n - 1])
      <4> TAKE n \in 0 .. k
      <4>1. CASE n = k
        <5>1. h[n] = SendInstant(o, g[k - 1]) /\ h[n - 1] = g[n - 1]
          BY <2>2, <2>4, <4>1
        <5> QED BY <2>4, <4>1, <5>1
      <4>2. CASE n # k /\ n = 0
        BY <2>2, <2>4, <3>3, <4>2
      <4>3. CASE n # k /\ n # 0
        <5>1. n \in 0 .. k - 1 /\ h[n] = g[n] /\ h[n - 1] = g[n - 1]
          BY <2>2, <2>4, <4>3
        <5> QED BY <3>3, <4>3, <5>1
      <4> QED BY <4>1, <4>2, <4>3
    <3>5. h = [n \in 0 .. k |-> h[n]]
      OBVIOUS
    <3> HIDE DEF h
    <3>6. Is(h, k)
      BY <3>4, <3>5
    <3> QED BY <2>1, <3>6
  <2> QED BY <2>3, <2>4
<1>3. N \in 0 .. N
  OBVIOUS
<1> QED BY <1>2, <1>3 DEF ScansOf

(* The flow and the state while the instants before ts are sent.           *)
SentBefore(o, f, x, ts) ==
    /\ DOMAIN x = {"flow", "op"} /\ DOMAIN x.op = DOMAIN RstreamInit
    /\ Put(query, Plan[o].out, f, x.flow) /\ FlowOK(query, x.flow)
    /\ x.op.lastInputTs \in Nat /\ Promise(o, x.flow) <= x.op.lastInputTs
    /\ x.op.lastInputTs <= ts
    /\ IsSeq(x.op.synopsis) /\ IsSeq(x.op.rest)
    /\ x.op.bStalled \in BOOLEAN
    /\ x.op.bStalled => x.op.lastInputTs < ts

LEMMA ScanSends ==
  ASSUME IInv, NEW o \in query, Plan[o].kind = "rstream", NEW f, FlowOK(query, f),
         NEW x, NEW ts \in Nat, SentBefore(o, f, x, ts), x.op.lastInputTs < ts, NEW scan, IsSeq(scan)
  PROVE  LET z == SendScan(o, x, scan)
         IN  SentBefore(o, f, z, ts) /\ z.op.lastInputTs = x.op.lastInputTs
             /\ z.op.synopsis = x.op.synopsis /\ z.op.stallElement = x.op.stallElement
<1> DEFINE space == Space(x.flow, Plan[o].out)
           n == Min({Len(scan), space})
           now == x.op.lastInputTs
           made == [i \in 1 .. n |-> Copy(o, now, scan[i])]
           g == insertAll(x.flow, Plan[o].out, made, now)
           z == SendScan(o, x, scan)
<1>1. /\ query \in Queries /\ o \in Op /\ HasOutput(o)
      /\ Plan[o].out \in Outs(query) /\ Reader(Plan[o].out) # {}
  BY Base, Single, OutOK
<1>2. /\ FlowOK(query, x.flow) /\ now \in Nat /\ Promise(o, x.flow) <= now
      /\ DOMAIN x.op = {"lastInputTs", "lastOutputTs", "synopsis", "bStalled", "stallElement", "rest"}
      /\ IsSeq(x.op.synopsis) /\ Put(query, Plan[o].out, f, x.flow)
  BY DEF SentBefore, RstreamInit
<1>3. n \in Nat /\ n <= space /\ Len(scan) \in Nat /\ space \in Nat
  <2>1. space \in Nat
    BY <1>1, <1>2, SpaceFacts, SizesAssumption
  <2>2. Len(scan) \in Nat
    BY SeqFacts
  <2> HIDE DEF space
  <2> QED BY <2>1, <2>2, MinOfTwo
<1>4. z = Scanned(o, x.op, g, n, scan)
  BY DEF SendScan, SendSomeOf, SendCopiesOf
<1>5. IsSeq(made) /\ Len(made) = n
  <2>1. made = [i \in 1 .. n |-> made[i]]
    OBVIOUS
  <2> HIDE DEF made, n
  <2> QED BY <1>3, <2>1, FunctionIsSeq
<1> HIDE DEF made, n
<1>6. Put(query, Plan[o].out, x.flow, g) /\ Promise(o, g) <= now
  BY <1>1, <1>2, <1>3, <1>5, InsertAllPuts DEF Promise
<1> HIDE DEF g, now
<1>7. Put(query, Plan[o].out, f, g) /\ FlowOK(query, g)
  BY <1>1, <1>2, <1>6, PutPut DEF Put
<1> DEFINE full == isFull(g, Plan[o].out)
           rest == IF full THEN SubSeq(scan, n + 1, Len(scan)) ELSE <<>>
<1>8. /\ DOMAIN z = {"flow", "op"} /\ z.flow = g /\ DOMAIN z.op = DOMAIN x.op
      /\ z.op.lastInputTs = x.op.lastInputTs /\ z.op.synopsis = x.op.synopsis
      /\ z.op.stallElement = x.op.stallElement
      /\ z.op.bStalled = full /\ z.op.rest = rest
  <2>1. z = [flow |-> g,
             op   |-> [x.op EXCEPT !.lastOutputTs = IF n = 0 THEN @ ELSE x.op.lastInputTs,
                                   !.bStalled = full, !.rest = rest]]
    BY <1>4 DEF Scanned
  <2> HIDE DEF z, rest, full
  <2> QED BY <1>2, <2>1
<1>9. IsSeq(rest)
  BY <1>3, RestIsSeq, EmptyIsSeq
<1>10. z.op.bStalled \in BOOLEAN
  <2>1. full \in BOOLEAN
    BY DEF isFull
  <2> HIDE DEF full
  <2> QED BY <1>8, <2>1
<1> HIDE DEF z, rest, full
<1>11. SentBefore(o, f, z, ts)
  BY <1>2, <1>6, <1>7, <1>8, <1>9, <1>10 DEF SentBefore, RstreamInit, now
<1> QED BY <1>8, <1>11 DEF z

LEMMA NextOfInstant ==
  ASSUME NEW o, NEW f, NEW x, NEW ts \in Nat, SentBefore(o, f, x, ts), x.op.lastInputTs < ts,
         Promise(o, x.flow) \in Nat
  PROVE  LET z == NextInstant(x)
         IN  /\ SentBefore(o, f, z, ts) /\ z.op.stallElement = x.op.stallElement
             /\ ~z.op.bStalled => z.op.lastInputTs = x.op.lastInputTs + 1
             /\ z.op.bStalled => z.op.lastInputTs = x.op.lastInputTs
<1> DEFINE z == NextInstant(x)
<1>1. CASE x.op.bStalled
  BY <1>1 DEF NextInstant
<1>2. CASE ~x.op.bStalled
  <2>1. /\ DOMAIN x = {"flow", "op"}
        /\ DOMAIN x.op = {"lastInputTs", "lastOutputTs", "synopsis", "bStalled", "stallElement", "rest"}
        /\ x.op.lastInputTs \in Nat /\ x.op.bStalled \in BOOLEAN
    BY DEF SentBefore, RstreamInit
  <2>2. z = [x EXCEPT !.op.lastInputTs = @ + 1]
    BY <1>2 DEF NextInstant
  <2>3. /\ DOMAIN z = DOMAIN x /\ z.flow = x.flow /\ DOMAIN z.op = DOMAIN x.op
        /\ z.op.lastInputTs = x.op.lastInputTs + 1 /\ z.op.synopsis = x.op.synopsis
        /\ z.op.stallElement = x.op.stallElement
        /\ z.op.bStalled = x.op.bStalled /\ z.op.rest = x.op.rest
    BY <2>1, <2>2
  <2> HIDE DEF z
  <2>4. SentBefore(o, f, z, ts)
    BY <1>2, <2>1, <2>3 DEF SentBefore
  <2>5. ~z.op.bStalled
    BY <1>2, <2>3
  <2> QED BY <2>3, <2>4, <2>5 DEF z
<1> QED BY <1>1, <1>2

LEMMA InstantsSent ==
  ASSUME IInv, NEW o \in query, Plan[o].kind = "rstream", NEW f, FlowOK(query, f),
         NEW x, NEW ts \in Nat, SentBefore(o, f, x, ts)
  PROVE  LET z == SendInstants(o, x, ts)
         IN  SentBefore(o, f, z, ts) /\ (~z.op.bStalled => z.op.lastInputTs = ts)
<1> DEFINE N == ts - x.op.lastInputTs
           start == x.op.lastInputTs
           Is(h) == h = [n \in 0 .. N |-> IF n = 0 THEN x ELSE SendInstant(o, h[n - 1])]
           all == CHOOSE h : Is(h)
           z == SendInstants(o, x, ts)
<1>1. start \in Nat /\ start <= ts /\ N \in Nat
  BY DEF SentBefore
<1>2. CASE N = 0
  <2>1. z = x
    BY <1>2 DEF SendInstants
  <2> QED BY <1>1, <1>2, <2>1
<1>3. CASE N > 0
  <2>1. z = all[N]
    BY <1>3 DEF SendInstants
  <2>2. \E h : Is(h)
    <3> HIDE DEF N
    <3>1. \E h : ScansOf(o, x, N, h)
      BY <1>1, ScansExist
    <3> QED BY <3>1 DEF ScansOf
  <2>3. Is(all)
    BY <2>2, Zenon
  <2> HIDE DEF all, N
  <2>4. \A n \in 0 .. N : all[n] = IF n = 0 THEN x ELSE SendInstant(o, all[n - 1])
    BY <2>3
  <2>5. all[0] = x /\ \A n \in 1 .. N : all[n] = SendInstant(o, all[n - 1])
    BY <1>1, <2>4
  <2> DEFINE Good(n) == SentBefore(o, f, all[n], ts)
                        /\ (~all[n].op.bStalled => all[n].op.lastInputTs = start + n)
             bad == {n \in 0 .. N : ~Good(n)}
  <2>6. bad = {}
    <3> SUFFICES ASSUME bad # {} PROVE FALSE
      OBVIOUS
    <3>1. PICK k \in bad : \A l \in bad : k <= l
      <4>1. bad \subseteq Nat
        BY <1>1
      <4> HIDE DEF bad
      <4> QED BY <4>1, LeastOf
    <3>2. k # 0
      BY <1>1, <2>5
    <3>3. k \in 1 .. N /\ k - 1 \in 0 .. N /\ ~(k <= k - 1)
      BY <1>1, <3>2
    <3>4. k - 1 \notin bad
      BY <3>1, <3>3
    <3> DEFINE y == all[k - 1]
    <3>5. Good(k - 1)
      BY <3>3, <3>4
    <3>6. /\ SentBefore(o, f, y, ts) /\ (~y.op.bStalled => y.op.lastInputTs = start + (k - 1))
          /\ all[k] = SendInstant(o, y)
      BY <2>5, <3>3, <3>5
    <3> HIDE DEF y
    <3>7. CASE y.op.bStalled
      <4>1. all[k] = y
        BY <3>6, <3>7 DEF SendInstant
      <4>2. Good(k)
        BY <3>6, <3>7, <4>1
      <4> QED BY <3>1, <4>2
    <3>8. CASE ~y.op.bStalled
      <4> DEFINE u == SendScan(o, y, y.op.synopsis)
      <4>1. all[k] = NextInstant(u)
        BY <3>6, <3>8 DEF SendInstant
      <4>2. y.op.lastInputTs < ts /\ IsSeq(y.op.synopsis) /\ y.op.lastInputTs = start + (k - 1)
        BY <1>1, <3>3, <3>6, <3>8 DEF SentBefore, N
      <4>3. SentBefore(o, f, u, ts) /\ u.op.lastInputTs = y.op.lastInputTs
        BY <3>6, <4>2, ScanSends
      <4> HIDE DEF u
      <4>4. Promise(o, u.flow) \in Nat
        BY <4>3, Base, Single, OutOK, FlowFields DEF Promise, SentBefore
      <4>5. /\ SentBefore(o, f, all[k], ts)
            /\ ~all[k].op.bStalled => all[k].op.lastInputTs = u.op.lastInputTs + 1
        BY <4>1, <4>2, <4>3, <4>4, NextOfInstant
      <4>6. Good(k)
        BY <1>1, <3>3, <4>2, <4>3, <4>5
      <4> QED BY <3>1, <4>6
    <3> QED BY <3>7, <3>8
  <2>7. N \in 0 .. N /\ start + N = ts
    BY <1>1 DEF N
  <2>8. Good(N)
    BY <2>6, <2>7
  <2> HIDE DEF z
  <2>9. SentBefore(o, f, z, ts) /\ (~z.op.bStalled => z.op.lastInputTs = ts)
    BY <2>1, <2>7, <2>8
  <2> QED BY <2>9 DEF z
<1> QED BY <1>1, <1>2, <1>3

(* The element itself, after the instants before it.                       *)
LEMMA SendThenApplyFacts ==
  ASSUME IInv, NEW o \in query, Plan[o].kind = "rstream", NEW f, FlowOK(query, f),
         NEW x, NEW e, e.kind \in KindOf, e.timestamp \in Nat, SentBefore(o, f, x, e.timestamp)
  PROVE  LET z == SendThenApply(o, x, e)
         IN  /\ SentBefore(o, f, z, e.timestamp)
             /\ ~z.op.bStalled => z.op.lastInputTs = e.timestamp
             /\ z.op.bStalled => z.op.stallElement = e
<1> DEFINE ts == e.timestamp
           x1 == SendInstants(o, x, ts)
           z == SendThenApply(o, x, e)
<1>1. query \in Queries /\ HasOutput(o) /\ Plan[o].out \in Outs(query)
  BY Base, Single, OutOK
<1>2. SentBefore(o, f, x1, ts) /\ (~x1.op.bStalled => x1.op.lastInputTs = ts)
  BY InstantsSent
<1>3. z = ApplyOrStall(x1, e)
  BY DEF SendThenApply
<1> HIDE DEF x1, z
<1>4. /\ DOMAIN x1 = {"flow", "op"} /\ FlowOK(query, x1.flow)
      /\ DOMAIN x1.op = {"lastInputTs", "lastOutputTs", "synopsis", "bStalled", "stallElement", "rest"}
      /\ IsSeq(x1.op.synopsis) /\ x1.op.bStalled \in BOOLEAN
  BY <1>2 DEF SentBefore, RstreamInit
<1> DEFINE y(d) == [x1 EXCEPT !.op.stallElement = d]
<1>5. \A d : /\ DOMAIN y(d) = DOMAIN x1 /\ y(d).flow = x1.flow /\ DOMAIN y(d).op = DOMAIN x1.op
             /\ y(d).op.stallElement = d /\ y(d).op.synopsis = x1.op.synopsis
             /\ y(d).op.bStalled = x1.op.bStalled /\ y(d).op.lastInputTs = x1.op.lastInputTs
             /\ y(d).op.rest = x1.op.rest
  BY <1>4
<1>6. CASE x1.op.bStalled
  <2>1. z = y(e)
    BY <1>3, <1>6 DEF ApplyOrStall
  <2> HIDE DEF y
  <2>2. SentBefore(o, f, z, ts) /\ z.op.stallElement = e /\ z.op.bStalled
    BY <1>2, <1>5, <1>6, <2>1 DEF SentBefore
  <2> QED BY <2>2 DEF z
<1>7. CASE ~x1.op.bStalled
  <2> DEFINE u == y(Heartbeat(0))
  <2>1. z = Apply(u, e)
    BY <1>3, <1>7 DEF ApplyOrStall
  <2>2. /\ DOMAIN u = {"flow", "op"} /\ u.flow = x1.flow /\ DOMAIN u.op = DOMAIN x1.op
        /\ u.op.synopsis = x1.op.synopsis /\ u.op.rest = x1.op.rest
        /\ u.op.bStalled = x1.op.bStalled /\ u.op.lastInputTs = x1.op.lastInputTs
    BY <1>4, <1>5
  <2> HIDE DEF u, y
  <2>3. SentBefore(o, f, u, ts)
    BY <1>2, <2>2 DEF SentBefore
  <2>4. CASE e.kind = HEARTBEAT
    <3>1. z = u
      BY <2>1, <2>4 DEF Apply, HEARTBEAT, PLUS, MINUS
    <3> QED BY <1>2, <1>7, <2>2, <2>3, <3>1 DEF z
  <2>5. CASE e.kind = PLUS
    <3>1. z = [u EXCEPT !.op.synopsis = <<e.tuple>> \o @]
      BY <2>1, <2>5 DEF Apply, HEARTBEAT, PLUS, MINUS
    <3>2. /\ DOMAIN z = {"flow", "op"} /\ z.flow = u.flow /\ DOMAIN z.op = DOMAIN u.op
          /\ z.op.synopsis = <<e.tuple>> \o u.op.synopsis /\ z.op.rest = u.op.rest
          /\ z.op.bStalled = u.op.bStalled /\ z.op.lastInputTs = u.op.lastInputTs
      BY <1>4, <2>2, <3>1
    <3>3. IsSeq(z.op.synopsis)
      BY <1>4, <2>2, <3>2, LeadIsSeq
    <3>4. SentBefore(o, f, z, ts)
      BY <2>3, <3>2, <3>3 DEF SentBefore
    <3> QED BY <1>2, <1>7, <2>2, <3>2, <3>4 DEF z
  <2>6. CASE e.kind = MINUS
    <3> DEFINE g == decrRef(decrRef(u.flow, e.tuple), e.tuple)
               syn == AllBut(u.op.synopsis, e.tuple)
    <3>1. z = [flow |-> g, op |-> [u.op EXCEPT !.synopsis = syn]]
      BY <2>1, <2>6 DEF Apply, HEARTBEAT, PLUS, MINUS
    <3>2. SameQueues(u.flow, g) /\ FlowOK(query, g)
      BY <1>4, <2>2, SameOfCounts, SameIsOK, SameSame
    <3>3. IsSeq(syn)
      BY <1>4, <2>2, AllButIsSeq
    <3> HIDE DEF g, syn
    <3>4. /\ DOMAIN z = {"flow", "op"} /\ z.flow = g /\ DOMAIN z.op = DOMAIN u.op
          /\ z.op.synopsis = syn /\ z.op.rest = u.op.rest
          /\ z.op.bStalled = u.op.bStalled /\ z.op.lastInputTs = u.op.lastInputTs
      BY <1>4, <2>2, <3>1
    <3>5. Put(query, Plan[o].out, f, g) /\ Promise(o, g) = Promise(o, u.flow)
      <4>1. Put(query, Plan[o].out, u.flow, g)
        BY <1>1, <1>4, <2>2, <3>2, PutNothing
      <4>2. Put(query, Plan[o].out, f, u.flow)
        BY <2>3 DEF SentBefore
      <4> QED BY <1>1, <3>2, <4>1, <4>2, PutPut, SameOutput
    <3>6. SentBefore(o, f, z, ts)
      BY <2>3, <3>2, <3>3, <3>4, <3>5 DEF SentBefore
    <3> QED BY <1>2, <1>7, <2>2, <3>4, <3>6 DEF z
  <2> QED BY <2>4, <2>5, <2>6 DEF KindOf
<1> QED BY <1>6, <1>7

LEMMA NotBeforeEarlier ==
  ASSUME NEW ops \in Queries, NEW o \in ops, NEW side \in Ports(o), NEW f, FlowOK(ops, f),
         NEW ts \in Nat, NotBefore(f, Plan[o][side], ts), NEW t \in Nat, t <= ts
  PROVE  NotBefore(f, Plan[o][side], t)
<1> DEFINE i == Plan[o][side]
           s == Pending(f, i)
<1>1. i[1] \in Outs(ops) /\ i[2] \in Reader(i[1])
  BY PortOK
<1>2. f.promise[i[1]] \in Nat /\ InOrder(s, f.promise[i[1]])
  BY <1>1, FlowFields DEF Pending
<1> HIDE DEF i, s
<1>3. \A k \in 1 .. Len(s) : s[k].timestamp \in Nat
  BY <1>2 DEF InOrder
<1>4. ts <= f.promise[i[1]] /\ \A k \in 1 .. Len(s) : ts <= s[k].timestamp
  BY DEF NotBefore, i, s
<1>5. t <= f.promise[i[1]] /\ \A k \in 1 .. Len(s) : t <= s[k].timestamp
  BY <1>2, <1>3, <1>4
<1> QED BY <1>5 DEF NotBefore, i, s

LEMMA RstreamKept ==
  ASSUME IInv, NEW o \in query, Plan[o].kind = "rstream", Moved(query, o, flow, flow'),
         DOMAIN op' = query, \A p \in query \ {o} : op'[p] = op[p],
         RstreamInv(o, op'[o], flow'), running' \in {o, Idle, Failed},
         running' = o => ~op'[o].bStalled, slice' \in 0 .. TimeSlice
  PROVE  StepOf(o)
<1>1. OpInv(o, op'[o], flow') /\ (running' = o => RunInv(o, op'[o], flow', slice'))
  BY OpInvIs, RunInvIs
<1> QED BY <1>1, NoFeeds DEF StepOf

(* What a step leaves, whatever it has read.                               *)
LEMMA RstreamMoves ==
  ASSUME IInv, NEW o \in query, Plan[o].kind = "rstream", NEW f, FlowOK(query, f),
         Read(query, o, flow, f), NEW e, e.kind \in KindOf, e.timestamp \in Nat,
         NotBefore(f, Plan[o].in, e.timestamp), NEW z, SentBefore(o, f, z, e.timestamp),
         ~z.op.bStalled => z.op.lastInputTs = e.timestamp,
         z.op.bStalled => z.op.stallElement = e,
         flow' = z.flow, op' = [op EXCEPT ![o] = z.op],
         running' \in {o, Idle, Failed}, slice' \in 0 .. TimeSlice,
         running' = o => ~z.op.bStalled
  PROVE  StepOf(o)
<1>1. /\ query \in Queries /\ o \in Op /\ HasOutput(o) /\ Ports(o) = {"in"} /\ "in" \in Ports(o)
      /\ FlowOK(query, flow) /\ DOMAIN op = query
  BY Base, Single
<1>2. Put(query, Plan[o].out, f, flow') /\ FlowOK(query, flow')
  BY DEF SentBefore
<1>3. Moved(query, o, flow, flow')
  BY <1>1, <1>2, MovedBy
<1>4. DOMAIN op' = query /\ op'[o] = z.op /\ \A q \in query \ {o} : op'[q] = op[q]
  BY <1>1
<1>5. NotBefore(flow', Plan[o].in, e.timestamp)
  BY <1>1, <1>2, PutKeepsIn
<1>6. z.op.lastInputTs \in Nat /\ z.op.lastInputTs <= e.timestamp
  BY DEF SentBefore
<1>7. NotBefore(flow', Plan[o].in, z.op.lastInputTs)
  BY <1>1, <1>2, <1>5, <1>6, NotBeforeEarlier
<1>8. RstreamInv(o, op'[o], flow')
  BY <1>4, <1>5, <1>6, <1>7 DEF RstreamInv, FilterInv, Reads, SentBefore, InitialState
<1> QED BY <1>3, <1>4, <1>8, RstreamKept

LEMMA RstreamStep ==
  ASSUME IInv, NEW o \in query, Plan[o].kind = "rstream",
         RstreamBegin(o) \/ RstreamIterate(o) \/ RstreamEnd(o)
  PROVE  StepOf(o)
<1>1. /\ query \in Queries /\ o \in Op /\ HasOutput(o) /\ Ports(o) = {"in"} /\ "in" \in Ports(o)
      /\ FlowOK(query, flow) /\ DOMAIN op = query /\ RstreamInv(o, op[o], flow)
  BY Base, Single, OpInvIs
<1>2. /\ DOMAIN op[o] = {"lastInputTs", "lastOutputTs", "synopsis", "bStalled", "stallElement", "rest"}
      /\ op[o].lastInputTs \in Nat /\ Promise(o, flow) <= op[o].lastInputTs
      /\ IsSeq(op[o].synopsis) /\ IsSeq(op[o].rest) /\ op[o].bStalled \in BOOLEAN
      /\ NotBefore(flow, Plan[o].in, op[o].lastInputTs)
  BY <1>1 DEF RstreamInv, FilterInv, Reads, InitialState, RstreamInit
<1>3. CASE RstreamBegin(o) /\ ~op[o].bStalled
  BY <1>3, Control, NothingDone, RunInvIs DEF RstreamBegin
<1>4. CASE RstreamBegin(o) /\ op[o].bStalled
  <2> DEFINE e == op[o].stallElement
             x == [flow |-> flow, op |-> op[o]]
             r == SendScan(o, x, op[o].rest)
             n == NextInstant(r)
             z == SendThenApply(o, n, e)
  <2>1. /\ flow' = z.flow /\ op' = [op EXCEPT ![o] = z.op]
        /\ IF z.op.bStalled THEN Return ELSE Begin(o)
    BY <1>4 DEF RstreamBegin, BeginUnlessStalled, Became, ClearScanStall, Resumed
  <2>2. /\ e.kind \in KindOf /\ e.timestamp \in Nat /\ op[o].lastInputTs < e.timestamp
        /\ NotBefore(flow, Plan[o].in, e.timestamp)
    BY <1>1, <1>4 DEF RstreamInv
  <2>3. Put(query, Plan[o].out, flow, flow)
    BY <1>1, OutOK, SameOfCounts, PutNothing
  <2>4. DOMAIN x = {"flow", "op"} /\ x.flow = flow /\ x.op = op[o]
    OBVIOUS
  <2> HIDE DEF x, e
  <2>5. SentBefore(o, flow, x, e.timestamp)
    BY <1>1, <1>2, <2>2, <2>3, <2>4 DEF SentBefore, RstreamInit
  <2>6. SentBefore(o, flow, r, e.timestamp) /\ r.op.lastInputTs < e.timestamp
    BY <1>1, <1>2, <2>2, <2>4, <2>5, ScanSends
  <2> HIDE DEF r
  <2>7. Promise(o, r.flow) \in Nat
    BY <1>1, <2>6, OutOK, FlowFields DEF SentBefore, Promise
  <2>8. SentBefore(o, flow, n, e.timestamp)
    BY <2>2, <2>6, <2>7, NextOfInstant
  <2> HIDE DEF n
  <2>9. /\ SentBefore(o, flow, z, e.timestamp)
        /\ ~z.op.bStalled => z.op.lastInputTs = e.timestamp
        /\ z.op.bStalled => z.op.stallElement = e
    BY <1>1, <2>2, <2>8, SendThenApplyFacts
  <2> HIDE DEF z
  <2>10. Read(query, o, flow, flow)
    BY <1>1, ReadNothing
  <2>11. /\ running' \in {o, Idle, Failed} /\ slice' \in 0 .. TimeSlice
         /\ running' = o => ~z.op.bStalled
    BY <2>1, Control
  <2> QED BY <1>1, <2>1, <2>2, <2>9, <2>10, <2>11, RstreamMoves
<1>5. CASE RstreamIterate(o)
  <2> DEFINE e == peek(flow, Plan[o].in)
             f == dequeue(flow, Plan[o].in)
             x == [flow |-> f, op |-> op[o]]
             z == SendThenApply(o, x, e)
  <2>1. /\ running = o /\ ~isEmpty(flow, Plan[o].in) /\ MayIterate(o)
        /\ flow' = z.flow /\ op' = [op EXCEPT ![o] = z.op]
        /\ IF z.op.bStalled THEN Return ELSE Loop
    BY <1>5 DEF RstreamIterate, RstreamStuck, LoopUnlessStalled, Became, MayIterate
  <2>2. /\ FlowOK(query, f) /\ Read(query, o, flow, f) /\ Promise(o, f) = Promise(o, flow)
        /\ e.kind \in KindOf /\ e.timestamp \in Nat
    BY <1>1, <2>1, Taking
  <2>3. op[o].lastInputTs <= e.timestamp
    BY <1>1, <1>2, <2>1, Taking
  <2>4. NotBefore(flow, Plan[o].in, e.timestamp)
    BY <1>1, <2>1, PeekFacts
  <2>5. NotBefore(f, Plan[o].in, e.timestamp)
    BY <1>1, <2>1, <2>4, DequeueReads
  <2>6. ~op[o].bStalled
    BY <2>1, Base, RunInvIs
  <2>7. Put(query, Plan[o].out, f, f)
    BY <1>1, <2>2, OutOK, SameOfCounts, PutNothing
  <2>8. DOMAIN x = {"flow", "op"} /\ x.flow = f /\ x.op = op[o]
    OBVIOUS
  <2> HIDE DEF x, e, f
  <2>9. SentBefore(o, f, x, e.timestamp)
    BY <1>1, <1>2, <2>2, <2>3, <2>6, <2>7, <2>8 DEF SentBefore, RstreamInit
  <2>10. /\ SentBefore(o, f, z, e.timestamp)
         /\ ~z.op.bStalled => z.op.lastInputTs = e.timestamp
         /\ z.op.bStalled => z.op.stallElement = e
    BY <2>2, <2>9, SendThenApplyFacts
  <2> HIDE DEF z
  <2>11. /\ running' \in {o, Idle, Failed} /\ slice' \in 0 .. TimeSlice
         /\ running' = o => ~z.op.bStalled
    BY <2>1, Control
  <2> QED BY <2>1, <2>2, <2>5, <2>10, <2>11, RstreamMoves
<1>6. CASE RstreamEnd(o)
  <2>1. running = o /\ Return
        /\ IF HeartbeatDue(o, op[o].lastInputTs)
           THEN /\ flow' = enqueue(flow, Plan[o].out, Heartbeat(op[o].lastInputTs))
                /\ op' = [op EXCEPT ![o].lastOutputTs = op[o].lastInputTs]
           ELSE UNCHANGED <<flow, op>>
    BY <1>6 DEF RstreamEnd, MayEnd
  <2>2. ~op[o].bStalled /\ "lastOutputTs" \in DOMAIN op[o]
    BY <1>2, <2>1, Base, RunInvIs
  <2>3. /\ Moved(query, o, flow, flow') /\ Promise(o, flow') <= op[o].lastInputTs
        /\ DOMAIN op' = query /\ \A p \in query \ {o} : op'[p] = op[p]
    BY <1>1, <1>2, <2>1, <2>2, EndOp
  <2>4. DOMAIN op'[o] = DOMAIN op[o] /\ \A x \in DOMAIN op[o] \ {"lastOutputTs"} : op'[o][x] = op[o][x]
    BY <1>1, <1>2, <2>1, <2>2, EndOp
  <2>5. NotBefore(flow', Plan[o].in, op[o].lastInputTs)
    BY <1>1, <1>2, <2>1, <2>2, EndOp
  <2>6. /\ op'[o].lastInputTs = op[o].lastInputTs /\ op'[o].synopsis = op[o].synopsis
        /\ op'[o].bStalled = op[o].bStalled /\ op'[o].rest = op[o].rest
    BY <1>2, <2>4
  <2>7. RstreamInv(o, op'[o], flow')
    BY <1>1, <1>2, <2>2, <2>3, <2>4, <2>5, <2>6 DEF RstreamInv, FilterInv, Reads
  <2> QED BY <2>1, <2>3, <2>7, Control, RstreamKept
<1> QED BY <1>3, <1>4, <1>5, <1>6

=============================================================================
