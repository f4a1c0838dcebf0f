---------------------------- MODULE StoresProofs ----------------------------
(***************************************************************************)
(* Proofs about Stores.                                                    *)
(***************************************************************************)
EXTENDS Stores, FiniteSetTheorems, SequenceTheorems, WellFoundedInduction, TLAPS

-----------------------------------------------------------------------------
(***************************************************************************)
(* Slots: the places of the pages of a stream, numbered in the order in    *)
(* which they are filled.                                                  *)
(***************************************************************************)
PageNo(x) == x \div TuplesPerPage
Offset(x) == x % TuplesPerPage

LEMMA DivMod ==
  ASSUME NEW x \in Nat
  PROVE  /\ PageNo(x) \in Nat /\ Offset(x) \in Pos
         /\ x = TuplesPerPage * PageNo(x) + Offset(x)
BY TuplesPerPageAssumption DEF PageNo, Offset, Pos

LEMMA Unique ==
  ASSUME NEW q \in Nat, NEW p \in Nat, NEW r \in Pos, NEW s \in Pos,
         TuplesPerPage * q + r = TuplesPerPage * p + s
  PROVE  q = p /\ r = s
<1>0. TuplesPerPage \in Nat /\ TuplesPerPage > 1 /\ Pos = 0 .. TuplesPerPage - 1
  BY TuplesPerPageAssumption DEF Pos
<1>1. ASSUME NEW a \in Nat, NEW b \in Nat, NEW c \in Pos, NEW d \in Pos,
             TuplesPerPage * a + c = TuplesPerPage * b + d, a > b
      PROVE  FALSE
  <2>1. PICK e \in Nat : a = b + e /\ e >= 1
    BY <1>1
  <2>2. TuplesPerPage * a = TuplesPerPage * b + TuplesPerPage * e
    BY <2>1, <1>0
  <2>3. TuplesPerPage * e >= TuplesPerPage
    BY <2>1, <1>0
  <2> QED BY <1>0, <1>1, <2>2, <2>3
<1>2. ~(q > p) /\ ~(p > q)
  BY <1>1
<1> QED BY <1>0, <1>2

LEMMA SlotZero ==
  PageNo(0) = 0 /\ Offset(0) = 0 /\ 0 \in Pos
<1>1. 0 \in Pos /\ TuplesPerPage \in Nat
  BY TuplesPerPageAssumption DEF Pos
<1>2. PageNo(0) \in Nat /\ Offset(0) \in Pos /\ 0 = TuplesPerPage * PageNo(0) + Offset(0)
  BY DivMod
<1>3. TuplesPerPage * 0 + 0 = 0
  BY <1>1
<1>4. PICK q \in Nat, r \in Pos : q = PageNo(0) /\ r = Offset(0)
  BY <1>2
<1>5. PICK z : z = 0
  OBVIOUS
<1>6. TuplesPerPage * q + r = TuplesPerPage * z + z
  BY <1>2, <1>3, <1>4, <1>5
<1>7. q = z /\ r = z
  BY <1>1, <1>5, <1>6, Unique
<1> QED BY <1>1, <1>4, <1>5, <1>7

(* The next slot is the next of the page, or the first of the next page.   *)
LEMMA NextSlot ==
  ASSUME NEW x \in Nat
  PROVE  IF Offset(x) = TuplesPerPage - 1
         THEN PageNo(x + 1) = PageNo(x) + 1 /\ Offset(x + 1) = 0
         ELSE PageNo(x + 1) = PageNo(x) /\ Offset(x + 1) = Offset(x) + 1
<1>0. TuplesPerPage \in Nat /\ TuplesPerPage > 1 /\ Pos = 0 .. TuplesPerPage - 1
  BY TuplesPerPageAssumption DEF Pos
<1> DEFINE q == PageNo(x)
           r == Offset(x)
<1>1. q \in Nat /\ r \in Pos /\ x = TuplesPerPage * q + r
  BY DivMod
<1>2. /\ PageNo(x + 1) \in Nat /\ Offset(x + 1) \in Pos
      /\ x + 1 = TuplesPerPage * PageNo(x + 1) + Offset(x + 1)
  BY DivMod
<1> HIDE DEF q, r
<1>3. CASE r = TuplesPerPage - 1
  <2>1. TuplesPerPage * (q + 1) = TuplesPerPage * q + TuplesPerPage
    BY <1>0, <1>1
  <2>2. TuplesPerPage * PageNo(x + 1) + Offset(x + 1) = TuplesPerPage * (q + 1) + 0
    BY <1>0, <1>1, <1>2, <1>3, <2>1
  <2>3. PageNo(x + 1) = q + 1 /\ Offset(x + 1) = 0
    BY <1>0, <1>1, <1>2, <2>2, Unique
  <2> QED BY <2>3, <1>3 DEF q, r
<1>4. CASE r # TuplesPerPage - 1
  <2>1. TuplesPerPage * PageNo(x + 1) + Offset(x + 1) = TuplesPerPage * q + (r + 1)
    BY <1>0, <1>1, <1>2
  <2>2. r + 1 \in Pos
    BY <1>0, <1>1, <1>4
  <2>3. PageNo(x + 1) = q /\ Offset(x + 1) = r + 1
    BY <1>1, <1>2, <2>1, <2>2, Unique
  <2> QED BY <2>3, <1>4 DEF q, r
<1> QED BY <1>3, <1>4

LEMMA PagesInOrder ==
  ASSUME NEW x \in Nat, NEW y \in Nat, x <= y
  PROVE  /\ PageNo(x) <= PageNo(y)
         /\ PageNo(x) = PageNo(y) => Offset(x) <= Offset(y)
         /\ PageNo(x) = PageNo(y) /\ Offset(x) = Offset(y) => x = y
<1>0. TuplesPerPage \in Nat /\ TuplesPerPage > 1 /\ Pos = 0 .. TuplesPerPage - 1
  BY TuplesPerPageAssumption DEF Pos
<1> DEFINE q == PageNo(x)
           r == Offset(x)
           p == PageNo(y)
           s == Offset(y)
<1>1. q \in Nat /\ r \in Pos /\ x = TuplesPerPage * q + r
  BY DivMod
<1>2. p \in Nat /\ s \in Pos /\ y = TuplesPerPage * p + s
  BY DivMod
<1> HIDE DEF q, r, p, s
<1>3. ASSUME q > p PROVE FALSE
  <2>1. PICK e \in Nat : q = p + e /\ e >= 1
    BY <1>1, <1>2, <1>3
  <2>2. TuplesPerPage * q = TuplesPerPage * p + TuplesPerPage * e
    BY <2>1, <1>0, <1>2
  <2>3. TuplesPerPage * e >= TuplesPerPage
    BY <2>1, <1>0
  <2> QED BY <1>0, <1>1, <1>2, <2>2, <2>3
<1>4. q <= p
  BY <1>1, <1>2, <1>3
<1>5. q = p => r <= s
  BY <1>0, <1>1, <1>2
<1>6. q = p /\ r = s => x = y
  BY <1>1, <1>2
<1> QED BY <1>4, <1>5, <1>6 DEF q, r, p, s

-----------------------------------------------------------------------------
(***************************************************************************)
(* The memory below a stream or a window.  The pages in use are pg[lo] to  *)
(* the one that is being filled; x is the slot to be filled next, and cnt  *)
(* what the pages count.                                                   *)
(***************************************************************************)
At(pg, x) == <<pg[PageNo(x)], Offset(x)>>

PlaceType == Page \X Pos
CellType ==
  [id : Nat, ref : Int, next : PlaceType \cup {NoTuple}, prev : PlaceType \cup {NoTuple},
   lin : {Nothing}, toInsert : SUBSET Stub, toDelete : SUBSET Stub]
PageType == [count : Int, next : Int, cell : [Pos -> CellType]]

Streams == {"simple", "win"}
StreamFields(K) ==
  {"emptyPageList", "page", "outOfMemory", "curPage", "nextTuple", "numAllocInCurPage"}
  \cup IF K = "win" THEN {"lastInsTuple", "lastDelTuple", "iters"} ELSE {}

StreamType(K, m) ==
  /\ DOMAIN m = StreamFields(K)
  /\ m.emptyPageList \in Seq(Page) /\ m.page \in [Page -> PageType] /\ m.outOfMemory \in BOOLEAN
  /\ m.curPage \in Page /\ m.nextTuple \in PlaceType /\ m.numAllocInCurPage \in Int
  /\ K = "win" =>
       /\ m.lastInsTuple \in [Stub -> PlaceType]
       /\ m.lastDelTuple \in [Stub -> PlaceType]
       /\ m.iters \in [Stub -> [lastOutputTuple : PlaceType, lastInsTuple : PlaceType]]

PagesOf(list) == {list[i] : i \in 1 .. Len(list)}
NoneTwice(list) == \A i, j \in 1 .. Len(list) : list[i] = list[j] => i = j

(* The first tuple of a window store is a dummy.                           *)
Slot(K, n) == IF K = "win" THEN n ELSE n - 1

StreamMemory(K, m, pg, lo, N, cnt) ==
  LET x == Slot(K, N + 1)
      C == PageNo(x)
  IN
  /\ StreamType(K, m) /\ ~m.outOfMemory
  /\ N \in Nat /\ lo \in 0 .. C /\ pg \in [Nat -> Page] /\ cnt \in [Nat -> Int]
  /\ \A j, k \in lo .. C : pg[j] = pg[k] => j = k
  /\ NoneTwice(m.emptyPageList) /\ PagesOf(m.emptyPageList) = Page \ {pg[k] : k \in lo .. C}
  /\ m.curPage = pg[C] /\ m.nextTuple = At(pg, x) /\ m.numAllocInCurPage = Offset(x)
  /\ \A k \in lo .. C : m.page[pg[k]].count = cnt[k]
  /\ K = "win" => \A k \in lo .. C - 1 : m.page[pg[k]].next = pg[k + 1]
  /\ \A n \in 1 .. N : PageNo(Slot(K, n)) >= lo => IdOf(m, At(pg, Slot(K, n))) = n

(* What the windows themselves keep.                                       *)
SameWindows(K, m, w) ==
  K = "win" => /\ w.lastInsTuple = m.lastInsTuple
                  /\ w.lastDelTuple = m.lastDelTuple
                  /\ w.iters = m.iters

LEMMA SlotFacts ==
  ASSUME NEW N \in Nat
  PROVE  /\ Slot(kind, N + 1) \in Nat /\ Slot(kind, N + 2) = Slot(kind, N + 1) + 1
         /\ \A n \in 1 .. N : Slot(kind, n) \in Nat /\ Slot(kind, n) < Slot(kind, N + 1)
                              /\ Slot(kind, n + 1) = Slot(kind, n) + 1
BY DEF Slot

(* References more or fewer on a page, and the page stays.                 *)
LEMMA Recount ==
  ASSUME kind \in Streams,
         NEW m, NEW pg, NEW lo, NEW N, NEW cnt, StreamMemory(kind, m, pg, lo, N, cnt),
         NEW k \in lo .. PageNo(Slot(kind, N + 1)), NEW i \in Int,
         NEW w, w = [m EXCEPT !.page[pg[k]].count = @ + i]
  PROVE  /\ StreamMemory(kind, w, pg, lo, N, [cnt EXCEPT ![k] = @ + i])
         /\ SameWindows(kind, m, w)
         /\ w.page[pg[k]].count = cnt[k] + i
<1> DEFINE x == Slot(kind, N + 1)
           C == PageNo(x)
<1>1. /\ StreamType(kind, m) /\ ~m.outOfMemory
      /\ N \in Nat /\ lo \in 0 .. C /\ pg \in [Nat -> Page] /\ cnt \in [Nat -> Int]
      /\ \A j, l \in lo .. C : pg[j] = pg[l] => j = l
      /\ NoneTwice(m.emptyPageList) /\ PagesOf(m.emptyPageList) = Page \ {pg[l] : l \in lo .. C}
      /\ m.curPage = pg[C] /\ m.nextTuple = At(pg, x) /\ m.numAllocInCurPage = Offset(x)
      /\ \A l \in lo .. C : m.page[pg[l]].count = cnt[l]
      /\ kind = "win" => \A l \in lo .. C - 1 : m.page[pg[l]].next = pg[l + 1]
      /\ \A n \in 1 .. N : PageNo(Slot(kind, n)) >= lo => IdOf(m, At(pg, Slot(kind, n))) = n
  BY DEF StreamMemory
<1>2. x \in Nat /\ C \in Nat
  BY <1>1, SlotFacts, DivMod
<1> HIDE DEF x, C
<1>3. k \in Nat /\ k \in lo .. C /\ pg[k] \in Page
  BY <1>1, <1>2 DEF C, x
<1>4. m.page \in [Page -> PageType]
  BY <1>1 DEF StreamType
<1>5. /\ StreamType(kind, w)
      /\ w.emptyPageList = m.emptyPageList /\ w.outOfMemory = m.outOfMemory
      /\ w.curPage = m.curPage /\ w.nextTuple = m.nextTuple
      /\ w.numAllocInCurPage = m.numAllocInCurPage
      /\ w.page = [m.page EXCEPT ![pg[k]].count = @ + i]
      /\ SameWindows(kind, m, w)
  <2>1. [m.page EXCEPT ![pg[k]].count = @ + i] \in [Page -> PageType]
    BY <1>3, <1>4 DEF PageType
  <2> QED BY <1>1, <1>3, <1>4, <2>1 DEF StreamType, StreamFields, SameWindows
<1>6. \A p \in Page : /\ w.page[p].count = IF p = pg[k] THEN m.page[p].count + i ELSE m.page[p].count
                      /\ w.page[p].next = m.page[p].next
                      /\ w.page[p].cell = m.page[p].cell
  BY <1>3, <1>4, <1>5 DEF PageType
<1>7. \A n \in 1 .. N : PageNo(Slot(kind, n)) >= lo => IdOf(w, At(pg, Slot(kind, n))) = n
  <2> TAKE n \in 1 .. N
  <2>1. Slot(kind, n) \in Nat
    BY <1>1, SlotFacts
  <2>2. pg[PageNo(Slot(kind, n))] \in Page
    BY <2>1, <1>1, DivMod
  <2> QED BY <1>1, <1>6, <2>2 DEF IdOf, CellOf, At
<1>8. \A l \in lo .. C : w.page[pg[l]].count = [cnt EXCEPT ![k] = @ + i][l]
  <2> TAKE l \in lo .. C
  <2>1. l \in Nat /\ pg[l] \in Page /\ (pg[l] = pg[k] <=> l = k)
    BY <1>1, <1>2, <1>3
  <2> QED BY <1>1, <1>3, <1>6, <2>1
<1>9. kind = "win" => \A l \in lo .. C - 1 : w.page[pg[l]].next = pg[l + 1]
  BY <1>1, <1>2, <1>6
<1>10. [cnt EXCEPT ![k] = @ + i] \in [Nat -> Int]
  BY <1>1, <1>3
<1>11. NoneTwice(w.emptyPageList) /\ PagesOf(w.emptyPageList) = Page \ {pg[l] : l \in lo .. C}
  BY <1>1, <1>5
<1> QED BY <1>1, <1>3, <1>5, <1>6, <1>7, <1>8, <1>9, <1>10, <1>11 DEF StreamMemory, x, C

(* Nobody refers to the oldest page any more: it is free again.            *)
LEMMA GiveBack ==
  ASSUME kind \in Streams,
         NEW m, NEW pg, NEW lo, NEW N, NEW cnt, StreamMemory(kind, m, pg, lo, N, cnt),
         lo < PageNo(Slot(kind, N + 1)),
         NEW w, w = [m EXCEPT !.emptyPageList = <<pg[lo]>> \o @, !.page[pg[lo]] = BlankPage]
  PROVE  StreamMemory(kind, w, pg, lo + 1, N, cnt) /\ SameWindows(kind, m, w)
<1> DEFINE x == Slot(kind, N + 1)
           C == PageNo(x)
           p == pg[lo]
<1>1. /\ StreamType(kind, m) /\ ~m.outOfMemory
      /\ N \in Nat /\ lo \in 0 .. C /\ pg \in [Nat -> Page] /\ cnt \in [Nat -> Int]
      /\ \A j, l \in lo .. C : pg[j] = pg[l] => j = l
      /\ NoneTwice(m.emptyPageList) /\ PagesOf(m.emptyPageList) = Page \ {pg[l] : l \in lo .. C}
      /\ m.curPage = pg[C] /\ m.nextTuple = At(pg, x) /\ m.numAllocInCurPage = Offset(x)
      /\ \A l \in lo .. C : m.page[pg[l]].count = cnt[l]
      /\ kind = "win" => \A l \in lo .. C - 1 : m.page[pg[l]].next = pg[l + 1]
      /\ \A n \in 1 .. N : PageNo(Slot(kind, n)) >= lo => IdOf(m, At(pg, Slot(kind, n))) = n
      /\ lo < C
  BY DEF StreamMemory
<1>2. x \in Nat /\ C \in Nat
  BY <1>1, SlotFacts, DivMod
<1> HIDE DEF x, C
<1>3. lo \in Nat /\ lo \in lo .. C /\ p \in Page
  BY <1>1, <1>2
<1>4. m.page \in [Page -> PageType] /\ m.emptyPageList \in Seq(Page)
  BY <1>1 DEF StreamType
<1>5. BlankPage \in PageType
  BY NumPagesAssumption DEF BlankPage, BlankCell, PageType, CellType, Nothing
<1>6. <<p>> \o m.emptyPageList \in Seq(Page)
  BY <1>3, <1>4
<1>7. /\ StreamType(kind, w)
      /\ w.emptyPageList = <<p>> \o m.emptyPageList /\ w.outOfMemory = m.outOfMemory
      /\ w.curPage = m.curPage /\ w.nextTuple = m.nextTuple
      /\ w.numAllocInCurPage = m.numAllocInCurPage
      /\ w.page = [m.page EXCEPT ![p] = BlankPage]
      /\ SameWindows(kind, m, w)
  <2>1. [m.page EXCEPT ![p] = BlankPage] \in [Page -> PageType]
    BY <1>3, <1>4, <1>5
  <2> HIDE DEF p
  <2> QED BY <1>1, <1>3, <1>4, <1>6, <2>1 DEF StreamType, StreamFields, SameWindows, p
<1>8. \A l \in lo + 1 .. C : l \in lo .. C /\ pg[l] \in Page /\ w.page[pg[l]] = m.page[pg[l]]
  BY SMTT(30), <1>1, <1>2, <1>3, <1>4, <1>7
<1>9. \A n \in 1 .. N : PageNo(Slot(kind, n)) >= lo + 1 => IdOf(w, At(pg, Slot(kind, n))) = n
  <2> SUFFICES ASSUME NEW n \in 1 .. N, PageNo(Slot(kind, n)) >= lo + 1
               PROVE  IdOf(w, At(pg, Slot(kind, n))) = n
    OBVIOUS
  <2>1. Slot(kind, n) \in Nat /\ Slot(kind, n) <= x /\ PageNo(Slot(kind, n)) \in Nat
    BY <1>1, SlotFacts, DivMod DEF x
  <2>2. PageNo(Slot(kind, n)) \in lo + 1 .. C
    BY <1>1, <1>2, <2>1, PagesInOrder DEF C
  <2> QED BY <1>1, <1>8, <2>1, <2>2 DEF IdOf, CellOf, At
<1>10. NoneTwice(w.emptyPageList) /\ PagesOf(w.emptyPageList) = Page \ {pg[l] : l \in lo + 1 .. C}
  <2> DEFINE L == m.emptyPageList
  <2>1. p \notin PagesOf(L)
    BY <1>1, <1>3
  <2>2. /\ Len(w.emptyPageList) = Len(L) + 1 /\ w.emptyPageList[1] = p
        /\ \A i \in 2 .. Len(L) + 1 : w.emptyPageList[i] = L[i - 1]
        /\ Len(L) \in Nat
    BY <1>3, <1>4, <1>7
  <2>3. NoneTwice(w.emptyPageList)
    <3>1. \A i \in 2 .. Len(L) + 1 : i - 1 \in 1 .. Len(L) /\ w.emptyPageList[i] = L[i - 1]
      BY <2>2
    <3>2. \A i \in 2 .. Len(L) + 1 : w.emptyPageList[i] # p
      BY <2>1, <3>1 DEF PagesOf
    <3>3. \A i, j \in 2 .. Len(L) + 1 : w.emptyPageList[i] = w.emptyPageList[j] => i = j
      <4> HIDE DEF L
      <4>1. \A i, j \in 1 .. Len(L) : L[i] = L[j] => i = j
        BY <1>1 DEF NoneTwice, L
      <4> QED BY <3>1, <4>1, <2>2
    <3>4. \A i \in 1 .. Len(w.emptyPageList) : i = 1 \/ i \in 2 .. Len(L) + 1
      BY <2>2
    <3> QED BY <2>2, <3>2, <3>3, <3>4 DEF NoneTwice
  <2>4. PagesOf(w.emptyPageList) = PagesOf(L) \cup {p}
    <3>1. \A i \in 1 .. Len(L) : i + 1 \in 2 .. Len(L) + 1 /\ w.emptyPageList[i + 1] = L[i]
      BY <2>2
    <3>2. \A i \in 1 .. Len(w.emptyPageList) : i = 1 \/ (i - 1 \in 1 .. Len(L) /\ w.emptyPageList[i] = L[i - 1])
      BY <2>2
    <3>3. 1 \in 1 .. Len(w.emptyPageList) /\ \A i \in 1 .. Len(L) : i + 1 \in 1 .. Len(w.emptyPageList)
      BY <2>2
    <3> HIDE DEF L
    <3> QED BY <2>2, <3>1, <3>2, <3>3 DEF PagesOf
  <2>5. Page \ {pg[l] : l \in lo + 1 .. C} = (Page \ {pg[l] : l \in lo .. C}) \cup {p}
    <3>1. \A l \in lo .. C : l = lo \/ l \in lo + 1 .. C
      BY <1>2, <1>3
    <3>2. \A l \in lo + 1 .. C : l \in lo .. C /\ l # lo /\ pg[l] # p
      BY <1>1, <1>2, <1>3
    <3> QED BY <1>3, <3>1, <3>2
  <2> QED BY <1>1, <2>3, <2>4, <2>5
<1>11. /\ C \in lo + 1 .. C /\ lo + 1 \in 0 .. C
       /\ \A j, l \in lo + 1 .. C : pg[j] = pg[l] => j = l
       /\ \A l \in lo + 1 .. C : w.page[pg[l]].count = cnt[l]
       /\ kind = "win" => \A l \in lo + 1 .. C - 1 : w.page[pg[l]].next = pg[l + 1]
  BY <1>1, <1>2, <1>3, <1>8
<1> HIDE DEF p
<1> QED BY <1>1, <1>7, <1>9, <1>10, <1>11 DEF StreamMemory, x, C

(* The client writes tuple N + 1 into the place it is given.               *)
Written(m, id) == [m EXCEPT !.page[m.curPage].count = @ + 1,
                            !.page[m.curPage].cell[m.nextTuple[2]].id = id,
                            !.numAllocInCurPage = @ + 1]

LEMMA Taken ==
  ASSUME kind \in Streams,
         NEW m, NEW pg, NEW lo, NEW N, NEW cnt, StreamMemory(kind, m, pg, lo, N, cnt),
         NEW w, w = Written(m, N + 1)
  PROVE  /\ StreamType(kind, w) /\ SameWindows(kind, m, w)
         /\ w.emptyPageList = m.emptyPageList /\ w.outOfMemory = m.outOfMemory
         /\ w.curPage = m.curPage /\ w.nextTuple = m.nextTuple
         /\ w.numAllocInCurPage = Offset(Slot(kind, N + 1)) + 1
         /\ w.page \in [Page -> PageType] /\ m.curPage \in Page
         /\ \A q \in Page : /\ w.page[q].next = m.page[q].next
                            /\ w.page[q].count = m.page[q].count + IF q = m.curPage THEN 1 ELSE 0
                            /\ \A i \in Pos : IdOf(w, <<q, i>>) =
                                 IF q = m.curPage /\ i = Offset(Slot(kind, N + 1)) THEN N + 1
                                 ELSE IdOf(m, <<q, i>>)
<1> DEFINE x == Slot(kind, N + 1)
           C == PageNo(x)
           c == m.curPage
           o == Offset(x)
           P == [m.page EXCEPT ![c].count = @ + 1]
           Q == [P EXCEPT ![c].cell[o].id = N + 1]
<1>1. /\ StreamType(kind, m) /\ N \in Nat /\ pg \in [Nat -> Page]
      /\ m.curPage = pg[C] /\ m.nextTuple = At(pg, x) /\ m.numAllocInCurPage = o
  BY DEF StreamMemory
<1>2. x \in Nat /\ C \in Nat /\ o \in Pos
  BY <1>1, SlotFacts, DivMod
<1>3. c \in Page /\ m.nextTuple[2] = o /\ o \in Int
  BY <1>1, <1>2, TuplesPerPageAssumption DEF At, Pos
<1>4. m.page \in [Page -> PageType]
  BY <1>1 DEF StreamType
<1> HIDE DEF x, C, o, c
<1> DEFINE w1 == [m EXCEPT !.page[c].count = @ + 1]
           w2 == [w1 EXCEPT !.page[c].cell[o].id = N + 1]
           Fields == StreamFields(kind)
<1>4a. DOMAIN m = Fields
  BY <1>1 DEF StreamType, StreamFields
<1>4b. w = [w2 EXCEPT !.numAllocInCurPage = @ + 1]
  BY <1>3 DEF c, Written
<1> HIDE DEF w1, w2, Fields
<1>5. P \in [Page -> PageType]
  BY <1>3, <1>4 DEF PageType
<1>6. /\ \A q \in Page : /\ P[q].next = m.page[q].next /\ P[q].cell = m.page[q].cell
                         /\ P[q].count = m.page[q].count + IF q = c THEN 1 ELSE 0
  BY <1>3, <1>4 DEF PageType
<1>6a. /\ DOMAIN w1 = Fields /\ w1.page = P
       /\ \A f \in Fields \ {"page"} : w1[f] = m[f]
  <2>1. "page" \in Fields
    BY DEF Fields, StreamFields
  <2> QED BY <1>4a, <2>1 DEF w1
<1> HIDE DEF P
<1>7. \A d \in CellType : /\ [d EXCEPT !.id = N + 1] \in CellType
                          /\ [d EXCEPT !.id = N + 1].id = N + 1
  BY <1>1 DEF CellType
<1>8. P[c].cell \in [Pos -> CellType] /\ P[c].cell[o] \in CellType
  BY <1>2, <1>3, <1>5 DEF PageType
<1> DEFINE K == [P[c].cell EXCEPT ![o].id = N + 1]
<1>9. /\ K \in [Pos -> CellType]
      /\ \A i \in Pos : K[i].id = IF i = o THEN N + 1 ELSE P[c].cell[i].id
  BY <1>2, <1>7, <1>8
<1>10. Q = [P EXCEPT ![c] = [P[c] EXCEPT !.cell = K]]
  OBVIOUS
<1>10a. /\ DOMAIN w2 = Fields /\ w2.page = Q
        /\ \A f \in Fields \ {"page"} : w2[f] = w1[f]
  <2>1. "page" \in Fields
    BY DEF Fields, StreamFields
  <2> QED BY <1>6a, <2>1 DEF w2
<1> HIDE DEF K
<1>10b. \A r \in PageType : /\ [r EXCEPT !.cell = K] \in PageType
                            /\ [r EXCEPT !.cell = K].cell = K
                            /\ [r EXCEPT !.cell = K].next = r.next
                            /\ [r EXCEPT !.cell = K].count = r.count
  BY <1>9 DEF PageType
<1> HIDE DEF Q
<1>11. /\ Q \in [Page -> PageType]
       /\ \A q \in Page : /\ Q[q].next = P[q].next /\ Q[q].count = P[q].count
                          /\ Q[q].cell = IF q = c THEN K ELSE P[q].cell
  <2>1. P[c] \in PageType
    BY <1>3, <1>5
  <2> DEFINE R == [P[c] EXCEPT !.cell = K]
  <2>2. R \in PageType /\ R.cell = K /\ R.next = P[c].next /\ R.count = P[c].count
    BY <2>1, <1>10b
  <2> HIDE DEF R
  <2>3. Q = [P EXCEPT ![c] = R]
    BY <1>10 DEF R
  <2> QED BY <1>3, <1>5, <2>2, <2>3
<1>12a. /\ DOMAIN w = Fields /\ w.page = Q /\ w.numAllocInCurPage = o + 1
        /\ \A f \in Fields \ {"page", "numAllocInCurPage"} : w[f] = m[f]
  <2>1. "page" \in Fields /\ "numAllocInCurPage" \in Fields
    BY DEF Fields, StreamFields
  <2> QED BY <1>1, <1>4b, <1>6a, <1>10a, <2>1 DEF o, x
<1>12. /\ StreamType(kind, w) /\ SameWindows(kind, m, w)
       /\ w.emptyPageList = m.emptyPageList /\ w.outOfMemory = m.outOfMemory
       /\ w.curPage = m.curPage /\ w.nextTuple = m.nextTuple
       /\ w.numAllocInCurPage = o + 1
       /\ w.page = Q
  BY <1>1, <1>3, <1>4a, <1>11, <1>12a DEF StreamType, StreamFields, SameWindows, Fields, o
<1>13. \A q \in Page : /\ w.page[q].next = m.page[q].next
                       /\ w.page[q].count = m.page[q].count + IF q = m.curPage THEN 1 ELSE 0
  BY <1>6, <1>11, <1>12 DEF c
<1>14. \A q \in Page : \A i \in Pos : IdOf(w, <<q, i>>) =
          IF q = m.curPage /\ i = o THEN N + 1 ELSE IdOf(m, <<q, i>>)
  <2> TAKE q \in Page
  <2> TAKE i \in Pos
  <2>1. IdOf(w, <<q, i>>) = Q[q].cell[i].id /\ IdOf(m, <<q, i>>) = m.page[q].cell[i].id
    BY <1>12 DEF IdOf, CellOf
  <2>2. Q[q].cell[i].id = IF q = c THEN K[i].id ELSE P[q].cell[i].id
    BY <1>11
  <2>3. CASE q = c
    BY <1>3, <1>6, <1>9, <2>1, <2>2, <2>3 DEF c
  <2>4. CASE q # c
    BY <1>6, <2>1, <2>2, <2>4 DEF c
  <2> QED BY <2>3, <2>4
<1> QED BY <1>3, <1>11, <1>12, <1>13, <1>14 DEF o, x, c

(* What a memory has to be after the new tuple.                            *)
LEMMA NextInPage ==
  ASSUME kind \in Streams,
         NEW m, NEW pg, NEW lo, NEW N, NEW cnt, StreamMemory(kind, m, pg, lo, N, cnt),
         Offset(Slot(kind, N + 1)) # TuplesPerPage - 1,
         NEW w, w = [Written(m, N + 1) EXCEPT !.nextTuple = NextPlace(@)]
  PROVE  /\ StreamMemory(kind, w, pg, lo, N + 1, [cnt EXCEPT ![PageNo(Slot(kind, N + 1))] = @ + 1])
         /\ SameWindows(kind, m, w)
<1> DEFINE x == Slot(kind, N + 1)
           C == PageNo(x)
           u == Written(m, N + 1)
<1>1. /\ StreamType(kind, m) /\ ~m.outOfMemory
      /\ N \in Nat /\ lo \in 0 .. C /\ pg \in [Nat -> Page] /\ cnt \in [Nat -> Int]
      /\ \A j, l \in lo .. C : pg[j] = pg[l] => j = l
      /\ NoneTwice(m.emptyPageList) /\ PagesOf(m.emptyPageList) = Page \ {pg[l] : l \in lo .. C}
      /\ m.curPage = pg[C] /\ m.nextTuple = At(pg, x) /\ m.numAllocInCurPage = Offset(x)
      /\ \A l \in lo .. C : m.page[pg[l]].count = cnt[l]
      /\ kind = "win" => \A l \in lo .. C - 1 : m.page[pg[l]].next = pg[l + 1]
      /\ \A n \in 1 .. N : PageNo(Slot(kind, n)) >= lo => IdOf(m, At(pg, Slot(kind, n))) = n
  BY DEF StreamMemory
<1>2. x \in Nat /\ C \in Nat /\ Offset(x) \in Pos /\ Slot(kind, N + 2) = x + 1
  BY <1>1, SlotFacts, DivMod
<1>3. PageNo(x + 1) = C /\ Offset(x + 1) = Offset(x) + 1 /\ Offset(x + 1) \in Pos
  BY <1>2, NextSlot, DivMod
<1>0. u = Written(m, N + 1)
  OBVIOUS
<1>5. w = [u EXCEPT !.nextTuple = NextPlace(@)]
  OBVIOUS
<1> HIDE DEF u
<1>4. /\ StreamType(kind, u) /\ SameWindows(kind, m, u)
      /\ u.emptyPageList = m.emptyPageList /\ u.outOfMemory = m.outOfMemory
      /\ u.curPage = m.curPage /\ u.nextTuple = m.nextTuple
      /\ u.numAllocInCurPage = Offset(x) + 1
      /\ u.page \in [Page -> PageType] /\ m.curPage \in Page
      /\ \A q \in Page : /\ u.page[q].next = m.page[q].next
                         /\ u.page[q].count = m.page[q].count + IF q = m.curPage THEN 1 ELSE 0
                         /\ \A i \in Pos : IdOf(u, <<q, i>>) =
                              IF q = m.curPage /\ i = Offset(x) THEN N + 1 ELSE IdOf(m, <<q, i>>)
  BY <1>0, Taken
<1> HIDE DEF x, C
<1>6. NextPlace(u.nextTuple) = At(pg, x + 1) /\ At(pg, x + 1) \in PlaceType
  BY <1>1, <1>2, <1>3, <1>4 DEF NextPlace, At, PlaceType, C
<1>7. /\ StreamType(kind, w) /\ SameWindows(kind, m, w)
      /\ w.emptyPageList = m.emptyPageList /\ w.outOfMemory = m.outOfMemory
      /\ w.curPage = m.curPage /\ w.nextTuple = At(pg, x + 1)
      /\ w.numAllocInCurPage = Offset(x) + 1 /\ w.page = u.page
  BY <1>4, <1>5, <1>6 DEF StreamType, StreamFields, SameWindows
<1>8. \A n \in 1 .. N + 1 : PageNo(Slot(kind, n)) >= lo => IdOf(w, At(pg, Slot(kind, n))) = n
  <2> SUFFICES ASSUME NEW n \in 1 .. N + 1, PageNo(Slot(kind, n)) >= lo
               PROVE  IdOf(w, At(pg, Slot(kind, n))) = n
    OBVIOUS
  <2>1. IdOf(w, At(pg, Slot(kind, n))) = IdOf(u, At(pg, Slot(kind, n)))
    BY <1>7 DEF IdOf, CellOf
  <2>2. CASE n = N + 1
    BY <1>1, <1>2, <1>4, <2>1, <2>2 DEF At, x, C
  <2>3. CASE n \in 1 .. N
    <3>1. Slot(kind, n) \in Nat /\ Slot(kind, n) < x /\ PageNo(Slot(kind, n)) \in Nat /\ Offset(Slot(kind, n)) \in Pos
      BY <1>1, <2>3, SlotFacts, DivMod DEF x
    <3>2. PageNo(Slot(kind, n)) \in lo .. C
      BY <1>1, <1>2, <3>1, PagesInOrder DEF C
    <3>3. ~(pg[PageNo(Slot(kind, n))] = pg[C] /\ Offset(Slot(kind, n)) = Offset(x))
      <4>1. C \in lo .. C
        BY <1>1, <1>2
      <4>2. pg[PageNo(Slot(kind, n))] = pg[C] => PageNo(Slot(kind, n)) = C
        BY <1>1, <3>2, <4>1
      <4> QED BY <1>2, <3>1, <4>2, PagesInOrder DEF C
    <3> QED BY <1>1, <1>4, <2>1, <2>3, <3>1, <3>3 DEF At
  <2> QED BY <1>1, <2>2, <2>3
<1>9. \A l \in lo .. C : w.page[pg[l]].count = [cnt EXCEPT ![C] = @ + 1][l]
  <2> TAKE l \in lo .. C
  <2>1. l \in Nat /\ C \in lo .. C /\ pg[l] \in Page /\ (pg[l] = pg[C] <=> l = C)
    BY <1>1, <1>2
  <2>2. w.page[pg[l]].count = m.page[pg[l]].count + IF l = C THEN 1 ELSE 0
    BY <1>1, <1>4, <1>7, <2>1
  <2> QED BY <1>1, <1>2, <2>1, <2>2
<1>10. kind = "win" => \A l \in lo .. C - 1 : w.page[pg[l]].next = pg[l + 1]
  <2>1. \A l \in lo .. C - 1 : pg[l] \in Page
    BY <1>1, <1>2
  <2>2. \A l \in lo .. C - 1 : w.page[pg[l]].next = m.page[pg[l]].next
    BY <1>4, <1>7, <2>1
  <2> QED BY <1>1, <2>2
<1>11. [cnt EXCEPT ![C] = @ + 1] \in [Nat -> Int]
  BY <1>1, <1>2
<1>12. Slot(kind, N + 1 + 1) = x + 1 /\ N + 1 \in Nat
  BY <1>1, <1>2
<1> QED
  BY <1>1, <1>3, <1>7, <1>8, <1>9, <1>10, <1>11, <1>12 DEF StreamMemory, x, C
(* The page is full: w goes on with p, the first empty page.  It changes   *)
(* the count of the full page by d, and that of the new one is e.          *)
Continued(K, m, w, N, p, d, e) ==
  /\ StreamType(K, w) /\ ~w.outOfMemory
  /\ m.emptyPageList # <<>> /\ p = Head(m.emptyPageList) /\ w.emptyPageList = Tail(m.emptyPageList)
  /\ w.curPage = p /\ w.nextTuple = <<p, 0>> /\ w.numAllocInCurPage = 0
  /\ \A q \in Page : \A i \in Pos : IdOf(w, <<q, i>>) = IdOf(Written(m, N + 1), <<q, i>>)
  /\ \A q \in Page : w.page[q].count = IF q = p THEN e ELSE m.page[q].count
                                                    + IF q = m.curPage THEN d ELSE 0
  /\ K = "win" =>
       \A q \in Page : w.page[q].next = IF q = m.curPage THEN p ELSE m.page[q].next

LEMMA NextPage ==
  ASSUME kind \in Streams,
         NEW m, NEW pg, NEW lo, NEW N, NEW cnt, StreamMemory(kind, m, pg, lo, N, cnt),
         Offset(Slot(kind, N + 1)) = TuplesPerPage - 1,
         NEW w, NEW p, NEW d \in Int, NEW e \in Int, Continued(kind, m, w, N, p, d, e)
  PROVE  LET C == PageNo(Slot(kind, N + 1)) IN
         /\ StreamMemory(kind, w, [pg EXCEPT ![C + 1] = p], lo, N + 1,
                         [cnt EXCEPT ![C] = @ + d, ![C + 1] = e])
         /\ \A k \in 0 .. C : [pg EXCEPT ![C + 1] = p][k] = pg[k]
<1> DEFINE x == Slot(kind, N + 1)
           C == PageNo(x)
           u == Written(m, N + 1)
           L == m.emptyPageList
           pg2 == [pg EXCEPT ![C + 1] = p]
           cnt2 == [cnt EXCEPT ![C] = @ + d, ![C + 1] = e]
<1>1. /\ StreamType(kind, m) /\ ~m.outOfMemory
      /\ N \in Nat /\ lo \in 0 .. C /\ pg \in [Nat -> Page] /\ cnt \in [Nat -> Int]
      /\ \A j, l \in lo .. C : pg[j] = pg[l] => j = l
      /\ NoneTwice(L) /\ PagesOf(L) = Page \ {pg[l] : l \in lo .. C}
      /\ m.curPage = pg[C] /\ m.nextTuple = At(pg, x) /\ m.numAllocInCurPage = Offset(x)
      /\ \A l \in lo .. C : m.page[pg[l]].count = cnt[l]
      /\ kind = "win" => \A l \in lo .. C - 1 : m.page[pg[l]].next = pg[l + 1]
      /\ \A n \in 1 .. N : PageNo(Slot(kind, n)) >= lo => IdOf(m, At(pg, Slot(kind, n))) = n
  BY DEF StreamMemory
<1>2. x \in Nat /\ C \in Nat /\ Offset(x) \in Pos /\ Slot(kind, N + 2) = x + 1
  BY <1>1, SlotFacts, DivMod
<1>3. PageNo(x + 1) = C + 1 /\ Offset(x + 1) = 0
  BY <1>2, NextSlot
<1>5. /\ L \in Seq(Page) /\ L # <<>> /\ p = Head(L)
      /\ StreamType(kind, w) /\ ~w.outOfMemory /\ w.emptyPageList = Tail(L)
      /\ w.curPage = p /\ w.nextTuple = <<p, 0>> /\ w.numAllocInCurPage = 0
      /\ \A q \in Page : \A i \in Pos : IdOf(w, <<q, i>>) = IdOf(u, <<q, i>>)
      /\ \A q \in Page : w.page[q].count = IF q = p THEN e ELSE m.page[q].count
                                                        + IF q = m.curPage THEN d ELSE 0
      /\ kind = "win" =>
           \A q \in Page : w.page[q].next = IF q = m.curPage THEN p ELSE m.page[q].next
  BY <1>1 DEF StreamType, Continued
<1>0. u = Written(m, N + 1)
  OBVIOUS
<1> HIDE DEF u, L
<1>4. \A q \in Page :
        /\ u.page[q].next = m.page[q].next
        /\ u.page[q].count = m.page[q].count + IF q = m.curPage THEN 1 ELSE 0
        /\ \A i \in Pos : IdOf(u, <<q, i>>) =
             IF q = m.curPage /\ i = Offset(x) THEN N + 1 ELSE IdOf(m, <<q, i>>)
  BY <1>0, Taken
<1> HIDE DEF x, C
<1>6. /\ p \in Page /\ p = L[1] /\ Len(L) \in Nat \ {0} /\ Len(Tail(L)) = Len(L) - 1
      /\ \A i \in 1 .. Len(Tail(L)) : Tail(L)[i] = L[i + 1]
  BY <1>5
<1>7. p \in PagesOf(L) /\ \A l \in lo .. C : pg[l] # p
  <2>1. p \in PagesOf(L)
    BY <1>6 DEF PagesOf
  <2> QED BY <1>1, <2>1
<1>8. PagesOf(Tail(L)) = PagesOf(L) \ {p} /\ NoneTwice(Tail(L))
  <2>1. \A i, j \in 1 .. Len(L) : L[i] = L[j] => i = j
    BY <1>1 DEF NoneTwice
  <2>2. \A i \in 1 .. Len(Tail(L)) : i + 1 \in 1 .. Len(L) /\ Tail(L)[i] = L[i + 1] /\ L[i + 1] # p
    BY <1>6, <2>1
  <2>3. \A i \in 1 .. Len(L) : L[i] # p => i - 1 \in 1 .. Len(Tail(L)) /\ Tail(L)[i - 1] = L[i]
    <3> SUFFICES ASSUME NEW i \in 1 .. Len(L), L[i] # p
                 PROVE  i - 1 \in 1 .. Len(Tail(L)) /\ Tail(L)[i - 1] = L[i]
      OBVIOUS
    <3>1. i # 1
      BY <1>6
    <3>2. i - 1 \in 1 .. Len(Tail(L)) /\ (i - 1) + 1 = i
      BY <1>6, <3>1
    <3> QED BY <1>6, <3>2
  <2>4. NoneTwice(Tail(L))
    BY <2>1, <2>2 DEF NoneTwice
  <2>5. PagesOf(Tail(L)) \subseteq PagesOf(L) \ {p}
    BY <2>2 DEF PagesOf
  <2>6. PagesOf(L) \ {p} \subseteq PagesOf(Tail(L))
    BY <2>3 DEF PagesOf
  <2> QED BY <2>4, <2>5, <2>6
<1>9. /\ pg2 \in [Nat -> Page] /\ cnt2 \in [Nat -> Int]
      /\ pg2[C + 1] = p /\ \A k \in 0 .. C : pg2[k] = pg[k]
      /\ cnt2[C + 1] = e /\ cnt2[C] = cnt[C] + d /\ \A k \in 0 .. C - 1 : cnt2[k] = cnt[k]
  <2> DEFINE cnt1 == [cnt EXCEPT ![C] = @ + d]
  <2>1. C + 1 \in Nat /\ C + 1 # C /\ \A k \in 0 .. C : k \in Nat /\ k # C + 1
    BY <1>2
  <2>2. \A k \in 0 .. C - 1 : k \in 0 .. C /\ k # C
    BY <1>2
  <2>3. cnt1 \in [Nat -> Int] /\ cnt1[C] = cnt[C] + d /\ \A k \in 0 .. C - 1 : cnt1[k] = cnt[k]
    BY <1>1, <1>2, <2>1, <2>2
  <2>4. cnt2 = [cnt1 EXCEPT ![C + 1] = e]
    OBVIOUS
  <2> HIDE DEF cnt1, cnt2
  <2>5. /\ cnt2 \in [Nat -> Int] /\ cnt2[C + 1] = e /\ cnt2[C] = cnt1[C]
        /\ \A k \in 0 .. C - 1 : cnt2[k] = cnt1[k]
    BY <1>2, <2>1, <2>2, <2>3, <2>4
  <2>6. pg2 \in [Nat -> Page] /\ pg2[C + 1] = p /\ \A k \in 0 .. C : pg2[k] = pg[k]
    BY <1>1, <1>6, <2>1
  <2> QED BY <2>3, <2>5, <2>6
<1> HIDE DEF pg2, cnt2
<1>10. /\ \A k \in lo .. C + 1 : k \in lo .. C \/ k = C + 1
       /\ \A k \in lo .. C : k \in 0 .. C /\ k \in lo .. C + 1 /\ pg2[k] = pg[k] /\ pg[k] \in Page
       /\ C + 1 \in lo .. C + 1 /\ C \in lo .. C /\ lo \in 0 .. C + 1 /\ lo \in Nat
  BY <1>1, <1>2, <1>9
<1>11. \A j, k \in lo .. C + 1 : pg2[j] = pg2[k] => j = k
  BY <1>1, <1>7, <1>9, <1>10
<1>12. PagesOf(Tail(L)) = Page \ {pg2[k] : k \in lo .. C + 1}
  <2>1. {pg2[k] : k \in lo .. C + 1} = {pg[k] : k \in lo .. C} \cup {p}
    BY <1>9, <1>10
  <2> QED BY <1>1, <1>8, <2>1
<1>13. \A k \in lo .. C + 1 : w.page[pg2[k]].count = cnt2[k]
  <2> TAKE k \in lo .. C + 1
  <2>1. CASE k = C + 1
    BY <1>5, <1>6, <1>9, <2>1
  <2>2. CASE k \in lo .. C
    <3>1. pg2[k] = pg[k] /\ pg[k] \in Page /\ pg[k] # p /\ (pg[k] = m.curPage <=> k = C)
      BY <1>1, <1>7, <1>10, <2>2
    <3>2. w.page[pg[k]].count = cnt[k] + IF k = C THEN d ELSE 0
      <4>1. m.page[pg[k]].count = cnt[k]
        BY <1>1, <2>2
      <4>2. w.page[pg[k]].count = m.page[pg[k]].count + IF pg[k] = m.curPage THEN d ELSE 0
        BY <1>5, <3>1
      <4> QED BY <3>1, <4>1, <4>2
    <3>3. cnt2[k] = cnt[k] + IF k = C THEN d ELSE 0
      BY <1>1, <1>2, <1>9, <1>10, <2>2
    <3> QED BY <3>1, <3>2, <3>3
  <2> QED BY <1>10, <2>1, <2>2
<1>14. kind = "win" => \A k \in lo .. C : w.page[pg2[k]].next = pg2[k + 1]
  <2> SUFFICES ASSUME kind = "win", NEW k \in lo .. C
               PROVE  w.page[pg2[k]].next = pg2[k + 1]
    OBVIOUS
  <2>1. pg2[k] = pg[k] /\ pg[k] \in Page /\ (pg[k] = m.curPage <=> k = C) /\ k \in Nat
    BY <1>1, <1>2, <1>10
  <2>2. w.page[pg[k]].next = IF k = C THEN p ELSE m.page[pg[k]].next
    BY <1>5, <2>1
  <2>3. k # C => k \in lo .. C - 1 /\ k + 1 \in 0 .. C
    BY <1>2, <1>10
  <2>4. k # C => m.page[pg[k]].next = pg[k + 1] /\ pg2[k + 1] = pg[k + 1]
    BY <1>1, <1>9, <2>3
  <2> QED BY <1>9, <2>1, <2>2, <2>4
<1>15. \A n \in 1 .. N + 1 : PageNo(Slot(kind, n)) >= lo => IdOf(w, At(pg2, Slot(kind, n))) = n
  <2> SUFFICES ASSUME NEW n \in 1 .. N + 1, PageNo(Slot(kind, n)) >= lo
               PROVE  IdOf(w, At(pg2, Slot(kind, n))) = n
    OBVIOUS
  <2>0. n \in 1 .. N \/ n = N + 1
    BY <1>1
  <2>1. Slot(kind, n) \in Nat /\ Slot(kind, n) <= x /\ PageNo(Slot(kind, n)) \in Nat /\ Offset(Slot(kind, n)) \in Pos
    <3>1. Slot(kind, n) \in Nat /\ Slot(kind, n) <= x
      BY <1>1, <1>2, <2>0, SlotFacts DEF x
    <3> QED BY <3>1, DivMod
  <2>2. PageNo(Slot(kind, n)) \in lo .. C
    BY <1>2, <1>10, <2>1, PagesInOrder DEF C
  <2>3. /\ pg2[PageNo(Slot(kind, n))] = pg[PageNo(Slot(kind, n))] /\ pg[PageNo(Slot(kind, n))] \in Page
        /\ IdOf(w, At(pg2, Slot(kind, n))) = IdOf(u, At(pg, Slot(kind, n)))
    <3>1. /\ pg2[PageNo(Slot(kind, n))] = pg[PageNo(Slot(kind, n))] /\ pg[PageNo(Slot(kind, n))] \in Page
      BY <1>10, <2>2
    <3> QED BY <1>5, <2>1, <3>1 DEF At
  <2>4. CASE n = N + 1
    BY <1>1, <1>4, <2>1, <2>3, <2>4 DEF At, x, C
  <2>5. CASE n \in 1 .. N
    <3>1. Slot(kind, n) < x
      BY <1>1, <2>5, SlotFacts DEF x
    <3>2. pg[PageNo(Slot(kind, n))] = pg[C] => PageNo(Slot(kind, n)) = C
      BY <1>1, <1>10, <2>2
    <3>3. ~(pg[PageNo(Slot(kind, n))] = pg[C] /\ Offset(Slot(kind, n)) = Offset(x))
      BY <1>2, <2>1, <3>1, <3>2, PagesInOrder DEF C
    <3> QED BY <1>1, <1>4, <2>1, <2>3, <2>5, <3>3 DEF At
  <2> QED BY <1>1, <2>4, <2>5
<1>16. /\ Slot(kind, N + 1 + 1) = x + 1 /\ N + 1 \in Nat /\ C + 1 - 1 = C
       /\ w.nextTuple = At(pg2, x + 1) /\ w.curPage = pg2[C + 1]
  <2>1. Slot(kind, N + 1 + 1) = x + 1 /\ N + 1 \in Nat /\ C + 1 - 1 = C
    BY <1>1, <1>2
  <2> QED BY <1>3, <1>5, <1>9, <2>1 DEF At
<1>17. StreamMemory(kind, w, pg2, lo, N + 1, cnt2)
  <2> DEFINE y == Slot(kind, N + 1 + 1)
             D == PageNo(y)
  <2>1. y = x + 1 /\ D = C + 1 /\ D - 1 = C /\ Offset(y) = 0
    <3>1. y = x + 1
      BY <1>16
    <3> HIDE DEF y
    <3>2. D = C + 1 /\ Offset(y) = 0
      BY <1>3, <3>1
    <3> QED BY <1>2, <1>16, <3>1, <3>2
  <2>2. /\ StreamType(kind, w) /\ ~w.outOfMemory
        /\ N + 1 \in Nat /\ lo \in 0 .. D /\ pg2 \in [Nat -> Page] /\ cnt2 \in [Nat -> Int]
        /\ w.curPage = pg2[D] /\ w.nextTuple = At(pg2, y) /\ w.numAllocInCurPage = Offset(y)
    BY <1>5, <1>9, <1>10, <1>16, <2>1
  <2>3. /\ \A j, k \in lo .. D : pg2[j] = pg2[k] => j = k
        /\ NoneTwice(w.emptyPageList) /\ PagesOf(w.emptyPageList) = Page \ {pg2[k] : k \in lo .. D}
        /\ \A k \in lo .. D : w.page[pg2[k]].count = cnt2[k]
        /\ kind = "win" => \A k \in lo .. D - 1 : w.page[pg2[k]].next = pg2[k + 1]
    BY <1>5, <1>8, <1>11, <1>12, <1>13, <1>14, <2>1
  <2> QED BY <1>15, <2>2, <2>3 DEF StreamMemory, y, D
<1> QED BY <1>9, <1>17 DEF x, C, pg2, cnt2
(* Memory is out: nothing but the tuple itself has changed.                *)
Ended(K, m, w, N) ==
  /\ w.outOfMemory /\ w.emptyPageList = <<>> /\ SameWindows(K, m, w)
  /\ \A q \in Page : w.page[q].next = m.page[q].next
  /\ \A q \in Page : \A i \in Pos : IdOf(w, <<q, i>>) = IdOf(Written(m, N + 1), <<q, i>>)

(* A new tuple in the store of a stream.                                   *)
LEMMA NewInSimple ==
  ASSUME kind = "simple",
         NEW m, NEW pg, NEW lo, NEW N, NEW cnt, StreamMemory(kind, m, pg, lo, N, cnt),
         NEW w, w = Simple!newTuple(m, N + 1)
  PROVE  \/ Offset(Slot(kind, N + 1)) # TuplesPerPage - 1
            /\ w = [Written(m, N + 1) EXCEPT !.nextTuple = NextPlace(@)]
         \/ Offset(Slot(kind, N + 1)) = TuplesPerPage - 1
            /\ m.emptyPageList = <<>> /\ Ended(kind, m, w, N)
         \/ Offset(Slot(kind, N + 1)) = TuplesPerPage - 1
            /\ Continued(kind, m, w, N, Head(m.emptyPageList), 0, 1)
<1> DEFINE x == Slot(kind, N + 1)
           u == Written(m, N + 1)
           p == Head(m.emptyPageList)
<1>1. /\ StreamType(kind, m) /\ ~m.outOfMemory /\ N \in Nat
      /\ m.numAllocInCurPage = Offset(x)
  BY DEF StreamMemory
<1>2. x \in Nat /\ Offset(x) \in Pos
  BY <1>1, SlotFacts, DivMod
<1>5. w = IF u.numAllocInCurPage = TuplesPerPage THEN Simple!allocateNewPage(Simple!Filled(u))
          ELSE [u EXCEPT !.nextTuple = NextPlace(@)]
  BY DEF Simple!newTuple, Written, Simple!NextPlace, NextPlace
<1>0. u = Written(m, N + 1)
  OBVIOUS
<1> HIDE DEF u
<1>4. /\ StreamType(kind, u) /\ SameWindows(kind, m, u)
      /\ u.emptyPageList = m.emptyPageList /\ u.outOfMemory = m.outOfMemory
      /\ u.curPage = m.curPage /\ u.nextTuple = m.nextTuple
      /\ u.numAllocInCurPage = Offset(x) + 1
      /\ u.page \in [Page -> PageType] /\ m.curPage \in Page
      /\ \A q \in Page : /\ u.page[q].next = m.page[q].next
                         /\ u.page[q].count = m.page[q].count + IF q = m.curPage THEN 1 ELSE 0
                         /\ \A i \in Pos : IdOf(u, <<q, i>>) =
                              IF q = m.curPage /\ i = Offset(x) THEN N + 1 ELSE IdOf(m, <<q, i>>)
  BY <1>0, Taken DEF Streams
<1>6. u.numAllocInCurPage = TuplesPerPage <=> Offset(x) = TuplesPerPage - 1
  BY <1>2, <1>4, TuplesPerPageAssumption DEF Pos
<1> HIDE DEF x
<1>7. CASE Offset(x) # TuplesPerPage - 1
  BY <1>0, <1>5, <1>6, <1>7 DEF x
<1>8. CASE Offset(x) = TuplesPerPage - 1
  <2> DEFINE f == Simple!Filled(u)
  <2>1. f = [u EXCEPT !.page[u.curPage].count = @ - 1] /\ w = Simple!allocateNewPage(f)
    BY <1>5, <1>6, <1>8 DEF Simple!Filled
  <2> HIDE DEF f
  <2>2. [u.page EXCEPT ![u.curPage].count = @ - 1] \in [Page -> PageType]
    BY <1>4 DEF PageType
  <2>3. /\ DOMAIN f = StreamFields(kind) /\ f.page = [u.page EXCEPT ![u.curPage].count = @ - 1]
        /\ \A z \in StreamFields(kind) \ {"page"} : f[z] = u[z]
    BY <1>4, <2>1 DEF StreamType, StreamFields
  <2>4. \A q \in Page : /\ f.page[q].cell = u.page[q].cell /\ f.page[q].next = u.page[q].next
                        /\ f.page[q].count = m.page[q].count
    <3>1. \A q \in Page : m.page[q].count \in Int
      BY <1>1 DEF StreamType, PageType
    <3>2. \A q \in Page : /\ f.page[q].cell = u.page[q].cell /\ f.page[q].next = u.page[q].next
                          /\ f.page[q].count = IF q = m.curPage THEN u.page[q].count - 1
                                               ELSE u.page[q].count
      BY <1>4, <2>3 DEF PageType
    <3>3. \A q \in Page : u.page[q].count = m.page[q].count + IF q = m.curPage THEN 1 ELSE 0
      BY <1>4
    <3> QED BY <3>1, <3>2, <3>3
  <2>5. /\ StreamType(kind, f) /\ SameWindows(kind, m, f) /\ f.emptyPageList = m.emptyPageList
        /\ f.outOfMemory = FALSE /\ f.page \in [Page -> PageType]
    BY <1>1, <1>4, <2>2, <2>3 DEF StreamType, StreamFields, SameWindows
  <2>6. \A q \in Page : \A i \in Pos : IdOf(f, <<q, i>>) = IdOf(u, <<q, i>>)
    BY <2>4 DEF IdOf, CellOf
  <2>7. CASE m.emptyPageList = <<>>
    <3>1. w = [f EXCEPT !.outOfMemory = TRUE]
      BY <2>1, <2>5, <2>7 DEF Simple!allocateNewPage, Simple!allocatePage, StreamType, StreamFields
    <3>2. w.outOfMemory /\ w.emptyPageList = <<>> /\ w.page = f.page
      BY <2>5, <2>7, <3>1 DEF StreamType, StreamFields
    <3>3. Ended(kind, m, w, N)
      BY <1>0, <1>4, <2>4, <2>6, <3>2 DEF Ended, SameWindows, IdOf, CellOf
    <3> QED BY <1>8, <2>7, <3>3 DEF x
  <2>8. CASE m.emptyPageList # <<>>
    <3>1. m.emptyPageList \in Seq(Page) /\ p \in Page /\ Tail(m.emptyPageList) \in Seq(Page)
      BY <1>1, <2>8 DEF StreamType
    <3> HIDE DEF p
    <3> DEFINE g == [f EXCEPT !.emptyPageList = Tail(@)]
               P == [f.page EXCEPT ![p].count = 1]
    <3>2. Simple!allocatePage(f) = g /\ ~g.outOfMemory
      BY <2>5, <2>8 DEF Simple!allocatePage, StreamType, StreamFields
    <3>3. w = [g EXCEPT !.curPage = p, !.page[p].count = 1, !.nextTuple = <<p, 0>>,
                        !.numAllocInCurPage = 0]
      BY <2>1, <2>5, <3>2 DEF Simple!allocateNewPage, Simple!NewPage, Simple!FirstPlace, p
    <3>4. P \in [Page -> PageType]
      <4>1. \A z \in PageType : [z EXCEPT !.count = 1] \in PageType
        BY DEF PageType
      <4> QED BY <2>5, <3>1, <4>1
    <3>5. \A q \in Page : /\ P[q].cell = f.page[q].cell /\ P[q].next = f.page[q].next
                          /\ P[q].count = IF q = p THEN 1 ELSE f.page[q].count
      BY <2>5, <3>1 DEF PageType
    <3>6. /\ DOMAIN w = StreamFields(kind) /\ w.page = P /\ w.curPage = p /\ w.nextTuple = <<p, 0>>
          /\ w.numAllocInCurPage = 0 /\ w.emptyPageList = Tail(m.emptyPageList) /\ w.outOfMemory = FALSE
      <4>1. StreamFields(kind) = {"emptyPageList", "page", "outOfMemory", "curPage", "nextTuple",
                                  "numAllocInCurPage"}
        BY DEF StreamFields
      <4>2. DOMAIN f = StreamFields(kind) /\ f.emptyPageList = m.emptyPageList /\ f.outOfMemory = FALSE
        BY <2>3, <2>5
      <4>3. /\ DOMAIN g = StreamFields(kind) /\ g.page = f.page
            /\ g.emptyPageList = Tail(m.emptyPageList) /\ g.outOfMemory = FALSE
        BY <4>1, <4>2
      <4> HIDE DEF g, f
      <4>4. /\ DOMAIN w = StreamFields(kind) /\ w.page = [g.page EXCEPT ![p].count = 1]
            /\ w.curPage = p /\ w.nextTuple = <<p, 0>> /\ w.numAllocInCurPage = 0
            /\ w.emptyPageList = g.emptyPageList /\ w.outOfMemory = g.outOfMemory
        BY <3>3, <4>1, <4>3
      <4> QED BY <4>3, <4>4
    <3> HIDE DEF P
    <3>7. StreamType(kind, w)
      <4>1. <<p, 0>> \in PlaceType
        BY <3>1, TuplesPerPageAssumption DEF PlaceType, Pos
      <4>2. kind # "win"
        OBVIOUS
      <4>3. w.emptyPageList \in Seq(Page) /\ w.page \in [Page -> PageType]
        BY <3>1, <3>4, <3>6
      <4>5. w.curPage \in Page /\ w.nextTuple \in PlaceType
        BY <3>1, <3>6, <4>1
      <4>6. DOMAIN w = StreamFields(kind) /\ w.numAllocInCurPage \in Int
        BY <3>6
      <4>4. w.outOfMemory \in BOOLEAN
        BY <3>6, Zenon
      <4> QED BY <4>2, <4>3, <4>4, <4>5, <4>6 DEF StreamType
    <3>8. \A q \in Page : \A i \in Pos : IdOf(w, <<q, i>>) = IdOf(u, <<q, i>>)
      BY <2>4, <3>5, <3>6 DEF IdOf, CellOf
    <3>9. \A q \in Page : m.page[q].count \in Int
      BY <1>1 DEF StreamType, PageType
    <3>10. Continued(kind, m, w, N, p, 0, 1)
      BY <1>0, <2>4, <2>8, <3>5, <3>6, <3>7, <3>8, <3>9 DEF Continued, p
    <3> QED BY <1>8, <3>10 DEF x, p
  <2> QED BY <2>7, <2>8
<1> QED BY <1>7, <1>8
LEMMA ThreeStubs ==
  Cardinality(Stub) = 3 /\ Win!Cardinality(Stub) = 3
<1>1. Cardinality(1 .. 3) = 3
  <2>1. 1 \in Int /\ 3 \in Int
    OBVIOUS
  <2>2. Cardinality(1 .. 3) = IF 1 > 3 THEN 0 ELSE 3 - 1 + 1
    BY <2>1, FS_Interval, Zenon
  <2> QED BY <2>2
<1>2. Stub = 1 .. 3
  BY StubAssumption
<1>3. Cardinality(Stub) = 3
  BY <1>1, <1>2
<1>4. Win!Cardinality(Stub) = Cardinality(Stub)
  BY DEF Win!Cardinality, Cardinality, Win!IsFiniteSet, IsFiniteSet
<1> QED BY <1>3, <1>4

(* And in the store of windows.                                            *)
LEMMA NewInWin ==
  ASSUME kind = "win",
         NEW m, NEW pg, NEW lo, NEW N, NEW cnt, StreamMemory(kind, m, pg, lo, N, cnt),
         NEW w, w = Win!newTuple(m, N + 1)
  PROVE  \/ Offset(Slot(kind, N + 1)) # TuplesPerPage - 1
            /\ w = [Written(m, N + 1) EXCEPT !.nextTuple = NextPlace(@)]
         \/ Offset(Slot(kind, N + 1)) = TuplesPerPage - 1
            /\ m.emptyPageList = <<>> /\ Ended(kind, m, w, N)
         \/ Offset(Slot(kind, N + 1)) = TuplesPerPage - 1 /\ SameWindows(kind, m, w)
            /\ Continued(kind, m, w, N, Head(m.emptyPageList), 1, 3)
<1> DEFINE x == Slot(kind, N + 1)
           u == Written(m, N + 1)
           p == Head(m.emptyPageList)
           c == m.curPage
<1>1. /\ StreamType(kind, m) /\ ~m.outOfMemory /\ N \in Nat
      /\ m.numAllocInCurPage = Offset(x)
  BY DEF StreamMemory
<1>2. x \in Nat /\ Offset(x) \in Pos
  BY <1>1, SlotFacts, DivMod
<1>0. u = Written(m, N + 1)
  OBVIOUS
<1> HIDE DEF u
<1>4. /\ StreamType(kind, u) /\ SameWindows(kind, m, u)
      /\ u.emptyPageList = m.emptyPageList /\ u.outOfMemory = m.outOfMemory
      /\ u.curPage = m.curPage /\ u.nextTuple = m.nextTuple
      /\ u.numAllocInCurPage = Offset(x) + 1
      /\ u.page \in [Page -> PageType] /\ m.curPage \in Page
      /\ \A q \in Page : /\ u.page[q].next = m.page[q].next
                         /\ u.page[q].count = m.page[q].count + IF q = m.curPage THEN 1 ELSE 0
                         /\ \A i \in Pos : IdOf(u, <<q, i>>) =
                              IF q = m.curPage /\ i = Offset(x) THEN N + 1 ELSE IdOf(m, <<q, i>>)
  BY <1>0, Taken DEF Streams
<1>5. w = IF u.numAllocInCurPage < TuplesPerPage
          THEN [u EXCEPT !.nextTuple = NextPlace(@)]
          ELSE IF m.emptyPageList = <<>> THEN Win!allocatePage(u)
          ELSE [Win!allocatePage(u) EXCEPT !.page[c].next = p,
                                           !.curPage = p,
                                           !.page[p].count = Win!Cardinality(Stub),
                                           !.numAllocInCurPage = 0,
                                           !.nextTuple = <<p, 0>>]
  BY DEF u, Win!newTuple, Written, Win!NextPlace, NextPlace, Win!NewPage, Win!FirstPlace
<1>6. u.numAllocInCurPage < TuplesPerPage <=> Offset(x) # TuplesPerPage - 1
  BY <1>2, <1>4, TuplesPerPageAssumption DEF Pos
<1> HIDE DEF x
<1>7. CASE Offset(x) # TuplesPerPage - 1
  BY <1>0, <1>5, <1>6, <1>7 DEF x
<1>8. CASE Offset(x) = TuplesPerPage - 1 /\ m.emptyPageList = <<>>
  <2>1. w = [u EXCEPT !.outOfMemory = TRUE]
    BY <1>4, <1>5, <1>6, <1>8 DEF Win!allocatePage
  <2>2. w.outOfMemory /\ w.emptyPageList = <<>> /\ w.page = u.page /\ SameWindows(kind, u, w)
    BY <1>4, <1>8, <2>1 DEF StreamType, StreamFields, SameWindows
  <2>3. Ended(kind, m, w, N)
    BY <1>0, <1>4, <2>2 DEF Ended, SameWindows, IdOf, CellOf
  <2> QED BY <1>8, <2>3 DEF x
<1>9. CASE Offset(x) = TuplesPerPage - 1 /\ m.emptyPageList # <<>>
  <2>1. m.emptyPageList \in Seq(Page) /\ p \in Page /\ Tail(m.emptyPageList) \in Seq(Page)
    BY <1>1, <1>9 DEF StreamType
  <2> HIDE DEF p, c
  <2> DEFINE g == [u EXCEPT !.emptyPageList = Tail(@)]
             g1 == [g EXCEPT !.page[c].next = p]
             g2 == [g1 EXCEPT !.curPage = p]
             P == [u.page EXCEPT ![c].next = p]
             Q == [P EXCEPT ![p].count = 3]
  <2>2. Win!allocatePage(u) = g /\ u.emptyPageList = m.emptyPageList
    BY <1>4, <1>9 DEF Win!allocatePage
  <2>3. w = [g2 EXCEPT !.page[p].count = 3, !.numAllocInCurPage = 0,
                       !.nextTuple = <<p, 0>>]
    BY <1>5, <1>6, <1>9, <2>2, ThreeStubs
  <2>4. Win!Cardinality(Stub) = 3
    BY ThreeStubs
  <2>5. c \in Page /\ p \in Int
    BY <1>4, <2>1 DEF c, Page
  <2>6. P \in [Page -> PageType]
    <3>1. \A z \in PageType : [z EXCEPT !.next = p] \in PageType
      BY <2>5 DEF PageType
    <3> QED BY <1>4, <2>5, <3>1
  <2>7. \A q \in Page : /\ P[q].cell = u.page[q].cell /\ P[q].count = u.page[q].count
                        /\ P[q].next = IF q = c THEN p ELSE u.page[q].next
    BY <1>4, <2>5 DEF PageType
  <2>8. /\ DOMAIN g2 = StreamFields(kind) /\ g2.page = P /\ g2.curPage = p
        /\ g2.emptyPageList = Tail(m.emptyPageList)
        /\ \A z \in StreamFields(kind) \ {"page", "curPage", "emptyPageList"} : g2[z] = u[z]
    BY <1>4, <2>2 DEF StreamType, StreamFields
  <2> HIDE DEF g, g1, g2, P
  <2>9. Q \in [Page -> PageType]
    <3>1. \A z \in PageType : [z EXCEPT !.count = 3] \in PageType
      BY <2>4 DEF PageType
    <3> QED BY <2>1, <2>6, <3>1
  <2>10. \A q \in Page : /\ Q[q].cell = P[q].cell /\ Q[q].next = P[q].next
                         /\ Q[q].count = IF q = p THEN 3 ELSE P[q].count
    BY <2>1, <2>4, <2>6 DEF PageType
  <2>11. /\ DOMAIN w = StreamFields(kind) /\ w.page = Q /\ w.curPage = p /\ w.nextTuple = <<p, 0>>
         /\ w.numAllocInCurPage = 0 /\ w.emptyPageList = Tail(m.emptyPageList)
         /\ \A z \in StreamFields(kind) \ {"page", "curPage", "emptyPageList", "nextTuple",
                                     "numAllocInCurPage"} : w[z] = u[z]
    BY <2>3, <2>8 DEF StreamFields
  <2> HIDE DEF Q
  <2>12. /\ w.outOfMemory = u.outOfMemory /\ w.lastInsTuple = u.lastInsTuple
         /\ w.lastDelTuple = u.lastDelTuple /\ w.iters = u.iters
    BY <2>11 DEF StreamFields
  <2>13. StreamType(kind, w)
    <3>1. <<p, 0>> \in PlaceType
      BY <2>1, TuplesPerPageAssumption DEF PlaceType, Pos
    <3>2. w.emptyPageList \in Seq(Page) /\ w.page \in [Page -> PageType]
      BY <2>1, <2>9, <2>11
    <3>3. w.curPage \in Page /\ w.nextTuple \in PlaceType
      BY <2>1, <2>11, <3>1
    <3>4. DOMAIN w = StreamFields(kind) /\ w.numAllocInCurPage \in Int
      BY <2>11
    <3>5. /\ w.outOfMemory \in BOOLEAN
          /\ w.lastInsTuple \in [Stub -> PlaceType]
          /\ w.lastDelTuple \in [Stub -> PlaceType]
          /\ w.iters \in [Stub -> [lastOutputTuple : PlaceType, lastInsTuple : PlaceType]]
      BY <1>4, <2>12 DEF StreamType
    <3> QED BY <3>2, <3>3, <3>4, <3>5 DEF StreamType
  <2>14. \A q \in Page : \A i \in Pos : IdOf(w, <<q, i>>) = IdOf(u, <<q, i>>)
    BY <2>7, <2>10, <2>11 DEF IdOf, CellOf
  <2>15. SameWindows(kind, m, w)
    BY <1>4, <2>12 DEF SameWindows
  <2>16. /\ \A q \in Page : w.page[q].count = IF q = p THEN 3 ELSE m.page[q].count
                                                    + IF q = m.curPage THEN 1 ELSE 0
         /\ \A q \in Page : w.page[q].next = IF q = m.curPage THEN p ELSE m.page[q].next
    BY <1>4, <2>7, <2>10, <2>11 DEF c
  <2>17. ~w.outOfMemory
    BY <1>1, <1>4, <2>12
  <2>18. Continued(kind, m, w, N, p, 1, 3)
    BY <1>0, <1>9, <2>11, <2>13, <2>14, <2>16, <2>17 DEF Continued, p
  <2> QED BY <1>9, <2>15, <2>18 DEF x, p
<1> QED BY <1>7, <1>8, <1>9
-----------------------------------------------------------------------------
(***************************************************************************)
(* What a page counts.  In(kind, k, a, b) of the tuples after a and up to b are  *)
(* on page k.                                                              *)
(***************************************************************************)
Span(K, k, a, b) == {n \in a + 1 .. b : PageNo(Slot(K, n)) = k}
In(K, k, a, b) == Cardinality(Span(K, k, a, b))
One(P) == IF P THEN 1 ELSE 0

LEMMA InZero ==
  ASSUME NEW k, NEW a \in Nat, NEW b \in Nat, a <= b
  PROVE  /\ In(kind, k, a, b) \in Nat
         /\ In(kind, k, a, b) = 0 <=> \A n \in a + 1 .. b : PageNo(Slot(kind, n)) # k
<1>1. IsFiniteSet(Span(kind, k, a, b))
  <2>1. IsFiniteSet(a + 1 .. b)
    BY FS_Interval
  <2> QED BY <2>1, FS_Subset DEF Span
<1>2. In(kind, k, a, b) \in Nat /\ (In(kind, k, a, b) = 0 <=> Span(kind, k, a, b) = {})
  BY <1>1, FS_CardinalityType, FS_EmptySet DEF In
<1> QED BY <1>2 DEF Span

LEMMA InFacts ==
  ASSUME NEW k, NEW a \in Nat, NEW b \in Nat, a <= b
  PROVE  /\ In(kind, k, a, b) \in Nat
         /\ In(kind, k, a, b + 1) = In(kind, k, a, b) + One(PageNo(Slot(kind, b + 1)) = k)
         /\ a < b => In(kind, k, a, b) = In(kind, k, a + 1, b) + One(PageNo(Slot(kind, a + 1)) = k)
<1>1. IsFiniteSet(Span(kind, k, a, b))
  <2>1. IsFiniteSet(a + 1 .. b)
    BY FS_Interval
  <2> QED BY <2>1, FS_Subset DEF Span
<1>2. In(kind, k, a, b) \in Nat
  BY InZero
<1>3. In(kind, k, a, b + 1) = In(kind, k, a, b) + One(PageNo(Slot(kind, b + 1)) = k)
  <2>1. \A n : n \in a + 1 .. b + 1 <=> n \in a + 1 .. b \/ n = b + 1
    OBVIOUS
  <2>2. b + 1 \notin a + 1 .. b
    OBVIOUS
  <2>3. CASE PageNo(Slot(kind, b + 1)) = k
    <3>1. Span(kind, k, a, b + 1) = Span(kind, k, a, b) \cup {b + 1} /\ b + 1 \notin Span(kind, k, a, b)
      BY <2>1, <2>2, <2>3 DEF Span
    <3> QED BY <1>1, <2>3, <3>1, FS_AddElement DEF In, One
  <2>4. CASE PageNo(Slot(kind, b + 1)) # k
    <3>1. Span(kind, k, a, b + 1) = Span(kind, k, a, b)
      BY <2>1, <2>4 DEF Span
    <3> QED BY <1>2, <2>4, <3>1 DEF In, One
  <2> QED BY <2>3, <2>4
<1>4. ASSUME a < b
      PROVE  In(kind, k, a, b) = In(kind, k, a + 1, b) + One(PageNo(Slot(kind, a + 1)) = k)
  <2>1. \A n : n \in a + 1 .. b <=> n \in a + 1 + 1 .. b \/ n = a + 1
    BY <1>4
  <2>2. a + 1 \notin a + 1 + 1 .. b
    OBVIOUS
  <2>3. CASE PageNo(Slot(kind, a + 1)) = k
    <3>1. Span(kind, k, a, b) = Span(kind, k, a + 1, b) \cup {a + 1} /\ a + 1 \notin Span(kind, k, a + 1, b)
      BY <2>1, <2>2, <2>3 DEF Span
    <3>2. IsFiniteSet(Span(kind, k, a + 1, b))
      BY <1>1, <3>1, FS_Subset
    <3>3. Cardinality(Span(kind, k, a, b)) = Cardinality(Span(kind, k, a + 1, b)) + 1
      BY <3>1, <3>2, FS_AddElement
    <3> QED BY <2>3, <3>3 DEF In, One
  <2>4. CASE PageNo(Slot(kind, a + 1)) # k
    <3>1. Span(kind, k, a, b) = Span(kind, k, a + 1, b)
      BY <2>1, <2>4 DEF Span
    <3> QED BY <1>2, <2>4, <3>1 DEF In, One
  <2> QED BY <2>3, <2>4
<1> QED BY <1>2, <1>3, <1>4

(* Only the counts of the pages in use matter.                             *)
LEMMA SameCounts ==
  ASSUME NEW m, NEW pg, NEW lo, NEW N, NEW cnt, StreamMemory(kind, m, pg, lo, N, cnt),
         NEW cnt2 \in [Nat -> Int], \A k \in lo .. PageNo(Slot(kind, N + 1)) : cnt2[k] = cnt[k]
  PROVE  StreamMemory(kind, m, pg, lo, N, cnt2)
BY DEF StreamMemory
-----------------------------------------------------------------------------
(* References to a tuple of page k: some more, and one less.               *)
LEMMA MoreRefs ==
  ASSUME kind \in Streams,
         NEW m, NEW pg, NEW lo, NEW N, NEW cnt, StreamMemory(kind, m, pg, lo, N, cnt),
         NEW k \in lo .. PageNo(Slot(kind, N + 1)), NEW i \in Int, NEW t, t[1] = pg[k],
         NEW w, w = Simple!addRef(m, t, i) \/ w = Win!addRef(m, t, i)
  PROVE  StreamMemory(kind, w, pg, lo, N, [cnt EXCEPT ![k] = @ + i]) /\ SameWindows(kind, m, w)
<1>1. w = [m EXCEPT !.page[pg[k]].count = @ + i]
  BY DEF Simple!addRef, Win!addRef, Simple!PageOf, Win!PageOf
<1> QED BY <1>1, Recount

LessRef(K, m, pg, lo, N, cnt, k, t, w) ==
  /\ k \in lo .. PageNo(Slot(K, N + 1)) /\ t[1] = pg[k]
  /\ cnt[k] = 1 => k = lo /\ lo < PageNo(Slot(K, N + 1))
  /\ w = Simple!decrRef(m, t) \/ w = Win!decrRef(m, t)

LEMMA LessRefs ==
  ASSUME kind \in Streams,
         NEW m, NEW pg, NEW lo, NEW N, NEW cnt, StreamMemory(kind, m, pg, lo, N, cnt),
         NEW k, NEW t, NEW w, LessRef(kind, m, pg, lo, N, cnt, k, t, w)
  PROVE  /\ StreamMemory(kind, w, pg, IF cnt[k] = 1 THEN lo + 1 ELSE lo, N, [cnt EXCEPT ![k] = @ - 1])
         /\ SameWindows(kind, m, w)
<1> DEFINE d == [m EXCEPT !.page[pg[k]].count = @ - 1]
           C == PageNo(Slot(kind, N + 1))
           cnt2 == [cnt EXCEPT ![k] = @ - 1]
           z == -1
<1>8. z \in Int
  OBVIOUS
<1>0. /\ k \in lo .. PageNo(Slot(kind, N + 1)) /\ t[1] = pg[k]
      /\ cnt[k] = 1 => k = lo /\ lo < PageNo(Slot(kind, N + 1))
      /\ w = Simple!decrRef(m, t) \/ w = Win!decrRef(m, t)
  BY DEF LessRef
<1> USE <1>0
<1>1. w = IF d.page[pg[k]].count = 0
          THEN [d EXCEPT !.emptyPageList = <<pg[k]>> \o @, !.page[pg[k]] = BlankPage] ELSE d
  BY DEF Simple!decrRef, Win!decrRef, Simple!PageOf, Win!PageOf, Simple!deallocatePage,
         Win!deallocatePage, Simple!BlankPage, Win!BlankPage, Simple!BlankCell, Win!BlankCell,
         BlankPage, BlankCell, Simple!NoTuple, Win!NoTuple, NoTuple, Simple!Nothing, Win!Nothing,
         Nothing, Simple!Pos, Win!Pos, Pos
<1>2. /\ m.page \in [Page -> PageType] /\ pg[k] \in Page /\ cnt \in [Nat -> Int] /\ k \in Nat
      /\ C \in Nat /\ lo \in 0 .. C /\ m.page[pg[k]].count = cnt[k]
  <2>1. /\ N \in Nat /\ lo \in 0 .. C /\ pg \in [Nat -> Page] /\ cnt \in [Nat -> Int]
        /\ m.page \in [Page -> PageType] /\ \A l \in lo .. C : m.page[pg[l]].count = cnt[l]
    BY DEF StreamMemory, StreamType
  <2>2. C \in Nat
    BY <2>1, SlotFacts, DivMod
  <2> QED BY <2>1, <2>2
<1>3. d = [m EXCEPT !.page[pg[k]].count = @ + z]
  <2>1. m.page[pg[k]].count - 1 = m.page[pg[k]].count + z
    BY <1>2
  <2> QED BY <2>1
<1>z. cnt2 = [cnt EXCEPT ![k] = @ + z]
  <2>1. cnt[k] - 1 = cnt[k] + z
    BY <1>2
  <2> QED BY <2>1
<1>5. /\ cnt[k] + z = 0 <=> cnt[k] = 1
  BY <1>2
<1> HIDE DEF d, cnt2, z
<1>4. /\ StreamMemory(kind, d, pg, lo, N, [cnt EXCEPT ![k] = @ + z])
      /\ SameWindows(kind, m, d) /\ d.page[pg[k]].count = cnt[k] + z
  <2>1. ASSUME NEW i \in Int, NEW v, v = [m EXCEPT !.page[pg[k]].count = @ + i]
        PROVE  /\ StreamMemory(kind, v, pg, lo, N, [cnt EXCEPT ![k] = @ + i])
               /\ SameWindows(kind, m, v)
               /\ v.page[pg[k]].count = cnt[k] + i
    <3>1. StreamMemory(kind, v, pg, lo, N, [cnt EXCEPT ![k] = @ + i]) /\ SameWindows(kind, m, v)
      BY <2>1, Recount
    <3>2. v.page[pg[k]].count = cnt[k] + i
      <4>1. v.page[pg[k]].count = [cnt EXCEPT ![k] = @ + i][k]
        BY <3>1 DEF StreamMemory
      <4> QED BY <1>2, <4>1
    <3> QED BY <3>1, <3>2
  <2> QED BY <1>8, <1>3, <2>1
<1>6. CASE cnt[k] = 1
  <2>1. w = [d EXCEPT !.emptyPageList = <<pg[lo]>> \o @, !.page[pg[lo]] = BlankPage]
    BY <1>1, <1>4, <1>5, <1>6
  <2>2. StreamMemory(kind, w, pg, lo + 1, N, cnt2) /\ SameWindows(kind, d, w)
    <3>1. lo < PageNo(Slot(kind, N + 1)) /\ StreamMemory(kind, d, pg, lo, N, cnt2)
      BY <1>4, <1>z, <1>6
    <3> QED BY <2>1, <3>1, GiveBack
  <2> QED BY <1>4, <1>6, <2>2 DEF SameWindows, cnt2
<1>7. CASE cnt[k] # 1
  <2>1. cnt[k] + z # 0
    BY <1>5, <1>7
  <2>2. w = d
    BY <1>1, <1>4, <2>1
  <2> QED BY <1>4, <1>z, <1>7, <2>2 DEF cnt2
<1> QED BY <1>6, <1>7
-----------------------------------------------------------------------------
(***************************************************************************)
(* What holds of both stores for streams.                                  *)
(***************************************************************************)
Element == [sign : {"+", "-"}, tuple : Nat]

LEMMA Signs ==
  /\ \A t : Plus(t).sign = "+" /\ Plus(t).tuple = t
  /\ \A t : Minus(t).sign = "-" /\ Minus(t).tuple = t
BY DEF Plus, Minus

(* The tuples a + 1 to b, as they are inserted.                            *)
Pluses(s, a, b) ==
  /\ s \in Seq(Element) /\ b \in Nat /\ a \in 0 .. b /\ Len(s) = b - a
  /\ \A j \in 1 .. b - a : s[j] = Plus(a + j)

LEMMA MorePluses ==
  ASSUME NEW s, NEW a, NEW b, Pluses(s, a, b)
  PROVE  Pluses(Append(s, Plus(b + 1)), a, b + 1)
<1>1. s \in Seq(Element) /\ b \in Nat /\ a \in Nat /\ a <= b /\ Len(s) = b - a
  BY DEF Pluses
<1>2. Plus(b + 1) \in Element
  BY <1>1 DEF Plus, Element
<1> DEFINE w == Append(s, Plus(b + 1))
<1>3. w \in Seq(Element) /\ Len(w) = b + 1 - a
  BY <1>1, <1>2
<1>4. \A j \in 1 .. b + 1 - a : w[j] = Plus(a + j)
  <2> TAKE j \in 1 .. b + 1 - a
  <2>1. CASE j = Len(s) + 1
    <3>1. w[j] = Plus(b + 1) /\ a + j = b + 1
      BY <1>1, <2>1
    <3> QED BY <3>1
  <2>2. CASE j \in 1 .. b - a
    BY <1>1, <2>2 DEF Pluses
  <2> QED BY <1>1, <2>1, <2>2
<1> QED BY <1>1, <1>3, <1>4 DEF Pluses

LEMMA LessPluses ==
  ASSUME NEW s, NEW a, NEW b, Pluses(s, a, b), s # <<>>
  PROVE  a < b /\ Head(s) = Plus(a + 1) /\ Pluses(Tail(s), a + 1, b)
<1>1. s \in Seq(Element) /\ b \in Nat /\ a \in Nat /\ a <= b /\ Len(s) = b - a
  BY DEF Pluses
<1>2. Len(s) \in Nat \ {0} /\ Head(s) = s[1] /\ Tail(s) \in Seq(Element)
      /\ Len(Tail(s)) = Len(s) - 1 /\ \A j \in 1 .. Len(s) - 1 : Tail(s)[j] = s[j + 1]
  BY <1>1
<1>3. a < b /\ a + 1 \in 0 .. b /\ Len(Tail(s)) = b - (a + 1) /\ 1 \in 1 .. b - a
  BY <1>1, <1>2
<1>4. \A j \in 1 .. b - (a + 1) : Tail(s)[j] = Plus(a + 1 + j)
  <2> TAKE j \in 1 .. b - (a + 1)
  <2>1. j + 1 \in 1 .. b - a /\ a + (j + 1) = a + 1 + j /\ j \in 1 .. Len(s) - 1
    BY <1>1
  <2>2. Tail(s)[j] = s[j + 1] /\ s[j + 1] = Plus(a + (j + 1))
    BY <1>2, <2>1 DEF Pluses
  <2> QED BY <2>1, <2>2
<1> QED BY <1>1, <1>2, <1>3, <1>4 DEF Pluses

LEMMA PlusesRead ==
  ASSUME NEW s, NEW a, NEW b, Pluses(s, a, b), NEW i \in 1 .. Len(s)
  PROVE  s[i].sign = "+" /\ s[i].tuple \in a + 1 .. b
<1>1. b \in Nat /\ a \in Nat /\ a <= b /\ Len(s) = b - a /\ s[i] = Plus(a + i)
  BY DEF Pluses
<1> QED BY <1>1 DEF Plus

(* A tuple on a page in use is where it was made, and memory that is out   *)
(* changes nothing about that.                                             *)
LEMMA Held ==
  ASSUME NEW m, NEW pg, NEW lo, NEW N, NEW cnt, StreamMemory(kind, m, pg, lo, N, cnt),
         NEW n \in 1 .. N, PageNo(Slot(kind, n)) >= lo
  PROVE  /\ PageNo(Slot(kind, n)) \in lo .. PageNo(Slot(kind, N + 1))
         /\ IdOf(m, At(pg, Slot(kind, n))) = n
         /\ PageOf(At(pg, Slot(kind, n))) \notin PagesOf(m.emptyPageList)
<1>1. N \in Nat /\ lo \in Nat /\ Slot(kind, n) \in Nat /\ Slot(kind, n) <= Slot(kind, N + 1) /\ Slot(kind, N + 1) \in Nat
  <2>1. N \in Nat /\ lo \in 0 .. PageNo(Slot(kind, N + 1))
    BY DEF StreamMemory
  <2> QED BY <2>1, SlotFacts
<1>2. PageNo(Slot(kind, n)) \in Nat /\ PageNo(Slot(kind, n)) <= PageNo(Slot(kind, N + 1)) /\ PageNo(Slot(kind, N + 1)) \in Nat
  BY <1>1, DivMod, PagesInOrder
<1>3. PageNo(Slot(kind, n)) \in lo .. PageNo(Slot(kind, N + 1))
  BY <1>1, <1>2
<1>4. PageOf(At(pg, Slot(kind, n))) = pg[PageNo(Slot(kind, n))]
  BY DEF PageOf, At
<1> QED BY <1>3, <1>4 DEF StreamMemory

LEMMA HeldAtEnd ==
  ASSUME kind \in Streams,
         NEW m, NEW pg, NEW lo, NEW N, NEW cnt, StreamMemory(kind, m, pg, lo, N, cnt),
         NEW n \in 1 .. N, PageNo(Slot(kind, n)) >= lo,
         NEW w, Ended(kind, m, w, N)
  PROVE  /\ IdOf(w, At(pg, Slot(kind, n))) = n
         /\ PageOf(At(pg, Slot(kind, n))) \notin PagesOf(w.emptyPageList)
<1> DEFINE x == Slot(kind, N + 1)
           C == PageNo(x)
           y == Slot(kind, n)
<1>1. N \in Nat /\ lo \in 0 .. C /\ m.curPage = pg[C] /\ pg \in [Nat -> Page]
      /\ \A j, l \in lo .. C : pg[j] = pg[l] => j = l
  BY DEF StreamMemory
<1>2. y \in Nat /\ y < x /\ x \in Nat
  BY <1>1, SlotFacts
<1>3. PageNo(y) \in lo .. C /\ IdOf(m, At(pg, y)) = n
  BY Held
<1>4. Offset(y) \in Pos /\ C \in Nat
  BY <1>2, DivMod
<1>5. ~(pg[PageNo(y)] = m.curPage /\ Offset(y) = Offset(x))
  <2>1. C \in lo .. C
    BY <1>1, <1>4
  <2>2. pg[PageNo(y)] = pg[C] => PageNo(y) = C
    BY <1>1, <1>3, <2>1
  <2> QED BY <1>1, <1>2, <2>2, PagesInOrder
<1>6. PageNo(y) \in Nat /\ pg[PageNo(y)] \in Page
  BY <1>1, <1>2, DivMod
<1>7. \A q \in Page : \A i \in Pos : IdOf(Written(m, N + 1), <<q, i>>) =
        IF q = m.curPage /\ i = Offset(x) THEN N + 1 ELSE IdOf(m, <<q, i>>)
  <2> DEFINE u == Written(m, N + 1)
  <2>1. u = Written(m, N + 1)
    OBVIOUS
  <2> HIDE DEF u
  <2>2. \A q \in Page : /\ u.page[q].next = m.page[q].next
                        /\ u.page[q].count = m.page[q].count + IF q = m.curPage THEN 1 ELSE 0
                        /\ \A i \in Pos : IdOf(u, <<q, i>>) =
                             IF q = m.curPage /\ i = Offset(x) THEN N + 1 ELSE IdOf(m, <<q, i>>)
    BY <2>1, Taken
  <2> QED BY <2>1, <2>2
<1>8. IdOf(w, At(pg, y)) = IdOf(Written(m, N + 1), At(pg, y))
  BY <1>4, <1>6 DEF Ended, At
<1>9. IdOf(w, At(pg, y)) = n
  <2> HIDE DEF x, y, C
  <2> QED BY <1>3, <1>4, <1>5, <1>6, <1>7, <1>8 DEF At
<1>10. PagesOf(w.emptyPageList) = {}
  BY DEF Ended, PagesOf
<1> QED BY <1>9, <1>10

(* Each page from that of the tuple after a on has a tuple, but for the    *)
(* page that is being filled.                                              *)
LEMMA SomeOnPage ==
  ASSUME NEW N \in Nat, NEW a \in 0 .. N,
         NEW k \in Nat, PageNo(Slot(kind, a + 1)) <= k, k < PageNo(Slot(kind, N + 1))
  PROVE  \E n \in a + 1 .. N : PageNo(Slot(kind, n)) = k
<1>1. /\ Slot(kind, a + 1) \in Nat /\ Slot(kind, N + 1) \in Nat /\ Slot(kind, a + 1) <= Slot(kind, N + 1)
  BY DEF Slot
<1>2. CASE k = PageNo(Slot(kind, a + 1))
  <2>1. a # N
    BY <1>1, <1>2, DivMod
  <2>2. a + 1 \in a + 1 .. N
    BY <2>1
  <2> QED BY <1>2, <2>2
<1>3. CASE k # PageNo(Slot(kind, a + 1))
  <2> DEFINE y == TuplesPerPage * k
             n == IF kind = "win" THEN y ELSE y + 1
  <2>1. y \in Nat /\ Slot(kind, n) = y
    BY TuplesPerPageAssumption DEF Slot
  <2>2. PageNo(y) = k
    <3>1. PageNo(y) \in Nat /\ Offset(y) \in Pos /\ y = TuplesPerPage * PageNo(y) + Offset(y)
      BY <2>1, DivMod
    <3>2. 0 \in Pos /\ TuplesPerPage * k + 0 = y
      BY <2>1, TuplesPerPageAssumption DEF Pos
    <3> HIDE DEF y
    <3> QED BY <3>1, <3>2, Unique
  <2> HIDE DEF y
  <2>3. PageNo(Slot(kind, a + 1)) \in Nat /\ PageNo(Slot(kind, N + 1)) \in Nat
    BY <1>1, DivMod
  <2>4. ~(y <= Slot(kind, a + 1))
    <3>1. ~(PageNo(y) <= PageNo(Slot(kind, a + 1)))
      BY <1>3, <2>2, <2>3
    <3> QED BY <1>1, <2>1, <3>1, PagesInOrder
  <2>5. ~(Slot(kind, N + 1) <= y)
    <3>1. ~(PageNo(Slot(kind, N + 1)) <= PageNo(y))
      BY <2>2, <2>3
    <3> QED BY <1>1, <2>1, <3>1, PagesInOrder
  <2>6. n \in a + 1 .. N
    BY <2>1, <2>4, <2>5 DEF Slot
  <2> QED BY <2>1, <2>2, <2>6
<1> QED BY <1>2, <1>3
-----------------------------------------------------------------------------
(***************************************************************************)
(* The store of a stream.  Reader r has read the first q[r] tuples; a page *)
(* counts the tuples of it that a reader has still to read.                *)
(***************************************************************************)
SimpleCount(K, N, q) ==
  [k \in Nat |-> In(K, k, q[2], N) + In(K, k, q[3], N) + One(k = PageNo(Slot(K, N + 1)))]

(* The reader that is behind has to read the tuple of the first page next. *)
Behind(K, N, lo, q) ==
  /\ N \in Nat /\ lo \in Nat /\ q \in [{2, 3} -> Nat]
  /\ \A r \in {2, 3} : q[r] <= N /\ lo <= PageNo(Slot(K, q[r] + 1))
  /\ \E r \in {2, 3} : lo = PageNo(Slot(K, q[r] + 1))

SimpleInv(pg, lo, q) ==
  LET N == Len(place) IN
  /\ place \in Seq(PlaceType) /\ \A n \in 1 .. N : place[n] = At(pg, Slot(kind, n))
  /\ queue \in [Stub -> Seq(Element)] /\ queue[1] = <<>>
  /\ \A r \in {2, 3} : Pluses(queue[r], q[r], N)
  /\ Behind(kind, N, lo, q)
  /\ StreamMemory(kind, store, pg, lo, N, SimpleCount(kind, N, q))

SimpleIndInv ==
  kind = "simple" =>
    /\ has = [s \in Stub |-> {}] /\ scanning = {}
    /\ IF Running(store) THEN \E pg, lo, q : SimpleInv(pg, lo, q) ELSE NothingLost

LEMMA SimpleOps ==
  ASSUME kind = "simple"
  PROVE  /\ \A m : NewPlace(m) = m.nextTuple
         /\ \A m, id : newTuple(m, id) = Simple!newTuple(m, id)
         /\ \A m, t : decrRef(m, t) = Simple!decrRef(m, t)
         /\ \A m, t : Given(m, 0, t) = Simple!addRef(m, t, 1)
         /\ \A r : r \in ReadersOf(0) <=> r \in {2, 3}
         /\ Keepers = {}
<1>1. ReadersOf(0) = {2, 3}
  BY StubAssumption DEF ReadersOf, Reads
<1>2. Cardinality({2, 3}) - 1 = 1
  <2>1. 2 \in Int /\ 3 \in Int
    OBVIOUS
  <2>2. Cardinality(2 .. 3) = IF 2 > 3 THEN 0 ELSE 3 - 2 + 1
    BY <2>1, FS_Interval, Zenon
  <2>3. {2, 3} = 2 .. 3
    OBVIOUS
  <2> QED BY <2>2, <2>3
<1>3. \A m, t : Given(m, 0, t) = Simple!addRef(m, t, 1)
  <2> TAKE m, t
  <2>1. Given(m, 0, t) = addRef(m, t, Cardinality({2, 3}) - 1)
    <3>1. ReadersOf(0) # {}
      BY <1>1
    <3> QED BY <1>1, <3>1 DEF Given
  <2>2. addRef(m, t, 1) = Simple!addRef(m, t, 1)
    BY DEF addRef, Listed, Linked
  <2> QED BY <1>2, <2>1, <2>2
<1>4. /\ \A m : NewPlace(m) = m.nextTuple
      /\ \A m, id : newTuple(m, id) = Simple!newTuple(m, id)
  BY DEF NewPlace, newTuple, Simple!NewPlace, Listed, Linked
<1>5. \A m, t : decrRef(m, t) = Simple!decrRef(m, t)
  BY DEF decrRef, Listed, Linked
<1>6. Keepers = {}
  BY DEF Keepers
<1> QED BY <1>1, <1>3, <1>4, <1>5, <1>6

(* Who may look at a tuple has it before it.                               *)
LEMMA SimpleInUse ==
  ASSUME kind = "simple", has = [s \in Stub |-> {}],
         NEW pg, NEW lo, NEW q, SimpleInv(pg, lo, q)
  PROVE  \A n : n \in InUse <=> \E r \in {2, 3} : n \in q[r] + 1 .. Len(place)
<1> DEFINE N == Len(place)
<1>1. /\ Stub = {1, 2, 3} /\ queue[1] = <<>> /\ \A s \in Stub : has[s] = {}
      /\ \A r \in {2, 3} : Pluses(queue[r], q[r], N)
  BY StubAssumption DEF SimpleInv
<1>2. \A n : n \in InUse <=> \E s \in {2, 3} : \E i \in 1 .. Len(queue[s]) : queue[s][i].tuple = n
  BY <1>1 DEF InUse
<1>3. ASSUME NEW r \in {2, 3}, NEW n
      PROVE  n \in q[r] + 1 .. N <=> \E i \in 1 .. Len(queue[r]) : queue[r][i].tuple = n
  <2>1. /\ N \in Nat /\ q[r] \in 0 .. N /\ Len(queue[r]) = N - q[r]
        /\ \A j \in 1 .. N - q[r] : queue[r][j] = Plus(q[r] + j)
    BY <1>1 DEF Pluses
  <2>2. \A j \in 1 .. N - q[r] : queue[r][j].tuple = q[r] + j
    <3> TAKE j \in 1 .. N - q[r]
    <3>1. queue[r][j] = Plus(q[r] + j)
      BY <2>1
    <3> QED BY <3>1, Signs
  <2>3. ASSUME n \in q[r] + 1 .. N
        PROVE  \E i \in 1 .. Len(queue[r]) : queue[r][i].tuple = n
    <3>1. n - q[r] \in 1 .. N - q[r] /\ q[r] + (n - q[r]) = n
      BY <2>1, <2>3
    <3> QED BY <2>1, <2>2, <3>1
  <2>4. ASSUME NEW i \in 1 .. Len(queue[r]), queue[r][i].tuple = n
        PROVE  n \in q[r] + 1 .. N
    BY <2>1, <2>2, <2>4
  <2> QED BY <2>3, <2>4
<1> QED BY <1>2, <1>3

LEMMA SimpleOnPages ==
  ASSUME kind = "simple", has = [s \in Stub |-> {}],
         NEW pg, NEW lo, NEW q, SimpleInv(pg, lo, q), NEW n \in InUse
  PROVE  n \in 1 .. Len(place) /\ PageNo(Slot(kind, n)) >= lo
<1>1. PICK r \in {2, 3} : n \in q[r] + 1 .. Len(place)
  BY SimpleInUse
<1>2. /\ Len(place) \in Nat /\ q[r] \in 0 .. Len(place) /\ lo <= PageNo(Slot(kind, q[r] + 1))
      /\ lo \in Nat
  <2>1. Pluses(queue[r], q[r], Len(place)) /\ Behind(kind, Len(place), lo, q)
    BY DEF SimpleInv
  <2> QED BY <2>1 DEF Pluses, Behind
<1>3. Slot(kind, q[r] + 1) \in Nat /\ Slot(kind, n) \in Nat /\ Slot(kind, q[r] + 1) <= Slot(kind, n)
  BY <1>1, <1>2 DEF Slot
<1>4. PageNo(Slot(kind, q[r] + 1)) <= PageNo(Slot(kind, n))
  BY <1>3, PagesInOrder
<1>5. PageNo(Slot(kind, q[r] + 1)) \in Nat /\ PageNo(Slot(kind, n)) \in Nat
  BY <1>3, DivMod
<1> QED BY <1>1, <1>2, <1>4, <1>5

LEMMA SimpleLost ==
  ASSUME SimpleIndInv, kind = "simple"
  PROVE  NothingLost
<1>1. CASE ~Running(store)
  BY <1>1 DEF SimpleIndInv
<1>2. CASE Running(store)
  <2>1. PICK pg, lo, q : SimpleInv(pg, lo, q)
    BY <1>2 DEF SimpleIndInv
  <2>2. ASSUME NEW n \in InUse
        PROVE  IdOf(store, place[n]) = n /\ PageOf(place[n]) \notin EmptyPages
    <3>1. n \in 1 .. Len(place) /\ PageNo(Slot(kind, n)) >= lo
      BY <2>1, SimpleOnPages DEF SimpleIndInv
    <3>2. place[n] = At(pg, Slot(kind, n)) /\ StreamMemory(kind, store, pg, lo, Len(place), SimpleCount(kind, Len(place), q))
      BY <2>1, <3>1 DEF SimpleInv
    <3> QED BY <3>1, <3>2, Held DEF EmptyPages, PagesOf
  <2>3. kind \notin Listed
    BY DEF Listed, Linked
  <2> QED BY <2>2, <2>3 DEF NothingLost
<1> QED BY <1>1, <1>2

LEMMA SimpleLeaked ==
  ASSUME SimpleIndInv, kind = "simple"
  PROVE  NothingLeaked
<1> SUFFICES ASSUME Running(store), NEW p \in Page \ EmptyPages, p # store.curPage
             PROVE  \E t \in PlacesInUse : PageOf(t) = p
  <2>1. NothingLeaked <=> (Running(store) =>
          \A p \in Page \ EmptyPages :
             \/ p = store.curPage
             \/ \E t \in PlacesInUse : PageOf(t) = p
             \/ kind = "win" /\ \E s \in Stub : PageOf(store.lastDelTuple[s]) = p)
    <3>1. kind \in {"simple", "win"}
      OBVIOUS
    <3> QED BY <3>1 DEF NothingLeaked, Listed, Linked
  <2> QED BY <2>1
<1> DEFINE N == Len(place)
           C == PageNo(Slot(kind, N + 1))
<1>1. PICK pg, lo, q : SimpleInv(pg, lo, q)
  BY DEF SimpleIndInv
<1>2. /\ N \in Nat /\ lo \in 0 .. C /\ store.curPage = pg[C]
      /\ PagesOf(store.emptyPageList) = Page \ {pg[k] : k \in lo .. C}
      /\ \A n \in 1 .. N : place[n] = At(pg, Slot(kind, n))
  BY <1>1 DEF SimpleInv, StreamMemory
<1>3. C \in Nat
  BY <1>2, SlotFacts, DivMod
<1>4. PICK k \in lo .. C : p = pg[k]
  BY <1>2 DEF EmptyPages, PagesOf
<1>5. k < C /\ k \in Nat
  BY <1>2, <1>3, <1>4
<1>6. PICK r \in {2, 3} : lo = PageNo(Slot(kind, q[r] + 1))
  BY <1>1 DEF SimpleInv, Behind
<1>7. q[r] \in 0 .. N
  BY <1>1 DEF SimpleInv, Pluses
<1>8. PICK n \in q[r] + 1 .. N : PageNo(Slot(kind, n)) = k
  <2>1. PageNo(Slot(kind, q[r] + 1)) <= k
    BY <1>2, <1>3, <1>4, <1>6
  <2>2. \E n \in q[r] + 1 .. N : PageNo(Slot(kind, n)) = k
    <3> HIDE DEF N
    <3> QED BY <1>2, <1>5, <1>7, <2>1, SomeOnPage
  <2> QED BY <2>2
<1>9. n \in InUse /\ n \in 1 .. N
  <2>1. n \in InUse
    BY <1>1, <1>8, SimpleInUse DEF SimpleIndInv
  <2> QED BY <1>2, <1>7, <1>8, <2>1
<1>10. PageOf(place[n]) = p
  BY <1>2, <1>4, <1>8, <1>9 DEF PageOf, At
<1> QED BY <1>9, <1>10 DEF PlacesInUse
LEMMA PageOrder ==
  ASSUME NEW a \in Nat \ {0}
  PROVE  /\ PageNo(Slot(kind, a)) \in Nat
         /\ PageNo(Slot(kind, a + 1)) \in {PageNo(Slot(kind, a)), PageNo(Slot(kind, a)) + 1}
         /\ \A b \in Nat : a <= b => PageNo(Slot(kind, a)) <= PageNo(Slot(kind, b))
<1>1. Slot(kind, a) \in Nat /\ Slot(kind, a + 1) = Slot(kind, a) + 1
  BY DEF Slot
<1>2. \A b \in Nat : a <= b => Slot(kind, b) \in Nat /\ Slot(kind, a) <= Slot(kind, b)
  BY DEF Slot
<1>3. PageNo(Slot(kind, a)) \in Nat
  BY <1>1, DivMod
<1>4. PageNo(Slot(kind, a + 1)) \in {PageNo(Slot(kind, a)), PageNo(Slot(kind, a)) + 1}
  BY <1>1, NextSlot
<1>5. \A b \in Nat : a <= b => PageNo(Slot(kind, a)) <= PageNo(Slot(kind, b))
  BY <1>1, <1>2, PagesInOrder
<1> QED BY <1>3, <1>4, <1>5

LEMMA SimpleCountType ==
  ASSUME NEW N \in Nat, NEW q \in [{2, 3} -> Nat], \A s \in {2, 3} : q[s] <= N
  PROVE  SimpleCount(kind, N, q) \in [Nat -> Int]
<1>1. \A k \in Nat : /\ In(kind, k, q[2], N) \in Nat /\ In(kind, k, q[3], N) \in Nat
                     /\ One(k = PageNo(Slot(kind, N + 1))) \in Nat
  <2>1. \A s \in {2, 3} : q[s] \in Nat /\ q[s] <= N
    OBVIOUS
  <2>2. \A k \in Nat : \A s \in {2, 3} : In(kind, k, q[s], N) \in Nat
    BY <2>1, InZero
  <2> QED BY <2>2 DEF One
<1> QED BY <1>1 DEF SimpleCount

(* Reader r reads a tuple, of page k, which is counted c times.            *)
ReadsOne(K, N, lo, q, r, k, c, to, low) ==
  /\ Behind(K, N, lo, q) /\ r \in {2, 3} /\ q[r] < N
  /\ k = PageNo(Slot(K, q[r] + 1)) /\ c = SimpleCount(K, N, q)[k]
  /\ to = [q EXCEPT ![r] = @ + 1] /\ low = IF c = 1 THEN lo + 1 ELSE lo

(* A page is given back only when it is the first that is left.            *)
LEMMA SimpleOldest ==
  ASSUME NEW N, NEW lo, NEW q, NEW r, NEW k, NEW c, NEW to, NEW low,
         ReadsOne(kind, N, lo, q, r, k, c, to, low)
  PROVE  /\ c = 1 => k = lo /\ lo < PageNo(Slot(kind, N + 1))
         /\ Behind(kind, N, low, to)
         /\ \A l \in Nat : SimpleCount(kind, N, to)[l] = SimpleCount(kind, N, q)[l] - One(l = k)
<1> DEFINE o == IF r = 2 THEN 3 ELSE 2
           C == PageNo(Slot(kind, N + 1))
           P(n) == PageNo(Slot(kind, n))
<1>0. /\ Behind(kind, N, lo, q) /\ r \in {2, 3} /\ q[r] < N
      /\ k = PageNo(Slot(kind, q[r] + 1)) /\ c = SimpleCount(kind, N, q)[k]
      /\ to = [q EXCEPT ![r] = @ + 1] /\ low = IF c = 1 THEN lo + 1 ELSE lo
  BY DEF ReadsOne
<1> USE <1>0
<1>1. /\ N \in Nat /\ lo \in Nat /\ o \in {2, 3} /\ o # r /\ \A s \in {2, 3} : s = r \/ s = o
      /\ to \in [{2, 3} -> Nat] /\ to[r] = q[r] + 1 /\ to[o] = q[o]
      /\ q[r] \in Nat /\ q[o] \in Nat /\ q[o] <= N /\ lo <= P(q[o] + 1) /\ lo <= k
      /\ lo = k \/ lo = P(q[o] + 1)
  <2>1. /\ q \in [{2, 3} -> Nat] /\ N \in Nat /\ lo \in Nat
        /\ \A s \in {2, 3} : q[s] <= N /\ lo <= PageNo(Slot(kind, q[s] + 1))
        /\ \E s \in {2, 3} : lo = PageNo(Slot(kind, q[s] + 1))
    BY DEF Behind
  <2> QED BY <2>1
<1> HIDE DEF o
<1>2. /\ k \in Nat /\ P(q[r] + 2) \in {k, k + 1} /\ P(q[o] + 1) \in Nat /\ C \in Nat
      /\ \A n \in q[r] + 2 .. N + 1 : P(q[r] + 2) <= P(n)
      /\ \A n \in q[o] + 1 .. N + 1 : P(q[o] + 1) <= P(n)
      /\ \A n \in 1 .. N + 1 : P(n) \in Nat
      /\ k <= C
  <2>1. q[r] + 1 \in Nat \ {0} /\ q[r] + 1 + 1 = q[r] + 2 /\ q[r] + 2 \in Nat \ {0}
        /\ q[o] + 1 \in Nat \ {0} /\ q[r] + 1 <= N + 1 /\ N + 1 \in Nat \ {0}
    BY <1>1
  <2>2. k \in Nat /\ P(q[r] + 2) \in {k, k + 1} /\ P(q[o] + 1) \in Nat /\ C \in Nat
    BY <2>1, PageOrder
  <2>3. \A n \in q[r] + 2 .. N + 1 : P(q[r] + 2) <= P(n)
    BY <2>1, PageOrder
  <2>4. \A n \in q[o] + 1 .. N + 1 : P(q[o] + 1) <= P(n)
    BY <2>1, PageOrder
  <2>5. \A n \in 1 .. N + 1 : P(n) \in Nat
    BY PageOrder
  <2>6. k <= C
    BY <2>1, PageOrder
  <2> QED BY <2>2, <2>3, <2>4, <2>5, <2>6
<1>3. \A l \in Nat : /\ In(kind, l, q[r], N) \in Nat /\ In(kind, l, q[o], N) \in Nat /\ In(kind, l, q[r] + 1, N) \in Nat
                     /\ In(kind, l, q[r], N) = In(kind, l, q[r] + 1, N) + One(k = l)
                     /\ In(kind, l, q[o], N) = 0 <=> \A n \in q[o] + 1 .. N : P(n) # l
                     /\ In(kind, l, q[r] + 1, N) = 0 <=> \A n \in q[r] + 2 .. N : P(n) # l
  <2> TAKE l \in Nat
  <2>1. q[r] + 1 \in Nat /\ q[r] + 1 <= N /\ q[r] + 1 + 1 = q[r] + 2
    BY <1>1
  <2>2. /\ In(kind, l, q[r], N) \in Nat /\ In(kind, l, q[r], N) = In(kind, l, q[r] + 1, N) + One(k = l)
    BY <1>1, InFacts
  <2>3. In(kind, l, q[o], N) \in Nat /\ (In(kind, l, q[o], N) = 0 <=> \A n \in q[o] + 1 .. N : P(n) # l)
    <3>1. q[o] \in Nat /\ q[o] <= N
      BY <1>1
    <3>2. ASSUME NEW i \in Nat, i <= N
          PROVE  /\ In(kind, l, i, N) \in Nat
                 /\ In(kind, l, i, N) = 0 <=> \A n \in i + 1 .. N : PageNo(Slot(kind, n)) # l
      <4>1. N \in Nat
        BY <1>1
      <4> QED BY <3>2, <4>1, InZero
    <3> QED BY <3>1, <3>2
  <2>4. /\ In(kind, l, q[r] + 1, N) \in Nat
        /\ In(kind, l, q[r] + 1, N) = 0 <=> \A n \in q[r] + 1 + 1 .. N : P(n) # l
    <3>1. N \in Nat
      BY <1>1
    <3> QED BY <2>1, <3>1, InZero
  <2> QED BY <2>1, <2>2, <2>3, <2>4
<1>4. \A l \in Nat : SimpleCount(kind, N, q)[l] = In(kind, l, q[r], N) + In(kind, l, q[o], N) + One(l = C)
  <2> TAKE l \in Nat
  <2>1. SimpleCount(kind, N, q)[l] = In(kind, l, q[2], N) + In(kind, l, q[3], N) + One(l = C)
    BY DEF SimpleCount
  <2>2. CASE r = 2
    BY <2>1, <2>2 DEF o
  <2>3. CASE r = 3
    BY <1>3, <2>1, <2>3 DEF o
  <2> QED BY <2>2, <2>3
<1>5. \A l \in Nat : SimpleCount(kind, N, to)[l] = In(kind, l, q[r] + 1, N) + In(kind, l, q[o], N) + One(l = C)
  <2> TAKE l \in Nat
  <2>1. SimpleCount(kind, N, to)[l] = In(kind, l, to[2], N) + In(kind, l, to[3], N) + One(l = C)
    BY DEF SimpleCount
  <2>2. CASE r = 2
    BY <1>1, <2>1, <2>2 DEF o
  <2>3. CASE r = 3
    BY <1>1, <1>3, <2>1, <2>3 DEF o
  <2> QED BY <2>2, <2>3
<1>6. \A l \in Nat : SimpleCount(kind, N, to)[l] = SimpleCount(kind, N, q)[l] - One(l = k)
  <2> TAKE l \in Nat
  <2>1. /\ In(kind, l, q[o], N) \in Nat /\ In(kind, l, q[r] + 1, N) \in Nat /\ One(l = C) \in Nat
        /\ One(k = l) = One(l = k) /\ One(l = k) \in Nat
        /\ In(kind, l, q[r], N) = In(kind, l, q[r] + 1, N) + One(k = l)
    BY <1>3 DEF One
  <2>2. /\ SimpleCount(kind, N, q)[l] = In(kind, l, q[r], N) + In(kind, l, q[o], N) + One(l = C)
        /\ SimpleCount(kind, N, to)[l] = In(kind, l, q[r] + 1, N) + In(kind, l, q[o], N) + One(l = C)
    BY <1>4, <1>5
  <2> HIDE DEF C
  <2> QED BY <2>1, <2>2
<1>7. c = 1 <=> In(kind, k, q[r] + 1, N) = 0 /\ In(kind, k, q[o], N) = 0 /\ k # C
  <2>1. c = In(kind, k, q[r], N) + In(kind, k, q[o], N) + One(k = C)
    BY <1>2, <1>4
  <2>2. /\ In(kind, k, q[r], N) = In(kind, k, q[r] + 1, N) + 1
        /\ In(kind, k, q[r] + 1, N) \in Nat /\ In(kind, k, q[o], N) \in Nat
    BY <1>2, <1>3 DEF One
  <2> HIDE DEF C
  <2> QED BY <2>1, <2>2 DEF One
<1> HIDE DEF C
<1>8. ASSUME c = 1 PROVE k = lo /\ lo < C
  <2>1. k < C
    BY <1>2, <1>7, <1>8
  <2>2. ASSUME lo # k PROVE FALSE
    <3>1. lo = P(q[o] + 1) /\ lo < k /\ q[o] \in 0 .. N
      BY <1>1, <1>2, <2>2
    <3>2. \E n \in q[o] + 1 .. N : P(n) = k
      <4>1. N \in Nat /\ k < PageNo(Slot(kind, N + 1)) /\ k \in Nat /\ PageNo(Slot(kind, q[o] + 1)) <= k
        BY <1>1, <1>2, <2>1, <3>1 DEF C
      <4> QED BY <3>1, <4>1, SomeOnPage
    <3> QED BY <1>2, <1>3, <1>7, <1>8, <3>2
  <2> QED BY <2>1, <2>2
<1>9. ASSUME c = 1
      PROVE  lo + 1 = P(to[r] + 1) /\ lo + 1 <= P(to[o] + 1)
  <2>1. \A n \in q[r] + 2 .. N : P(n) # k
    BY <1>2, <1>3, <1>7, <1>9
  <2>2. \A n \in q[o] + 1 .. N : P(n) # k
    BY <1>2, <1>3, <1>7, <1>9
  <2>3. P(N + 1) # k
    BY <1>7, <1>9 DEF C
  <2>4. P(q[r] + 2) # k
    <3>1. q[r] + 2 \in q[r] + 2 .. N \/ q[r] + 2 = N + 1
      BY <1>1
    <3> QED BY <2>1, <2>3, <3>1
  <2>5. P(q[o] + 1) # k
    <3>1. q[o] + 1 \in q[o] + 1 .. N \/ q[o] + 1 = N + 1
      BY <1>1
    <3> QED BY <2>2, <2>3, <3>1
  <2>6. to[r] + 1 = q[r] + 2
    BY <1>1
  <2> QED BY <1>1, <1>2, <1>8, <1>9, <2>4, <2>5, <2>6
<1>10. ASSUME c # 1
       PROVE  /\ lo <= P(to[r] + 1) /\ lo <= P(to[o] + 1)
              /\ lo = P(to[r] + 1) \/ lo = P(to[o] + 1)
  <2>1. to[r] + 1 = q[r] + 2
    BY <1>1
  <2>2. lo <= P(to[r] + 1) /\ lo <= P(to[o] + 1)
    BY <1>1, <1>2, <2>1
  <2>3. ASSUME lo # P(q[r] + 2), lo # P(q[o] + 1) PROVE FALSE
    <3>1. lo = k /\ P(q[r] + 2) = k + 1
      BY <1>1, <1>2, <2>3
    <3>2. \A n \in q[r] + 2 .. N + 1 : P(n) # k
      BY <1>1, <1>2, <3>1
    <3>3. \A n \in q[o] + 1 .. N + 1 : P(n) # k
      BY <1>1, <1>2, <2>3, <3>1
    <3>4. In(kind, k, q[r] + 1, N) = 0 /\ In(kind, k, q[o], N) = 0
      <4>1. (\A n \in q[r] + 2 .. N : P(n) # k) /\ (\A n \in q[o] + 1 .. N : P(n) # k)
        <5>1. (\A n \in q[r] + 2 .. N : n \in q[r] + 2 .. N + 1) /\ (\A n \in q[o] + 1 .. N : n \in q[o] + 1 .. N + 1)
          BY <1>1
        <5> QED BY <3>2, <3>3, <5>1
      <4> QED BY <1>2, <1>3, <4>1
    <3>5. k # C
      <4>1. N + 1 \in q[o] + 1 .. N + 1
        BY <1>1
      <4> QED BY <3>3, <4>1 DEF C
    <3> QED BY <1>7, <1>10, <3>4, <3>5
  <2> QED BY <1>1, <2>1, <2>2, <2>3
<1>11. Behind(kind, N, low, to)
  <2>1. CASE c = 1
    <3>1. \A s \in {2, 3} : to[s] <= N /\ lo + 1 <= P(to[s] + 1)
      BY <1>1, <1>9, <2>1
    <3> QED BY <1>1, <1>9, <2>1, <3>1 DEF Behind
  <2>2. CASE c # 1
    <3>1. \A s \in {2, 3} : to[s] <= N /\ lo <= P(to[s] + 1)
      BY <1>1, <1>10, <2>2
    <3> QED BY <1>1, <1>10, <2>2, <3>1 DEF Behind
  <2> QED BY <2>1, <2>2
<1> QED BY <1>6, <1>8, <1>11 DEF C

LEMMA SimpleReads ==
  ASSUME SimpleIndInv, kind = "simple", Running(store), NEW r \in Stub, ReadStreamTuple(r)
  PROVE  SimpleIndInv'
<1> DEFINE N == Len(place)
           C == PageNo(Slot(kind, N + 1))
<1>1. PICK pg, lo, q : SimpleInv(pg, lo, q)
  BY DEF SimpleIndInv
<1>2. /\ place \in Seq(PlaceType) /\ \A n \in 1 .. N : place[n] = At(pg, Slot(kind, n))
      /\ queue \in [Stub -> Seq(Element)] /\ queue[1] = <<>>
      /\ \A s \in {2, 3} : Pluses(queue[s], q[s], N)
      /\ Behind(kind, N, lo, q)
      /\ StreamMemory(kind, store, pg, lo, N, SimpleCount(kind, N, q))
  BY <1>1 DEF SimpleInv
<1>3. /\ queue[r] # <<>> /\ queue' = [queue EXCEPT ![r] = Tail(@)]
      /\ store' = Simple!decrRef(store, place[Head(queue[r]).tuple])
      /\ place' = place /\ has' = has /\ scanning' = scanning /\ kind' = kind
  BY SimpleOps DEF ReadStreamTuple, Reading
<1>4. r \in {2, 3}
  BY <1>2, <1>3, StubAssumption
<1> DEFINE id == q[r] + 1
<1>5. /\ N \in Nat /\ lo \in Nat /\ q[r] \in Nat /\ q[r] < N /\ Head(queue[r]) = Plus(id)
      /\ Pluses(Tail(queue[r]), q[r] + 1, N)
      /\ q \in [{2, 3} -> Nat] /\ \A s \in {2, 3} : lo <= PageNo(Slot(kind, q[s] + 1))
  <2>1. /\ N \in Nat /\ lo \in Nat /\ q \in [{2, 3} -> Nat]
        /\ \A s \in {2, 3} : lo <= PageNo(Slot(kind, q[s] + 1))
    BY <1>2 DEF Behind
  <2>2. q[r] < N /\ Head(queue[r]) = Plus(id) /\ Pluses(Tail(queue[r]), q[r] + 1, N)
    BY <1>2, <1>3, <1>4, LessPluses
  <2> QED BY <1>2, <1>4, <2>1, <2>2
<1>6. id \in 1 .. N /\ id \in Nat \ {0} /\ Head(queue[r]).tuple = id
  BY <1>5, Signs
<1>7. PICK k, c, to, low : ReadsOne(kind, N, lo, q, r, k, c, to, low)
  BY <1>2, <1>4, <1>5 DEF ReadsOne
<1>8. /\ c = 1 => k = lo /\ lo < C
      /\ Behind(kind, N, low, to)
      /\ \A l \in Nat : SimpleCount(kind, N, to)[l] = SimpleCount(kind, N, q)[l] - One(l = k)
  BY <1>7, SimpleOldest
<1>71. /\ k = PageNo(Slot(kind, id)) /\ c = SimpleCount(kind, N, q)[k]
       /\ to = [q EXCEPT ![r] = @ + 1] /\ low = IF c = 1 THEN lo + 1 ELSE lo
  BY <1>7 DEF ReadsOne
<1>72. k \in lo .. C /\ place[id][1] = pg[k]
  <2>1. lo <= k
    BY <1>4, <1>5, <1>71
  <2>2. k \in Nat /\ k <= C /\ C \in Nat
    BY SMTT(30), <1>5, <1>6, <1>71, PageOrder
  <2>3. place[id] = At(pg, Slot(kind, id))
    BY <1>2, <1>6
  <2>4. At(pg, Slot(kind, id))[1] = pg[k]
    BY <1>71 DEF At
  <2> QED BY <1>5, <2>1, <2>2, <2>3, <2>4
<1>9. StreamMemory(kind, store', pg, low, N, SimpleCount(kind, N, to))
  <2> HIDE DEF C
  <2>1. StreamMemory(kind, store', pg, low, N, [SimpleCount(kind, N, q) EXCEPT ![k] = @ - 1])
    <3>1. kind \in Streams
      BY DEF Streams
    <3>2. SimpleCount(kind, N, q)[k] = 1 => k = lo /\ lo < PageNo(Slot(kind, N + 1))
      BY <1>8, <1>71 DEF C
    <3>3. k \in lo .. PageNo(Slot(kind, N + 1))
      BY <1>72 DEF C
    <3>4. store' = Simple!decrRef(store, place[id])
      BY <1>3, <1>6
    <3> HIDE DEF id, N
    <3>5. ASSUME NEW w, w = Simple!decrRef(store, place[id])
          PROVE  StreamMemory(kind, w, pg, IF SimpleCount(kind, N, q)[k] = 1 THEN lo + 1 ELSE lo, N,
                              [SimpleCount(kind, N, q) EXCEPT ![k] = @ - 1])
      <4>1. StreamMemory(kind, store, pg, lo, N, SimpleCount(kind, N, q)) /\ place[id][1] = pg[k]
        BY <1>2, <1>72
      <4>2. LessRef(kind, store, pg, lo, N, SimpleCount(kind, N, q), k, place[id], w)
        BY <3>2, <3>3, <3>5, <4>1 DEF LessRef
      <4> QED BY <3>1, <4>1, <4>2, LessRefs
    <3> QED BY <1>71, <3>4, <3>5
  <2>2. SimpleCount(kind, N, q) \in [Nat -> Int] /\ SimpleCount(kind, N, to) \in [Nat -> Int]
    <3>1. /\ q \in [{2, 3} -> Nat] /\ to \in [{2, 3} -> Nat] /\ N \in Nat
          /\ \A s \in {2, 3} : q[s] <= N /\ to[s] <= N
      BY <1>2, <1>8 DEF Behind
    <3> HIDE DEF N
    <3> QED BY <3>1, SimpleCountType
  <2>3. \A l \in lo .. C : SimpleCount(kind, N, to)[l] = [SimpleCount(kind, N, q) EXCEPT ![k] = @ - 1][l]
    <3> HIDE DEF N
    <3>1. \A l \in lo .. C : l \in Nat /\ SimpleCount(kind, N, q)[l] \in Int
      BY <1>5, <2>2
    <3> QED BY <1>8, <2>2, <3>1 DEF One
  <2>4. low >= lo
    BY <1>5, <1>71
  <2>5. \A l \in low .. C : l \in lo .. C
    <3>1. C \in Nat /\ lo \in Nat
      BY <1>5, PageOrder DEF C
    <3>2. low \in Nat
      BY <1>5, <1>71
    <3> QED BY <2>4, <3>1, <3>2
  <2>6. \A l \in low .. PageNo(Slot(kind, N + 1)) :
           SimpleCount(kind, N, to)[l] = [SimpleCount(kind, N, q) EXCEPT ![k] = @ - 1][l]
    BY <2>3, <2>5 DEF C
  <2> HIDE DEF N
  <2> QED BY <2>1, <2>2, <2>6, SameCounts
<1>10. /\ queue' \in [Stub -> Seq(Element)] /\ queue'[1] = <<>>
       /\ \A s \in {2, 3} : Pluses(queue'[s], to[s], N)
  <2>1. Tail(queue[r]) \in Seq(Element)
    BY <1>5 DEF Pluses
  <2>2. queue' \in [Stub -> Seq(Element)] /\ \A s \in Stub : queue'[s] =
          IF s = r THEN Tail(queue[r]) ELSE queue[s]
    BY <1>2, <1>3, <2>1
  <2>3. to \in [{2, 3} -> Nat] /\ \A s \in {2, 3} : to[s] = IF s = r THEN q[r] + 1 ELSE q[s]
    BY <1>4, <1>5, <1>71
  <2>4. \A s \in {2, 3} : Pluses(queue'[s], to[s], N)
    <3> TAKE s \in {2, 3}
    <3>1. s \in Stub
      BY StubAssumption
    <3>2. CASE s = r
      BY <1>5, <2>2, <2>3, <3>1, <3>2
    <3>3. CASE s # r
      BY <1>2, <2>2, <2>3, <3>1, <3>3
    <3> QED BY <3>2, <3>3
  <2>5. queue'[1] = <<>>
    BY <1>2, <1>4, <2>2, StubAssumption
  <2> QED BY <2>2, <2>3, <2>4, <2>5
<1>11. SimpleInv(pg, low, to)'
  <2>1. Len(place') = N /\ kind' = kind /\ place' = place
    BY <1>3
  <2>2. \A n \in 1 .. N : place'[n] = At(pg, Slot(kind', n))
    BY <1>2, <2>1
  <2>3. StreamMemory(kind', store', pg, low, N, SimpleCount(kind', N, to))
    BY <1>9, <2>1
  <2>4. Behind(kind', N, low, to)
    BY <1>8, <2>1
  <2>5. place' \in Seq(PlaceType)
    BY <1>2, <2>1
  <2> HIDE DEF N
  <2> QED BY <1>10, <2>1, <2>2, <2>3, <2>4, <2>5 DEF SimpleInv
<1>12. Running(store')
  BY <1>9 DEF StreamMemory, Running
<1> QED BY <1>3, <1>11, <1>12 DEF SimpleIndInv

(* The references of a stream with one tuple more.                         *)
LEMMA SimpleCountMore ==
  ASSUME NEW N, NEW lo, NEW q, Behind(kind, N, lo, q),
         NEW C, C = PageNo(Slot(kind, N + 1)), NEW D, D = PageNo(Slot(kind, N + 1 + 1))
  PROVE  /\ \A l \in Nat : SimpleCount(kind, N + 1, q)[l] = SimpleCount(kind, N, q)[l] + One(l = C) + One(l = D)
         /\ SimpleCount(kind, N, q)[C + 1] = 0
         /\ C \in Nat /\ D \in {C, C + 1}
         /\ SimpleCount(kind, N, q) \in [Nat -> Int] /\ SimpleCount(kind, N + 1, q) \in [Nat -> Int]
<1>1. /\ N \in Nat /\ q \in [{2, 3} -> Nat] /\ N + 1 \in Nat \ {0}
      /\ \A s \in {2, 3} : q[s] \in Nat /\ q[s] <= N /\ q[s] <= N + 1
  BY DEF Behind
<1>2. C \in Nat /\ D \in {C, C + 1}
  BY <1>1, PageOrder
<1>3. \A l \in Nat : \A s \in {2, 3} :
        In(kind, l, q[s], N) \in Nat /\ In(kind, l, q[s], N + 1) = In(kind, l, q[s], N) + One(l = C)
  <2> TAKE l \in Nat
  <2> TAKE s \in {2, 3}
  <2>1. One(l = C) = One(C = l)
    BY DEF One
  <2>2. /\ In(kind, l, q[s], N) \in Nat
        /\ In(kind, l, q[s], N + 1) = In(kind, l, q[s], N) + One(PageNo(Slot(kind, N + 1)) = l)
    BY <1>1, InFacts
  <2> QED BY <2>1, <2>2
<1>4. ASSUME NEW l \in Nat
      PROVE  SimpleCount(kind, N + 1, q)[l] = SimpleCount(kind, N, q)[l] + One(l = C) + One(l = D)
  <2>1. /\ SimpleCount(kind, N, q)[l] = In(kind, l, q[2], N) + In(kind, l, q[3], N) + One(l = C)
        /\ SimpleCount(kind, N + 1, q)[l] = In(kind, l, q[2], N + 1) + In(kind, l, q[3], N + 1) + One(l = D)
    BY DEF SimpleCount
  <2>2. One(l = C) \in Nat /\ One(l = D) \in Nat
    BY DEF One
  <2> QED BY <1>3, <2>1, <2>2
<1>5. SimpleCount(kind, N, q)[C + 1] = 0
  <2>1. \A n \in 1 .. N : PageNo(Slot(kind, n)) # C + 1
    <3> TAKE n \in 1 .. N
    <3>1. PageNo(Slot(kind, n)) \in Nat /\ PageNo(Slot(kind, n)) <= C
      BY <1>1, PageOrder
    <3> QED BY <1>2, <3>1
  <2>2. \A s \in {2, 3} : In(kind, C + 1, q[s], N) = 0
    <3> TAKE s \in {2, 3}
    <3>1. \A n \in q[s] + 1 .. N : PageNo(Slot(kind, n)) # C + 1
      BY <1>1, <2>1
    <3> QED BY <1>1, <3>1, InZero
  <2>3. C + 1 \in Nat /\ C + 1 # C
    BY <1>2
  <2>4. SimpleCount(kind, N, q)[C + 1] = In(kind, C + 1, q[2], N) + In(kind, C + 1, q[3], N) + One(C + 1 = C)
    BY <2>3 DEF SimpleCount
  <2> QED BY <2>2, <2>3, <2>4 DEF One
<1>6. SimpleCount(kind, N, q) \in [Nat -> Int] /\ SimpleCount(kind, N + 1, q) \in [Nat -> Int]
  BY <1>1, SimpleCountType
<1> QED BY <1>2, <1>4, <1>5, <1>6

(* The memory with the new tuple and the references of both readers.       *)
LEMMA SimpleNewTuple ==
  ASSUME kind = "simple", NEW pg, NEW lo, NEW q, NEW N, Behind(kind, N, lo, q),
         NEW m, StreamMemory(kind, m, pg, lo, N, SimpleCount(kind, N, q)),
         NEW w, w = Simple!newTuple(m, N + 1), ~w.outOfMemory,
         NEW v, v = Simple!addRef(w, m.nextTuple, 1)
  PROVE  \E pg2 : /\ StreamMemory(kind, v, pg2, lo, N + 1, SimpleCount(kind, N + 1, q))
                  /\ \A k \in 0 .. PageNo(Slot(kind, N + 1)) : pg2[k] = pg[k]
<1> DEFINE x == Slot(kind, N + 1)
           C == PageNo(x)
           cnt == SimpleCount(kind, N, q)
<1>1. /\ kind \in Streams /\ N \in Nat /\ lo \in Nat /\ lo <= C /\ m.nextTuple = At(pg, x)
      /\ x \in Nat /\ Slot(kind, N + 1 + 1) = x + 1
  <2>1. kind \in Streams
    BY DEF Streams
  <2>2. N \in Nat /\ lo \in Nat
    BY DEF Behind
  <2>3. lo \in 0 .. C /\ m.nextTuple = At(pg, x)
    BY DEF StreamMemory
  <2>4. x \in Nat /\ Slot(kind, N + 1 + 1) = x + 1
    BY <2>2 DEF Slot
  <2> QED BY <2>1, <2>2, <2>3, <2>4
<1> HIDE DEF x
<1>2. /\ \A l \in Nat : SimpleCount(kind, N + 1, q)[l] = cnt[l] + One(l = C) + One(l = PageNo(x + 1))
      /\ cnt[C + 1] = 0 /\ C \in Nat
      /\ cnt \in [Nat -> Int] /\ SimpleCount(kind, N + 1, q) \in [Nat -> Int]
  BY <1>1, SimpleCountMore DEF x
<1>3. C <= PageNo(x + 1) /\ PageNo(x + 1) \in Nat /\ PageNo(x + 1) = IF Offset(x) = TuplesPerPage - 1 THEN C + 1 ELSE C
  BY <1>1, <1>2, NextSlot
<1>4. ASSUME NEW pg2, NEW cnt2, StreamMemory(kind, w, pg2, lo, N + 1, cnt2),
             \A k \in 0 .. C : pg2[k] = pg[k],
             \A l \in Nat : cnt2[l] = cnt[l] + One(l = PageNo(x + 1))
      PROVE  StreamMemory(kind, v, pg2, lo, N + 1, SimpleCount(kind, N + 1, q))
  <2>1. C \in lo .. PageNo(Slot(kind, N + 1 + 1))
    BY <1>1, <1>2, <1>3
  <2>2. m.nextTuple[1] = pg2[C]
    BY <1>1, <1>2, <1>4 DEF At
  <2>3. StreamMemory(kind, v, pg2, lo, N + 1, [cnt2 EXCEPT ![C] = @ + 1])
    <3>1. \A t, u : t[1] = pg2[C] /\ u = Simple!addRef(w, t, 1) =>
                    StreamMemory(kind, u, pg2, lo, N + 1, [cnt2 EXCEPT ![C] = @ + 1])
      <4> HIDE DEF C, cnt
      <4> TAKE t, u
      <4> HAVE t[1] = pg2[C] /\ u = Simple!addRef(w, t, 1)
      <4> QED BY <1>1, <1>4, <2>1, MoreRefs
    <3> QED BY <2>2, <3>1
  <2>4. cnt2 \in [Nat -> Int]
    BY <1>4 DEF StreamMemory
  <2>5. \A l \in Nat : SimpleCount(kind, N + 1, q)[l] = [cnt2 EXCEPT ![C] = @ + 1][l]
    <3> TAKE l \in Nat
    <3>1. cnt[l] \in Int /\ One(l = PageNo(x + 1)) \in Int
      BY <1>2 DEF One
    <3> HIDE DEF cnt
    <3>2. CASE l = C
      BY <1>2, <1>4, <2>4, <3>1, <3>2 DEF One
    <3>3. CASE l # C
      BY <1>2, <1>4, <2>4, <3>1, <3>3 DEF One
    <3> QED BY <3>2, <3>3
  <2>6. \A l \in lo .. PageNo(Slot(kind, N + 1 + 1)) : l \in Nat
    BY <1>1
  <2>7. \A l \in lo .. PageNo(Slot(kind, N + 1 + 1)) :
           SimpleCount(kind, N + 1, q)[l] = [cnt2 EXCEPT ![C] = @ + 1][l]
    BY <2>5, <2>6
  <2>8. SimpleCount(kind, N + 1, q) \in [Nat -> Int]
    BY <1>2
  <2> QED BY <2>3, <2>7, <2>8, SameCounts
<1>5. CASE Offset(x) # TuplesPerPage - 1
  <2>1. w = [Written(m, N + 1) EXCEPT !.nextTuple = NextPlace(@)]
    <3>1. Offset(Slot(kind, N + 1)) # TuplesPerPage - 1
      BY <1>5 DEF x
    <3> QED BY <3>1, NewInSimple
  <2>2. StreamMemory(kind, w, pg, lo, N + 1, [cnt EXCEPT ![C] = @ + 1])
    <3>1. Offset(Slot(kind, N + 1)) # TuplesPerPage - 1
      BY <1>5 DEF x
    <3>2. kind \in Streams
      BY <1>1
    <3>3. StreamMemory(kind, w, pg, lo, N + 1, [cnt EXCEPT ![PageNo(Slot(kind, N + 1))] = @ + 1])
      <4> HIDE DEF cnt, C
      <4>1. StreamMemory(kind, m, pg, lo, N, cnt)
        BY DEF cnt
      <4> QED BY <2>1, <3>1, <3>2, <4>1, NextInPage
    <3> QED BY <3>3 DEF x
  <2>3. \A l \in Nat : [cnt EXCEPT ![C] = @ + 1][l] = cnt[l] + One(l = PageNo(x + 1))
    <3> HIDE DEF cnt
    <3> QED BY <1>2, <1>3, <1>5 DEF One
  <2> QED BY <1>4, <2>2, <2>3 DEF x
<1>6. CASE Offset(x) = TuplesPerPage - 1
  <2> DEFINE p == Head(m.emptyPageList)
             pg2 == [pg EXCEPT ![C + 1] = p]
             cnt2 == [cnt EXCEPT ![C] = @ + 0, ![C + 1] = 1]
  <2>1. Continued(kind, m, w, N, p, 0, 1)
    <3>1. Offset(Slot(kind, N + 1)) = TuplesPerPage - 1
      BY <1>6 DEF x
    <3>2. ~Ended(kind, m, w, N)
      BY DEF Ended
    <3> QED BY <3>1, <3>2, NewInSimple
  <2>2. StreamMemory(kind, w, pg2, lo, N + 1, cnt2) /\ \A k \in 0 .. C : pg2[k] = pg[k]
    <3>1. Offset(Slot(kind, N + 1)) = TuplesPerPage - 1 /\ kind \in Streams
      BY <1>1, <1>6 DEF x
    <3>2. StreamMemory(kind, m, pg, lo, N, cnt) /\ 0 \in Int /\ 1 \in Int
      OBVIOUS
    <3> HIDE DEF cnt, p
    <3> QED BY <2>1, <3>1, <3>2, NextPage DEF x
  <2>3. \A l \in Nat : cnt2[l] = cnt[l] + One(l = PageNo(x + 1))
    <3> HIDE DEF cnt
    <3> QED BY <1>2, <1>3, <1>6 DEF One
  <2> HIDE DEF pg2, cnt2
  <2> QED BY <1>4, <2>2, <2>3 DEF x
<1> QED BY <1>5, <1>6

LEMMA SimpleMakes ==
  ASSUME SimpleIndInv, kind = "simple", Running(store), MakeStreamTuple
  PROVE  SimpleIndInv'
<1> DEFINE N == Len(place)
           w == Simple!newTuple(store, N + 1)
           t == store.nextTuple
<1>1. PICK pg, lo, q : SimpleInv(pg, lo, q)
  BY DEF SimpleIndInv
<1>2. /\ place \in Seq(PlaceType) /\ \A n \in 1 .. N : place[n] = At(pg, Slot(kind, n))
      /\ queue \in [Stub -> Seq(Element)] /\ queue[1] = <<>>
      /\ \A s \in {2, 3} : Pluses(queue[s], q[s], N)
      /\ Behind(kind, N, lo, q)
      /\ StreamMemory(kind, store, pg, lo, N, SimpleCount(kind, N, q))
  BY <1>1 DEF SimpleInv
<1>3. /\ has = [s \in Stub |-> {}] /\ scanning = {}
      /\ kind' = kind /\ has' = has /\ scanning' = scanning
  BY DEF SimpleIndInv, MakeStreamTuple
<1>4. CASE w.outOfMemory
  <2>1. store' = w /\ place' = place /\ queue' = queue
    BY <1>4, SimpleOps DEF MakeStreamTuple, Made, Running, New
  <2>2. Ended(kind, store, w, N)
    <3> HIDE DEF N
    <3>1. StreamMemory(kind, store, pg, lo, N, SimpleCount(kind, N, q))
      BY <1>2
    <3>2. \/ w = [Written(store, N + 1) EXCEPT !.nextTuple = NextPlace(@)]
          \/ Ended(kind, store, w, N)
          \/ Continued(kind, store, w, N, Head(store.emptyPageList), 0, 1)
      BY <3>1, NewInSimple
    <3>3. ~store.outOfMemory
      BY DEF Running
    <3>4. w # [Written(store, N + 1) EXCEPT !.nextTuple = NextPlace(@)]
      <4>1. StreamType(kind, store)
        BY <3>1 DEF StreamMemory
      <4>2. [Written(store, N + 1) EXCEPT !.nextTuple = NextPlace(@)].outOfMemory = store.outOfMemory
        BY <4>1 DEF Written, StreamType, StreamFields
      <4> QED BY <1>4, <3>3, <4>2
    <3> QED BY <1>4, <3>2, <3>4 DEF Continued
  <2>3. NothingLost'
    <3>1. InUse' = InUse
      BY <1>3, <2>1 DEF InUse
    <3>2. ASSUME NEW n \in InUse
          PROVE  IdOf(store', place'[n]) = n /\ PageOf(place'[n]) \notin EmptyPages'
      <4>1. n \in 1 .. N /\ PageNo(Slot(kind, n)) >= lo
        BY <1>1, <1>3, SimpleOnPages
      <4>2. place'[n] = At(pg, Slot(kind, n))
        BY <1>2, <2>1, <4>1
      <4>3. EmptyPages' = PagesOf(w.emptyPageList)
        BY <2>1 DEF EmptyPages, PagesOf
      <4>4. kind \in Streams
        BY DEF Streams
      <4>5. IdOf(w, At(pg, Slot(kind, n))) = n /\ PageOf(At(pg, Slot(kind, n))) \notin PagesOf(w.emptyPageList)
        <5>1. StreamMemory(kind, store, pg, lo, N, SimpleCount(kind, N, q))
          BY <1>2
        <5> HIDE DEF N, w
        <5> QED BY <2>2, <4>1, <4>4, <5>1, HeldAtEnd
      <4> QED BY <2>1, <4>2, <4>3, <4>5
    <3>3. kind' \notin Listed
      BY <1>3 DEF Listed, Linked
    <3> QED BY <1>3, <3>1, <3>2, <3>3 DEF NothingLost
  <2>4. ~Running(store')
    BY <1>4, <2>1 DEF Running
  <2> QED BY <1>3, <2>3, <2>4 DEF SimpleIndInv
<1>5. CASE ~w.outOfMemory
  <2> DEFINE v == Simple!addRef(w, t, 1)
  <2>1. PICK pg2 : /\ StreamMemory(kind, v, pg2, lo, N + 1, SimpleCount(kind, N + 1, q))
                   /\ \A k \in 0 .. PageNo(Slot(kind, N + 1)) : pg2[k] = pg[k]
    <3>1. Behind(kind, N, lo, q) /\ StreamMemory(kind, store, pg, lo, N, SimpleCount(kind, N, q))
      BY <1>2
    <3>2. w = Simple!newTuple(store, N + 1) /\ v = Simple!addRef(w, store.nextTuple, 1)
      OBVIOUS
    <3> HIDE DEF N, w, v
    <3> QED BY <1>5, <3>1, <3>2, SimpleNewTuple
  <2>2. Running(v)
    BY <2>1 DEF StreamMemory, Running
  <2>3. /\ store' = v /\ place' = Append(place, t)
        /\ queue' = Sent(queue, 0, Plus(N + 1))
    BY <1>5, <2>2, SimpleOps DEF MakeStreamTuple, Made, Running, New
  <2>4. N \in Nat /\ N + 1 \in Nat \ {0} /\ t = At(pg, Slot(kind, N + 1)) /\ t \in PlaceType
    <3> HIDE DEF N
    <3>1. N \in Nat
      BY <1>2 DEF Behind
    <3>2. t = At(pg, Slot(kind, N + 1)) /\ t \in PlaceType
      BY <1>2 DEF StreamMemory, StreamType
    <3> QED BY <3>1, <3>2
  <2>5. /\ place' \in Seq(PlaceType) /\ Len(place') = N + 1
        /\ \A n \in 1 .. N + 1 : place'[n] = IF n = N + 1 THEN t ELSE place[n]
    BY <1>2, <2>3, <2>4
  <2>6. \A n \in 1 .. N + 1 : place'[n] = At(pg2, Slot(kind', n))
    <3> TAKE n \in 1 .. N + 1
    <3>1. PageNo(Slot(kind, n)) \in 0 .. PageNo(Slot(kind, N + 1))
      BY <2>4, PageOrder
    <3>2. At(pg2, Slot(kind, n)) = At(pg, Slot(kind, n))
      BY <2>1, <3>1 DEF At
    <3>3. CASE n = N + 1
      BY <1>3, <2>4, <2>5, <3>2, <3>3
    <3>4. CASE n # N + 1
      BY <1>2, <1>3, <2>4, <2>5, <3>2, <3>4
    <3> QED BY <3>3, <3>4
  <2>7. \A s \in Stub : queue'[s] = IF s \in {2, 3} THEN Append(queue[s], Plus(N + 1)) ELSE queue[s]
    BY <2>3, SimpleOps DEF Sent
  <2>8. /\ queue' \in [Stub -> Seq(Element)] /\ queue'[1] = <<>>
        /\ \A s \in {2, 3} : Pluses(queue'[s], q[s], N + 1)
    <3>1. \A s \in {2, 3} : Pluses(queue'[s], q[s], N + 1)
      <4> TAKE s \in {2, 3}
      <4>1. queue'[s] = Append(queue[s], Plus(N + 1)) /\ Pluses(queue[s], q[s], N)
        BY <1>2, <2>7, StubAssumption
      <4> HIDE DEF N
      <4> QED BY <4>1, MorePluses
    <3>2. queue'[1] = <<>>
      BY <1>2, <2>7, StubAssumption
    <3>3. \A s \in {2, 3} : queue'[s] \in Seq(Element)
      BY <3>1 DEF Pluses
    <3>4. \A s \in Stub : queue'[s] \in Seq(Element)
      <4>1. <<>> \in Seq(Element)
        OBVIOUS
      <4>2. \A s \in Stub : s = 1 \/ s \in {2, 3}
        BY StubAssumption
      <4> QED BY <3>2, <3>3, <4>1, <4>2
    <3>5. queue' = [s \in Stub |-> queue'[s]]
      BY <2>3 DEF Sent
    <3> QED BY <3>1, <3>2, <3>4, <3>5
  <2>9. Behind(kind, N + 1, lo, q)
    <3>1. \A s \in {2, 3} : q[s] \in Nat /\ q[s] <= N
      BY <1>2 DEF Behind
    <3> QED BY <1>2, <2>4, <3>1 DEF Behind
  <2>10. SimpleInv(pg2, lo, q)'
    <3>1. StreamMemory(kind', store', pg2, lo, Len(place'), SimpleCount(kind', Len(place'), q))
      BY <1>3, <2>1, <2>3, <2>5
    <3>2. Behind(kind', Len(place'), lo, q)
      BY <1>3, <2>5, <2>9
    <3>3. \A n \in 1 .. Len(place') : place'[n] = At(pg2, Slot(kind', n))
      BY <2>5, <2>6
    <3>4. \A s \in {2, 3} : Pluses(queue'[s], q[s], Len(place'))
      BY <2>5, <2>8
    <3> HIDE DEF N
    <3> QED BY <2>5, <2>8, <3>1, <3>2, <3>3, <3>4 DEF SimpleInv
  <2> QED BY <1>3, <2>2, <2>3, <2>10 DEF SimpleIndInv
<1> QED BY <1>4, <1>5

-----------------------------------------------------------------------------
(* At first the store has one page, which is being filled.                 *)
LEMMA SimpleStarts ==
  ASSUME Init
  PROVE  SimpleIndInv
<1> SUFFICES ASSUME kind = "simple" PROVE SimpleIndInv
  BY DEF SimpleIndInv
<1> DEFINE pg == [k \in Nat |-> 1]
           q == [s \in {2, 3} |-> 0]
           cnt == SimpleCount(kind, 0, q)
<1>1. /\ has = [s \in Stub |-> {}] /\ scanning = {} /\ place = <<>> /\ queue = [s \in Stub |-> <<>>]
      /\ store = Simple!initialize(InitialMemory)
  BY DEF Init, initialize
<1>2. /\ Slot(kind, 0 + 1) = 0 /\ PageNo(0) = 0 /\ Offset(0) = 0 /\ 0 \in Pos /\ 1 \in Page
  <2>1. Slot(kind, 0 + 1) = 0 /\ 0 \in Pos
    BY SlotZero DEF Slot
  <2>4. PageNo(0) = 0 /\ Offset(0) = 0
    BY SlotZero
  <2> QED BY <2>1, <2>4, NumPagesAssumption DEF Page
<1> DEFINE list == [p \in Page |-> p]
<1>3. /\ list \in Seq(Page) /\ list # <<>> /\ Len(list) = NumPages /\ Head(list) = 1
      /\ Tail(list) \in Seq(Page) /\ Len(Tail(list)) = NumPages - 1
      /\ \A i \in 1 .. NumPages - 1 : Tail(list)[i] = i + 1
  BY NumPagesAssumption DEF Page
<1> DEFINE m0 == WithFields(InitialMemory, [curPage |-> 0, nextTuple |-> NoTuple, numAllocInCurPage |-> 0])
           m1 == [m0 EXCEPT !.emptyPageList = Tail(@)]
<1>4. /\ DOMAIN m0 = StreamFields("simple")
      /\ m0.emptyPageList = list /\ m0.page = [p \in Page |-> BlankPage] /\ ~m0.outOfMemory
  BY DEF WithFields, InitialMemory, StreamFields
<1> HIDE DEF m0, list
<1>5. store = [m1 EXCEPT !.curPage = 1, !.page[1].count = 1, !.nextTuple = <<1, 0>>, !.numAllocInCurPage = 0]
  <2>1. store = Simple!allocateNewPage(m0)
    BY <1>1 DEF Simple!initialize, m0, Simple!WithFields, WithFields, Simple!InitialMemory, Simple!NoTuple, NoTuple
  <2>2. Simple!allocatePage(m0) = m1 /\ ~m1.outOfMemory
    BY <1>3, <1>4 DEF Simple!allocatePage, StreamFields
  <2> QED BY <1>3, <1>4, <2>1, <2>2 DEF Simple!allocateNewPage, Simple!NewPage, Simple!FirstPlace
<1>6. BlankPage \in PageType
  BY DEF BlankPage, PageType, BlankCell, CellType, Nothing
<1>7. /\ StreamType(kind, store) /\ ~store.outOfMemory
      /\ store.emptyPageList = Tail(list) /\ store.curPage = 1 /\ store.nextTuple = <<1, 0>>
      /\ store.numAllocInCurPage = 0 /\ store.page[1].count = 1
  <2>1. <<1, 0>> \in PlaceType
    BY <1>2 DEF PlaceType
  <2>2. /\ DOMAIN store = StreamFields("simple") /\ ~store.outOfMemory
        /\ store.emptyPageList = Tail(list) /\ store.curPage = 1 /\ store.nextTuple = <<1, 0>>
        /\ store.numAllocInCurPage = 0
        /\ store.page = [[p \in Page |-> BlankPage] EXCEPT ![1].count = 1]
    BY <1>4, <1>5 DEF StreamFields
  <2>3. store.outOfMemory = m0.outOfMemory /\ m0.outOfMemory = FALSE
    <3>1. m0.outOfMemory = FALSE
      BY DEF m0, WithFields, InitialMemory
    <3> QED BY <1>4, <1>5, <3>1 DEF StreamFields
  <2>4. store.page \in [Page -> PageType] /\ store.page[1].count = 1
    BY <1>2, <1>6, <2>2 DEF PageType
  <2>5. store.outOfMemory \in BOOLEAN
    BY <2>3, Zenon
  <2>6. /\ store.emptyPageList \in Seq(Page) /\ store.curPage \in Page /\ store.nextTuple \in PlaceType
        /\ store.numAllocInCurPage \in Int
    BY <1>2, <1>3, <2>1, <2>2
  <2>7. StreamType(kind, store)
    BY <2>2, <2>4, <2>5, <2>6, Zenon DEF StreamType
  <2> QED BY <2>2, <2>4, <2>7
<1>8. /\ q \in [{2, 3} -> Nat] /\ \A s \in {2, 3} : q[s] = 0
  OBVIOUS
<1> HIDE DEF q
<1>9. cnt \in [Nat -> Int] /\ cnt[0] = 1
  <2>1. cnt \in [Nat -> Int]
    BY <1>8, SimpleCountType
  <2>2. \A s \in {2, 3} : In(kind, 0, q[s], 0) = 0
    <3>1. \A n \in 0 + 1 .. 0 : PageNo(Slot(kind, n)) # 0
      OBVIOUS
    <3> QED BY <1>8, <3>1, InZero
  <2>3. cnt[0] = In(kind, 0, q[2], 0) + In(kind, 0, q[3], 0) + One(0 = 0)
    BY <1>2 DEF SimpleCount
  <2> QED BY <2>1, <2>2, <2>3 DEF One
<1> HIDE DEF cnt
<1>10. StreamMemory(kind, store, pg, 0, 0, cnt)
  <2>1. NoneTwice(store.emptyPageList) /\ PagesOf(store.emptyPageList) = Page \ {pg[k] : k \in 0 .. 0}
    <3>1. NoneTwice(Tail(list))
      <4>1. \A i \in 1 .. Len(Tail(list)) : i \in 1 .. NumPages - 1 /\ i \in Int /\ Tail(list)[i] = i + 1
        BY <1>3
      <4>2. \A i, j \in Int : i + 1 = j + 1 => i = j
        OBVIOUS
      <4> QED BY <4>1, <4>2 DEF NoneTwice
    <3>2. PagesOf(Tail(list)) = {i + 1 : i \in 1 .. NumPages - 1}
      BY <1>3 DEF PagesOf
    <3>3. {pg[k] : k \in 0 .. 0} = {1}
      OBVIOUS
    <3>4. {i + 1 : i \in 1 .. NumPages - 1} = Page \ {1}
      <4>1. ASSUME NEW p \in Page \ {1} PROVE \E i \in 1 .. NumPages - 1 : p = i + 1
        <5>1. p - 1 \in 1 .. NumPages - 1 /\ p = p - 1 + 1
          BY NumPagesAssumption DEF Page
        <5> QED BY <5>1
      <4> QED BY <4>1, NumPagesAssumption DEF Page
    <3> QED BY <1>7, <3>1, <3>2, <3>3, <3>4
  <2>2. /\ pg \in [Nat -> Page] /\ At(pg, 0) = <<1, 0>> /\ pg[0] = 1
    BY <1>2 DEF At
  <2>3. 0 .. 0 = {0}
    OBVIOUS
  <2>4. \A n \in 1 .. 0 : FALSE
    OBVIOUS
  <2> HIDE DEF pg
  <2> QED BY <1>2, <1>7, <1>9, <2>1, <2>2, <2>3, <2>4 DEF StreamMemory
<1>11. Behind(kind, 0, 0, q)
  BY <1>2, <1>8 DEF Behind
<1>12. SimpleInv(pg, 0, q)
  <2>1. Len(place) = 0 /\ place \in Seq(PlaceType)
    BY <1>1
  <2>2. queue \in [Stub -> Seq(Element)] /\ \A s \in Stub : queue[s] = <<>>
    BY <1>1
  <2>3. Pluses(<<>>, 0, 0)
    BY DEF Pluses
  <2>4. \A s \in {1, 2, 3} : queue[s] = <<>>
    BY <2>2, StubAssumption
  <2> HIDE DEF pg
  <2> QED BY <1>8, <1>10, <1>11, <2>1, <2>2, <2>3, <2>4 DEF SimpleInv, cnt
<1> QED BY <1>1, <1>7, <1>12 DEF SimpleIndInv, Running

-----------------------------------------------------------------------------
(***************************************************************************)
(* The store of windows.  Stub s has inserted the first i[s] tuples and    *)
(* deleted the first d[s].  A page counts two references to a tuple that   *)
(* the first window has passed on until its MINUS has been read, one to a  *)
(* tuple on its way to the first window, one to a tuple of the second, and *)
(* the stubs that have not deleted beyond it.                              *)
(***************************************************************************)
Marks(N, i, d) ==
  /\ N \in Nat /\ i \in [{1, 2, 3} -> Nat] /\ d \in [{1, 2, 3} -> Nat]
  /\ \A s \in {1, 2, 3} : d[s] <= i[s] /\ i[s] <= N
  /\ i[3] <= i[1] /\ d[3] <= d[1]

NotBeyond(d, k) == One(PageNo(d[1]) <= k) + One(PageNo(d[2]) <= k) + One(PageNo(d[3]) <= k)

WinCount(K, N, i, d) ==
  [k \in Nat |-> In(K, k, d[2], N) + In(K, k, d[3], N) + In(K, k, d[3], i[1]) + NotBeyond(d, k)]

(* The first page in use is that of the stub that has deleted least.       *)
Lowest(lo, d) ==
  /\ lo \in Nat /\ \A s \in {1, 2, 3} : lo <= PageNo(d[s])
  /\ \E s \in {1, 2, 3} : lo = PageNo(d[s])

LEMMA WinPages ==
  ASSUME kind = "win", NEW a \in Nat
  PROVE  /\ Slot(kind, a) = a /\ PageNo(a) \in Nat /\ Offset(a) \in Pos
         /\ PageNo(a + 1) = IF Offset(a) = TuplesPerPage - 1 THEN PageNo(a) + 1 ELSE PageNo(a)
         /\ \A b \in Nat : a <= b => PageNo(a) <= PageNo(b)
<1>1. Slot(kind, a) = a
  BY DEF Slot
<1>2. \A b \in Nat : a <= b => PageNo(a) <= PageNo(b)
  BY PagesInOrder
<1> QED BY <1>1, <1>2, DivMod, NextSlot

LEMMA WinIn ==
  ASSUME kind = "win", NEW k \in Nat, NEW a \in Nat, NEW b \in Nat, a <= b
  PROVE  /\ In(kind, k, a, b) \in Nat
         /\ In(kind, k, a, b) > 0 => PageNo(a) <= k
         /\ In(kind, k, a, b + 1) = In(kind, k, a, b) + One(PageNo(b + 1) = k)
         /\ a < b => In(kind, k, a, b) = In(kind, k, a + 1, b) + One(PageNo(a + 1) = k)
         /\ k > PageNo(b) => In(kind, k, a, b) = 0
<1>1. /\ Slot(kind, a + 1) = a + 1 /\ Slot(kind, b + 1) = b + 1
      /\ \A n \in a + 1 .. b : Slot(kind, n) = n
  BY DEF Slot
<1>2. /\ In(kind, k, a, b) \in Nat
      /\ In(kind, k, a, b + 1) = In(kind, k, a, b) + One(PageNo(b + 1) = k)
      /\ a < b => In(kind, k, a, b) = In(kind, k, a + 1, b) + One(PageNo(a + 1) = k)
  BY <1>1, InFacts
<1>3. In(kind, k, a, b) = 0 <=> \A n \in a + 1 .. b : PageNo(n) # k
  BY <1>1, InZero
<1>4. \A n \in a + 1 .. b : PageNo(a) <= PageNo(n) /\ PageNo(n) <= PageNo(b) /\ PageNo(n) \in Nat
  BY WinPages
<1>5. PageNo(a) \in Nat /\ PageNo(b) \in Nat
  BY WinPages
<1>6. In(kind, k, a, b) > 0 => PageNo(a) <= k
  BY <1>2, <1>3, <1>4
<1>7. k > PageNo(b) => In(kind, k, a, b) = 0
  BY <1>3, <1>4, <1>5
<1> QED BY <1>2, <1>6, <1>7

LEMMA WinInMore ==
  ASSUME kind = "win", NEW k \in Nat, NEW a \in Nat, NEW b \in Nat, a <= b
  PROVE  In(kind, k, a, b + 1) = In(kind, k, a, b) + One(k = PageNo(b + 1))
<1>1. One(k = PageNo(b + 1)) = One(PageNo(b + 1) = k)
  BY DEF One
<1> QED BY <1>1, WinIn

LEMMA WinInLess ==
  ASSUME kind = "win", NEW k \in Nat, NEW a \in Nat, NEW b \in Nat, a < b
  PROVE  In(kind, k, a, b) = In(kind, k, a + 1, b) + One(k = PageNo(a + 1))
<1>1. One(k = PageNo(a + 1)) = One(PageNo(a + 1) = k)
  BY DEF One
<1> QED BY <1>1, WinIn

LEMMA WinInFirst ==
  ASSUME kind = "win", NEW k \in Nat, NEW a \in Nat, NEW b \in Nat, a <= b, In(kind, k, a, b) # 0
  PROVE  PageNo(a + 1) <= k /\ PageNo(a) <= k
<1>1. PICK n \in a + 1 .. b : PageNo(Slot(kind, n)) = k
  BY InZero
<1>2. n \in Nat /\ a + 1 \in Nat /\ a + 1 <= n /\ a <= n /\ Slot(kind, n) = n
  BY DEF Slot
<1> QED BY <1>1, <1>2, WinPages

LEMMA WinInAbove ==
  ASSUME kind = "win", NEW k \in Nat, NEW a \in Nat, NEW b \in Nat, a <= b, k > PageNo(b)
  PROVE  In(kind, k, a, b) = 0
BY WinIn

LEMMA WinCountType ==
  ASSUME kind = "win", NEW N, NEW i, NEW d, Marks(N, i, d)
  PROVE  /\ WinCount(kind, N, i, d) \in [Nat -> Int]
         /\ \A k \in Nat : /\ In(kind, k, d[2], N) \in Nat /\ In(kind, k, d[3], N) \in Nat
                           /\ In(kind, k, d[3], i[1]) \in Nat
                           /\ NotBeyond(d, k) \in 0 .. 3
<1>1. /\ N \in Nat /\ d[2] \in Nat /\ d[3] \in Nat /\ i[1] \in Nat
      /\ d[2] <= N /\ d[3] <= N /\ d[3] <= i[1]
  BY DEF Marks
<1>2. \A k \in Nat : /\ In(kind, k, d[2], N) \in Nat /\ In(kind, k, d[3], N) \in Nat
                     /\ In(kind, k, d[3], i[1]) \in Nat
  BY <1>1, InZero
<1>3. \A k \in Nat : NotBeyond(d, k) \in 0 .. 3
  BY DEF NotBeyond, One
<1> QED BY <1>2, <1>3 DEF WinCount

(* One tuple more: two references to it, and three to a new page.          *)
LEMMA WinCountMore ==
  ASSUME kind = "win", NEW N, NEW i, NEW d, Marks(N, i, d), NEW C, C = PageNo(N + 1)
  PROVE  /\ \A l \in Nat : WinCount(kind, N + 1, i, d)[l] = WinCount(kind, N, i, d)[l] + 2 * One(l = C)
         /\ WinCount(kind, N, i, d)[C + 1] = 3
         /\ Marks(N + 1, i, d) /\ C \in Nat
<1>1. /\ N \in Nat /\ N + 1 \in Nat /\ i[1] \in Nat /\ i[1] <= N + 1 /\ d[1] <= N + 1
      /\ \A s \in {1, 2, 3} : d[s] \in Nat /\ d[s] <= N /\ d[s] <= N + 1
      /\ d[3] <= i[1]
  BY DEF Marks
<1>2. C \in Nat
  BY <1>1, WinPages
<1>3. ASSUME NEW l \in Nat
      PROVE  WinCount(kind, N + 1, i, d)[l] = WinCount(kind, N, i, d)[l] + 2 * One(l = C)
  <2>1. \A s \in {2, 3} : /\ In(kind, l, d[s], N) \in Nat
                          /\ In(kind, l, d[s], N + 1) = In(kind, l, d[s], N) + One(l = C)
    <3> TAKE s \in {2, 3}
    <3>1. d[s] \in Nat /\ d[s] <= N /\ N \in Nat
      BY <1>1
    <3>2. In(kind, l, d[s], N) \in Nat
      BY <3>1, InZero
    <3>3. In(kind, l, d[s], N + 1) = In(kind, l, d[s], N) + One(l = PageNo(N + 1))
      BY <3>1, WinInMore
    <3> QED BY <3>2, <3>3
  <2>2. In(kind, l, d[3], i[1]) \in Nat /\ NotBeyond(d, l) \in Nat /\ One(l = C) \in Nat
    BY WinCountType DEF One
  <2>3. /\ WinCount(kind, N, i, d)[l] = In(kind, l, d[2], N) + In(kind, l, d[3], N) + In(kind, l, d[3], i[1]) + NotBeyond(d, l)
        /\ WinCount(kind, N + 1, i, d)[l] = In(kind, l, d[2], N + 1) + In(kind, l, d[3], N + 1)
                                            + In(kind, l, d[3], i[1]) + NotBeyond(d, l)
    BY DEF WinCount
  <2> QED BY <2>1, <2>2, <2>3
<1>4. WinCount(kind, N, i, d)[C + 1] = 3
  <2>1. \A a \in Nat : a <= N + 1 => PageNo(a) \in Nat /\ PageNo(a) <= C
    BY <1>1, WinPages
  <2>2. C + 1 \in Nat /\ C + 1 > PageNo(N) /\ C + 1 > PageNo(i[1])
    BY <1>1, <1>2, <2>1
  <2>3. In(kind, C + 1, d[2], N) = 0 /\ In(kind, C + 1, d[3], N) = 0 /\ In(kind, C + 1, d[3], i[1]) = 0
    <3>1. d[2] \in Nat /\ d[3] \in Nat /\ d[2] <= N /\ d[3] <= N /\ N \in Nat /\ i[1] \in Nat /\ d[3] <= i[1]
      BY <1>1
    <3> QED BY <2>2, <3>1, WinInAbove
  <2>4. \A s \in {1, 2, 3} : PageNo(d[s]) <= C + 1
    BY <1>1, <1>2, <2>1
  <2>5. NotBeyond(d, C + 1) = 3
    BY <2>4 DEF NotBeyond, One
  <2> QED BY <2>2, <2>3, <2>5 DEF WinCount
<1>5. Marks(N + 1, i, d)
  BY <1>1 DEF Marks
<1> QED BY <1>2, <1>3, <1>4, <1>5

(* Stub s inserts a tuple; the third reads from the first.                 *)
MayInsert(N, i, s, j) ==
  /\ s \in {1, 2, 3} /\ IF s = 3 THEN i[3] < i[1] ELSE i[s] < N
  /\ j = [i EXCEPT ![s] = @ + 1]

(* The first window keeps the tuple and passes it on.                      *)
LEMMA WinCountInserted ==
  ASSUME kind = "win", NEW N, NEW i, NEW d, Marks(N, i, d), NEW s, NEW j, MayInsert(N, i, s, j)
  PROVE  /\ Marks(N, j, d) /\ i[s] + 1 \in 1 .. N
         /\ \A l \in Nat : WinCount(kind, N, j, d)[l] =
                           WinCount(kind, N, i, d)[l] + (IF s = 1 THEN One(l = PageNo(i[1] + 1)) ELSE 0)
<1>0. s \in {1, 2, 3} /\ (IF s = 3 THEN i[3] < i[1] ELSE i[s] < N) /\ j = [i EXCEPT ![s] = @ + 1]
  BY DEF MayInsert
<1> USE <1>0
<1>1. /\ N \in Nat /\ i \in [{1, 2, 3} -> Nat] /\ d[3] \in Nat /\ i[1] \in Nat /\ d[3] <= i[1] /\ i[s] < N
      /\ j[1] = IF s = 1 THEN i[1] + 1 ELSE i[1]
  <2>1. i[3] < i[1] /\ i[1] <= N => i[3] < N
    BY DEF Marks
  <2> QED BY <2>1 DEF Marks
<1>2. Marks(N, j, d)
  BY <1>1 DEF Marks
<1>3. ASSUME NEW l \in Nat
      PROVE  WinCount(kind, N, j, d)[l] =
             WinCount(kind, N, i, d)[l] + (IF s = 1 THEN One(l = PageNo(i[1] + 1)) ELSE 0)
  <2>1. /\ In(kind, l, d[3], i[1]) \in Nat
        /\ In(kind, l, d[3], i[1] + 1) = In(kind, l, d[3], i[1]) + One(l = PageNo(i[1] + 1))
    <3>1. In(kind, l, d[3], i[1]) \in Nat
      BY <1>1, InZero
    <3> QED BY SMTT(30), <1>1, <3>1, WinInMore
  <2>2. One(l = PageNo(i[1] + 1)) \in Nat
    BY DEF One
  <2>3. In(kind, l, d[2], N) \in Nat /\ In(kind, l, d[3], N) \in Nat /\ NotBeyond(d, l) \in Nat
    BY WinCountType
  <2>4. /\ WinCount(kind, N, i, d)[l] =
               In(kind, l, d[2], N) + In(kind, l, d[3], N) + In(kind, l, d[3], i[1]) + NotBeyond(d, l)
        /\ WinCount(kind, N, j, d)[l] =
               In(kind, l, d[2], N) + In(kind, l, d[3], N) + In(kind, l, d[3], j[1]) + NotBeyond(d, l)
    BY DEF WinCount
  <2>5. CASE s = 1
    BY <1>1, <2>1, <2>2, <2>3, <2>4, <2>5
  <2>6. CASE s # 1
    BY <1>1, <2>1, <2>3, <2>4, <2>6
  <2> QED BY <2>5, <2>6
<1>4. i[s] + 1 \in 1 .. N
  BY <1>1
<1> QED BY <1>2, <1>3, <1>4

(* Whether tuple x is the last of its page, which is page l.               *)
Leaves(x, l) == One(l = PageNo(x) /\ Offset(x) = TuplesPerPage - 1)

(* Stub s deletes a tuple; the third when the first has.                   *)
MayDelete(i, d, s, e) ==
  /\ s \in {1, 2, 3} /\ d[s] < i[s] /\ (s = 3 => d[3] < d[1])
  /\ e = [d EXCEPT ![s] = @ + 1]

(* The references to the tuple go.                                         *)
LEMMA WinCountDeleted ==
  ASSUME kind = "win", NEW N, NEW i, NEW d, Marks(N, i, d), NEW s, NEW e, MayDelete(i, d, s, e)
  PROVE  /\ Marks(N, i, e) /\ d[s] + 1 \in 1 .. N
         /\ \A l \in Nat : WinCount(kind, N, i, e)[l] =
                           WinCount(kind, N, i, d)[l] - Leaves(d[s], l) - (s - 1) * One(l = PageNo(d[s] + 1))
<1>0. s \in {1, 2, 3} /\ d[s] < i[s] /\ (s = 3 => d[3] < d[1]) /\ e = [d EXCEPT ![s] = @ + 1]
  BY DEF MayDelete
<1> USE <1>0
<1>1. /\ N \in Nat /\ i[1] \in Nat /\ d \in [{1, 2, 3} -> Nat] /\ \A r \in {1, 2, 3} : d[r] \in Nat /\ d[r] <= N
      /\ d[s] < N /\ d[3] <= i[1] /\ i \in [{1, 2, 3} -> Nat] /\ \A r \in {1, 2, 3} : e[r] = IF r = s THEN d[s] + 1 ELSE d[r]
      /\ e \in [{1, 2, 3} -> Nat] /\ d[1] <= i[1]
  BY DEF Marks
<1>2. Marks(N, i, e)
  BY <1>1 DEF Marks
<1>3. ASSUME NEW l \in Nat
      PROVE  WinCount(kind, N, i, e)[l] =
             WinCount(kind, N, i, d)[l] - Leaves(d[s], l) - (s - 1) * One(l = PageNo(d[s] + 1))
  <2> DEFINE o == One(l = PageNo(d[s] + 1))
  <2>1. o = One(PageNo(d[s] + 1) = l) /\ o \in Nat /\ Leaves(d[s], l) \in Nat
    BY DEF One, Leaves
  <2>2. NotBeyond(e, l) = NotBeyond(d, l) - Leaves(d[s], l)
    <3>1. PageNo(d[s]) \in Nat /\ PageNo(d[s] + 1) = IF Offset(d[s]) = TuplesPerPage - 1 THEN PageNo(d[s]) + 1 ELSE PageNo(d[s])
      BY <1>1, WinPages
    <3>2. One(PageNo(d[s] + 1) <= l) = One(PageNo(d[s]) <= l) - Leaves(d[s], l)
      BY <3>1 DEF One, Leaves
    <3>3. \A r \in {1, 2, 3} : One(PageNo(d[r]) <= l) \in Nat
      BY DEF One
    <3>4. \A r \in {1, 2, 3} : One(PageNo(e[r]) <= l) = One(PageNo(d[r]) <= l) - IF r = s THEN Leaves(d[s], l) ELSE 0
      BY <1>1, <3>2, <3>3
    <3>5. s \in {1, 2, 3}
      OBVIOUS
    <3> QED BY <2>1, <3>3, <3>4, <3>5 DEF NotBeyond
  <2>3. /\ In(kind, l, d[2], N) \in Nat /\ In(kind, l, d[3], N) \in Nat
        /\ In(kind, l, d[3], i[1]) \in Nat /\ NotBeyond(d, l) \in Nat
    BY WinCountType
  <2>4. /\ WinCount(kind, N, i, d)[l] =
               In(kind, l, d[2], N) + In(kind, l, d[3], N) + In(kind, l, d[3], i[1]) + NotBeyond(d, l)
        /\ WinCount(kind, N, i, e)[l] =
               In(kind, l, e[2], N) + In(kind, l, e[3], N) + In(kind, l, e[3], i[1]) + NotBeyond(e, l)
    BY DEF WinCount
  <2>5. \A b \in Nat : d[s] < b => In(kind, l, d[s], b) = In(kind, l, d[s] + 1, b) + o /\ In(kind, l, d[s] + 1, b) \in Nat
    <3> TAKE b \in Nat
    <3> HAVE d[s] < b
    <3>0. d[s] \in Nat /\ d[s] + 1 \in Nat /\ d[s] + 1 <= b
      BY <1>1
    <3>1. In(kind, l, d[s], b) = In(kind, l, d[s] + 1, b) + One(l = PageNo(d[s] + 1))
      BY <3>0, WinInLess
    <3>2. In(kind, l, d[s] + 1, b) \in Nat
      BY <3>0, InZero
    <3> QED BY <2>1, <3>1, <3>2
  <2> HIDE DEF o
  <2>6. CASE s = 1
    BY <1>1, <2>1, <2>2, <2>3, <2>4, <2>6
  <2>7. CASE s = 2
    BY <1>1, <2>1, <2>2, <2>3, <2>4, <2>5, <2>7
  <2>8. CASE s = 3
    <3>1. d[3] < i[1] /\ d[3] < N
      BY <1>1, <2>8
    <3> QED BY <1>1, <2>1, <2>2, <2>3, <2>4, <2>5, <2>8, <3>1
  <2> QED BY <2>6, <2>7, <2>8 DEF o
<1>4. d[s] + 1 \in 1 .. N
  BY <1>1
<1> QED BY <1>2, <1>3, <1>4

(* The next place of a tuple that is on a page in use.                     *)
LEMMA WinNext ==
  ASSUME kind = "win", NEW m, NEW pg, NEW lo, NEW N, NEW cnt, StreamMemory(kind, m, pg, lo, N, cnt),
         NEW x \in 0 .. N, PageNo(x) >= lo
  PROVE  /\ Win!INCR(m, At(pg, x)) = At(pg, x + 1)
         /\ Win!LastInPage(At(pg, x)) <=> Offset(x) = TuplesPerPage - 1
         /\ Win!PageOf(At(pg, x)) = pg[PageNo(x)]
         /\ PageNo(x) \in lo .. PageNo(N + 1) /\ PageNo(x + 1) \in lo .. PageNo(N + 1)
         /\ At(pg, x) \in PlaceType /\ At(pg, x + 1) \in PlaceType
         /\ Slot(kind, N + 1) = N + 1
<1>1. /\ N \in Nat /\ Slot(kind, N + 1) = N + 1 /\ lo \in Nat /\ pg \in [Nat -> Page]
      /\ \A k \in lo .. PageNo(N + 1) - 1 : m.page[pg[k]].next = pg[k + 1]
  <2>1. N \in Nat
    BY DEF StreamMemory
  <2>2. Slot(kind, N + 1) = N + 1
    BY DEF Slot
  <2>3. lo \in 0 .. PageNo(Slot(kind, N + 1)) /\ pg \in [Nat -> Page]
        /\ \A k \in lo .. PageNo(Slot(kind, N + 1)) - 1 : m.page[pg[k]].next = pg[k + 1]
    BY DEF StreamMemory
  <2> QED BY <2>1, <2>2, <2>3
<1>2. /\ x \in Nat /\ x + 1 \in Nat /\ PageNo(x) \in Nat /\ Offset(x) \in Pos /\ Offset(x + 1) \in Pos
      /\ PageNo(x + 1) \in Nat /\ PageNo(N + 1) \in Nat
      /\ PageNo(x) <= PageNo(N + 1) /\ PageNo(x + 1) <= PageNo(N + 1) /\ PageNo(x) <= PageNo(x + 1)
  <2>1. x \in Nat /\ x + 1 \in Nat /\ x <= N + 1 /\ x + 1 <= N + 1 /\ N + 1 \in Nat /\ x <= x + 1
    BY <1>1
  <2> QED BY <2>1, WinPages
<1>3. IF Offset(x) = TuplesPerPage - 1
      THEN PageNo(x + 1) = PageNo(x) + 1 /\ Offset(x + 1) = 0
      ELSE PageNo(x + 1) = PageNo(x) /\ Offset(x + 1) = Offset(x) + 1
  BY <1>2, NextSlot
<1>4. /\ Win!LastInPage(At(pg, x)) <=> Offset(x) = TuplesPerPage - 1
      /\ Win!PageOf(At(pg, x)) = pg[PageNo(x)]
  BY DEF Win!LastInPage, Win!PageOf, At
<1>5. Win!INCR(m, At(pg, x)) = At(pg, x + 1)
  <2>1. CASE Offset(x) = TuplesPerPage - 1
    <3>1. m.page[pg[PageNo(x)]].next = pg[PageNo(x) + 1]
      <4>1. PageNo(x) \in lo .. PageNo(N + 1) - 1
        BY <1>1, <1>2, <1>3, <2>1
      <4> QED BY <1>1, <4>1
    <3> QED BY <1>3, <1>4, <2>1, <3>1 DEF Win!INCR, Win!FirstPlace, At
  <2>2. CASE Offset(x) # TuplesPerPage - 1
    <3>1. Win!INCR(m, At(pg, x)) = Win!NextPlace(At(pg, x))
      BY <1>4, <2>2 DEF Win!INCR
    <3> QED BY <1>3, <2>2, <3>1 DEF Win!NextPlace, At
  <2> QED BY <2>1, <2>2
<1>6. At(pg, x) \in PlaceType /\ At(pg, x + 1) \in PlaceType
  BY <1>1, <1>2 DEF At, PlaceType
<1> QED BY <1>1, <1>2, <1>4, <1>5, <1>6

(* Two tuples are not in one place.                                        *)
LEMMA WinDiffer ==
  ASSUME kind = "win", NEW m, NEW pg, NEW lo, NEW N, NEW cnt, StreamMemory(kind, m, pg, lo, N, cnt),
         NEW x \in 0 .. N, PageNo(x) >= lo, NEW y \in 0 .. N, PageNo(y) >= lo, At(pg, x) = At(pg, y)
  PROVE  x = y
<1>1. PageNo(x) \in lo .. PageNo(N + 1) /\ PageNo(y) \in lo .. PageNo(N + 1) /\ Slot(kind, N + 1) = N + 1
  BY WinNext
<1>2. pg[PageNo(x)] = pg[PageNo(y)] /\ Offset(x) = Offset(y)
  BY DEF At
<1>3. PageNo(x) = PageNo(y)
  BY <1>1, <1>2 DEF StreamMemory
<1>4. N \in Nat
  BY DEF StreamMemory
<1>5. x = TuplesPerPage * PageNo(x) + Offset(x) /\ y = TuplesPerPage * PageNo(y) + Offset(y)
  BY <1>4, DivMod
<1> QED BY <1>2, <1>3, <1>5

(* What a stub keeps of its own does not matter to the pages.              *)
LEMMA WinFields ==
  ASSUME kind = "win", NEW m, NEW pg, NEW lo, NEW N, NEW cnt, StreamMemory(kind, m, pg, lo, N, cnt),
         NEW w, \A f \in {"emptyPageList", "page", "outOfMemory", "curPage", "nextTuple", "numAllocInCurPage"} :
                  w[f] = m[f],
         StreamType(kind, w)
  PROVE  StreamMemory(kind, w, pg, lo, N, cnt)
<1>1. /\ w.emptyPageList = m.emptyPageList /\ w.page = m.page /\ w.outOfMemory = m.outOfMemory
      /\ w.curPage = m.curPage /\ w.nextTuple = m.nextTuple /\ w.numAllocInCurPage = m.numAllocInCurPage
  OBVIOUS
<1>2. \A t : IdOf(w, t) = IdOf(m, t)
  BY <1>1 DEF IdOf, CellOf
<1> QED BY <1>1, <1>2 DEF StreamMemory

(* Stub s leaves a page, which is counted c times.                         *)
LeavesPage(K, N, i, d, lo, s, e, c) ==
  /\ Marks(N, i, d) /\ Lowest(lo, d) /\ s \in {1, 2, 3} /\ d[s] < N /\ e = [d EXCEPT ![s] = @ + 1]
  /\ c = WinCount(K, N, i, d)[PageNo(d[s])] /\ Offset(d[s]) = TuplesPerPage - 1

(* A page that stub s is the last to leave is the first that is in use.    *)
LEMMA WinLowest ==
  ASSUME kind = "win", NEW N, NEW i, NEW d, NEW lo, NEW s, NEW e, NEW c,
         LeavesPage(kind, N, i, d, lo, s, e, c)
  PROVE  /\ c = 1 => PageNo(d[s]) = lo /\ lo < PageNo(N + 1)
         /\ Lowest(IF c = 1 THEN lo + 1 ELSE lo, e)
<1> DEFINE k == PageNo(d[s])
<1>0. /\ Marks(N, i, d) /\ Lowest(lo, d) /\ s \in {1, 2, 3} /\ d[s] < N /\ e = [d EXCEPT ![s] = @ + 1]
      /\ c = WinCount(kind, N, i, d)[PageNo(d[s])] /\ Offset(d[s]) = TuplesPerPage - 1
  BY DEF LeavesPage
<1> USE <1>0
<1>1. /\ N \in Nat /\ i[1] \in Nat /\ d \in [{1, 2, 3} -> Nat]
      /\ d[2] \in Nat /\ d[3] \in Nat /\ d[s] \in Nat
      /\ d[2] <= N /\ d[3] <= N /\ d[3] <= i[1]
      /\ \A r \in {1, 2, 3} : d[r] \in Nat
      /\ \A r \in {1, 2, 3} : e[r] = IF r = s THEN d[s] + 1 ELSE d[r]
  BY DEF Marks
<1>2. /\ k \in Nat /\ PageNo(d[s] + 1) = k + 1 /\ \A r \in {1, 2, 3} : PageNo(d[r]) \in Nat
      /\ k + 1 <= PageNo(N + 1) /\ PageNo(N + 1) \in Nat
  <2>1. k \in Nat /\ PageNo(d[s] + 1) = k + 1
    BY <1>1, WinPages
  <2>2. \A r \in {1, 2, 3} : PageNo(d[r]) \in Nat
    BY <1>1, WinPages
  <2>3. d[s] + 1 \in Nat /\ N + 1 \in Nat /\ d[s] + 1 <= N + 1
    BY <1>1
  <2>4. PageNo(d[s] + 1) <= PageNo(N + 1) /\ PageNo(N + 1) \in Nat
    BY <2>3, WinPages
  <2> QED BY <2>1, <2>2, <2>4
<1>3. /\ lo \in Nat /\ \A r \in {1, 2, 3} : lo <= PageNo(d[r])
      /\ \E r \in {1, 2, 3} : lo = PageNo(d[r])
  BY DEF Lowest
<1> DEFINE Rest == \A r \in {1, 2, 3} : r # s => PageNo(d[r]) > k
<1> HIDE DEF k
<1>4. /\ In(kind, k, d[2], N) \in Nat /\ In(kind, k, d[3], N) \in Nat /\ In(kind, k, d[3], i[1]) \in Nat
      /\ NotBeyond(d, k) \in Nat
      /\ c = In(kind, k, d[2], N) + In(kind, k, d[3], N) + In(kind, k, d[3], i[1]) + NotBeyond(d, k)
  BY <1>2, WinCountType DEF k, WinCount
<1>5. NotBeyond(d, k) >= 1 /\ (NotBeyond(d, k) = 1 <=> Rest)
  <2>1. PageNo(d[s]) <= k
    BY <1>2 DEF k
  <2>2. \A r \in {1, 2, 3} : PageNo(d[r]) > k <=> ~(PageNo(d[r]) <= k)
    BY <1>2
  <2>3. CASE s = 1
    BY <2>1, <2>2, <2>3 DEF NotBeyond, One
  <2>4. CASE s = 2
    BY <2>1, <2>2, <2>4 DEF NotBeyond, One
  <2>5. CASE s = 3
    BY <2>1, <2>2, <2>5 DEF NotBeyond, One
  <2> QED BY <2>3, <2>4, <2>5
<1>6. ASSUME Rest PROVE c = 1
  <2>1. ASSUME NEW r \in {2, 3} PROVE PageNo(d[r]) > k \/ PageNo(d[r] + 1) > k
    <3>1. CASE r = s
      BY <1>2, <3>1
    <3>2. CASE r # s
      BY <1>6, <3>2
    <3> QED BY <3>1, <3>2
  <2>2. \A r \in {2, 3} : PageNo(d[r]) \in Int /\ PageNo(d[r] + 1) \in Int
    <3>1. \A r \in {2, 3} : d[r] \in Nat /\ d[r] + 1 \in Nat
      BY <1>1
    <3> QED BY SMTT(30), <3>1, WinPages
  <2>3. \A r \in {2, 3} : ~(PageNo(d[r] + 1) <= k /\ PageNo(d[r]) <= k)
    BY <1>2, <2>1, <2>2
  <2>4. In(kind, k, d[2], N) = 0
    BY <1>1, <1>2, <2>3, WinInFirst
  <2>5. In(kind, k, d[3], N) = 0
    BY <1>1, <1>2, <2>3, WinInFirst
  <2>6. In(kind, k, d[3], i[1]) = 0
    BY <1>1, <1>2, <2>3, WinInFirst
  <2> QED BY <1>4, <1>5, <1>6, <2>4, <2>5, <2>6
<1>7. ASSUME c = 1
      PROVE  k = lo /\ lo < PageNo(N + 1) /\ Lowest(lo + 1, e)
  <2>1. Rest
    BY <1>4, <1>5, <1>7
  <2>2. k = lo
    <3>1. PICK r \in {1, 2, 3} : lo = PageNo(d[r])
      BY <1>3
    <3>2. lo <= k
      BY <1>3 DEF k
    <3> QED BY <1>2, <1>3, <2>1, <3>1, <3>2 DEF k
  <2>3. \A r \in {1, 2, 3} : lo + 1 <= PageNo(e[r])
    BY <1>1, <1>2, <1>3, <2>1, <2>2
  <2>4. lo + 1 = PageNo(e[s])
    BY <1>1, <1>2, <2>2
  <2> QED BY <1>2, <1>3, <2>2, <2>3, <2>4 DEF Lowest
<1>8. ASSUME c # 1
      PROVE  Lowest(lo, e)
  <2>1. \A r \in {1, 2, 3} : lo <= PageNo(e[r])
    BY <1>1, <1>2, <1>3 DEF k
  <2>2. PICK r \in {1, 2, 3} : r # s /\ PageNo(d[r]) <= k
    BY <1>2, <1>6, <1>8
  <2>3. \E u \in {1, 2, 3} : lo = PageNo(e[u])
    <3>1. PICK u \in {1, 2, 3} : lo = PageNo(d[u])
      BY <1>3
    <3>2. CASE u # s
      BY <1>1, <3>1, <3>2
    <3>3. CASE u = s
      <4>1. PageNo(d[r]) = lo
        BY <1>2, <1>3, <2>2, <3>1, <3>3 DEF k
      <4> QED BY <1>1, <2>2, <4>1
    <3> QED BY <3>2, <3>3
  <2> QED BY <1>3, <2>1, <2>3 DEF Lowest
<1> QED BY <1>7, <1>8 DEF k

LEMMA WinFieldsOfStub ==
  ASSUME kind = "win", NEW m, NEW pg, NEW lo, NEW N, NEW cnt, StreamMemory(kind, m, pg, lo, N, cnt),
         NEW s \in Stub, NEW t \in PlaceType,
         NEW w, \/ w = [m EXCEPT !.lastInsTuple[s] = t]
                \/ w = [m EXCEPT !.lastDelTuple[s] = t]
                \/ \E u \in PlaceType :
                     w = [m EXCEPT !.iters[s] = [lastOutputTuple |-> t, lastInsTuple |-> u]]
                \/ w = [m EXCEPT !.iters[s].lastOutputTuple = t]
  PROVE  StreamMemory(kind, w, pg, lo, N, cnt)
<1>1. StreamType(kind, m)
  BY DEF StreamMemory
<1>2. StreamType(kind, w)
  <2>1. CASE w = [m EXCEPT !.lastInsTuple[s] = t]
    BY <1>1, <2>1 DEF StreamType, StreamFields
  <2>2. CASE w = [m EXCEPT !.lastDelTuple[s] = t]
    BY <1>1, <2>2 DEF StreamType, StreamFields
  <2>3. CASE \E u \in PlaceType :
                w = [m EXCEPT !.iters[s] = [lastOutputTuple |-> t, lastInsTuple |-> u]]
    BY <1>1, <2>3 DEF StreamType, StreamFields
  <2>4. CASE w = [m EXCEPT !.iters[s].lastOutputTuple = t]
    BY <1>1, <2>4 DEF StreamType, StreamFields
  <2> QED BY <2>1, <2>2, <2>3, <2>4
<1>3. \A f \in {"emptyPageList", "page", "outOfMemory", "curPage", "nextTuple", "numAllocInCurPage"} :
        w[f] = m[f]
  BY <1>1 DEF StreamType, StreamFields
<1> QED BY <1>2, <1>3, WinFields

(* A stub deletes its oldest tuple.                                        *)
LEMMA WinDeletes ==
  ASSUME kind = "win", NEW m, NEW pg, NEW lo, NEW N, NEW i, NEW d,
         StreamMemory(kind, m, pg, lo, N, WinCount(kind, N, i, d)),
         Marks(N, i, d), Lowest(lo, d), NEW s, NEW e, MayDelete(i, d, s, e),
         m.lastDelTuple[s] = At(pg, d[s]),
         NEW v, v = Win!deleteOldestTuple_w(m, s)
  PROVE  \E low : /\ Lowest(low, e)
                  /\ StreamMemory(kind, v, pg, low, N,
                                  [k \in Nat |-> WinCount(kind, N, i, d)[k] - Leaves(d[s], k)])
                  /\ v.lastInsTuple = m.lastInsTuple /\ v.iters = m.iters
                  /\ v.lastDelTuple = [m.lastDelTuple EXCEPT ![s] = At(pg, e[s])]
<1> DEFINE x == d[s]
           cnt == WinCount(kind, N, i, d)
           cnt2 == [k \in Nat |-> cnt[k] - Leaves(x, k)]
           moved == [m EXCEPT !.lastDelTuple[s] = At(pg, x + 1)]
           k == PageNo(x)
<1>0. s \in {1, 2, 3} /\ d[s] < i[s] /\ e = [d EXCEPT ![s] = @ + 1]
  BY DEF MayDelete
<1> USE <1>0
<1>1. /\ N \in Nat /\ x \in Nat /\ x < N /\ x \in 0 .. N /\ e[s] = x + 1 /\ s \in Stub
      /\ d \in [{1, 2, 3} -> Nat] /\ \A r \in {1, 2, 3} : e[r] = IF r = s THEN x + 1 ELSE d[r]
      /\ lo <= k
  BY StubAssumption DEF Marks, Lowest
<1> HIDE DEF cnt, x
<1>2. /\ Win!INCR(m, At(pg, x)) = At(pg, x + 1)
      /\ Win!LastInPage(At(pg, x)) <=> Offset(x) = TuplesPerPage - 1
      /\ Win!PageOf(At(pg, x)) = pg[k]
      /\ k \in lo .. PageNo(N + 1)
      /\ At(pg, x + 1) \in PlaceType
      /\ Slot(kind, N + 1) = N + 1
  <2>1. StreamMemory(kind, m, pg, lo, N, cnt) /\ PageNo(x) >= lo
    <3>1. lo \in Nat
      BY DEF Lowest
    <3>2. PageNo(x) \in Nat
      BY <1>1, WinPages
    <3> QED BY <1>1, <3>1, <3>2 DEF cnt
  <2> QED BY <1>1, <2>1, WinNext
<1>3. /\ StreamMemory(kind, moved, pg, lo, N, cnt)
      /\ moved.lastInsTuple = m.lastInsTuple /\ moved.iters = m.iters
      /\ moved.lastDelTuple = [m.lastDelTuple EXCEPT ![s] = At(pg, e[s])]
  <2>1. StreamMemory(kind, moved, pg, lo, N, cnt)
    <3>1. StreamMemory(kind, m, pg, lo, N, cnt) /\ At(pg, x + 1) \in PlaceType /\ s \in Stub
      BY <1>1, <1>2 DEF cnt
    <3> QED BY <3>1, WinFieldsOfStub
  <2>2. StreamType(kind, m)
    BY DEF StreamMemory
  <2> QED BY <1>1, <2>1, <2>2 DEF StreamType, StreamFields
<1>4. cnt \in [Nat -> Int] /\ \A l \in Nat : Leaves(x, l) \in Int
  BY WinCountType DEF cnt, Leaves, One
<1>5. CASE Offset(x) # TuplesPerPage - 1
  <2>1. v = moved
    BY <1>2, <1>5 DEF Win!deleteOldestTuple_w, x
  <2>2. Lowest(lo, e)
    <3>1. PageNo(x + 1) = PageNo(x)
      BY <1>1, <1>5, WinPages
    <3>2. \A r \in {1, 2, 3} : PageNo(e[r]) = PageNo(d[r])
      BY <1>1, <3>1 DEF x
    <3> QED BY <3>2 DEF Lowest
  <2>3. StreamMemory(kind, v, pg, lo, N, cnt2)
    <3>1. \A l \in Nat : cnt2[l] = cnt[l]
      BY <1>4, <1>5 DEF Leaves, One
    <3>2. cnt2 = cnt
      BY <1>4, <3>1
    <3> QED BY <1>3, <2>1, <3>2
  <2> QED BY <1>3, <2>1, <2>2, <2>3 DEF cnt, x
<1>6. CASE Offset(x) = TuplesPerPage - 1
  <2> DEFINE t == Win!FirstPlace(pg[k])
             low == IF cnt[k] = 1 THEN lo + 1 ELSE lo
  <2>1. v = Win!decrRef(moved, t)
    BY <1>2, <1>6 DEF Win!deleteOldestTuple_w, Win!LeavePage, x
  <2>2. (cnt[k] = 1 => k = lo /\ lo < PageNo(N + 1)) /\ Lowest(low, e)
    <3>1. d[s] < N /\ Offset(d[s]) = TuplesPerPage - 1
      BY <1>1, <1>6 DEF x
    <3>2. ASSUME NEW c, c = WinCount(kind, N, i, d)[PageNo(d[s])]
          PROVE  (c = 1 => PageNo(d[s]) = lo /\ lo < PageNo(N + 1)) /\ Lowest(IF c = 1 THEN lo + 1 ELSE lo, e)
      <4>1. LeavesPage(kind, N, i, d, lo, s, e, c)
        BY <3>1, <3>2 DEF LeavesPage
      <4> QED BY <4>1, WinLowest
    <3> QED BY <3>2 DEF cnt, x
  <2>3. /\ StreamMemory(kind, v, pg, low, N, [cnt EXCEPT ![k] = @ - 1])
        /\ SameWindows(kind, moved, v)
    <3>1. t[1] = pg[k]
      BY DEF Win!FirstPlace
    <3>2. kind \in Streams /\ k \in lo .. PageNo(Slot(kind, N + 1))
          /\ (cnt[k] = 1 => k = lo /\ lo < PageNo(Slot(kind, N + 1)))
      BY <1>2, <2>2 DEF Streams
    <3>3. StreamMemory(kind, moved, pg, lo, N, cnt)
      BY <1>3
    <3> HIDE DEF t, moved, k
    <3>4. LessRef(kind, moved, pg, lo, N, cnt, k, t, v)
      BY <2>1, <3>1, <3>2 DEF LessRef
    <3> QED BY <3>2, <3>3, <3>4, LessRefs
  <2>4. [cnt EXCEPT ![k] = @ - 1] = cnt2
    <3>1. k \in Nat
      BY <1>1, WinPages
    <3>2. \A l \in Nat : cnt2[l] = IF l = k THEN cnt[l] - 1 ELSE cnt[l]
      BY <1>4, <1>6 DEF Leaves, One
    <3> QED BY <1>4, <3>1, <3>2
  <2> HIDE DEF moved, low, cnt2
  <2>5. v.lastInsTuple = moved.lastInsTuple /\ v.iters = moved.iters /\ v.lastDelTuple = moved.lastDelTuple
    BY <2>3 DEF SameWindows
  <2>6. StreamMemory(kind, v, pg, low, N, cnt2)
    BY <2>3, <2>4
  <2> QED BY <1>3, <2>2, <2>5, <2>6 DEF cnt2, cnt, x
<1> QED BY <1>5, <1>6

-----------------------------------------------------------------------------
(***************************************************************************)
(* What the first window passes on: tuples it inserts and tuples it        *)
(* deletes, each in order, and none deleted before it is inserted.  After  *)
(* j of the elements, a[j] are inserted and b[j] deleted.                  *)
(***************************************************************************)
Passed(s, a, b) ==
  /\ s \in Seq(Element) /\ a \in [0 .. Len(s) -> Nat] /\ b \in [0 .. Len(s) -> Nat]
  /\ \A j \in 1 .. Len(s) : \/ s[j] = Plus(a[j]) /\ a[j] = a[j - 1] + 1 /\ b[j] = b[j - 1]
                            \/ s[j] = Minus(b[j]) /\ b[j] = b[j - 1] + 1 /\ a[j] = a[j - 1]
  /\ \A j \in 0 .. Len(s) : b[j] <= a[j]
  /\ \A j, k \in 0 .. Len(s) : j <= k => a[j] <= a[k] /\ b[j] <= b[k]
  /\ \A n \in a[0] + 1 .. a[Len(s)] : \E j \in 1 .. Len(s) : s[j] = Plus(n)

PassedOn(s, p, q, m, r) ==
  \E a, b : Passed(s, a, b) /\ p = a[0] /\ q = a[Len(s)] /\ m = b[0] /\ r = b[Len(s)]

LEMMA PassNone ==
  PassedOn(<<>>, 0, 0, 0, 0)
<1> DEFINE a == [j \in 0 .. 0 |-> 0]
<1>1. Passed(<<>>, a, a)
  BY DEF Passed
<1> QED BY <1>1 DEF PassedOn

LEMMA PassOne ==
  ASSUME NEW s, NEW p, NEW q, NEW m, NEW r, PassedOn(s, p, q, m, r),
         NEW e, NEW x \in {0, 1}, IF x = 1 THEN e = Plus(q + 1) ELSE e = Minus(r + 1) /\ r + 1 <= q
  PROVE  PassedOn(Append(s, e), p, q + x, m, r + 1 - x)
<1>1. PICK a, b : Passed(s, a, b) /\ p = a[0] /\ q = a[Len(s)] /\ m = b[0] /\ r = b[Len(s)]
  BY DEF PassedOn
<1> DEFINE L == Len(s)
           w == Append(s, e)
           a2 == [j \in 0 .. L + 1 |-> IF j = L + 1 THEN q + x ELSE a[j]]
           b2 == [j \in 0 .. L + 1 |-> IF j = L + 1 THEN r + 1 - x ELSE b[j]]
<1>2. /\ s \in Seq(Element) /\ L \in Nat /\ q \in Nat /\ r \in Nat /\ p \in Nat
      /\ a \in [0 .. L -> Nat] /\ b \in [0 .. L -> Nat] /\ r <= q
      /\ \A j, k \in 0 .. L : j <= k => a[j] <= a[k] /\ b[j] <= b[k]
      /\ \A j \in 0 .. L : b[j] <= a[j]
  <2>1. s \in Seq(Element) /\ a \in [0 .. L -> Nat] /\ b \in [0 .. L -> Nat] /\ L \in Nat
    BY <1>1 DEF Passed
  <2>2. L \in 0 .. L /\ 0 \in 0 .. L
    BY <2>1
  <2> QED BY <1>1, <2>1, <2>2 DEF Passed
<1>3. e \in Element
  BY <1>2 DEF Element, Plus, Minus
<1>4. /\ w \in Seq(Element) /\ Len(w) = L + 1 /\ w[L + 1] = e
      /\ \A j \in 1 .. L : w[j] = s[j]
  BY <1>2, <1>3
<1>5. /\ a2 \in [0 .. L + 1 -> Nat] /\ b2 \in [0 .. L + 1 -> Nat]
      /\ a2[L + 1] = q + x /\ b2[L + 1] = r + 1 - x
      /\ \A j \in 0 .. L : a2[j] = a[j] /\ b2[j] = b[j]
  BY <1>2
<1>6. L + 1 - 1 = L /\ a2[L] = q /\ b2[L] = r /\ a2[0] = p /\ b2[0] = m
  BY <1>1, <1>2, <1>5
<1> HIDE DEF w, a2, b2
<1>7. ASSUME NEW j \in 1 .. L + 1
      PROVE  \/ w[j] = Plus(a2[j]) /\ a2[j] = a2[j - 1] + 1 /\ b2[j] = b2[j - 1]
             \/ w[j] = Minus(b2[j]) /\ b2[j] = b2[j - 1] + 1 /\ a2[j] = a2[j - 1]
  <2>1. CASE j = L + 1
    <3>1. w[j] = e /\ a2[j] = q + x /\ b2[j] = r + 1 - x /\ a2[j - 1] = q /\ b2[j - 1] = r
      BY <1>4, <1>5, <1>6, <2>1
    <3>2. CASE x = 1
      <4>1. q + x = q + 1 /\ r + 1 - x = r /\ e = Plus(q + 1)
        BY <1>2, <3>2
      <4> QED BY <3>1, <4>1
    <3>3. CASE x = 0
      <4>1. q + x = q /\ r + 1 - x = r + 1 /\ e = Minus(r + 1)
        BY <1>2, <3>3
      <4> QED BY <3>1, <4>1
    <3> QED BY <3>2, <3>3
  <2>2. CASE j # L + 1
    <3>1. j \in 1 .. L /\ j \in 0 .. L /\ j - 1 \in 0 .. L
      <4>1. \A y \in Nat : y \in 1 .. L + 1 /\ y # L + 1 => y \in 1 .. L /\ y \in 0 .. L /\ y - 1 \in 0 .. L
        BY <1>2
      <4> QED BY <2>2, <4>1
    <3> QED BY <1>1, <1>4, <1>5, <3>1 DEF Passed
  <2> QED BY <2>1, <2>2
<1>8. \A j \in 0 .. L + 1 : j \in 0 .. L \/ j = L + 1
  BY <1>2
<1>9. \A j \in 0 .. L + 1 : b2[j] <= a2[j]
  BY <1>2, <1>5, <1>8
<1>10. ASSUME NEW j \in 0 .. L + 1, NEW k \in 0 .. L + 1, j <= k
       PROVE  a2[j] <= a2[k] /\ b2[j] <= b2[k]
  <2>1. CASE k = L + 1
    <3>1. CASE j = L + 1
      BY <1>2, <1>5, <2>1, <3>1
    <3>2. CASE j \in 0 .. L
      <4>1. a[j] <= q /\ b[j] <= r /\ a[j] \in Nat /\ b[j] \in Nat
        <5>1. L \in 0 .. L /\ j <= L
          BY <1>2, <3>2
        <5> QED BY <1>1, <1>2, <3>2, <5>1
      <4> QED BY <1>2, <1>5, <2>1, <3>2, <4>1
    <3> QED BY <1>8, <3>1, <3>2
  <2>2. CASE k # L + 1
    <3>1. k \in 0 .. L /\ j \in 0 .. L
      BY <1>2, <1>10, <2>2
    <3> QED BY <1>2, <1>5, <1>10, <3>1
  <2> QED BY <2>1, <2>2
<1>11. ASSUME NEW n \in a2[0] + 1 .. a2[L + 1]
       PROVE  \E j \in 1 .. L + 1 : w[j] = Plus(n)
  <2>1. n \in p + 1 .. q + x
    BY <1>5, <1>6, <1>11
  <2>2. CASE n = q + 1 /\ x = 1
    <3>1. L + 1 \in 1 .. L + 1
      BY <1>2
    <3> QED BY <1>4, <2>2, <3>1
  <2>3. CASE n <= q
    <3>1. p \in Nat
      BY <1>1, <1>2
    <3>2. n \in p + 1 .. q
      BY <1>2, <2>1, <2>3, <3>1
    <3>3. PICK j \in 1 .. L : s[j] = Plus(n)
      BY <1>1, <3>2 DEF Passed
    <3>4. j \in 1 .. L + 1
      BY <1>2
    <3> QED BY <1>4, <3>3, <3>4
  <2>4. p \in Nat
    BY <1>1, <1>2
  <2> QED BY <1>2, <2>1, <2>2, <2>3, <2>4
<1>12. Passed(w, a2, b2)
  BY <1>4, <1>5, <1>7, <1>9, <1>10, <1>11 DEF Passed
<1> QED BY <1>4, <1>5, <1>6, <1>12 DEF PassedOn, w

LEMMA PassHead ==
  ASSUME NEW s, NEW p, NEW q, NEW m, NEW r, PassedOn(s, p, q, m, r), s # <<>>
  PROVE  \/ Head(s) = Plus(p + 1) /\ p + 1 <= q /\ PassedOn(Tail(s), p + 1, q, m, r)
         \/ Head(s) = Minus(m + 1) /\ m + 1 <= r /\ m + 1 <= p /\ PassedOn(Tail(s), p, q, m + 1, r)
<1>1. PICK a, b : Passed(s, a, b) /\ p = a[0] /\ q = a[Len(s)] /\ m = b[0] /\ r = b[Len(s)]
  BY DEF PassedOn
<1> DEFINE L == Len(s)
           w == Tail(s)
           a2 == [j \in 0 .. L - 1 |-> a[j + 1]]
           b2 == [j \in 0 .. L - 1 |-> b[j + 1]]
<1>2. /\ s \in Seq(Element) /\ L \in Nat \ {0}
      /\ a \in [0 .. L -> Nat] /\ b \in [0 .. L -> Nat]
      /\ \A j, k \in 0 .. L : j <= k => a[j] <= a[k] /\ b[j] <= b[k]
      /\ \A j \in 0 .. L : b[j] <= a[j]
      /\ \A j \in 1 .. L : \/ s[j] = Plus(a[j]) /\ a[j] = a[j - 1] + 1 /\ b[j] = b[j - 1]
                           \/ s[j] = Minus(b[j]) /\ b[j] = b[j - 1] + 1 /\ a[j] = a[j - 1]
      /\ \A n \in p + 1 .. q : \E j \in 1 .. L : s[j] = Plus(n)
  <2>1. s \in Seq(Element) /\ L \in Nat \ {0}
    BY <1>1 DEF Passed
  <2> QED BY <1>1, <2>1 DEF Passed
<1>3. Head(s) = s[1] /\ w \in Seq(Element) /\ Len(w) = L - 1 /\ \A j \in 1 .. L - 1 : w[j] = s[j + 1]
  BY <1>2
<1>4. /\ a2 \in [0 .. L - 1 -> Nat] /\ b2 \in [0 .. L - 1 -> Nat]
      /\ \A j \in 0 .. L - 1 : a2[j] = a[j + 1] /\ b2[j] = b[j + 1]
  BY <1>2
<1>5. /\ L - 1 \in 0 .. L - 1 /\ L - 1 + 1 = L /\ 0 \in 0 .. L - 1 /\ 0 + 1 = 1 /\ 1 \in 0 .. L /\ L \in 0 .. L
      /\ 1 - 1 = 0 /\ 1 \in 1 .. L /\ 1 <= L
  BY <1>2
<1>6. a2[L - 1] = q /\ b2[L - 1] = r /\ a2[0] = a[1] /\ b2[0] = b[1]
  BY <1>1, <1>4, <1>5
<1> HIDE DEF w, a2, b2
<1>7. /\ a[1] <= q /\ b[1] <= r /\ b[1] <= a[1] /\ a[1] \in Nat /\ b[1] \in Nat /\ p \in Nat /\ q \in Nat
      /\ \/ s[1] = Plus(a[1]) /\ a[1] = p + 1 /\ b[1] = m
         \/ s[1] = Minus(b[1]) /\ b[1] = m + 1 /\ a[1] = p
  <2>1. a[1] <= a[L] /\ b[1] <= b[L] /\ b[1] <= a[1] /\ a[1] \in Nat /\ b[1] \in Nat /\ a[0] \in Nat /\ a[L] \in Nat
    <3>1. 0 \in 0 .. L
      BY <1>2
    <3> QED BY <1>2, <1>5, <3>1
  <2>2. \/ s[1] = Plus(a[1]) /\ a[1] = a[0] + 1 /\ b[1] = b[0]
        \/ s[1] = Minus(b[1]) /\ b[1] = b[0] + 1 /\ a[1] = a[0]
    BY <1>2, <1>5
  <2> QED BY <1>1, <2>1, <2>2
<1>8. \A j \in 1 .. L - 1 : j + 1 \in 1 .. L /\ j + 1 - 1 = j /\ j \in 0 .. L - 1 /\ j - 1 \in 0 .. L - 1 /\ j - 1 + 1 = j
  BY <1>2
<1>9. \A j \in 1 .. L - 1 : \/ w[j] = Plus(a2[j]) /\ a2[j] = a2[j - 1] + 1 /\ b2[j] = b2[j - 1]
                            \/ w[j] = Minus(b2[j]) /\ b2[j] = b2[j - 1] + 1 /\ a2[j] = a2[j - 1]
  <2> TAKE j \in 1 .. L - 1
  <2>1. w[j] = s[j + 1] /\ a2[j] = a[j + 1] /\ b2[j] = b[j + 1] /\ a2[j - 1] = a[j] /\ b2[j - 1] = b[j]
    BY <1>3, <1>4, <1>8
  <2>2. \/ s[j + 1] = Plus(a[j + 1]) /\ a[j + 1] = a[j + 1 - 1] + 1 /\ b[j + 1] = b[j + 1 - 1]
        \/ s[j + 1] = Minus(b[j + 1]) /\ b[j + 1] = b[j + 1 - 1] + 1 /\ a[j + 1] = a[j + 1 - 1]
    BY <1>2, <1>8
  <2> QED BY <1>8, <2>1, <2>2
<1>10. \A j \in 0 .. L - 1 : j + 1 \in 0 .. L
  BY <1>2
<1>11. \A j \in 0 .. L - 1 : b2[j] <= a2[j]
  BY <1>2, <1>4, <1>10
<1>12. \A j, k \in 0 .. L - 1 : j <= k => a2[j] <= a2[k] /\ b2[j] <= b2[k]
  <2> TAKE j, k \in 0 .. L - 1
  <2>1. j <= k => j + 1 <= k + 1
    OBVIOUS
  <2> QED BY <1>2, <1>4, <1>10, <2>1
<1>13. \A n \in a2[0] + 1 .. a2[L - 1] : \E j \in 1 .. L - 1 : w[j] = Plus(n)
  <2> TAKE n \in a2[0] + 1 .. a2[L - 1]
  <2>1. n \in a[1] + 1 .. q /\ n \in p + 1 .. q
    BY <1>6, <1>7
  <2>2. PICK j \in 1 .. L : s[j] = Plus(n)
    BY <1>2, <2>1
  <2>3. s[1] # Plus(n)
    <3>1. \A x, y : Plus(x) = Plus(y) => x = y
      BY Signs
    <3>2. \A x, y : Plus(x) # Minus(y)
      BY Signs
    <3> QED BY <1>7, <2>1, <3>1, <3>2
  <2>4. j - 1 \in 1 .. L - 1 /\ j - 1 + 1 = j
    BY <1>2, <2>2, <2>3
  <2> QED BY <1>3, <2>2, <2>4
<1>14. Passed(w, a2, b2)
  BY <1>3, <1>4, <1>9, <1>11, <1>12, <1>13 DEF Passed
<1>15. PassedOn(w, a[1], q, b[1], r)
  BY <1>3, <1>6, <1>14 DEF PassedOn
<1> QED BY <1>3, <1>7, <1>15 DEF w

(* What the elements that were passed on are about.                        *)
LEMMA PassRead ==
  ASSUME NEW s, NEW p, NEW q, NEW m, NEW r, PassedOn(s, p, q, m, r)
  PROVE  /\ s \in Seq(Element) /\ p \in Nat /\ q \in Nat /\ m \in Nat /\ r \in Nat
         /\ p <= q /\ m <= r /\ m <= p /\ r <= q
         /\ \A j \in 1 .. Len(s) : s[j].tuple \in p + 1 .. q \/ s[j].tuple \in m + 1 .. r
         /\ \A n \in p + 1 .. q : \E j \in 1 .. Len(s) : s[j].tuple = n
<1>1. PICK a, b : Passed(s, a, b) /\ p = a[0] /\ q = a[Len(s)] /\ m = b[0] /\ r = b[Len(s)]
  BY DEF PassedOn
<1> DEFINE L == Len(s)
<1>2. /\ s \in Seq(Element) /\ L \in Nat
      /\ a \in [0 .. L -> Nat] /\ b \in [0 .. L -> Nat] /\ 0 \in 0 .. L /\ L \in 0 .. L /\ 0 <= L
      /\ \A j, k \in 0 .. L : j <= k => a[j] <= a[k] /\ b[j] <= b[k]
      /\ \A j \in 0 .. L : b[j] <= a[j]
  <2>1. s \in Seq(Element) /\ L \in Nat
    BY <1>1 DEF Passed
  <2> QED BY <1>1, <2>1 DEF Passed
<1>3. /\ p \in Nat /\ q \in Nat /\ m \in Nat /\ r \in Nat /\ p <= q /\ m <= r /\ m <= p /\ r <= q
  BY <1>1, <1>2
<1>4. ASSUME NEW j \in 1 .. L
      PROVE  s[j].tuple \in p + 1 .. q \/ s[j].tuple \in m + 1 .. r
  <2>1. j \in 0 .. L /\ j - 1 \in 0 .. L /\ 0 <= j - 1 /\ j <= L
    BY <1>2
  <2>2. /\ a[j] \in Nat /\ b[j] \in Nat /\ a[j - 1] \in Nat /\ b[j - 1] \in Nat
        /\ p <= a[j - 1] /\ a[j] <= q /\ m <= b[j - 1] /\ b[j] <= r
    BY <1>1, <1>2, <2>1
  <2>3. \/ s[j] = Plus(a[j]) /\ a[j] = a[j - 1] + 1
        \/ s[j] = Minus(b[j]) /\ b[j] = b[j - 1] + 1
    BY <1>1 DEF Passed
  <2>4. \/ s[j].tuple = a[j] /\ a[j] = a[j - 1] + 1
        \/ s[j].tuple = b[j] /\ b[j] = b[j - 1] + 1
    BY <2>3, Signs
  <2>5. CASE s[j].tuple = a[j] /\ a[j] = a[j - 1] + 1
    <3>1. s[j].tuple \in p + 1 .. q
      BY <1>3, <2>2, <2>5
    <3> QED BY <3>1
  <2>6. CASE s[j].tuple = b[j] /\ b[j] = b[j - 1] + 1
    <3>1. s[j].tuple \in m + 1 .. r
      BY <1>3, <2>2, <2>6
    <3> QED BY <3>1
  <2> QED BY <2>4, <2>5, <2>6
<1>5. ASSUME NEW n \in p + 1 .. q
      PROVE  \E j \in 1 .. L : s[j].tuple = n
  <2>1. PICK j \in 1 .. L : s[j] = Plus(n)
    BY <1>1 DEF Passed
  <2> QED BY <2>1, Signs
<1> QED BY <1>2, <1>3, <1>4, <1>5

-----------------------------------------------------------------------------
(* The memory of the windows, and what their stubs point to.               *)
WinPointers(m, pg, i, d) ==
  \A s \in {1, 2, 3} : m.lastInsTuple[s] = At(pg, i[s]) /\ m.lastDelTuple[s] = At(pg, d[s])

WinMemory(K, m, pg, lo, N, i, d) ==
  /\ Marks(N, i, d) /\ Lowest(lo, d)
  /\ StreamMemory(K, m, pg, lo, N, WinCount(K, N, i, d))
  /\ WinPointers(m, pg, i, d)

(* A reference more, or one less to a page that has others.                *)
WinRef(m, t, n) == IF n = -1 THEN Win!decrRef(m, t) ELSE Win!addRef(m, t, n)

Recounted(cnt, k, n) == [cnt EXCEPT ![k] = @ + n]

RefOn(m, pg, lo, N, cnt, k, t, n, w) ==
  /\ k \in lo .. PageNo(N + 1) /\ t[1] = pg[k] /\ n \in {-1, 0, 1} /\ (n = -1 => cnt[k] > 1)
  /\ w = WinRef(m, t, n)

LEMMA WinRefs ==
  ASSUME kind = "win", NEW m, NEW pg, NEW lo, NEW N, NEW cnt, StreamMemory(kind, m, pg, lo, N, cnt),
         NEW k, NEW t, NEW n, NEW w, RefOn(m, pg, lo, N, cnt, k, t, n, w)
  PROVE  /\ StreamMemory(kind, w, pg, lo, N, Recounted(cnt, k, n))
         /\ w.lastInsTuple = m.lastInsTuple /\ w.lastDelTuple = m.lastDelTuple /\ w.iters = m.iters
<1>0. /\ k \in lo .. PageNo(N + 1) /\ t[1] = pg[k] /\ n \in {-1, 0, 1} /\ (n = -1 => cnt[k] > 1)
      /\ w = WinRef(m, t, n)
  BY DEF RefOn
<1> USE <1>0
<1>1. kind \in Streams /\ PageNo(N + 1) = PageNo(Slot(kind, N + 1))
  BY DEF Streams, Slot
<1>2. k \in lo .. PageNo(Slot(kind, N + 1))
  BY <1>1
<1>3. cnt \in [Nat -> Int] /\ k \in Nat
  BY <1>2 DEF StreamMemory
<1>4. CASE n = -1
  <2>1. w = Win!decrRef(m, t)
    BY <1>4 DEF WinRef
  <2>2. cnt[k] # 1 /\ cnt[k] \in Int
    BY <1>3, <1>4
  <2>3. /\ StreamMemory(kind, w, pg, IF cnt[k] = 1 THEN lo + 1 ELSE lo, N, [cnt EXCEPT ![k] = @ - 1])
        /\ SameWindows(kind, m, w)
    <3>1. t[1] = pg[k] /\ (cnt[k] = 1 => k = lo /\ lo < PageNo(Slot(kind, N + 1))) /\ kind \in Streams
      BY <1>1, <2>2
    <3>2. LessRef(kind, m, pg, lo, N, cnt, k, t, w)
      BY <1>2, <2>1, <3>1 DEF LessRef
    <3> QED BY <3>1, <3>2, LessRefs
  <2>4. [cnt EXCEPT ![k] = @ - 1] = [cnt EXCEPT ![k] = @ + n]
    BY <1>3, <1>4
  <2> QED BY <2>2, <2>3, <2>4 DEF SameWindows, Recounted
<1>5. CASE n # -1
  <2>1. w = Win!addRef(m, t, n) /\ n \in Int
    BY <1>5 DEF WinRef
  <2>2. StreamMemory(kind, w, pg, lo, N, [cnt EXCEPT ![k] = @ + n]) /\ SameWindows(kind, m, w)
    BY <1>1, <1>2, <2>1, MoreRefs
  <2> QED BY <2>2 DEF SameWindows, Recounted
<1> QED BY <1>4, <1>5

(* Stub s inserts a tuple, and n more references are made to it.           *)
LEMMA WinInserts ==
  ASSUME kind = "win", NEW m, NEW pg, NEW lo, NEW N, NEW i, NEW d, WinMemory(kind, m, pg, lo, N, i, d),
         NEW s, NEW j, MayInsert(N, i, s, j), NEW v, v = Win!insertTuple_w(m, s)
  PROVE  /\ StreamMemory(kind, v, pg, lo, N, WinCount(kind, N, i, d))
         /\ v.iters = m.iters /\ v.lastDelTuple = m.lastDelTuple
         /\ \A r \in {1, 2, 3} : v.lastInsTuple[r] = At(pg, j[r])
         /\ i[s] + 1 \in 1 .. N /\ PageNo(i[s] + 1) \in lo .. PageNo(N + 1)
<1>0. s \in {1, 2, 3} /\ (IF s = 3 THEN i[3] < i[1] ELSE i[s] < N) /\ j = [i EXCEPT ![s] = @ + 1]
  BY DEF MayInsert
<1> USE <1>0
<1>1. /\ N \in Nat /\ i \in [{1, 2, 3} -> Nat] /\ d[s] \in Nat /\ d[s] <= i[s] /\ i[s] < N /\ i[s] \in 0 .. N
      /\ \A r \in {1, 2, 3} : j[r] = IF r = s THEN i[s] + 1 ELSE i[r]
      /\ s \in Stub /\ lo \in Nat /\ lo <= PageNo(d[s])
  <2>1. i[3] < i[1] /\ i[1] <= N /\ i[3] \in Nat /\ i[1] \in Nat /\ N \in Nat => i[3] < N
    OBVIOUS
  <2> QED BY <2>1, StubAssumption DEF WinMemory, Marks, Lowest
<1>2. PageNo(i[s]) >= lo
  <2>1. PageNo(d[s]) <= PageNo(i[s]) /\ PageNo(d[s]) \in Nat /\ PageNo(i[s]) \in Nat
    BY <1>1, WinPages
  <2> QED BY <1>1, <2>1
<1>3. StreamMemory(kind, m, pg, lo, N, WinCount(kind, N, i, d)) /\ m.lastInsTuple[s] = At(pg, i[s])
  BY DEF WinMemory, WinPointers
<1>4. /\ Win!INCR(m, At(pg, i[s])) = At(pg, i[s] + 1) /\ At(pg, i[s] + 1) \in PlaceType
      /\ PageNo(i[s] + 1) \in lo .. PageNo(N + 1)
  BY <1>1, <1>2, <1>3, WinNext
<1>5. v = [m EXCEPT !.lastInsTuple[s] = At(pg, i[s] + 1)]
  BY <1>3, <1>4 DEF Win!insertTuple_w
<1>6. StreamMemory(kind, v, pg, lo, N, WinCount(kind, N, i, d))
  BY <1>1, <1>3, <1>4, <1>5, WinFieldsOfStub
<1>7. StreamType(kind, m)
  BY <1>3 DEF StreamMemory
<1>8. v.iters = m.iters /\ v.lastDelTuple = m.lastDelTuple
      /\ v.lastInsTuple = [m.lastInsTuple EXCEPT ![s] = At(pg, i[s] + 1)]
  BY <1>5, <1>7 DEF StreamType, StreamFields
<1>9. ASSUME NEW r \in {1, 2, 3} PROVE v.lastInsTuple[r] = At(pg, j[r])
  <2>1. m.lastInsTuple \in [{1, 2, 3} -> PlaceType] /\ m.lastInsTuple[r] = At(pg, i[r])
    BY <1>7, StubAssumption DEF StreamType, WinMemory, WinPointers
  <2> QED BY <1>1, <1>8, <2>1
<1>10. i[s] + 1 \in 1 .. N
  BY <1>1
<1> QED BY <1>4, <1>6, <1>8, <1>9, <1>10

(* A page beyond which a stub has not deleted is counted.                  *)
LEMMA WinCounted ==
  ASSUME kind = "win", NEW N, NEW i, NEW d, Marks(N, i, d), NEW s \in {1, 2, 3},
         NEW k \in Nat, PageNo(d[s]) <= k
  PROVE  WinCount(kind, N, i, d)[k] >= 1
<1>1. /\ In(kind, k, d[2], N) \in Nat /\ In(kind, k, d[3], N) \in Nat /\ In(kind, k, d[3], i[1]) \in Nat
      /\ NotBeyond(d, k) \in Nat
  BY WinCountType
<1>2. WinCount(kind, N, i, d)[k] = In(kind, k, d[2], N) + In(kind, k, d[3], N) + In(kind, k, d[3], i[1]) + NotBeyond(d, k)
  BY DEF WinCount
<1>3. NotBeyond(d, k) >= 1
  <2>1. \A r \in {1, 2, 3} : One(PageNo(d[r]) <= k) \in Nat
    BY DEF One
  <2>2. One(PageNo(d[s]) <= k) = 1
    BY DEF One
  <2> QED BY <2>1, <2>2 DEF NotBeyond
<1> QED BY <1>1, <1>2, <1>3

CountedAs(K, N, i, d, cnt) == \A l \in Nat : WinCount(K, N, i, d)[l] = cnt[l]

LEMMA WinMemoryAgain ==
  ASSUME kind = "win", NEW m, NEW pg, NEW lo, NEW N, NEW cnt, StreamMemory(kind, m, pg, lo, N, cnt),
         NEW i, NEW d, Marks(N, i, d), Lowest(lo, d),
         CountedAs(kind, N, i, d, cnt), WinPointers(m, pg, i, d)
  PROVE  WinMemory(kind, m, pg, lo, N, i, d)
<1>1. WinCount(kind, N, i, d) \in [Nat -> Int]
  BY WinCountType
<1>2. lo \in Nat
  BY DEF Lowest
<1>3. \A l \in lo .. PageNo(Slot(kind, N + 1)) : WinCount(kind, N, i, d)[l] = cnt[l]
  BY <1>2 DEF CountedAs
<1>4. StreamMemory(kind, m, pg, lo, N, WinCount(kind, N, i, d))
  BY <1>1, <1>3, SameCounts
<1> QED BY <1>4 DEF WinMemory

(* What the references are that go with an insertion of stub s.            *)
InsertedAs(m, s, t) ==
  IF s = 1 THEN WinRef(Win!insertTuple_w(m, 1), t, 1)
  ELSE IF s = 2 THEN WinRef(WinRef(Win!insertTuple_w(m, 2), t, 1), t, -1)
  ELSE Win!insertTuple_w(m, 3)

LEMMA WinKeeps ==
  ASSUME kind = "win", NEW m, NEW pg, NEW lo, NEW N, NEW i, NEW d, WinMemory(kind, m, pg, lo, N, i, d),
         NEW s, NEW j, MayInsert(N, i, s, j),
         NEW w, w = InsertedAs(m, s, At(pg, i[s] + 1))
  PROVE  WinMemory(kind, w, pg, lo, N, j, d) /\ w.iters = m.iters
<1> DEFINE k == PageNo(i[s] + 1)
           t == At(pg, i[s] + 1)
<1>0. s \in {1, 2, 3} /\ j = [i EXCEPT ![s] = @ + 1]
  BY DEF MayInsert
<1>1. PICK v : v = Win!insertTuple_w(m, s)
  OBVIOUS
<1>2. PICK cnt : cnt = WinCount(kind, N, i, d)
  OBVIOUS
<1>3. /\ StreamMemory(kind, v, pg, lo, N, cnt)
      /\ v.iters = m.iters /\ v.lastDelTuple = m.lastDelTuple
      /\ \A r \in {1, 2, 3} : v.lastInsTuple[r] = At(pg, j[r])
      /\ k \in lo .. PageNo(N + 1)
  BY <1>1, <1>2, WinInserts
<1>4. Marks(N, i, d) /\ Lowest(lo, d) /\ WinPointers(v, pg, j, d)
  BY <1>3 DEF WinMemory, WinPointers
<1>5. /\ Marks(N, j, d)
      /\ \A l \in Nat : WinCount(kind, N, j, d)[l] = cnt[l] + (IF s = 1 THEN One(l = PageNo(i[1] + 1)) ELSE 0)
  BY <1>2, <1>4, WinCountInserted
<1>6. cnt \in [Nat -> Int] /\ k \in Nat /\ t[1] = pg[k] /\ lo \in Nat
  <2>1. cnt \in [Nat -> Int]
    BY <1>2, <1>4, WinCountType
  <2>2. lo \in Nat
    BY <1>4 DEF Lowest
  <2> QED BY <1>3, <2>1, <2>2 DEF At
<1>7. CASE s = 1
  <2>1. RefOn(v, pg, lo, N, cnt, k, t, 1, w)
    BY <1>1, <1>3, <1>6, <1>7 DEF InsertedAs, RefOn
  <2> HIDE DEF k, t
  <2>2. /\ StreamMemory(kind, w, pg, lo, N, Recounted(cnt, k, 1))
        /\ w.lastInsTuple = v.lastInsTuple /\ w.lastDelTuple = v.lastDelTuple /\ w.iters = v.iters
    <3>1. StreamMemory(kind, v, pg, lo, N, cnt)
      BY <1>3
    <3> QED BY <2>1, <3>1, WinRefs
  <2>3. CountedAs(kind, N, j, d, Recounted(cnt, k, 1))
    BY <1>5, <1>6, <1>7 DEF One, CountedAs, Recounted, k
  <2>4. WinPointers(w, pg, j, d)
    BY <1>4, <2>2 DEF WinPointers
  <2>5. WinMemory(kind, w, pg, lo, N, j, d)
    BY <1>4, <1>5, <2>2, <2>3, <2>4, WinMemoryAgain
  <2> QED BY <1>3, <2>2, <2>5
<1>8. CASE s = 2
  <2> DEFINE more == Recounted(cnt, k, 1)
  <2>0. PICK u : u = WinRef(v, t, 1)
    OBVIOUS
  <2>1. RefOn(v, pg, lo, N, cnt, k, t, 1, u)
    BY <1>3, <1>6, <2>0 DEF RefOn
  <2>2. more[k] > 1
    <3>1. PageNo(d[s]) <= k
      <4>1. d[s] \in Nat /\ i[s] + 1 \in Nat /\ d[s] <= i[s] + 1
        BY <1>0, <1>4 DEF Marks
      <4> QED BY <4>1, WinPages
    <3>2. cnt[k] >= 1
      BY <1>0, <1>2, <1>4, <1>6, <3>1, WinCounted
    <3> QED BY <1>6, <3>2 DEF Recounted
  <2>3. RefOn(u, pg, lo, N, more, k, t, -1, w)
    BY <1>1, <1>3, <1>6, <1>8, <2>0, <2>2 DEF InsertedAs, RefOn
  <2> HIDE DEF k, t
  <2>4. /\ StreamMemory(kind, u, pg, lo, N, more)
        /\ u.lastInsTuple = v.lastInsTuple /\ u.lastDelTuple = v.lastDelTuple /\ u.iters = v.iters
    BY <1>3, <2>1, WinRefs
  <2>5. CountedAs(kind, N, j, d, Recounted(more, k, -1))
    BY <1>5, <1>6, <1>8 DEF CountedAs, Recounted
  <2> HIDE DEF more
  <2>6. /\ StreamMemory(kind, w, pg, lo, N, Recounted(more, k, -1))
        /\ w.lastInsTuple = u.lastInsTuple /\ w.lastDelTuple = u.lastDelTuple /\ w.iters = u.iters
    <3>1. StreamMemory(kind, u, pg, lo, N, more)
      BY <2>4
    <3> QED BY <2>3, <3>1, WinRefs
  <2>7. WinPointers(w, pg, j, d)
    BY <1>4, <2>4, <2>6 DEF WinPointers
  <2>8. WinMemory(kind, w, pg, lo, N, j, d)
    BY <1>4, <1>5, <2>5, <2>6, <2>7, WinMemoryAgain
  <2> QED BY <1>3, <2>4, <2>6, <2>8
<1>9. CASE s = 3
  <2>1. w = v
    BY <1>1, <1>9 DEF InsertedAs
  <2>2. CountedAs(kind, N, j, d, cnt)
    BY <1>5, <1>6, <1>9 DEF CountedAs
  <2>3. WinMemory(kind, v, pg, lo, N, j, d)
    BY <1>3, <1>4, <1>5, <2>2, WinMemoryAgain
  <2> QED BY <1>3, <2>1, <2>3
<1> QED BY <1>0, <1>7, <1>8, <1>9
(* What the references are that go with a deletion of stub s.              *)
DeletedAs(m, s, t) ==
  IF s = 1 THEN WinRef(Win!deleteOldestTuple_w(m, 1), t, 0)
  ELSE IF s = 2 THEN WinRef(Win!deleteOldestTuple_w(m, 2), t, -1)
  ELSE WinRef(WinRef(Win!deleteOldestTuple_w(m, 3), t, -1), t, -1)

LEMMA WinDrops ==
  ASSUME kind = "win", NEW m, NEW pg, NEW lo, NEW N, NEW i, NEW d, WinMemory(kind, m, pg, lo, N, i, d),
         NEW s, NEW e, MayDelete(i, d, s, e),
         NEW w, w = DeletedAs(m, s, At(pg, d[s] + 1))
  PROVE  \E low : WinMemory(kind, w, pg, low, N, i, e) /\ w.iters = m.iters
<1> DEFINE k == PageNo(d[s] + 1)
           t == At(pg, d[s] + 1)
<1>0. s \in {1, 2, 3} /\ e = [d EXCEPT ![s] = @ + 1]
  BY DEF MayDelete
<1>1. PICK v : v = Win!deleteOldestTuple_w(m, s)
  OBVIOUS
<1>2. PICK cnt : cnt = [l \in Nat |-> WinCount(kind, N, i, d)[l] - Leaves(d[s], l)]
  OBVIOUS
<1>3. Marks(N, i, d) /\ Lowest(lo, d) /\ WinPointers(m, pg, i, d)
      /\ StreamMemory(kind, m, pg, lo, N, WinCount(kind, N, i, d))
  BY DEF WinMemory
<1>4. PICK low : /\ Lowest(low, e) /\ StreamMemory(kind, v, pg, low, N, cnt)
                 /\ v.lastInsTuple = m.lastInsTuple /\ v.iters = m.iters
                 /\ v.lastDelTuple = [m.lastDelTuple EXCEPT ![s] = At(pg, e[s])]
  <2>1. m.lastDelTuple[s] = At(pg, d[s])
    BY <1>0, <1>3 DEF WinPointers
  <2> QED BY <1>1, <1>2, <1>3, <2>1, WinDeletes
<1>5. /\ Marks(N, i, e) /\ d[s] + 1 \in 1 .. N
      /\ \A l \in Nat : WinCount(kind, N, i, e)[l] =
                        WinCount(kind, N, i, d)[l] - Leaves(d[s], l) - (s - 1) * One(l = k)
  BY <1>3, WinCountDeleted
<1>6. WinPointers(v, pg, i, e)
  <2>1. m.lastDelTuple \in [{1, 2, 3} -> PlaceType]
    BY <1>3, StubAssumption DEF StreamMemory, StreamType
  <2>2. d \in [{1, 2, 3} -> Nat]
    BY <1>3 DEF Marks
  <2> QED BY <1>0, <1>3, <1>4, <2>1, <2>2 DEF WinPointers
<1>7. /\ cnt \in [Nat -> Int] /\ k \in Nat /\ t[1] = pg[k] /\ k \in low .. PageNo(N + 1)
      /\ \A l \in Nat : WinCount(kind, N, i, e)[l] = cnt[l] - (s - 1) * One(l = k)
  <2>1. WinCount(kind, N, i, d) \in [Nat -> Int]
    BY <1>3, WinCountType
  <2>2. cnt \in [Nat -> Int] /\ \A l \in Nat : cnt[l] = WinCount(kind, N, i, d)[l] - Leaves(d[s], l)
    BY <1>2, <2>1 DEF Leaves, One
  <2>3. d[s] + 1 \in Nat /\ N \in Nat /\ N + 1 \in Nat /\ d[s] + 1 <= N + 1 /\ e[s] = d[s] + 1
    BY <1>0, <1>3, <1>5 DEF Marks
  <2>4. k \in Nat /\ k <= PageNo(N + 1) /\ PageNo(N + 1) \in Nat
    BY <2>3, WinPages
  <2>5. low \in Nat /\ low <= k
    BY <1>0, <1>4, <2>3 DEF Lowest
  <2> QED BY <1>5, <2>2, <2>4, <2>5 DEF At
<1>8. WinCount(kind, N, i, e)[k] >= 1
  <2>1. PageNo(e[s]) <= k
    <3>1. e[s] = d[s] + 1
      BY <1>0, <1>3 DEF Marks
    <3> QED BY <1>7, <3>1
  <2> QED BY <1>0, <1>5, <1>7, <2>1, WinCounted
<1>9. cnt[k] - (s - 1) >= 1
  <2>1. One(k = k) = 1
    BY DEF One
  <2>2. WinCount(kind, N, i, e)[k] = cnt[k] - (s - 1) * One(k = k)
    BY <1>7
  <2> QED BY <1>0, <1>7, <1>8, <2>1, <2>2
<1> HIDE DEF k, t
<1>10. CASE s = 1
  <2>1. RefOn(v, pg, low, N, cnt, k, t, 0, w)
    BY <1>1, <1>7, <1>10 DEF DeletedAs, RefOn, t
  <2>2. /\ StreamMemory(kind, w, pg, low, N, Recounted(cnt, k, 0))
        /\ w.lastInsTuple = v.lastInsTuple /\ w.lastDelTuple = v.lastDelTuple /\ w.iters = v.iters
    BY <1>4, <2>1, WinRefs
  <2>3. CountedAs(kind, N, i, e, Recounted(cnt, k, 0))
    BY <1>7, <1>10 DEF One, CountedAs, Recounted
  <2>4. WinPointers(w, pg, i, e)
    BY <1>6, <2>2 DEF WinPointers
  <2>5. WinMemory(kind, w, pg, low, N, i, e)
    BY <1>4, <1>5, <2>2, <2>3, <2>4, WinMemoryAgain
  <2> QED BY <1>4, <2>2, <2>5
<1>11. CASE s = 2
  <2>1. RefOn(v, pg, low, N, cnt, k, t, -1, w)
    BY <1>1, <1>7, <1>9, <1>11 DEF DeletedAs, RefOn, t
  <2>2. /\ StreamMemory(kind, w, pg, low, N, Recounted(cnt, k, -1))
        /\ w.lastInsTuple = v.lastInsTuple /\ w.lastDelTuple = v.lastDelTuple /\ w.iters = v.iters
    BY <1>4, <2>1, WinRefs
  <2>3. CountedAs(kind, N, i, e, Recounted(cnt, k, -1))
    BY <1>7, <1>11 DEF One, CountedAs, Recounted
  <2>4. WinPointers(w, pg, i, e)
    BY <1>6, <2>2 DEF WinPointers
  <2>5. WinMemory(kind, w, pg, low, N, i, e)
    BY <1>4, <1>5, <2>2, <2>3, <2>4, WinMemoryAgain
  <2> QED BY <1>4, <2>2, <2>5
<1>12. CASE s = 3
  <2>0. PICK u : u = WinRef(v, t, -1)
    OBVIOUS
  <2>1. RefOn(v, pg, low, N, cnt, k, t, -1, u)
    BY <1>7, <1>9, <1>12, <2>0 DEF RefOn
  <2>2. PICK less : less = Recounted(cnt, k, -1)
    OBVIOUS
  <2>3. /\ StreamMemory(kind, u, pg, low, N, less)
        /\ u.lastInsTuple = v.lastInsTuple /\ u.lastDelTuple = v.lastDelTuple /\ u.iters = v.iters
    BY <1>4, <2>1, <2>2, WinRefs
  <2>4. less[k] > 1
    BY <1>7, <1>9, <1>12, <2>2 DEF Recounted
  <2>5. RefOn(u, pg, low, N, less, k, t, -1, w)
    BY <1>1, <1>7, <1>12, <2>0, <2>4 DEF DeletedAs, RefOn, t
  <2>6. /\ StreamMemory(kind, w, pg, low, N, Recounted(less, k, -1))
        /\ w.lastInsTuple = u.lastInsTuple /\ w.lastDelTuple = u.lastDelTuple /\ w.iters = u.iters
    BY <2>3, <2>5, WinRefs
  <2>7. CountedAs(kind, N, i, e, Recounted(less, k, -1))
    BY <1>7, <1>12, <2>2 DEF One, CountedAs, Recounted
  <2>8. WinPointers(w, pg, i, e)
    BY <1>6, <2>3, <2>6 DEF WinPointers
  <2>9. WinMemory(kind, w, pg, low, N, i, e)
    BY <1>4, <1>5, <2>6, <2>7, <2>8, WinMemoryAgain
  <2> QED BY <1>4, <2>3, <2>6, <2>9
<1> QED BY <1>0, <1>10, <1>11, <1>12

-----------------------------------------------------------------------------
(***************************************************************************)
(* What somebody sees of the windows: the places of tuples, the queues,    *)
(* what the stubs have and the scan of the third.  The memory below is     *)
(* readable as long as it holds the tuples, also when it is out.           *)
(***************************************************************************)
WinReadable(m, pg, lo, N, i, d) ==
  /\ Marks(N, i, d) /\ Lowest(lo, d) /\ WinPointers(m, pg, i, d)
  /\ \A n \in 1 .. N : PageNo(n) >= lo =>
       IdOf(m, At(pg, n)) = n /\ PageOf(At(pg, n)) \notin PagesOf(m.emptyPageList)
  /\ \A x \in 0 .. N : PageNo(x) >= lo => Win!INCR(m, At(pg, x)) = At(pg, x + 1)
  /\ \A x, y \in 0 .. N : PageNo(x) >= lo /\ PageNo(y) >= lo /\ At(pg, x) = At(pg, y) => x = y

WinPlaces(P, pg) == P \in Seq(PlaceType) /\ \A n \in 1 .. Len(P) : P[n] = At(pg, n)

WinQueues(Q, N, i, d) ==
  /\ Q \in [Stub -> Seq(Element)]
  /\ Pluses(Q[1], i[1], N) /\ Pluses(Q[2], i[2], N)
  /\ PassedOn(Q[3], i[3], i[1], d[3], d[1])

WinHas(H, i, d) == H = [s \in Stub |-> d[s] + 1 .. i[s]]

WinScan(S, L, I, pg, i, d, o) ==
  /\ S \subseteq {3} /\ DOMAIN L = Stub
  /\ 3 \in S => /\ o \in d[3] .. i[3] /\ L[3] = o + 1 .. i[3]
                /\ I[3].lastOutputTuple = At(pg, o) /\ I[3].lastInsTuple = At(pg, i[3])

WinView(pg, lo, i, d, o) ==
  /\ WinPlaces(place, pg) /\ WinQueues(queue, Len(place), i, d) /\ WinHas(has, i, d)
  /\ WinScan(scanning, left, store.iters, pg, i, d, o)
  /\ WinReadable(store, pg, lo, Len(place), i, d)

WinInv(pg, lo, i, d, o) ==
  /\ WinView(pg, lo, i, d, o)
  /\ Running(store) => WinMemory(kind, store, pg, lo, Len(place), i, d)

WinIndInv == kind = "win" => \E pg, lo, i, d, o : WinInv(pg, lo, i, d, o)

LEMMA WinOps ==
  ASSUME kind = "win"
  PROVE  /\ \A m : NewPlace(m) = m.nextTuple
         /\ \A m, id : newTuple(m, id) = Win!newTuple(m, id)
         /\ \A m, t, n : addRef(m, t, n) = Win!addRef(m, t, n)
         /\ \A m, t : decrRef(m, t) = Win!decrRef(m, t)
         /\ \A m, t, s : /\ insertTuple_r(m, t, s) = Win!insertTuple_w(m, s)
                         /\ deleteTuple_r(m, t, s) = Win!deleteOldestTuple_w(m, s)
         /\ \A m, s : /\ getScan_r(m, s) = Win!getScan_r(m, s)
                      /\ getNext(m, s) = Win!getNext(m, s)
                      /\ HasNext(m, s) <=> Win!HasNext(m, s)
                      /\ NextTuple(m, s) = Win!NextTuple(m, s)
<1>1. /\ \A m : NewPlace(m) = m.nextTuple
      /\ \A m, id : newTuple(m, id) = Win!newTuple(m, id)
  BY DEF NewPlace, newTuple, Win!NewPlace, Listed, Linked
<1>2. \A m, t, n : addRef(m, t, n) = Win!addRef(m, t, n)
  BY DEF addRef, Listed, Linked
<1>3. \A m, t : decrRef(m, t) = Win!decrRef(m, t)
  BY DEF decrRef, Listed, Linked
<1>4. \A m, t, s : /\ insertTuple_r(m, t, s) = Win!insertTuple_w(m, s)
                   /\ deleteTuple_r(m, t, s) = Win!deleteOldestTuple_w(m, s)
  BY DEF insertTuple_r, deleteTuple_r, Win!insertTuple_r, Win!deleteTuple_r, Listed, Linked
<1>5. \A m, s : /\ getScan_r(m, s) = Win!getScan_r(m, s)
                /\ getNext(m, s) = Win!getNext(m, s)
                /\ NextTuple(m, s) = Win!NextTuple(m, s)
  BY DEF getScan_r, getNext, NextTuple, Listed, Linked
<1>6. \A m, s : HasNext(m, s) <=> Win!HasNext(m, s)
  <2> TAKE m, s
  <2>1. HasNext(m, s) = Win!HasNext(m, s)
    BY DEF HasNext, Listed, Linked
  <2> QED BY <2>1
<1> QED BY <1>1, <1>2, <1>3, <1>4, <1>5, <1>6

LEMMA WinReaders ==
  ASSUME kind = "win"
  PROVE  /\ ReadersOf(0) = {1, 2} /\ ReadersOf(1) = {3} /\ ReadersOf(2) = {}
         /\ Keepers = {3} /\ Scanner = 3
         /\ \A m, t : /\ Given(m, 0, t) = Win!addRef(m, t, 1)
                      /\ Given(m, 1, t) = Win!addRef(m, t, 0)
                      /\ Given(m, 2, t) = Win!decrRef(m, t)
<1>1. ReadersOf(0) = {1, 2} /\ ReadersOf(1) = {3} /\ ReadersOf(2) = {}
  BY StubAssumption DEF ReadersOf, Reads
<1>2. Keepers = {3} /\ Scanner = 3
  BY DEF Keepers, Scanner
<1>3. Cardinality({1, 2}) - 1 = 1
  <2>1. 1 \in Int /\ 2 \in Int
    OBVIOUS
  <2>2. Cardinality(1 .. 2) = IF 1 > 2 THEN 0 ELSE 2 - 1 + 1
    BY <2>1, FS_Interval, Zenon
  <2>3. {1, 2} = 1 .. 2
    OBVIOUS
  <2> QED BY <2>2, <2>3
<1>4. Cardinality({3}) - 1 = 0
  <2>1. Cardinality({3}) = 1
    BY FS_Singleton
  <2> QED BY <2>1
<1>5. \A m, t : Given(m, 0, t) = Win!addRef(m, t, 1)
  <2> TAKE m, t
  <2>1. Given(m, 0, t) = addRef(m, t, Cardinality({1, 2}) - 1)
    <3>1. ReadersOf(0) # {}
      BY <1>1
    <3> QED BY <1>1, <3>1 DEF Given
  <2> QED BY <1>3, <2>1, WinOps
<1>6. \A m, t : Given(m, 1, t) = Win!addRef(m, t, 0)
  <2> TAKE m, t
  <2>1. Given(m, 1, t) = addRef(m, t, Cardinality({3}) - 1)
    <3>1. ReadersOf(1) # {}
      BY <1>1
    <3> QED BY <1>1, <3>1 DEF Given
  <2> QED BY <1>4, <2>1, WinOps
<1>7. \A m, t : Given(m, 2, t) = Win!decrRef(m, t)
  BY <1>1, WinOps DEF Given
<1> QED BY <1>1, <1>2, <1>5, <1>6, <1>7

(* The memory of the windows is readable, and stays so when it runs out.   *)
LEMMA WinReads ==
  ASSUME kind = "win", NEW m, NEW pg, NEW lo, NEW N, NEW i, NEW d, WinMemory(kind, m, pg, lo, N, i, d)
  PROVE  WinReadable(m, pg, lo, N, i, d)
<1>1. PICK cnt : StreamMemory(kind, m, pg, lo, N, cnt)
  BY DEF WinMemory
<1>2. \A n \in 1 .. N : PageNo(n) >= lo =>
        IdOf(m, At(pg, n)) = n /\ PageOf(At(pg, n)) \notin PagesOf(m.emptyPageList)
  <2> TAKE n \in 1 .. N
  <2> HAVE PageNo(n) >= lo
  <2>1. Slot(kind, n) = n
    BY DEF Slot
  <2> QED BY <1>1, <2>1, Held
<1>3. \A x \in 0 .. N : PageNo(x) >= lo => Win!INCR(m, At(pg, x)) = At(pg, x + 1)
  BY <1>1, WinNext
<1>4. \A x, y \in 0 .. N : PageNo(x) >= lo /\ PageNo(y) >= lo /\ At(pg, x) = At(pg, y) => x = y
  BY <1>1, WinDiffer
<1> QED BY <1>2, <1>3, <1>4 DEF WinMemory, WinReadable

LEMMA WinEnds ==
  ASSUME kind = "win", NEW m, NEW pg, NEW lo, NEW N, NEW i, NEW d, WinMemory(kind, m, pg, lo, N, i, d),
         NEW w, Ended(kind, m, w, N)
  PROVE  WinReadable(w, pg, lo, N, i, d) /\ w.iters = m.iters
<1>1. PICK cnt : StreamMemory(kind, m, pg, lo, N, cnt)
  BY DEF WinMemory
<1>2. WinReadable(m, pg, lo, N, i, d)
  BY WinReads
<1>3. /\ w.lastInsTuple = m.lastInsTuple /\ w.lastDelTuple = m.lastDelTuple /\ w.iters = m.iters
      /\ \A q \in Page : w.page[q].next = m.page[q].next
  BY DEF Ended, SameWindows
<1>4. \A n \in 1 .. N : PageNo(n) >= lo =>
        IdOf(w, At(pg, n)) = n /\ PageOf(At(pg, n)) \notin PagesOf(w.emptyPageList)
  <2> TAKE n \in 1 .. N
  <2> HAVE PageNo(n) >= lo
  <2>1. Slot(kind, n) = n /\ kind \in Streams
    BY DEF Slot, Streams
  <2> QED BY <1>1, <2>1, HeldAtEnd
<1>5. \A x \in 0 .. N : PageNo(x) >= lo => Win!INCR(w, At(pg, x)) = Win!INCR(m, At(pg, x))
  <2> TAKE x \in 0 .. N
  <2>1. N \in Nat /\ pg \in [Nat -> Page]
    BY <1>1 DEF StreamMemory
  <2>2. PageNo(x) \in Nat
    BY <2>1, WinPages
  <2>3. w.page[At(pg, x)[1]].next = m.page[At(pg, x)[1]].next
    BY <1>3, <2>1, <2>2 DEF At
  <2> QED BY <2>3 DEF Win!INCR, Win!PageOf
<1> QED BY <1>2, <1>3, <1>4, <1>5 DEF WinReadable, WinPointers

-----------------------------------------------------------------------------
(* Who may look at a tuple is a stub that has not deleted beyond it.       *)
LEMMA WinInUse ==
  ASSUME kind = "win", NEW pg, NEW lo, NEW i, NEW d, NEW o, WinView(pg, lo, i, d, o), NEW n \in InUse
  PROVE  /\ \E s \in {1, 2, 3} : n \in d[s] + 1 .. Len(place)
         /\ n \in 1 .. Len(place) /\ PageNo(n) >= lo /\ place[n] = At(pg, n)
<1> DEFINE N == Len(place)
<1>1. /\ Marks(N, i, d) /\ Lowest(lo, d) /\ WinQueues(queue, N, i, d) /\ WinHas(has, i, d)
      /\ WinPlaces(place, pg)
  BY DEF WinView, WinReadable
<1> HIDE DEF N
<1>2. /\ N \in Nat /\ i[3] <= i[1] /\ d[3] <= d[1]
      /\ \A s \in {1, 2, 3} : i[s] \in Nat /\ d[s] \in Nat /\ d[s] <= i[s] /\ i[s] <= N
  BY <1>1 DEF Marks
<1>3. PICK s \in Stub : n \in has[s] \/ \E j \in 1 .. Len(queue[s]) : n = queue[s][j].tuple
  BY DEF InUse
<1>4. s \in {1, 2, 3}
  BY StubAssumption
<1>5. \E r \in {1, 2, 3} : n \in d[r] + 1 .. N
  <2>1. CASE n \in has[s]
    <3>1. n \in d[s] + 1 .. i[s]
      BY <1>1, <2>1 DEF WinHas
    <3>2. n \in d[s] + 1 .. N
      BY <1>2, <1>4, <3>1
    <3> QED BY <1>4, <3>2
  <2>2. CASE s \in {1, 2} /\ \E j \in 1 .. Len(queue[s]) : n = queue[s][j].tuple
    <3>1. Pluses(queue[s], i[s], N)
      BY <1>1, <2>2 DEF WinQueues
    <3>2. n \in i[s] + 1 .. N
      BY <2>2, <3>1, PlusesRead
    <3>3. n \in d[s] + 1 .. N
      BY <1>2, <1>4, <3>2
    <3> QED BY <1>4, <3>3
  <2>3. CASE s = 3 /\ \E j \in 1 .. Len(queue[s]) : n = queue[s][j].tuple
    <3>1. PassedOn(queue[3], i[3], i[1], d[3], d[1])
      BY <1>1 DEF WinQueues
    <3>2. n \in i[3] + 1 .. i[1] \/ n \in d[3] + 1 .. d[1]
      BY SMTT(30), <2>3, <3>1, PassRead
    <3>3. n \in d[3] + 1 .. N
      <4>1. i[1] \in Nat /\ i[3] \in Nat /\ d[1] \in Nat /\ d[3] \in Nat /\ d[3] <= i[3] /\ i[1] <= N /\ d[1] <= i[1]
        BY <1>2
      <4> QED BY <1>2, <3>2, <4>1
    <3> QED BY <3>3
  <2> QED BY <1>3, <1>4, <2>1, <2>2, <2>3
<1>6. PICK r \in {1, 2, 3} : n \in d[r] + 1 .. N
  BY <1>5
<1>7. n \in 1 .. N /\ n \in Nat /\ d[r] \in Nat /\ d[r] <= n
  BY <1>2, <1>6
<1>8. PageNo(d[r]) <= PageNo(n) /\ PageNo(d[r]) \in Nat /\ PageNo(n) \in Nat
  BY <1>7, WinPages
<1>9. lo \in Nat /\ lo <= PageNo(d[r])
  BY <1>1 DEF Lowest
<1>10. PageNo(n) >= lo
  BY <1>8, <1>9
<1>11. place[n] = At(pg, n)
  BY <1>1, <1>7 DEF WinPlaces, N
<1> QED BY <1>5, <1>7, <1>10, <1>11 DEF N

LEMMA WinLost ==
  ASSUME WinIndInv, kind = "win"
  PROVE  NothingLost
<1>1. PICK pg, lo, i, d, o : WinView(pg, lo, i, d, o)
  BY DEF WinIndInv, WinInv
<1>2. ASSUME NEW n \in InUse
      PROVE  IdOf(store, place[n]) = n /\ PageOf(place[n]) \notin EmptyPages
  <2>1. n \in 1 .. Len(place) /\ PageNo(n) >= lo /\ place[n] = At(pg, n)
    BY <1>1, WinInUse
  <2>2. IdOf(store, At(pg, n)) = n /\ PageOf(At(pg, n)) \notin PagesOf(store.emptyPageList)
    BY <1>1, <2>1 DEF WinView, WinReadable
  <2> QED BY <2>1, <2>2 DEF EmptyPages, PagesOf
<1>3. kind \notin Listed
  BY DEF Listed, Linked
<1> QED BY <1>2, <1>3 DEF NothingLost

LEMMA WinOldest ==
  ASSUME WinIndInv, kind = "win"
  PROVE  OldestFirst
<1>1. PICK pg, lo, i, d, o : WinView(pg, lo, i, d, o)
  BY DEF WinIndInv, WinInv
<1>2. PICK N : N = Len(place)
  OBVIOUS
<1>3. Marks(N, i, d) /\ Lowest(lo, d) /\ WinPointers(store, pg, i, d) /\ WinHas(has, i, d)
  BY <1>1, <1>2 DEF WinView, WinReadable
<1>4. ASSUME NEW w \in {1, 2}
      PROVE  IF has[w] = {} THEN Win!isEmpty_w(store, w)
             ELSE IdOf(store, Win!getOldestTuple_w(store, w)) = Oldest(has[w])
  <2>1. /\ w \in Stub /\ N \in Nat /\ i[w] \in Nat /\ d[w] \in Nat /\ d[w] <= i[w] /\ i[w] <= N
        /\ lo \in Nat /\ lo <= PageNo(d[w]) /\ has[w] = d[w] + 1 .. i[w]
        /\ store.lastInsTuple[w] = At(pg, i[w]) /\ store.lastDelTuple[w] = At(pg, d[w])
    BY <1>3, StubAssumption DEF Marks, Lowest, WinPointers, WinHas
  <2>2. CASE d[w] = i[w]
    BY <2>1, <2>2 DEF Win!isEmpty_w
  <2>3. CASE d[w] < i[w]
    <3>1. d[w] + 1 \in has[w] /\ d[w] \in 0 .. N /\ d[w] + 1 \in 1 .. N
      BY <2>1, <2>3
    <3>2. Oldest(has[w]) = d[w] + 1
      <4>1. \A id \in has[w] : d[w] + 1 <= id
        BY <2>1
      <4>2. \A id \in has[w] : (\A other \in has[w] : id <= other) => id = d[w] + 1
        BY <2>1, <3>1
      <4> QED BY <3>1, <4>1, <4>2 DEF Oldest
    <3>3. PageNo(d[w] + 1) >= lo
      <4>0. d[w] + 1 \in Nat /\ d[w] \in Nat /\ d[w] <= d[w] + 1
        BY <2>1
      <4>1. PageNo(d[w]) <= PageNo(d[w] + 1) /\ PageNo(d[w]) \in Nat /\ PageNo(d[w] + 1) \in Nat
        BY <4>0, WinPages
      <4> QED BY <2>1, <4>1
    <3>4. PageNo(d[w]) >= lo
      <4>1. PageNo(d[w]) \in Nat
        BY <2>1, WinPages
      <4> QED BY <2>1, <4>1
    <3>5. Win!getOldestTuple_w(store, w) = At(pg, d[w] + 1)
      <4>1. Win!INCR(store, At(pg, d[w])) = At(pg, d[w] + 1)
        BY <1>1, <1>2, <3>1, <3>4 DEF WinView, WinReadable
      <4> QED BY <2>1, <4>1 DEF Win!getOldestTuple_w
    <3>6. IdOf(store, At(pg, d[w] + 1)) = d[w] + 1
      BY <1>1, <1>2, <3>1, <3>3 DEF WinView, WinReadable
    <3> QED BY <3>1, <3>2, <3>5, <3>6
  <2> QED BY <2>1, <2>2, <2>3
<1> QED BY <1>4 DEF OldestFirst

LEMMA WinScanned ==
  ASSUME WinIndInv, kind = "win"
  PROVE  ScansComplete
<1>1. PICK pg, lo, i, d, o : WinView(pg, lo, i, d, o)
  BY DEF WinIndInv, WinInv
<1> SUFFICES ASSUME NEW s \in scanning PROVE ScanIsRight(s)
  BY DEF ScansComplete
<1>2. PICK N : N = Len(place)
  OBVIOUS
<1>3. Marks(N, i, d) /\ Lowest(lo, d) /\ WinScan(scanning, left, store.iters, pg, i, d, o)
  BY <1>1, <1>2 DEF WinView, WinReadable
<1>4. /\ s = 3 /\ o \in d[3] .. i[3] /\ left[3] = o + 1 .. i[3]
      /\ store.iters[3].lastOutputTuple = At(pg, o) /\ store.iters[3].lastInsTuple = At(pg, i[3])
  BY <1>3 DEF WinScan
<1>5. /\ N \in Nat /\ d[3] \in Nat /\ i[3] \in Nat /\ d[3] <= i[3] /\ i[3] <= N
      /\ lo \in Nat /\ lo <= PageNo(d[3])
  BY <1>3 DEF Marks, Lowest
<1>6. \A x \in Nat : d[3] <= x => PageNo(x) >= lo
  <2> TAKE x \in Nat
  <2>1. d[3] <= x => PageNo(d[3]) <= PageNo(x)
    BY <1>5, WinPages
  <2>2. PageNo(d[3]) \in Nat /\ PageNo(x) \in Nat
    BY <1>5, WinPages
  <2> QED BY <1>5, <2>1, <2>2
<1>7. HasNext(store, 3) <=> At(pg, i[3]) # At(pg, o)
  BY <1>4, WinOps DEF Win!HasNext
<1>8. CASE o = i[3]
  <2>1. left[3] = {} /\ ~HasNext(store, 3)
    BY <1>4, <1>5, <1>7, <1>8
  <2> QED BY <1>4, <2>1 DEF ScanIsRight
<1>9. CASE o # i[3]
  <2>1. o \in 0 .. N /\ i[3] \in 0 .. N /\ o + 1 \in 1 .. N /\ o \in Nat /\ o + 1 \in Nat /\ d[3] <= o
        /\ d[3] <= o + 1 /\ o + 1 \in o + 1 .. i[3]
    BY <1>4, <1>5, <1>9
  <2>2. PageNo(o) >= lo /\ PageNo(i[3]) >= lo /\ PageNo(o + 1) >= lo
    BY <1>5, <1>6, <2>1
  <2>3. HasNext(store, 3)
    <3>1. At(pg, i[3]) = At(pg, o) => i[3] = o
      BY <1>1, <1>2, <2>1, <2>2 DEF WinView, WinReadable
    <3> QED BY <1>7, <1>9, <3>1
  <2>4. NextTuple(store, 3) = At(pg, o + 1)
    <3>1. Win!INCR(store, At(pg, o)) = At(pg, o + 1)
      BY <1>1, <1>2, <2>1, <2>2 DEF WinView, WinReadable
    <3> QED BY <1>4, <3>1, WinOps DEF Win!NextTuple
  <2>5. IdOf(store, At(pg, o + 1)) = o + 1
    BY <1>1, <1>2, <2>1, <2>2 DEF WinView, WinReadable
  <2> QED BY <1>4, <2>1, <2>3, <2>4, <2>5 DEF ScanIsRight
<1> QED BY <1>8, <1>9

LEMMA Uses ==
  ASSUME NEW s \in Stub
  PROVE  /\ \A n \in has[s] : n \in InUse
         /\ \A j \in 1 .. Len(queue[s]) : queue[s][j].tuple \in InUse
<1> DEFINE U(r) == has[r] \cup {queue[r][i].tuple : i \in 1 .. Len(queue[r])}
<1>1. \A x : x \in U(s) => x \in InUse
  <2>1. InUse = UNION {U(r) : r \in Stub}
    BY DEF InUse
  <2> HIDE DEF U
  <2> QED BY <2>1
<1> QED BY <1>1

(* A page that nobody looks at any more is that of a stub that has not     *)
(* deleted beyond it.                                                      *)
LEMMA WinLeaked ==
  ASSUME WinIndInv, kind = "win"
  PROVE  NothingLeaked
<1> SUFFICES ASSUME Running(store), NEW p \in Page \ EmptyPages, p # store.curPage
             PROVE  \/ \E t \in PlacesInUse : PageOf(t) = p
                    \/ \E s \in Stub : PageOf(store.lastDelTuple[s]) = p
  <2>1. NothingLeaked <=> (Running(store) =>
          \A p \in Page \ EmptyPages :
             \/ p = store.curPage
             \/ \E t \in PlacesInUse : PageOf(t) = p
             \/ kind = "win" /\ \E s \in Stub : PageOf(store.lastDelTuple[s]) = p)
    <3>1. kind \in {"simple", "win"}
      OBVIOUS
    <3> QED BY <3>1 DEF NothingLeaked, Listed, Linked
  <2> QED BY <2>1
<1>1. PICK pg, lo, i, d, o : WinInv(pg, lo, i, d, o)
  BY DEF WinIndInv
<1>2. PICK N, C : N = Len(place) /\ C = PageNo(N + 1)
  OBVIOUS
<1>3. /\ WinView(pg, lo, i, d, o) /\ Marks(N, i, d) /\ Lowest(lo, d) /\ WinPointers(store, pg, i, d)
      /\ WinHas(has, i, d) /\ WinQueues(queue, N, i, d) /\ WinPlaces(place, pg)
      /\ StreamMemory(kind, store, pg, lo, N, WinCount(kind, N, i, d))
  BY <1>1, <1>2 DEF WinInv, WinView, WinMemory
<1>4. /\ N \in Nat /\ lo \in Nat /\ i[3] <= i[1] /\ d[3] <= d[1]
      /\ \A s \in {1, 2, 3} : i[s] \in Nat /\ d[s] \in Nat /\ d[s] <= i[s] /\ i[s] <= N
  BY <1>3 DEF Marks, Lowest
<1>5. Slot(kind, N + 1) = N + 1 /\ N + 1 \in Nat /\ C \in Nat
  BY <1>2, <1>4, WinPages DEF Slot
<1>6. /\ store.curPage = pg[C] /\ PagesOf(store.emptyPageList) = Page \ {pg[k] : k \in lo .. C}
  BY <1>2, <1>3, <1>5 DEF StreamMemory
<1>7. PICK k \in lo .. C : p = pg[k]
  BY <1>6 DEF EmptyPages, PagesOf
<1>8. k < C /\ k \in Nat /\ lo <= k
  BY <1>4, <1>5, <1>6, <1>7
<1>9. PICK s \in {1, 2, 3} : lo = PageNo(d[s])
  BY <1>3 DEF Lowest
<1>10. CASE k = lo
  <2>1. PageOf(store.lastDelTuple[s]) = p
    BY <1>3, <1>7, <1>9, <1>10 DEF WinPointers, PageOf, At
  <2> QED BY <2>1, StubAssumption
<1>11. CASE k # lo
  <2>1. d[s] \in 0 .. N /\ Slot(kind, d[s] + 1) = d[s] + 1
    BY <1>4 DEF Slot
  <2>2. PageNo(d[s] + 1) <= k
    <3>1. PageNo(d[s] + 1) \in {lo, lo + 1}
      BY <1>4, <1>9, WinPages
    <3> QED BY <1>4, <1>8, <1>11, <3>1
  <2>3. PICK n \in d[s] + 1 .. N : PageNo(Slot(kind, n)) = k
    <3>1. PageNo(Slot(kind, d[s] + 1)) <= k /\ k < PageNo(Slot(kind, N + 1))
      BY <1>2, <1>5, <1>8, <2>1, <2>2
    <3> QED BY SMTT(30), <1>4, <1>8, <2>1, <3>1, SomeOnPage
  <2>4. n \in Nat /\ n \in 1 .. N /\ PageNo(n) = k
    <3>1. n \in Nat /\ n \in 1 .. N
      BY <1>4, <2>3
    <3> QED BY <2>3, <3>1, WinPages
  <2>5. \A r \in {1, 2} : n \in d[r] + 1 .. N => n \in InUse
    <3> TAKE r \in {1, 2}
    <3> HAVE n \in d[r] + 1 .. N
    <3>1. r \in Stub /\ has[r] = d[r] + 1 .. i[r] /\ Pluses(queue[r], i[r], N)
      BY <1>3, StubAssumption DEF WinHas, WinQueues
    <3>2. CASE n <= i[r]
      <4>1. n \in has[r]
        BY <1>4, <2>4, <3>1, <3>2
      <4> QED BY <3>1, <4>1, Uses
    <3>3. CASE n > i[r]
      <4>1. /\ n - i[r] \in 1 .. N - i[r] /\ i[r] + (n - i[r]) = n
        BY <1>4, <2>4, <3>3
      <4>2. Len(queue[r]) = N - i[r] /\ queue[r][n - i[r]] = Plus(n)
        BY <3>1, <4>1 DEF Pluses
      <4>3. queue[r][n - i[r]].tuple = n
        BY <4>2, Signs
      <4> QED BY <3>1, <4>1, <4>2, <4>3, Uses
    <3>4. i[r] \in Nat
      BY <1>4
    <3> QED BY <2>4, <3>2, <3>3, <3>4
  <2>6. n \in d[3] + 1 .. N => n \in InUse
    <3> HAVE n \in d[3] + 1 .. N
    <3>1. 3 \in Stub /\ has[3] = d[3] + 1 .. i[3] /\ PassedOn(queue[3], i[3], i[1], d[3], d[1])
      BY <1>3, StubAssumption DEF WinHas, WinQueues
    <3>0. i[3] \in Nat /\ i[1] \in Nat /\ d[3] \in Nat /\ d[1] \in Nat /\ d[1] <= i[1]
      BY <1>4
    <3>2. CASE n <= i[3]
      <4>1. n \in has[3]
        BY <2>4, <3>0, <3>1, <3>2
      <4> QED BY <3>1, <4>1, Uses
    <3>3. CASE n > i[3] /\ n <= i[1]
      <4>1. n \in i[3] + 1 .. i[1]
        BY <2>4, <3>0, <3>3
      <4>2. \E j \in 1 .. Len(queue[3]) : queue[3][j].tuple = n
        BY <3>1, <4>1, PassRead
      <4> QED BY <3>1, <4>2, Uses
    <3>4. CASE n > i[1]
      <4>1. n \in d[1] + 1 .. N
        BY <1>4, <2>4, <3>0, <3>4
      <4> QED BY <2>5, <4>1
    <3> QED BY <2>4, <3>0, <3>2, <3>3, <3>4
  <2>7. n \in InUse
    BY <1>9, <2>3, <2>5, <2>6
  <2>8. place[n] = At(pg, n)
    BY <1>2, <1>3, <2>4 DEF WinPlaces
  <2>9. PageOf(place[n]) = p
    BY <1>7, <2>4, <2>8 DEF PageOf, At
  <2> QED BY <2>7, <2>9 DEF PlacesInUse
<1> QED BY <1>10, <1>11

-----------------------------------------------------------------------------
(* The memory with the new tuple and the references of both windows.       *)
LEMMA WinNewTuple ==
  ASSUME kind = "win", NEW m, NEW pg, NEW lo, NEW N, NEW i, NEW d, WinMemory(kind, m, pg, lo, N, i, d),
         NEW w, w = Win!newTuple(m, N + 1), ~w.outOfMemory,
         NEW v, v = Win!addRef(w, m.nextTuple, 1)
  PROVE  \E pg2 : /\ WinMemory(kind, v, pg2, lo, N + 1, i, d) /\ v.iters = m.iters
                  /\ \A k \in 0 .. PageNo(N + 1) : pg2[k] = pg[k]
<1>1. PICK C, cnt : C = PageNo(N + 1) /\ cnt = WinCount(kind, N, i, d)
  OBVIOUS
<1>2. /\ Marks(N, i, d) /\ Lowest(lo, d) /\ WinPointers(m, pg, i, d)
      /\ StreamMemory(kind, m, pg, lo, N, cnt)
  BY <1>1 DEF WinMemory
<1>3. /\ \A l \in Nat : WinCount(kind, N + 1, i, d)[l] = cnt[l] + 2 * One(l = C)
      /\ cnt[C + 1] = 3 /\ Marks(N + 1, i, d) /\ C \in Nat /\ cnt \in [Nat -> Int]
  <2>1. /\ \A l \in Nat : WinCount(kind, N + 1, i, d)[l] = cnt[l] + 2 * One(l = C)
        /\ cnt[C + 1] = 3 /\ Marks(N + 1, i, d) /\ C \in Nat
    BY <1>1, <1>2, WinCountMore
  <2> QED BY <1>1, <1>2, <2>1, WinCountType
<1>4. /\ kind \in Streams /\ N \in Nat /\ N + 1 \in Nat /\ Slot(kind, N + 1) = N + 1 /\ Slot(kind, N + 1 + 1) = N + 2
      /\ lo \in Nat /\ lo <= C
  <2>1. kind \in Streams
    BY DEF Streams
  <2>2. N \in Nat
    BY <1>2 DEF Marks
  <2>3. Slot(kind, N + 1) = N + 1 /\ Slot(kind, N + 1 + 1) = N + 2
    BY <2>2 DEF Slot
  <2>4. lo \in 0 .. C
    BY <1>1, <1>2, <2>3 DEF StreamMemory
  <2> QED BY <1>3, <2>1, <2>2, <2>3, <2>4
<1>5. /\ m.nextTuple[1] = pg[C] /\ C <= PageNo(N + 2) /\ PageNo(N + 2) \in Nat
      /\ \A s \in {1, 2, 3} : PageNo(i[s]) \in 0 .. C /\ PageNo(d[s]) \in 0 .. C
  <2>1. m.nextTuple[1] = pg[C]
    BY <1>1, <1>2, <1>4 DEF StreamMemory, At
  <2>2. N + 2 \in Nat /\ N + 1 <= N + 2
    BY <1>4
  <2>3. C <= PageNo(N + 2) /\ PageNo(N + 2) \in Nat
    BY <1>1, <1>4, <2>2, WinPages
  <2>4. ASSUME NEW x \in Nat, x <= N + 1 PROVE PageNo(x) \in 0 .. C
    <3>1. PageNo(x) \in Nat /\ PageNo(x) <= C
      BY <1>1, <1>4, <2>4, WinPages
    <3> QED BY <1>3, <3>1
  <2>5. \A s \in {1, 2, 3} : i[s] \in Nat /\ d[s] \in Nat /\ i[s] <= N + 1 /\ d[s] <= N + 1
    BY <1>2 DEF Marks
  <2> QED BY <2>1, <2>3, <2>4, <2>5
<1>6. ASSUME NEW pg2, NEW cnt2, StreamMemory(kind, w, pg2, lo, N + 1, cnt2), SameWindows(kind, m, w),
             \A k \in 0 .. C : pg2[k] = pg[k],
             \A l \in Nat : cnt2[l] = cnt[l] + One(l = C)
      PROVE  WinMemory(kind, v, pg2, lo, N + 1, i, d) /\ v.iters = m.iters
  <2>1. C \in lo .. PageNo(Slot(kind, N + 1 + 1))
    BY <1>3, <1>4, <1>5
  <2>2. m.nextTuple[1] = pg2[C]
    BY <1>3, <1>5, <1>6
  <2>3. StreamMemory(kind, v, pg2, lo, N + 1, [cnt2 EXCEPT ![C] = @ + 1]) /\ SameWindows(kind, w, v)
    <3>1. \A t, u : t[1] = pg2[C] /\ u = Win!addRef(w, t, 1) =>
                    /\ StreamMemory(kind, u, pg2, lo, N + 1, [cnt2 EXCEPT ![C] = @ + 1])
                    /\ SameWindows(kind, w, u)
      <4> TAKE t, u
      <4> HAVE t[1] = pg2[C] /\ u = Win!addRef(w, t, 1)
      <4> QED BY <1>4, <1>6, <2>1, MoreRefs
    <3> QED BY <2>2, <3>1
  <2>4. cnt2 \in [Nat -> Int]
    BY <1>6 DEF StreamMemory
  <2>5. CountedAs(kind, N + 1, i, d, [cnt2 EXCEPT ![C] = @ + 1])
    <3>1. ASSUME NEW l \in Nat
          PROVE  WinCount(kind, N + 1, i, d)[l] = [cnt2 EXCEPT ![C] = @ + 1][l]
      <4>1. cnt[l] \in Int
        BY <1>3
      <4>2. CASE l = C
        BY <1>3, <1>6, <2>4, <4>1, <4>2 DEF One
      <4>3. CASE l # C
        BY <1>3, <1>6, <2>4, <4>1, <4>3 DEF One
      <4> QED BY <4>2, <4>3
    <3> QED BY <3>1 DEF CountedAs
  <2>6. v.lastInsTuple = m.lastInsTuple /\ v.lastDelTuple = m.lastDelTuple /\ v.iters = m.iters
    BY <1>6, <2>3 DEF SameWindows
  <2>7. WinPointers(v, pg2, i, d)
    <3> SUFFICES ASSUME NEW s \in {1, 2, 3}
                 PROVE  v.lastInsTuple[s] = At(pg2, i[s]) /\ v.lastDelTuple[s] = At(pg2, d[s])
      BY DEF WinPointers
    <3>1. At(pg2, i[s]) = At(pg, i[s]) /\ At(pg2, d[s]) = At(pg, d[s])
      BY <1>5, <1>6 DEF At
    <3> QED BY <1>2, <2>6, <3>1 DEF WinPointers
  <2>8. WinMemory(kind, v, pg2, lo, N + 1, i, d)
    BY <1>2, <1>3, <2>3, <2>5, <2>7, WinMemoryAgain
  <2> QED BY <2>6, <2>8
<1>7. CASE Offset(N + 1) # TuplesPerPage - 1
  <2>1. w = [Written(m, N + 1) EXCEPT !.nextTuple = NextPlace(@)]
    BY <1>2, <1>4, <1>7, NewInWin
  <2>2. StreamMemory(kind, w, pg, lo, N + 1, [cnt EXCEPT ![C] = @ + 1]) /\ SameWindows(kind, m, w)
    <3>1. Offset(Slot(kind, N + 1)) # TuplesPerPage - 1
      BY <1>4, <1>7
    <3>2. /\ StreamMemory(kind, w, pg, lo, N + 1, [cnt EXCEPT ![PageNo(Slot(kind, N + 1))] = @ + 1])
          /\ SameWindows(kind, m, w)
      BY <1>2, <1>4, <2>1, <3>1, NextInPage
    <3> QED BY <1>1, <1>4, <3>2
  <2>3. \A l \in Nat : [cnt EXCEPT ![C] = @ + 1][l] = cnt[l] + One(l = C)
    BY <1>3 DEF One
  <2>4. WinMemory(kind, v, pg, lo, N + 1, i, d) /\ v.iters = m.iters
    BY <1>6, <2>2, <2>3
  <2> QED BY <2>4
<1>8. CASE Offset(N + 1) = TuplesPerPage - 1
  <2>1. PICK p : p = Head(m.emptyPageList)
    OBVIOUS
  <2>2. Continued(kind, m, w, N, p, 1, 3) /\ SameWindows(kind, m, w)
    <3>1. ~Ended(kind, m, w, N)
      BY DEF Ended
    <3> QED BY <1>2, <1>4, <1>8, <2>1, <3>1, NewInWin
  <2>3. PICK pg2, cnt2 : pg2 = [pg EXCEPT ![C + 1] = p] /\ cnt2 = [cnt EXCEPT ![C] = @ + 1, ![C + 1] = 3]
    OBVIOUS
  <2>4. StreamMemory(kind, w, pg2, lo, N + 1, cnt2) /\ \A k \in 0 .. C : pg2[k] = pg[k]
    <3>1. Offset(Slot(kind, N + 1)) = TuplesPerPage - 1 /\ 1 \in Int /\ 3 \in Int
      BY <1>4, <1>8
    <3>2. LET B == PageNo(Slot(kind, N + 1)) IN
          /\ StreamMemory(kind, w, [pg EXCEPT ![B + 1] = p], lo, N + 1, [cnt EXCEPT ![B] = @ + 1, ![B + 1] = 3])
          /\ \A k \in 0 .. B : [pg EXCEPT ![B + 1] = p][k] = pg[k]
      BY <1>2, <1>4, <2>2, <3>1, NextPage
    <3> QED BY <1>1, <1>4, <2>3, <3>2
  <2>5. \A l \in Nat : cnt2[l] = cnt[l] + One(l = C)
    BY <1>3, <2>3 DEF One
  <2>6. SameWindows(kind, m, w)
    BY <2>2
  <2>7. WinMemory(kind, v, pg2, lo, N + 1, i, d) /\ v.iters = m.iters
    BY <1>6, <2>4, <2>5, <2>6
  <2> QED BY <1>1, <2>4, <2>7
<1> QED BY <1>7, <1>8

(* No reference more: the memory is as it was.                              *)
LEMMA WinSameRefs ==
  ASSUME kind = "win", NEW m, NEW pg, NEW lo, NEW N, NEW i, NEW d, WinMemory(kind, m, pg, lo, N, i, d),
         NEW n \in 1 .. N, PageNo(n) >= lo,
         NEW w, w = Win!addRef(m, At(pg, n), 0)
  PROVE  WinMemory(kind, w, pg, lo, N, i, d) /\ w.iters = m.iters
<1>1. PICK k, t, cnt : k = PageNo(n) /\ t = At(pg, n) /\ cnt = WinCount(kind, N, i, d)
  OBVIOUS
<1>2. /\ Marks(N, i, d) /\ Lowest(lo, d) /\ WinPointers(m, pg, i, d)
      /\ StreamMemory(kind, m, pg, lo, N, cnt)
  BY <1>1 DEF WinMemory
<1>3. RefOn(m, pg, lo, N, cnt, k, t, 0, w)
  <2>1. k \in lo .. PageNo(N + 1) /\ t[1] = pg[k]
    <3>1. n \in 0 .. N
      OBVIOUS
    <3>2. PageNo(n) \in lo .. PageNo(N + 1)
      BY <1>2, <3>1, WinNext
    <3> QED BY <1>1, <3>2 DEF At
  <2> QED BY <1>1, <2>1 DEF RefOn, WinRef
<1>4. /\ StreamMemory(kind, w, pg, lo, N, Recounted(cnt, k, 0))
      /\ w.lastInsTuple = m.lastInsTuple /\ w.lastDelTuple = m.lastDelTuple /\ w.iters = m.iters
  BY <1>2, <1>3, WinRefs
<1>5. CountedAs(kind, N, i, d, Recounted(cnt, k, 0))
  <2>1. cnt \in [Nat -> Int]
    BY <1>1, <1>2, WinCountType
  <2> QED BY <1>1, <2>1 DEF CountedAs, Recounted
<1>6. WinPointers(w, pg, i, d)
  BY <1>2, <1>4 DEF WinPointers
<1> QED BY <1>2, <1>4, <1>5, <1>6, WinMemoryAgain

LEMMA WinPlacesMore ==
  ASSUME kind = "win", NEW P, NEW pg, WinPlaces(P, pg), NEW N, N = Len(P), NEW pg2,
         \A k \in 0 .. PageNo(N + 1) : pg2[k] = pg[k],
         NEW t \in PlaceType, t = At(pg, N + 1)
  PROVE  WinPlaces(Append(P, t), pg2) /\ Len(Append(P, t)) = N + 1
<1>1. /\ P \in Seq(PlaceType) /\ \A n \in 1 .. N : P[n] = At(pg, n)
      /\ N \in Nat /\ N + 1 \in Nat
  BY DEF WinPlaces
<1>2. PICK Q : Q = Append(P, t)
  OBVIOUS
<1>3. Q \in Seq(PlaceType) /\ Len(Q) = N + 1 /\ \A n \in 1 .. N + 1 : Q[n] = IF n = N + 1 THEN t ELSE P[n]
  BY <1>1, <1>2
<1>4. ASSUME NEW n \in 1 .. N + 1 PROVE Q[n] = At(pg2, n)
  <2>1. n \in Nat /\ n <= N + 1
    BY <1>1
  <2>2. PageNo(n) \in Nat /\ PageNo(N + 1) \in Nat /\ PageNo(n) <= PageNo(N + 1)
    BY <1>1, <2>1, WinPages
  <2>3. PageNo(n) \in 0 .. PageNo(N + 1)
    BY <2>2
  <2>4. At(pg2, n) = At(pg, n)
    BY <2>3 DEF At
  <2>5. CASE n = N + 1
    BY <1>3, <2>4, <2>5
  <2>6. CASE n # N + 1
    BY <1>1, <1>3, <2>1, <2>4, <2>6
  <2> QED BY <2>5, <2>6
<1> QED BY <1>2, <1>3, <1>4 DEF WinPlaces

LEMMA WinQueuesMore ==
  ASSUME kind = "win", NEW Q, NEW N, NEW i, NEW d, WinQueues(Q, N, i, d)
  PROVE  WinQueues(Sent(Q, 0, Plus(N + 1)), N + 1, i, d)
<1>1. PICK R : R = Sent(Q, 0, Plus(N + 1))
  OBVIOUS
<1>2. /\ R = [r \in Stub |-> R[r]]
      /\ R[1] = Append(Q[1], Plus(N + 1)) /\ R[2] = Append(Q[2], Plus(N + 1)) /\ R[3] = Q[3]
  BY SMTT(30), <1>1, WinReaders, StubAssumption DEF Sent
<1>3. Pluses(R[1], i[1], N + 1) /\ Pluses(R[2], i[2], N + 1) /\ PassedOn(R[3], i[3], i[1], d[3], d[1])
  BY <1>2, MorePluses DEF WinQueues
<1>4. R[1] \in Seq(Element) /\ R[2] \in Seq(Element) /\ R[3] \in Seq(Element)
  BY <1>2, <1>3, StubAssumption DEF WinQueues, Pluses
<1>5. R \in [Stub -> Seq(Element)]
  BY <1>2, <1>4, StubAssumption
<1> QED BY <1>1, <1>3, <1>5 DEF WinQueues

LEMMA WinScanAgain ==
  ASSUME kind = "win", NEW N, NEW i, NEW d, Marks(N, i, d),
         NEW S, NEW L, NEW I, NEW pg, NEW o, WinScan(S, L, I, pg, i, d, o),
         NEW pg2, \A k \in 0 .. PageNo(N + 1) : pg2[k] = pg[k]
  PROVE  WinScan(S, L, I, pg2, i, d, o)
<1> SUFFICES ASSUME 3 \in S PROVE At(pg2, o) = At(pg, o) /\ At(pg2, i[3]) = At(pg, i[3])
  BY DEF WinScan
<1>1. o \in Nat /\ i[3] \in Nat /\ o <= N + 1 /\ i[3] <= N + 1 /\ N + 1 \in Nat
  <2>1. o \in d[3] .. i[3]
    BY DEF WinScan
  <2> QED BY <2>1 DEF Marks
<1>2. ASSUME NEW x \in Nat, x <= N + 1 PROVE At(pg2, x) = At(pg, x)
  <2>1. PageNo(x) \in Nat /\ PageNo(N + 1) \in Nat /\ PageNo(x) <= PageNo(N + 1)
    BY <1>1, <1>2, WinPages
  <2>2. PageNo(x) \in 0 .. PageNo(N + 1)
    BY <2>1
  <2> QED BY <2>2 DEF At
<1> QED BY <1>1, <1>2

LEMMA WinMakes ==
  ASSUME WinIndInv, kind = "win", Running(store), MakeStreamTuple
  PROVE  WinIndInv'
<1>1. PICK pg, lo, i, d, o : WinInv(pg, lo, i, d, o)
  BY DEF WinIndInv
<1>2. PICK N, w, t : N = Len(place) /\ w = Win!newTuple(store, N + 1) /\ t = store.nextTuple
  OBVIOUS
<1>3. PICK v : v = Win!addRef(w, t, 1)
  OBVIOUS
<1>4. /\ WinPlaces(place, pg) /\ WinQueues(queue, N, i, d) /\ WinHas(has, i, d)
      /\ WinScan(scanning, left, store.iters, pg, i, d, o)
      /\ WinMemory(kind, store, pg, lo, N, i, d) /\ Marks(N, i, d)
  BY <1>1, <1>2 DEF WinInv, WinView, WinReadable
<1>5. kind' = kind /\ has' = has /\ scanning' = scanning /\ left' = left
  BY DEF MakeStreamTuple
<1>6. StreamMemory(kind, store, pg, lo, N, WinCount(kind, N, i, d))
  BY <1>4 DEF WinMemory
<1>7. CASE w.outOfMemory
  <2>1. store' = w /\ place' = place /\ queue' = queue
    BY <1>2, <1>7, WinOps DEF MakeStreamTuple, Made, Running, New
  <2>2. Ended(kind, store, w, N)
    <3>1. \/ w = [Written(store, N + 1) EXCEPT !.nextTuple = NextPlace(@)]
          \/ Ended(kind, store, w, N)
          \/ Continued(kind, store, w, N, Head(store.emptyPageList), 1, 3)
      BY <1>2, <1>6, NewInWin
    <3>2. ~store.outOfMemory
      BY DEF Running
    <3>3. w # [Written(store, N + 1) EXCEPT !.nextTuple = NextPlace(@)]
      <4>1. StreamType(kind, store)
        BY <1>6 DEF StreamMemory
      <4>2. [Written(store, N + 1) EXCEPT !.nextTuple = NextPlace(@)].outOfMemory = store.outOfMemory
        BY <4>1 DEF Written, StreamType, StreamFields
      <4> QED BY <1>7, <3>2, <4>2
    <3> QED BY <1>7, <3>1, <3>3 DEF Continued
  <2>3. WinReadable(w, pg, lo, N, i, d) /\ w.iters = store.iters
    BY <1>4, <2>2, WinEnds
  <2>4. ~Running(store')
    BY <1>7, <2>1 DEF Running
  <2>5. WinView(pg, lo, i, d, o)'
    BY <1>2, <1>4, <1>5, <2>1, <2>3 DEF WinView
  <2>6. WinInv(pg, lo, i, d, o)'
    BY <2>4, <2>5 DEF WinInv
  <2> QED BY <2>6 DEF WinIndInv
<1>8. CASE ~w.outOfMemory
  <2>1. PICK pg2 : /\ WinMemory(kind, v, pg2, lo, N + 1, i, d) /\ v.iters = store.iters
                   /\ \A k \in 0 .. PageNo(N + 1) : pg2[k] = pg[k]
    BY <1>2, <1>3, <1>4, <1>8, WinNewTuple
  <2>2. Running(v)
    BY <2>1 DEF WinMemory, StreamMemory, Running
  <2>3. store' = v /\ place' = Append(place, t) /\ queue' = Sent(queue, 0, Plus(N + 1))
    <3>1. newTuple(store, New) = w /\ NewPlace(store) = t /\ Running(w) /\ Given(w, 0, t) = v
      BY <1>2, <1>3, <1>8, WinOps, WinReaders DEF Running, New
    <3> QED BY <1>2, <2>2, <3>1 DEF MakeStreamTuple, Made, Running, New
  <2>4. t = At(pg, N + 1) /\ t \in PlaceType
    <3>1. Slot(kind, N + 1) = N + 1
      BY DEF Slot
    <3> QED BY <1>2, <1>6, <3>1 DEF StreamMemory, StreamType
  <2>5. WinPlaces(place', pg2) /\ Len(place') = N + 1
    BY <1>2, <1>4, <2>1, <2>3, <2>4, WinPlacesMore
  <2>6. WinQueues(queue', N + 1, i, d)
    BY <1>4, <2>3, WinQueuesMore
  <2>7. WinScan(scanning, left, v.iters, pg2, i, d, o)
    BY <1>4, <2>1, WinScanAgain
  <2>8. WinReadable(v, pg2, lo, N + 1, i, d)
    BY <2>1, WinReads
  <2>9. WinView(pg2, lo, i, d, o)'
    BY <1>4, <1>5, <2>3, <2>5, <2>6, <2>7, <2>8 DEF WinView
  <2>10. WinInv(pg2, lo, i, d, o)'
    BY <1>5, <2>1, <2>3, <2>5, <2>9 DEF WinInv
  <2> QED BY <2>10 DEF WinIndInv
<1> QED BY <1>7, <1>8

-----------------------------------------------------------------------------
(* A stub inserts the next tuple, or deletes its oldest one.               *)
LEMMA WinHasMore ==
  ASSUME NEW H, NEW N, NEW i, NEW d, WinHas(H, i, d), Marks(N, i, d), NEW s, NEW j, MayInsert(N, i, s, j)
  PROVE  WinHas([H EXCEPT ![s] = @ \cup {i[s] + 1}], j, d)
<1>1. /\ s \in {1, 2, 3} /\ j = [i EXCEPT ![s] = @ + 1] /\ i \in [{1, 2, 3} -> Nat] /\ Stub = {1, 2, 3}
      /\ H = [r \in Stub |-> d[r] + 1 .. i[r]] /\ \A r \in {1, 2, 3} : d[r] \in Nat /\ d[r] <= i[r]
  BY StubAssumption DEF MayInsert, Marks, WinHas
<1>2. d[s] + 1 .. i[s] + 1 = (d[s] + 1 .. i[s]) \cup {i[s] + 1}
  <2>1. d[s] \in Nat /\ i[s] \in Nat /\ d[s] <= i[s]
    BY <1>1
  <2> QED BY <2>1
<1>3. \A r \in {1, 2, 3} : j[r] = IF r = s THEN i[s] + 1 ELSE i[r]
  BY <1>1
<1>4. \A r \in Stub : [H EXCEPT ![s] = @ \cup {i[s] + 1}][r] = d[r] + 1 .. j[r]
  BY <1>1, <1>2, <1>3
<1> QED BY <1>1, <1>4 DEF WinHas

LEMMA WinHasLess ==
  ASSUME NEW H, NEW N, NEW i, NEW d, WinHas(H, i, d), Marks(N, i, d), NEW s, NEW e, MayDelete(i, d, s, e)
  PROVE  WinHas([H EXCEPT ![s] = @ \ {d[s] + 1}], i, e)
<1>1. /\ s \in {1, 2, 3} /\ e = [d EXCEPT ![s] = @ + 1] /\ d \in [{1, 2, 3} -> Nat] /\ Stub = {1, 2, 3}
      /\ H = [r \in Stub |-> d[r] + 1 .. i[r]] /\ \A r \in {1, 2, 3} : i[r] \in Nat /\ d[r] <= i[r]
      /\ d[s] < i[s]
  BY StubAssumption DEF MayDelete, Marks, WinHas
<1>2. d[s] + 1 + 1 .. i[s] = (d[s] + 1 .. i[s]) \ {d[s] + 1}
  <2>1. d[s] \in Nat /\ i[s] \in Nat /\ d[s] < i[s]
    BY <1>1
  <2> QED BY <2>1
<1>3. \A r \in {1, 2, 3} : e[r] = IF r = s THEN d[s] + 1 ELSE d[r]
  BY <1>1
<1>4. \A r \in Stub : [H EXCEPT ![s] = @ \ {d[s] + 1}][r] = e[r] + 1 .. i[r]
  BY <1>1, <1>2, <1>3
<1> QED BY <1>1, <1>4 DEF WinHas

LEMMA WinQueuesInsert ==
  ASSUME kind = "win", NEW Q, NEW N, NEW i, NEW d, WinQueues(Q, N, i, d), Marks(N, i, d),
         NEW s \in {1, 2}, Q[s] # <<>>, NEW j, j = [i EXCEPT ![s] = @ + 1]
  PROVE  /\ MayInsert(N, i, s, j) /\ Head(Q[s]).tuple = i[s] + 1
         /\ WinQueues(Sent([Q EXCEPT ![s] = Tail(@)], s, Plus(i[s] + 1)), N, j, d)
<1>1. /\ Q \in [Stub -> Seq(Element)] /\ Pluses(Q[1], i[1], N) /\ Pluses(Q[2], i[2], N)
      /\ PassedOn(Q[3], i[3], i[1], d[3], d[1]) /\ Stub = {1, 2, 3}
      /\ i \in [{1, 2, 3} -> Nat] /\ d \in [{1, 2, 3} -> Nat]
  BY StubAssumption DEF WinQueues, Marks
<1>2. i[s] < N /\ Head(Q[s]) = Plus(i[s] + 1) /\ Pluses(Tail(Q[s]), i[s] + 1, N)
  BY <1>1, LessPluses
<1>3. MayInsert(N, i, s, j) /\ Head(Q[s]).tuple = i[s] + 1
  BY <1>2, Signs DEF MayInsert
<1>4. PICK R : R = Sent([Q EXCEPT ![s] = Tail(@)], s, Plus(i[s] + 1))
  OBVIOUS
<1>5. CASE s = 1
  <2>1. /\ R = [r \in Stub |-> R[r]]
        /\ R[1] = Tail(Q[1]) /\ R[2] = Q[2] /\ R[3] = Append(Q[3], Plus(i[1] + 1))
    BY SMTT(30), <1>1, <1>4, <1>5, WinReaders DEF Sent
  <2>2. j[1] = i[1] + 1 /\ j[2] = i[2] /\ j[3] = i[3]
    BY <1>1, <1>5
  <2>3. PassedOn(R[3], i[3], i[1] + 1, d[3], d[1] + 1 - 1)
    <3>1. IF 1 = 1 THEN Plus(i[1] + 1) = Plus(i[1] + 1) ELSE FALSE
      OBVIOUS
    <3>2. 1 \in {0, 1}
      OBVIOUS
    <3>3. PICK x, el : x = 1 /\ el = Plus(i[1] + 1)
      BY <3>2
    <3>4. PassedOn(Append(Q[3], el), i[3], i[1] + x, d[3], d[1] + 1 - x)
      BY <1>1, <3>3, PassOne
    <3> QED BY <2>1, <3>3, <3>4
  <2>4. PassedOn(R[3], j[3], j[1], d[3], d[1])
    <3>1. d[1] + 1 - 1 = d[1]
      BY <1>1
    <3> QED BY <2>2, <2>3, <3>1
  <2>5. Pluses(R[1], j[1], N) /\ Pluses(R[2], j[2], N)
    BY <1>1, <1>2, <1>5, <2>1, <2>2
  <2>6. R[1] \in Seq(Element) /\ R[2] \in Seq(Element) /\ R[3] \in Seq(Element)
    BY <2>4, <2>5, PassRead DEF Pluses
  <2>7. R \in [Stub -> Seq(Element)]
    BY <1>1, <2>1, <2>6
  <2> QED BY <1>3, <1>4, <2>4, <2>5, <2>7 DEF WinQueues
<1>6. CASE s = 2
  <2>1. /\ R = [r \in Stub |-> R[r]]
        /\ R[1] = Q[1] /\ R[2] = Tail(Q[2]) /\ R[3] = Q[3]
    BY <1>1, <1>4, <1>6, WinReaders DEF Sent
  <2>2. j[1] = i[1] /\ j[2] = i[2] + 1 /\ j[3] = i[3]
    BY <1>1, <1>6
  <2>3. Pluses(R[1], j[1], N) /\ Pluses(R[2], j[2], N) /\ PassedOn(R[3], j[3], j[1], d[3], d[1])
    BY <1>1, <1>2, <1>6, <2>1, <2>2
  <2>4. R[1] \in Seq(Element) /\ R[2] \in Seq(Element) /\ R[3] \in Seq(Element)
    BY <2>3, PassRead DEF Pluses
  <2>5. R \in [Stub -> Seq(Element)]
    BY <1>1, <2>1, <2>4
  <2> QED BY <1>3, <1>4, <2>3, <2>5 DEF WinQueues
<1> QED BY <1>5, <1>6

LEMMA WinQueuesExpire ==
  ASSUME kind = "win", NEW Q, NEW N, NEW i, NEW d, WinQueues(Q, N, i, d), Marks(N, i, d),
         NEW s \in {1, 2}, NEW e, MayDelete(i, d, s, e)
  PROVE  WinQueues(Sent(Q, s, Minus(d[s] + 1)), N, i, e)
<1>1. /\ Q \in [Stub -> Seq(Element)] /\ Pluses(Q[1], i[1], N) /\ Pluses(Q[2], i[2], N)
      /\ PassedOn(Q[3], i[3], i[1], d[3], d[1]) /\ Stub = {1, 2, 3}
      /\ i \in [{1, 2, 3} -> Nat] /\ d \in [{1, 2, 3} -> Nat]
      /\ d[s] < i[s] /\ e = [d EXCEPT ![s] = @ + 1]
  BY StubAssumption DEF WinQueues, Marks, MayDelete
<1>4. PICK R : R = Sent(Q, s, Minus(d[s] + 1))
  OBVIOUS
<1>5. CASE s = 1
  <2>1. /\ R = [r \in Stub |-> R[r]]
        /\ R[1] = Q[1] /\ R[2] = Q[2] /\ R[3] = Append(Q[3], Minus(d[1] + 1))
    BY SMTT(30), <1>1, <1>4, <1>5, WinReaders DEF Sent
  <2>2. e[1] = d[1] + 1 /\ e[3] = d[3] /\ i[1] + 0 = i[1] /\ d[1] + 1 - 0 = d[1] + 1 /\ d[1] + 1 <= i[1]
    BY <1>1, <1>5
  <2>3. PassedOn(R[3], i[3], i[1] + 0, d[3], d[1] + 1 - 0)
    <3>1. 0 \in {0, 1}
      OBVIOUS
    <3>2. PICK x, el : x = 0 /\ el = Minus(d[1] + 1)
      BY <3>1
    <3>3. x \in {0, 1} /\ IF x = 1 THEN el = Plus(i[1] + 1) ELSE el = Minus(d[1] + 1) /\ d[1] + 1 <= i[1]
      BY <2>2, <3>2
    <3>4. PassedOn(Append(Q[3], el), i[3], i[1] + x, d[3], d[1] + 1 - x)
      BY <1>1, <3>3, PassOne
    <3> QED BY <2>1, <3>2, <3>4
  <2>4. PassedOn(R[3], i[3], i[1], e[3], e[1])
    BY <2>2, <2>3
  <2>5. Pluses(R[1], i[1], N) /\ Pluses(R[2], i[2], N)
    BY <1>1, <2>1
  <2>6. R[1] \in Seq(Element) /\ R[2] \in Seq(Element) /\ R[3] \in Seq(Element)
    BY <2>4, <2>5, PassRead DEF Pluses
  <2>7. R \in [Stub -> Seq(Element)]
    BY <1>1, <2>1, <2>6
  <2> QED BY <1>4, <2>4, <2>5, <2>7 DEF WinQueues
<1>6. CASE s = 2
  <2>1. /\ R = [r \in Stub |-> R[r]] /\ R[1] = Q[1] /\ R[2] = Q[2] /\ R[3] = Q[3]
    BY <1>1, <1>4, <1>6, WinReaders DEF Sent
  <2>2. e[1] = d[1] /\ e[3] = d[3]
    BY <1>1, <1>6
  <2>3. R \in [Stub -> Seq(Element)]
    BY <1>1, <2>1
  <2> QED BY <1>1, <1>4, <2>1, <2>2, <2>3 DEF WinQueues
<1> QED BY <1>5, <1>6

LEMMA WinQueuesRead ==
  ASSUME kind = "win", NEW Q, NEW N, NEW i, NEW d, WinQueues(Q, N, i, d), Marks(N, i, d), Q[3] # <<>>
  PROVE  \/ Head(Q[3]).sign = "+" /\ Head(Q[3]).tuple = i[3] + 1
            /\ \E j : MayInsert(N, i, 3, j) /\ WinQueues([Q EXCEPT ![3] = Tail(@)], N, j, d)
         \/ Head(Q[3]).sign = "-" /\ Head(Q[3]).tuple = d[3] + 1
            /\ \E e : MayDelete(i, d, 3, e) /\ WinQueues([Q EXCEPT ![3] = Tail(@)], N, i, e)
<1>1. /\ Q \in [Stub -> Seq(Element)] /\ Pluses(Q[1], i[1], N) /\ Pluses(Q[2], i[2], N)
      /\ PassedOn(Q[3], i[3], i[1], d[3], d[1]) /\ Stub = {1, 2, 3}
      /\ i \in [{1, 2, 3} -> Nat] /\ d \in [{1, 2, 3} -> Nat]
  BY StubAssumption DEF WinQueues, Marks
<1>2. PICK R : R = [Q EXCEPT ![3] = Tail(@)]
  OBVIOUS
<1>3. R[1] = Q[1] /\ R[2] = Q[2] /\ R[3] = Tail(Q[3])
  BY <1>1, <1>2
<1>4. R \in [Stub -> Seq(Element)]
  <2>1. Tail(Q[3]) \in Seq(Element)
    BY <1>1
  <2> QED BY <1>1, <1>2, <2>1
<1>5. \/ Head(Q[3]) = Plus(i[3] + 1) /\ i[3] + 1 <= i[1] /\ PassedOn(R[3], i[3] + 1, i[1], d[3], d[1])
      \/ Head(Q[3]) = Minus(d[3] + 1) /\ d[3] + 1 <= d[1] /\ d[3] + 1 <= i[3]
         /\ PassedOn(R[3], i[3], i[1], d[3] + 1, d[1])
  <2>1. PICK S : S = Q[3]
    OBVIOUS
  <2>2. PassedOn(S, i[3], i[1], d[3], d[1]) /\ S # <<>>
    BY <1>1, <2>1
  <2>3. \/ Head(S) = Plus(i[3] + 1) /\ i[3] + 1 <= i[1] /\ PassedOn(Tail(S), i[3] + 1, i[1], d[3], d[1])
        \/ Head(S) = Minus(d[3] + 1) /\ d[3] + 1 <= d[1] /\ d[3] + 1 <= i[3]
           /\ PassedOn(Tail(S), i[3], i[1], d[3] + 1, d[1])
    BY <2>2, PassHead
  <2> QED BY <1>3, <2>1, <2>3
<1>6. CASE Head(Q[3]) = Plus(i[3] + 1) /\ i[3] + 1 <= i[1] /\ PassedOn(R[3], i[3] + 1, i[1], d[3], d[1])
  <2>1. PICK j : j = [i EXCEPT ![3] = @ + 1]
    OBVIOUS
  <2>2. j[1] = i[1] /\ j[2] = i[2] /\ j[3] = i[3] + 1 /\ i[3] < i[1]
    BY <1>1, <1>6, <2>1
  <2>3. MayInsert(N, i, 3, j)
    BY <2>1, <2>2 DEF MayInsert
  <2>4. WinQueues(R, N, j, d)
    BY <1>1, <1>3, <1>4, <1>6, <2>2 DEF WinQueues
  <2> QED BY <1>2, <1>6, <2>3, <2>4, Signs
<1>7. CASE Head(Q[3]) = Minus(d[3] + 1) /\ d[3] + 1 <= d[1] /\ d[3] + 1 <= i[3]
           /\ PassedOn(R[3], i[3], i[1], d[3] + 1, d[1])
  <2>1. PICK e : e = [d EXCEPT ![3] = @ + 1]
    OBVIOUS
  <2>2. e[1] = d[1] /\ e[3] = d[3] + 1 /\ d[3] < d[1] /\ d[3] < i[3]
    BY <1>1, <1>7, <2>1
  <2>3. MayDelete(i, d, 3, e)
    BY <2>1, <2>2 DEF MayDelete
  <2>4. WinQueues(R, N, i, e)
    BY <1>1, <1>3, <1>4, <1>7, <2>2 DEF WinQueues
  <2> QED BY <1>2, <1>7, <2>3, <2>4, Signs
<1> QED BY <1>5, <1>6, <1>7

-----------------------------------------------------------------------------
(* The memory after a step in which no tuple is made decides the rest.     *)
LEMMA WinAgain ==
  ASSUME kind = "win", NEW pg, NEW low, NEW N, N = Len(place), NEW j, NEW e, NEW o,
         kind' = kind, place' = place, WinPlaces(place, pg),
         WinQueues(queue', N, j, e), WinHas(has', j, e),
         WinScan(scanning', left', store'.iters, pg, j, e, o),
         WinMemory(kind, store', pg, low, N, j, e)
  PROVE  WinIndInv'
<1>1. PICK m : m = store'
  OBVIOUS
<1>2. WinReadable(m, pg, low, N, j, e)
  <2>1. WinMemory(kind, m, pg, low, N, j, e)
    BY <1>1
  <2> QED BY <2>1, WinReads
<1>3. WinView(pg, low, j, e, o)'
  BY <1>1, <1>2 DEF WinView
<1>4. WinInv(pg, low, j, e, o)'
  BY <1>3 DEF WinInv
<1> QED BY <1>4 DEF WinIndInv

LEMMA WinReadsIn ==
  ASSUME WinIndInv, kind = "win", Running(store), NEW w \in Stub, ReadIntoWindow(w)
  PROVE  WinIndInv'
<1>1. PICK pg, lo, i, d, o : WinInv(pg, lo, i, d, o)
  BY DEF WinIndInv
<1>2. PICK N, j : N = Len(place) /\ j = [i EXCEPT ![w] = @ + 1]
  OBVIOUS
<1>3. /\ WinPlaces(place, pg) /\ WinQueues(queue, N, i, d) /\ WinHas(has, i, d)
      /\ WinScan(scanning, left, store.iters, pg, i, d, o)
      /\ WinMemory(kind, store, pg, lo, N, i, d) /\ Marks(N, i, d)
  BY <1>1, <1>2 DEF WinInv, WinView, WinReadable
<1>4. /\ w \in {1, 2} /\ queue[w] # <<>>
      /\ kind' = kind /\ place' = place /\ scanning' = scanning /\ left' = left
  BY DEF ReadIntoWindow
<1>5. /\ MayInsert(N, i, w, j) /\ Head(queue[w]).tuple = i[w] + 1
      /\ WinQueues(Sent([queue EXCEPT ![w] = Tail(@)], w, Plus(i[w] + 1)), N, j, d)
  BY <1>2, <1>3, <1>4, WinQueuesInsert
<1>6. i[w] + 1 \in 1 .. N /\ PageNo(i[w] + 1) >= lo /\ w \in {1, 2, 3}
  <2>1. i[w] + 1 \in 1 .. N /\ PageNo(i[w] + 1) \in lo .. PageNo(N + 1)
    BY <1>3, <1>5, WinInserts
  <2> QED BY <1>4, <2>1
<1>7. PICK t : t = At(pg, i[w] + 1)
  OBVIOUS
<1>8. place[i[w] + 1] = t
  BY <1>2, <1>3, <1>6, <1>7 DEF WinPlaces
<1>9. PICK u : u = InsertedAs(store, w, t)
  OBVIOUS
<1>10. /\ store' = Given(addRef(Win!insertTuple_w(store, w), t, 1), w, t)
       /\ queue' = Sent([queue EXCEPT ![w] = Tail(@)], w, Plus(i[w] + 1))
       /\ has' = [has EXCEPT ![w] = @ \cup {i[w] + 1}]
  BY <1>5, <1>8 DEF ReadIntoWindow
<1>11. WinMemory(kind, u, pg, lo, N, j, d) /\ u.iters = store.iters
  BY <1>3, <1>5, <1>7, <1>9, WinKeeps
<1>12. WinMemory(kind, store', pg, lo, N, j, d) /\ store'.iters = store.iters
  <2>1. CASE w = 1
    <3>1. u = Win!addRef(Win!insertTuple_w(store, 1), t, 1)
      BY <1>9, <2>1 DEF InsertedAs, WinRef
    <3>2. store' = Win!addRef(u, t, 0)
      BY <1>10, <2>1, <3>1, WinOps, WinReaders
    <3>3. PICK v : v = Win!addRef(u, t, 0)
      OBVIOUS
    <3>4. WinMemory(kind, v, pg, lo, N, j, d) /\ v.iters = u.iters
      BY <1>6, <1>7, <1>11, <3>3, WinSameRefs
    <3> QED BY <1>11, <3>2, <3>3, <3>4
  <2>2. CASE w = 2
    <3>1. u = Win!decrRef(Win!addRef(Win!insertTuple_w(store, 2), t, 1), t)
      BY <1>9, <2>2 DEF InsertedAs, WinRef
    <3>2. store' = u
      BY <1>10, <2>2, <3>1, WinOps, WinReaders
    <3> QED BY <1>11, <3>2
  <2> QED BY <1>4, <2>1, <2>2
<1>13. WinHas(has', j, d)
  BY <1>3, <1>5, <1>10, WinHasMore
<1>14. WinScan(scanning', left', store'.iters, pg, j, d, o)
  <2>1. j[3] = i[3]
    BY <1>2, <1>3, <1>4 DEF Marks
  <2> QED BY <1>3, <1>4, <1>12, <2>1 DEF WinScan
<1>15. WinQueues(queue', N, j, d)
  BY <1>5, <1>10
<1> QED BY <1>2, <1>3, <1>4, <1>12, <1>13, <1>14, <1>15, WinAgain

LEMMA WinExpires ==
  ASSUME WinIndInv, kind = "win", Running(store), NEW w \in Stub, Expire(w)
  PROVE  WinIndInv'
<1>1. PICK pg, lo, i, d, o : WinInv(pg, lo, i, d, o)
  BY DEF WinIndInv
<1>2. PICK N, e : N = Len(place) /\ e = [d EXCEPT ![w] = @ + 1]
  OBVIOUS
<1>3. /\ WinPlaces(place, pg) /\ WinQueues(queue, N, i, d) /\ WinHas(has, i, d)
      /\ WinScan(scanning, left, store.iters, pg, i, d, o) /\ WinPointers(store, pg, i, d)
      /\ WinMemory(kind, store, pg, lo, N, i, d) /\ Marks(N, i, d) /\ Lowest(lo, d)
      /\ WinReadable(store, pg, lo, N, i, d)
  BY <1>1, <1>2 DEF WinInv, WinView, WinReadable
<1>4. /\ w \in {1, 2} /\ ~Win!isEmpty_w(store, w) /\ w \in {1, 2, 3}
      /\ kind' = kind /\ place' = place /\ scanning' = scanning /\ left' = left
  BY DEF Expire
<1>5. /\ d[w] \in Nat /\ i[w] \in Nat /\ d[w] <= i[w] /\ i[w] <= N /\ N \in Nat /\ lo <= PageNo(d[w])
      /\ lo \in Nat /\ d \in [{1, 2, 3} -> Nat]
  BY <1>3, <1>4 DEF Marks, Lowest
<1>6. d[w] < i[w]
  <2>1. store.lastInsTuple[w] = At(pg, i[w]) /\ store.lastDelTuple[w] = At(pg, d[w])
    BY <1>3, <1>4 DEF WinPointers
  <2>2. d[w] # i[w]
    BY <1>4, <2>1 DEF Win!isEmpty_w
  <2> QED BY <1>5, <2>2
<1>7. MayDelete(i, d, w, e)
  BY <1>2, <1>4, <1>6 DEF MayDelete
<1>8. PICK t : t = At(pg, d[w] + 1)
  OBVIOUS
<1>9. Win!getOldestTuple_w(store, w) = t /\ IdOf(store, t) = d[w] + 1
  <2>1. /\ d[w] \in 0 .. N /\ d[w] + 1 \in 1 .. N /\ PageNo(d[w]) >= lo /\ PageNo(d[w] + 1) >= lo
    <3>1. d[w] \in 0 .. N /\ d[w] + 1 \in 1 .. N /\ d[w] + 1 \in Nat /\ d[w] <= d[w] + 1
      BY <1>5, <1>6
    <3>2. PageNo(d[w]) \in Nat /\ PageNo(d[w] + 1) \in Nat /\ PageNo(d[w]) <= PageNo(d[w] + 1)
      BY <1>5, <3>1, WinPages
    <3> QED BY <1>5, <3>1, <3>2
  <2>2. Win!INCR(store, At(pg, d[w])) = t /\ IdOf(store, t) = d[w] + 1
    BY <1>3, <1>8, <2>1 DEF WinReadable
  <2>3. store.lastDelTuple[w] = At(pg, d[w])
    BY <1>3, <1>4 DEF WinPointers
  <2> QED BY <2>2, <2>3 DEF Win!getOldestTuple_w
<1>10. PICK u : u = DeletedAs(store, w, t)
  OBVIOUS
<1>11. /\ store' = Given(Win!deleteOldestTuple_w(store, w), w, t)
       /\ queue' = Sent(queue, w, Minus(d[w] + 1))
       /\ has' = [has EXCEPT ![w] = @ \ {d[w] + 1}]
  BY <1>9 DEF Expire
<1>12. PICK low : WinMemory(kind, u, pg, low, N, i, e) /\ u.iters = store.iters
  BY <1>3, <1>7, <1>8, <1>10, WinDrops
<1>13. store' = u
  <2>1. CASE w = 1
    BY <1>10, <1>11, <2>1, WinReaders DEF DeletedAs, WinRef
  <2>2. CASE w = 2
    BY <1>10, <1>11, <2>2, WinReaders DEF DeletedAs, WinRef
  <2> QED BY <1>4, <2>1, <2>2
<1>14. WinHas(has', i, e)
  BY <1>3, <1>7, <1>11, WinHasLess
<1>15. WinScan(scanning', left', store'.iters, pg, i, e, o)
  <2>1. e[3] = d[3]
    BY <1>2, <1>4, <1>5
  <2> QED BY <1>3, <1>4, <1>12, <1>13, <2>1 DEF WinScan
<1>16. WinQueues(queue', N, i, e)
  BY <1>3, <1>4, <1>7, <1>11, WinQueuesExpire
<1>17. WinMemory(kind, store', pg, low, N, i, e)
  BY <1>12, <1>13
<1> QED BY <1>2, <1>3, <1>4, <1>14, <1>15, <1>16, <1>17, WinAgain

LEMMA WinReadsRelation ==
  ASSUME WinIndInv, kind = "win", Running(store), NEW r \in Stub, ReadIntoRelation(r)
  PROVE  WinIndInv'
<1>1. PICK pg, lo, i, d, o : WinInv(pg, lo, i, d, o)
  BY DEF WinIndInv
<1>2. PICK N : N = Len(place)
  OBVIOUS
<1>3. /\ WinPlaces(place, pg) /\ WinQueues(queue, N, i, d) /\ WinHas(has, i, d)
      /\ WinScan(scanning, left, store.iters, pg, i, d, o)
      /\ WinMemory(kind, store, pg, lo, N, i, d) /\ Marks(N, i, d)
  BY <1>1, <1>2 DEF WinInv, WinView, WinReadable
<1>4. /\ r = 3 /\ queue[3] # <<>> /\ 3 \notin scanning /\ queue' = [queue EXCEPT ![3] = Tail(@)]
      /\ kind' = kind /\ place' = place /\ scanning' = scanning /\ left' = left
  BY WinReaders DEF ReadIntoRelation, Reading
<1>5. \A j, e, m : WinScan(scanning', left', m, pg, j, e, o)
  BY <1>3, <1>4 DEF WinScan
<1>6. PICK h : h = Head(queue[3])
  OBVIOUS
<1>7. \/ h.sign = "+" /\ h.tuple = i[3] + 1
         /\ \E j : MayInsert(N, i, 3, j) /\ WinQueues(queue', N, j, d)
      \/ h.sign = "-" /\ h.tuple = d[3] + 1
         /\ \E e : MayDelete(i, d, 3, e) /\ WinQueues(queue', N, i, e)
  BY <1>3, <1>4, <1>6, WinQueuesRead
<1>8. ASSUME h.sign = "+", h.tuple = i[3] + 1,
             NEW j, MayInsert(N, i, 3, j), WinQueues(queue', N, j, d)
      PROVE  WinIndInv'
  <2>1. PICK u, t : t = At(pg, i[3] + 1) /\ u = InsertedAs(store, 3, t)
    OBVIOUS
  <2>2. WinMemory(kind, u, pg, lo, N, j, d)
    BY <1>3, <1>8, <2>1, WinKeeps
  <2>3. store' = u /\ has' = [has EXCEPT ![3] = @ \cup {i[3] + 1}]
    BY <1>4, <1>6, <1>8, <2>1, WinOps DEF ReadIntoRelation, InsertedAs
  <2>4. WinHas(has', j, d)
    BY <1>3, <1>8, <2>3, WinHasMore
  <2>5. WinMemory(kind, store', pg, lo, N, j, d)
    BY <2>2, <2>3
  <2>6. WinScan(scanning', left', store'.iters, pg, j, d, o)
    BY <1>5
  <2> QED BY <1>2, <1>3, <1>4, <1>8, <2>4, <2>5, <2>6, WinAgain
<1>9. ASSUME h.sign = "-", h.tuple = d[3] + 1,
             NEW e, MayDelete(i, d, 3, e), WinQueues(queue', N, i, e)
      PROVE  WinIndInv'
  <2>1. PICK u, t : t = At(pg, d[3] + 1) /\ u = DeletedAs(store, 3, t)
    OBVIOUS
  <2>2. PICK low : WinMemory(kind, u, pg, low, N, i, e)
    BY <1>3, <1>9, <2>1, WinDrops
  <2>3. place[d[3] + 1] = t
    <3>1. d[3] + 1 \in 1 .. N
      BY <1>3, <1>9, WinCountDeleted
    <3> QED BY <1>2, <1>3, <2>1, <3>1 DEF WinPlaces
  <2>4. h.sign # "+"
    BY <1>9
  <2>5. /\ store' = decrRef(decrRef(deleteTuple_r(store, t, 3), t), t)
        /\ has' = [has EXCEPT ![3] = @ \ {d[3] + 1}]
    BY <1>4, <1>6, <1>9, <2>3, <2>4 DEF ReadIntoRelation
  <2>6. store' = u
    BY <2>1, <2>5, WinOps DEF DeletedAs, WinRef
  <2>7. WinHas(has', i, e)
    BY <1>3, <1>9, <2>5, WinHasLess
  <2>8. WinMemory(kind, store', pg, low, N, i, e)
    BY <2>2, <2>6
  <2>9. WinScan(scanning', left', store'.iters, pg, i, e, o)
    BY <1>5
  <2> QED BY <1>2, <1>3, <1>4, <1>9, <2>7, <2>8, <2>9, WinAgain
<1> QED BY <1>7, <1>8, <1>9

-----------------------------------------------------------------------------
(* The scan of the third stub.                                             *)
Iterates(m, w, t, u) ==
  /\ t \in PlaceType /\ u \in PlaceType
  /\ \/ w = [m EXCEPT !.iters[3] = [lastOutputTuple |-> t, lastInsTuple |-> u]]
     \/ w = [m EXCEPT !.iters[3].lastOutputTuple = t] /\ u = m.iters[3].lastInsTuple

LEMMA WinIterates ==
  ASSUME kind = "win", NEW m, NEW pg, NEW lo, NEW N, NEW i, NEW d, WinMemory(kind, m, pg, lo, N, i, d),
         NEW t, NEW u, NEW w, Iterates(m, w, t, u)
  PROVE  /\ WinMemory(kind, w, pg, lo, N, i, d)
         /\ w.iters[3].lastOutputTuple = t /\ w.iters[3].lastInsTuple = u
<1>1. PICK cnt : cnt = WinCount(kind, N, i, d)
  OBVIOUS
<1>2. /\ Marks(N, i, d) /\ Lowest(lo, d) /\ StreamMemory(kind, m, pg, lo, N, cnt) /\ WinPointers(m, pg, i, d)
  BY <1>1 DEF WinMemory
<1>3. StreamType(kind, m) /\ 3 \in Stub
  BY <1>2, StubAssumption DEF StreamMemory
<1>0. /\ t \in PlaceType /\ u \in PlaceType
      /\ \/ w = [m EXCEPT !.iters[3] = [lastOutputTuple |-> t, lastInsTuple |-> u]]
         \/ w = [m EXCEPT !.iters[3].lastOutputTuple = t] /\ u = m.iters[3].lastInsTuple
  BY DEF Iterates
<1>4. StreamMemory(kind, w, pg, lo, N, cnt)
  BY <1>0, <1>2, <1>3, WinFieldsOfStub
<1>5. m.iters \in [Stub -> [lastOutputTuple : PlaceType, lastInsTuple : PlaceType]]
  BY <1>3 DEF StreamType
<1>6. /\ w.lastInsTuple = m.lastInsTuple /\ w.lastDelTuple = m.lastDelTuple
      /\ \/ w.iters = [m.iters EXCEPT ![3] = [lastOutputTuple |-> t, lastInsTuple |-> u]]
         \/ w.iters = [m.iters EXCEPT ![3].lastOutputTuple = t] /\ u = m.iters[3].lastInsTuple
  BY <1>0, <1>3 DEF StreamType, StreamFields
<1>7. w.iters[3].lastOutputTuple = t /\ w.iters[3].lastInsTuple = u
  BY <1>3, <1>5, <1>6
<1>8. WinPointers(w, pg, i, d)
  BY <1>2, <1>6 DEF WinPointers
<1> QED BY <1>1, <1>2, <1>4, <1>7, <1>8 DEF WinMemory

LEMMA WinStartsScan ==
  ASSUME WinIndInv, kind = "win", Running(store), NEW s \in Stub, StartScan(s)
  PROVE  WinIndInv'
<1>1. PICK pg, lo, i, d, o : WinInv(pg, lo, i, d, o)
  BY DEF WinIndInv
<1>2. PICK N : N = Len(place)
  OBVIOUS
<1>3. /\ WinPlaces(place, pg) /\ WinQueues(queue, N, i, d) /\ WinHas(has, i, d)
      /\ WinScan(scanning, left, store.iters, pg, i, d, o) /\ WinPointers(store, pg, i, d)
      /\ WinMemory(kind, store, pg, lo, N, i, d) /\ Marks(N, i, d)
  BY <1>1, <1>2 DEF WinInv, WinView, WinReadable
<1>4. /\ s = 3 /\ store' = Win!getScan_r(store, 3)
      /\ scanning' = scanning \cup {3} /\ left' = [left EXCEPT ![3] = has[3]]
      /\ kind' = kind /\ place' = place /\ queue' = queue /\ has' = has
  BY WinReaders, WinOps DEF StartScan
<1>5. PICK t, u : t = At(pg, d[3]) /\ u = At(pg, i[3])
  OBVIOUS
<1>6. t = store.lastDelTuple[3] /\ u = store.lastInsTuple[3]
  BY <1>3, <1>5 DEF WinPointers
<1>7. t \in PlaceType /\ u \in PlaceType
  <2>1. StreamType(kind, store) /\ 3 \in Stub
    BY <1>3, StubAssumption DEF WinMemory, StreamMemory
  <2> QED BY <1>6, <2>1 DEF StreamType
<1>8. store' = [store EXCEPT !.iters[3] = [lastOutputTuple |-> t, lastInsTuple |-> u]]
  BY <1>4, <1>6 DEF Win!getScan_r
<1>9. /\ WinMemory(kind, store', pg, lo, N, i, d)
      /\ store'.iters[3].lastOutputTuple = t /\ store'.iters[3].lastInsTuple = u
  <2>1. PICK w : w = store'
    OBVIOUS
  <2>2. /\ WinMemory(kind, w, pg, lo, N, i, d)
        /\ w.iters[3].lastOutputTuple = t /\ w.iters[3].lastInsTuple = u
    <3>1. Iterates(store, w, t, u)
      BY <1>7, <1>8, <2>1 DEF Iterates
    <3> QED BY <1>3, <3>1, WinIterates
  <2> QED BY <2>1, <2>2
<1>10. WinScan(scanning', left', store'.iters, pg, i, d, d[3])
  <2>1. 3 \in Stub /\ has[3] = d[3] + 1 .. i[3] /\ d[3] \in d[3] .. i[3]
    BY <1>3, StubAssumption DEF WinHas, Marks
  <2>2. scanning' \subseteq {3} /\ DOMAIN left' = Stub /\ left'[3] = d[3] + 1 .. i[3]
    BY <1>3, <1>4, <2>1 DEF WinScan
  <2> QED BY <1>5, <1>9, <2>1, <2>2 DEF WinScan
<1>11. WinQueues(queue', N, i, d) /\ WinHas(has', i, d)
  BY <1>3, <1>4
<1>12. WinMemory(kind, store', pg, lo, N, i, d)
  BY <1>9
<1>13. PICK x : x = d[3]
  OBVIOUS
<1>14. WinScan(scanning', left', store'.iters, pg, i, d, x)
  BY <1>10, <1>13
<1> QED BY <1>2, <1>3, <1>4, <1>11, <1>12, <1>14, WinAgain

LEMMA WinNextOfScan ==
  ASSUME WinIndInv, kind = "win", Running(store), NEW s \in Stub, NextOfScan(s)
  PROVE  WinIndInv'
<1>1. PICK pg, lo, i, d, o : WinInv(pg, lo, i, d, o)
  BY DEF WinIndInv
<1>2. PICK N : N = Len(place)
  OBVIOUS
<1>3. /\ WinPlaces(place, pg) /\ WinQueues(queue, N, i, d) /\ WinHas(has, i, d)
      /\ WinScan(scanning, left, store.iters, pg, i, d, o) /\ WinPointers(store, pg, i, d)
      /\ WinMemory(kind, store, pg, lo, N, i, d) /\ Marks(N, i, d) /\ Lowest(lo, d)
      /\ WinReadable(store, pg, lo, N, i, d)
  BY <1>1, <1>2 DEF WinInv, WinView, WinReadable
<1>4. /\ s = 3 /\ 3 \in scanning
      /\ o \in d[3] .. i[3] /\ left[3] = o + 1 .. i[3]
      /\ store.iters[3].lastOutputTuple = At(pg, o) /\ store.iters[3].lastInsTuple = At(pg, i[3])
      /\ scanning \subseteq {3} /\ DOMAIN left = Stub
  <2>1. s \in scanning
    BY DEF NextOfScan
  <2> QED BY <1>3, <2>1 DEF WinScan
<1>5. /\ HasNext(store, 3) /\ store' = Win!getNext(store, 3)
      /\ left' = [left EXCEPT ![3] = @ \ {IdOf(store, Win!NextTuple(store, 3))}]
      /\ kind' = kind /\ place' = place /\ queue' = queue /\ has' = has /\ scanning' = scanning
  BY <1>4, WinOps DEF NextOfScan
<1>6. /\ d[3] \in Nat /\ i[3] \in Nat /\ d[3] <= i[3] /\ i[3] <= N /\ N \in Nat /\ lo <= PageNo(d[3])
      /\ lo \in Nat
  BY <1>3 DEF Marks, Lowest
<1>7. o # i[3]
  BY <1>4, <1>5, WinOps DEF Win!HasNext
<1>8. /\ o \in 0 .. N /\ o + 1 \in 1 .. N /\ o + 1 \in d[3] .. i[3] /\ o + 1 \in 0 .. N /\ o \in Nat
      /\ d[3] <= o /\ d[3] <= o + 1 /\ o + 1 \in Nat /\ i[3] \in 0 .. N
  BY <1>4, <1>6, <1>7
<1>9. PageNo(o) >= lo /\ PageNo(o + 1) >= lo /\ PageNo(i[3]) >= lo
  <2>1. /\ PageNo(d[3]) <= PageNo(o) /\ PageNo(d[3]) <= PageNo(o + 1) /\ PageNo(d[3]) <= PageNo(i[3])
        /\ PageNo(d[3]) \in Nat
    BY <1>6, <1>8, WinPages
  <2>2. PageNo(o) \in Nat /\ PageNo(o + 1) \in Nat /\ PageNo(i[3]) \in Nat
    BY <1>6, <1>8, WinPages
  <2> QED BY <1>6, <2>1, <2>2
<1>10. PICK t, u : t = At(pg, o + 1) /\ u = At(pg, i[3])
  OBVIOUS
<1>11. Win!NextTuple(store, 3) = t /\ IdOf(store, t) = o + 1
  <2>1. Win!INCR(store, At(pg, o)) = t /\ IdOf(store, t) = o + 1
    BY <1>3, <1>8, <1>9, <1>10 DEF WinReadable
  <2> QED BY <1>4, <2>1 DEF Win!NextTuple
<1>12. t \in PlaceType /\ u \in PlaceType
  <2>1. StreamMemory(kind, store, pg, lo, N, WinCount(kind, N, i, d))
    BY <1>3 DEF WinMemory
  <2>2. PICK cnt : StreamMemory(kind, store, pg, lo, N, cnt)
    BY <2>1
  <2>3. At(pg, o + 1) \in PlaceType /\ At(pg, i[3]) \in PlaceType
    BY <1>8, <1>9, <2>2, WinNext
  <2> QED BY <1>10, <2>3
<1>13. store' = [store EXCEPT !.iters[3].lastOutputTuple = t]
  BY <1>5, <1>11 DEF Win!getNext
<1>14. /\ WinMemory(kind, store', pg, lo, N, i, d)
       /\ store'.iters[3].lastOutputTuple = t /\ store'.iters[3].lastInsTuple = u
  <2>1. PICK w : w = store'
    OBVIOUS
  <2>2. w = [store EXCEPT !.iters[3].lastOutputTuple = t] /\ u = store.iters[3].lastInsTuple
    BY <1>4, <1>10, <1>13, <2>1
  <2>3. /\ WinMemory(kind, w, pg, lo, N, i, d)
        /\ w.iters[3].lastOutputTuple = t /\ w.iters[3].lastInsTuple = u
    <3>1. Iterates(store, w, t, u)
      BY <1>12, <2>2 DEF Iterates
    <3> QED BY <1>3, <3>1, WinIterates
  <2> QED BY <2>1, <2>3
<1>15. PICK x : x = o + 1
  OBVIOUS
<1>16. WinScan(scanning', left', store'.iters, pg, i, d, x)
  <2>1. 3 \in Stub /\ left'[3] = (o + 1 .. i[3]) \ {o + 1}
    BY <1>4, <1>5, <1>11, StubAssumption
  <2>2. (o + 1 .. i[3]) \ {o + 1} = o + 1 + 1 .. i[3]
    BY <1>6, <1>8
  <2>3. DOMAIN left' = Stub /\ scanning' \subseteq {3}
    BY <1>4, <1>5
  <2> QED BY <1>8, <1>10, <1>14, <1>15, <2>1, <2>2, <2>3 DEF WinScan
<1>17. WinQueues(queue', N, i, d) /\ WinHas(has', i, d)
  BY <1>3, <1>5
<1>18. WinMemory(kind, store', pg, lo, N, i, d)
  BY <1>14
<1> QED BY <1>2, <1>3, <1>5, <1>16, <1>17, <1>18, WinAgain

LEMMA WinEndsScan ==
  ASSUME WinIndInv, kind = "win", Running(store), NEW s \in Stub, EndScan(s)
  PROVE  WinIndInv'
<1>1. PICK pg, lo, i, d, o : WinInv(pg, lo, i, d, o)
  BY DEF WinIndInv
<1>2. PICK N : N = Len(place)
  OBVIOUS
<1>3. /\ WinPlaces(place, pg) /\ WinQueues(queue, N, i, d) /\ WinHas(has, i, d)
      /\ WinScan(scanning, left, store.iters, pg, i, d, o) /\ WinMemory(kind, store, pg, lo, N, i, d)
  BY <1>1, <1>2 DEF WinInv, WinView, WinReadable
<1>4. /\ s \in scanning /\ scanning' = scanning \ {s} /\ left' = [left EXCEPT ![s] = {}]
      /\ kind' = kind /\ store' = store /\ place' = place /\ queue' = queue /\ has' = has
  BY DEF EndScan
<1>5. WinScan(scanning', left', store'.iters, pg, i, d, o)
  BY <1>3, <1>4 DEF WinScan
<1>6. WinQueues(queue', N, i, d) /\ WinHas(has', i, d) /\ WinMemory(kind, store', pg, lo, N, i, d)
  BY <1>3, <1>4
<1> QED BY <1>2, <1>3, <1>4, <1>5, <1>6, WinAgain

-----------------------------------------------------------------------------
(* At first the store has one page, with the dummy in its first place.     *)
LEMMA WinStarts ==
  ASSUME Init
  PROVE  WinIndInv
<1> SUFFICES ASSUME kind = "win" PROVE WinIndInv
  BY DEF WinIndInv
<1> DEFINE list == [p \in Page |-> p]
           dummy == <<1, 0>>
           ptrs == [s \in Stub |-> dummy]
           its == [s \in Stub |-> [lastOutputTuple |-> dummy, lastInsTuple |-> dummy]]
           m1 == [InitialMemory EXCEPT !.emptyPageList = Tail(@), !.page[1].count = 3]
<1>1. /\ has = [s \in Stub |-> {}] /\ scanning = {} /\ place = <<>> /\ queue = [s \in Stub |-> <<>>]
      /\ left = [s \in Stub |-> {}] /\ store = Win!initialize(InitialMemory)
  BY DEF Init, initialize
<1>2. /\ 1 \in Page /\ 0 \in Pos /\ 1 \in Pos /\ Slot(kind, 1) = 1
      /\ PageNo(0) = 0 /\ Offset(0) = 0 /\ PageNo(1) = 0 /\ Offset(1) = 1
  <2>1. 1 \in Page /\ 0 \in Pos /\ 1 \in Pos /\ Slot(kind, 1) = 1 /\ TuplesPerPage \in Nat /\ TuplesPerPage > 1
    BY TuplesPerPageAssumption, NumPagesAssumption DEF Page, Pos, Slot
  <2>4. PageNo(0) = 0 /\ Offset(0) = 0
    BY SlotZero
  <2>5. PageNo(0 + 1) = 0 /\ Offset(0 + 1) = 1
    BY <2>1, <2>4, NextSlot
  <2>6. 0 + 1 = 1
    OBVIOUS
  <2> QED BY <2>1, <2>4, <2>5, <2>6
<1>3. /\ list \in Seq(Page) /\ list # <<>> /\ Len(list) = NumPages /\ Head(list) = 1
      /\ Tail(list) \in Seq(Page) /\ Len(Tail(list)) = NumPages - 1
      /\ \A k \in 1 .. NumPages - 1 : Tail(list)[k] = k + 1
  BY NumPagesAssumption DEF Page
<1>4. /\ InitialMemory.emptyPageList = list /\ InitialMemory.page = [p \in Page |-> BlankPage]
      /\ InitialMemory.outOfMemory = FALSE /\ DOMAIN InitialMemory = {"emptyPageList", "page", "outOfMemory"}
  BY DEF InitialMemory
<1>5. /\ m1.emptyPageList = Tail(list) /\ m1.outOfMemory = FALSE
      /\ m1.page = [[p \in Page |-> BlankPage] EXCEPT ![1].count = 3]
      /\ DOMAIN m1 = {"emptyPageList", "page", "outOfMemory"}
  <2> HIDE DEF list
  <2> QED BY <1>4
<1>6. store = WithFields(m1,
          [curPage |-> 1, nextTuple |-> <<1, 1>>, numAllocInCurPage |-> 1,
           lastInsTuple |-> ptrs, lastDelTuple |-> ptrs, iters |-> its])
  <2>1. Win!allocatePage(InitialMemory) = [InitialMemory EXCEPT !.emptyPageList = Tail(@)]
    BY <1>3, <1>4 DEF Win!allocatePage
  <2>2. Win!NewPage(InitialMemory) = 1
    BY <1>3, <1>4 DEF Win!NewPage
  <2>3. [Win!allocatePage(InitialMemory) EXCEPT !.page[1].count = Win!Cardinality(Stub)] = m1
    <3> HIDE DEF list
    <3> QED BY <1>4, <2>1, ThreeStubs
  <2>4. Win!FirstPlace(1) = dummy /\ Win!NextPlace(dummy) = <<1, 1>>
    BY DEF Win!FirstPlace, Win!NextPlace
  <2> HIDE DEF list, m1
  <2> QED BY <1>1, <2>2, <2>3, <2>4 DEF Win!initialize, Win!WithFields, WithFields
<1> HIDE DEF m1, list
<1>7. /\ DOMAIN store = StreamFields("win")
      /\ store.emptyPageList = Tail(list) /\ store.outOfMemory = FALSE
      /\ store.page = [[p \in Page |-> BlankPage] EXCEPT ![1].count = 3]
      /\ store.curPage = 1 /\ store.nextTuple = <<1, 1>> /\ store.numAllocInCurPage = 1
      /\ store.lastInsTuple = ptrs /\ store.lastDelTuple = ptrs /\ store.iters = its
  BY <1>5, <1>6 DEF WithFields, StreamFields
<1>8. StreamType(kind, store) /\ ~store.outOfMemory /\ store.page[1].count = 3
  <2>1. <<1, 0>> \in PlaceType /\ <<1, 1>> \in PlaceType
    BY <1>2 DEF PlaceType
  <2>2. BlankPage \in PageType
    BY DEF BlankPage, PageType, BlankCell, CellType, Nothing
  <2>3. store.page \in [Page -> PageType] /\ store.page[1].count = 3
    BY <1>2, <1>7, <2>2 DEF PageType
  <2>4. store.outOfMemory \in BOOLEAN /\ ~store.outOfMemory
    BY <1>7, Zenon
  <2>5. /\ store.lastInsTuple \in [Stub -> PlaceType] /\ store.lastDelTuple \in [Stub -> PlaceType]
        /\ store.iters \in [Stub -> [lastOutputTuple : PlaceType, lastInsTuple : PlaceType]]
    BY <1>7, <2>1
  <2>6. /\ store.emptyPageList \in Seq(Page) /\ store.curPage \in Page /\ store.nextTuple \in PlaceType
        /\ store.numAllocInCurPage \in Int
    BY <1>2, <1>3, <1>7, <2>1
  <2>7. DOMAIN store = StreamFields(kind)
    BY <1>7
  <2>8. StreamType(kind, store)
    BY <2>3, <2>4, <2>5, <2>6, <2>7, Zenon DEF StreamType
  <2> QED BY <2>3, <2>4, <2>8
<1>9. PICK pg, z : pg = [k \in Nat |-> 1] /\ z = [s \in {1, 2, 3} |-> 0]
  OBVIOUS
<1>10. /\ z \in [{1, 2, 3} -> Nat] /\ \A s \in {1, 2, 3} : z[s] = 0
       /\ pg \in [Nat -> Page] /\ pg[0] = 1 /\ At(pg, 0) = dummy /\ At(pg, 1) = <<1, 1>>
  BY <1>2, <1>9 DEF At
<1>11. Marks(0, z, z) /\ Lowest(0, z)
  BY <1>2, <1>10 DEF Marks, Lowest
<1>12. PICK cnt : cnt = WinCount(kind, 0, z, z)
  OBVIOUS
<1>13. cnt \in [Nat -> Int] /\ cnt[0] = 3
  <2>1. cnt \in [Nat -> Int]
    BY <1>11, <1>12, WinCountType
  <2>2. In(kind, 0, 0, 0) = 0
    <3>1. \A n \in 0 + 1 .. 0 : PageNo(Slot(kind, n)) # 0
      OBVIOUS
    <3> QED BY <3>1, InZero
  <2>3. NotBeyond(z, 0) = 3
    BY <1>2, <1>10 DEF NotBeyond, One
  <2>4. cnt[0] = In(kind, 0, z[2], 0) + In(kind, 0, z[3], 0) + In(kind, 0, z[3], z[1]) + NotBeyond(z, 0)
    BY <1>12 DEF WinCount
  <2> QED BY <1>10, <2>1, <2>2, <2>3, <2>4
<1>14. StreamMemory(kind, store, pg, 0, 0, cnt)
  <2>1. NoneTwice(store.emptyPageList) /\ PagesOf(store.emptyPageList) = Page \ {pg[k] : k \in 0 .. 0}
    <3>1. NoneTwice(Tail(list))
      <4>1. \A k \in 1 .. Len(Tail(list)) : k \in 1 .. NumPages - 1 /\ k \in Int /\ Tail(list)[k] = k + 1
        BY <1>3
      <4>2. \A k, l \in Int : k + 1 = l + 1 => k = l
        OBVIOUS
      <4> QED BY <4>1, <4>2 DEF NoneTwice
    <3>2. PagesOf(Tail(list)) = {k + 1 : k \in 1 .. NumPages - 1}
      BY <1>3 DEF PagesOf
    <3>3. {pg[k] : k \in 0 .. 0} = {1}
      <4>1. 0 .. 0 = {0}
        OBVIOUS
      <4> QED BY <1>10, <4>1
    <3>4. {k + 1 : k \in 1 .. NumPages - 1} = Page \ {1}
      <4>1. ASSUME NEW p \in Page \ {1} PROVE \E k \in 1 .. NumPages - 1 : p = k + 1
        <5>1. p - 1 \in 1 .. NumPages - 1 /\ p = p - 1 + 1
          BY NumPagesAssumption DEF Page
        <5> QED BY <5>1
      <4> QED BY <4>1, NumPagesAssumption DEF Page
    <3> QED BY <1>7, <3>1, <3>2, <3>3, <3>4
  <2>2. 0 .. 0 = {0} /\ 0 .. 0 - 1 = {} /\ 0 + 1 = 1
    OBVIOUS
  <2>3. \A n \in 1 .. 0 : FALSE
    OBVIOUS
  <2> QED BY <1>2, <1>7, <1>8, <1>10, <1>13, <2>1, <2>2, <2>3 DEF StreamMemory
<1>15. WinMemory(kind, store, pg, 0, 0, z, z)
  <2>1. WinPointers(store, pg, z, z)
    <3>1. \A s \in {1, 2, 3} : store.lastInsTuple[s] = dummy /\ store.lastDelTuple[s] = dummy
      BY <1>7, StubAssumption
    <3> QED BY <1>10, <3>1 DEF WinPointers
  <2> QED BY <1>11, <1>12, <1>14, <2>1 DEF WinMemory
<1>16. Len(place) = 0 /\ WinPlaces(place, pg)
  BY <1>1 DEF WinPlaces
<1>17. WinQueues(queue, 0, z, z)
  <2>1. /\ queue \in [Stub -> Seq(Element)] /\ queue[1] = <<>> /\ queue[2] = <<>> /\ queue[3] = <<>>
    BY <1>1, StubAssumption
  <2>2. Pluses(<<>>, 0, 0)
    BY DEF Pluses
  <2>3. z[1] = 0 /\ z[2] = 0 /\ z[3] = 0
    BY <1>10
  <2> QED BY <2>1, <2>2, <2>3, PassNone DEF WinQueues
<1>18. WinHas(has, z, z)
  <2>1. \A s \in Stub : z[s] + 1 .. z[s] = {}
    BY <1>10, StubAssumption
  <2> QED BY <1>1, <2>1 DEF WinHas
<1>19. WinScan(scanning, left, store.iters, pg, z, z, 0)
  BY <1>1 DEF WinScan
<1>20. WinReadable(store, pg, 0, 0, z, z)
  <2>1. PICK m : m = store
    OBVIOUS
  <2>2. WinReadable(m, pg, 0, 0, z, z)
    BY <1>15, <2>1, WinReads
  <2> QED BY <2>1, <2>2
<1>21. WinInv(pg, 0, z, z, 0)
  BY <1>15, <1>16, <1>17, <1>18, <1>19, <1>20 DEF WinInv, WinView
<1> QED BY <1>21 DEF WinIndInv

-----------------------------------------------------------------------------
(***************************************************************************)
(* Every step of a stream, with its windows or without.                    *)
(***************************************************************************)
LEMMA KindStays ==
  ASSUME Next
  PROVE  kind' = kind
BY DEF Next, MakeStreamTuple, MakeRelationTuple, MakePartitionTuple, MakeOwnTuple,
       MakeLineageTuple, DeleteLineageTuple, DeleteRelationTuple, DeleteOwnTuple, ReadStreamTuple,
       ReadIntoWindow, Expire, ReadIntoRelation, StartScan, NextOfScan, EndScan

LEMMA SimpleSteps ==
  ASSUME SimpleIndInv, kind = "simple", Next
  PROVE  SimpleIndInv'
<1>1. Running(store)
  BY DEF Next
<1>2. Keepers = {} /\ scanning = {}
  BY SimpleOps DEF SimpleIndInv
<1>3. MakeStreamTuple \/ \E s \in Stub : ReadStreamTuple(s)
  <2>1. /\ ~MakeRelationTuple /\ ~MakePartitionTuple /\ ~MakeOwnTuple
        /\ \A l : ~MakeLineageTuple(l) /\ ~DeleteLineageTuple(l)
        /\ \A id : ~DeleteRelationTuple(id) /\ ~DeleteOwnTuple(id)
    BY DEF MakeRelationTuple, MakePartitionTuple, MakeOwnTuple, MakeLineageTuple, DeleteLineageTuple,
           DeleteRelationTuple, DeleteOwnTuple
  <2>2. \A s : /\ ~ReadIntoWindow(s) /\ ~Expire(s) /\ ~ReadIntoRelation(s)
               /\ ~StartScan(s) /\ ~NextOfScan(s) /\ ~EndScan(s)
    BY <1>2 DEF ReadIntoWindow, Expire, ReadIntoRelation, StartScan, NextOfScan, EndScan
  <2> QED BY <2>1, <2>2 DEF Next
<1>4. ASSUME MakeStreamTuple PROVE SimpleIndInv'
  BY <1>1, <1>4, SimpleMakes
<1>5. ASSUME NEW s \in Stub, ReadStreamTuple(s) PROVE SimpleIndInv'
  BY <1>1, <1>5, SimpleReads
<1> QED BY <1>3, <1>4, <1>5

LEMMA WinSteps ==
  ASSUME WinIndInv, kind = "win", Next
  PROVE  WinIndInv'
<1>1. Running(store)
  BY DEF Next
<1>2. \/ MakeStreamTuple
      \/ \E s \in Stub : \/ ReadIntoWindow(s) \/ Expire(s) \/ ReadIntoRelation(s)
                         \/ StartScan(s) \/ NextOfScan(s) \/ EndScan(s)
  <2>1. /\ ~MakeRelationTuple /\ ~MakePartitionTuple /\ ~MakeOwnTuple
        /\ \A l : ~MakeLineageTuple(l) /\ ~DeleteLineageTuple(l)
        /\ \A id : ~DeleteRelationTuple(id) /\ ~DeleteOwnTuple(id)
        /\ \A s : ~ReadStreamTuple(s)
    BY DEF MakeRelationTuple, MakePartitionTuple, MakeOwnTuple, MakeLineageTuple, DeleteLineageTuple,
           DeleteRelationTuple, DeleteOwnTuple, ReadStreamTuple
  <2> QED BY <2>1 DEF Next
<1>3. ASSUME MakeStreamTuple PROVE WinIndInv'
  BY <1>1, <1>3, WinMakes
<1>4. ASSUME NEW s \in Stub, ReadIntoWindow(s) PROVE WinIndInv'
  BY <1>1, <1>4, WinReadsIn
<1>5. ASSUME NEW s \in Stub, Expire(s) PROVE WinIndInv'
  BY <1>1, <1>5, WinExpires
<1>6. ASSUME NEW s \in Stub, ReadIntoRelation(s) PROVE WinIndInv'
  BY <1>1, <1>6, WinReadsRelation
<1>7. ASSUME NEW s \in Stub, StartScan(s) PROVE WinIndInv'
  BY <1>1, <1>7, WinStartsScan
<1>8. ASSUME NEW s \in Stub, NextOfScan(s) PROVE WinIndInv'
  BY <1>1, <1>8, WinNextOfScan
<1>9. ASSUME NEW s \in Stub, EndScan(s) PROVE WinIndInv'
  BY <1>1, <1>9, WinEndsScan
<1> QED BY <1>2, <1>3, <1>4, <1>5, <1>6, <1>7, <1>8, <1>9

(* The inductive invariant of the streams: for each of the two stores the  *)
(* ghosts of its pages and readers, as long as there is memory.            *)
StreamIndInv == SimpleIndInv /\ WinIndInv

StreamProperties == kind \in Streams => NothingLost /\ NothingLeaked /\ OldestFirst /\ ScansComplete

LEMMA StreamSteps ==
  ASSUME StreamIndInv, [Next]_vars
  PROVE  StreamIndInv'
<1>1. CASE vars' = vars
  <2>1. /\ kind' = kind /\ store' = store /\ place' = place /\ queue' = queue /\ has' = has
        /\ scanning' = scanning /\ left' = left
    BY <1>1 DEF vars
  <2>2. SimpleIndInv'
    <3>1. ASSUME NEW pg, NEW lo, NEW q, SimpleInv(pg, lo, q) PROVE SimpleInv(pg, lo, q)'
      BY <2>1, <3>1 DEF SimpleInv
    <3>2. NothingLost => NothingLost'
      BY <2>1 DEF NothingLost, InUse, EmptyPages, FreeCells, PlacesInUse
    <3> QED BY <2>1, <3>1, <3>2 DEF StreamIndInv, SimpleIndInv, Running
  <2>3. WinIndInv'
    <3>1. ASSUME NEW pg, NEW lo, NEW i, NEW d, NEW o, WinInv(pg, lo, i, d, o)
          PROVE  WinInv(pg, lo, i, d, o)'
      BY <2>1, <3>1 DEF WinInv, WinView
    <3> QED BY <2>1, <3>1 DEF StreamIndInv, WinIndInv
  <2> QED BY <2>2, <2>3 DEF StreamIndInv
<1>2. CASE Next
  <2>1. kind' = kind
    BY <1>2, KindStays
  <2>2. SimpleIndInv'
    <3>1. CASE kind = "simple"
      BY <1>2, <3>1, SimpleSteps DEF StreamIndInv
    <3>2. CASE kind # "simple"
      BY <2>1, <3>2 DEF SimpleIndInv
    <3> QED BY <3>1, <3>2
  <2>3. WinIndInv'
    <3>1. CASE kind = "win"
      BY <1>2, <3>1, WinSteps DEF StreamIndInv
    <3>2. CASE kind # "win"
      BY <2>1, <3>2 DEF WinIndInv
    <3> QED BY <3>1, <3>2
  <2> QED BY <2>2, <2>3 DEF StreamIndInv
<1> QED BY <1>1, <1>2

LEMMA StreamsHold ==
  ASSUME StreamIndInv
  PROVE  StreamProperties
<1>1. CASE kind = "simple"
  <2>1. OldestFirst
    BY <1>1 DEF OldestFirst
  <2>2. ScansComplete
    BY <1>1 DEF StreamIndInv, SimpleIndInv, ScansComplete
  <2> QED BY <1>1, <2>1, <2>2, SimpleLost, SimpleLeaked DEF StreamIndInv, StreamProperties
<1>2. CASE kind = "win"
  BY <1>2, WinLost, WinLeaked, WinOldest, WinScanned DEF StreamIndInv, StreamProperties
<1> QED BY <1>1, <1>2 DEF StreamProperties, Streams

(* For every number of pages and of tuples to a page, and every bound of   *)
(* the queues, over every interleaving of the operators, up to and with    *)
(* the call that runs out of memory: a store of a stream, under two        *)
(* readers or under two windows and what is behind one of them, is a       *)
(* stretch of slots over a chain of pages (StreamIndInv).                  *)
THEOREM StreamInvariance == Spec => []StreamIndInv
<1>1. Init => StreamIndInv
  BY SimpleStarts, WinStarts DEF StreamIndInv
<1>2. StreamIndInv /\ [Next]_vars => StreamIndInv'
  BY StreamSteps
<1> QED BY <1>1, <1>2, PTL DEF Spec

(* No page of a stream is given back, and no place written again, while an *)
(* operator may still look at a tuple there: SimpleStore and WinStoreImpl  *)
(* count the references of a page together with its stubs.                 *)
THEOREM StreamsLoseNothing == Spec => [](kind \in Streams => NothingLost)
<1>1. StreamIndInv => (kind \in Streams => NothingLost)
  BY StreamsHold DEF StreamProperties
<1> QED BY <1>1, StreamInvariance, PTL

(* Every page of a stream goes back to the memory manager when nothing on  *)
(* it is in use, unless it is being filled or a window has still to leave  *)
(* it.                                                                     *)
THEOREM StreamsLeakNothing == Spec => [](kind \in Streams => NothingLeaked)
<1>1. StreamIndInv => (kind \in Streams => NothingLeaked)
  BY StreamsHold DEF StreamProperties
<1> QED BY <1>1, StreamInvariance, PTL

(* getOldestTuple_w() gives the tuple that the window has had longest, and *)
(* isEmpty_w() is true of a window that has none, over all pages.          *)
THEOREM WindowsKeepOrder == Spec => [](kind = "win" => OldestFirst)
<1>1. StreamIndInv => (kind = "win" => OldestFirst)
  BY StreamsHold DEF StreamProperties, Streams
<1> QED BY <1>1, StreamInvariance, PTL

(* A scan of a window returns what the window had when it began, each      *)
(* tuple once, though the operator stops in between and the window goes    *)
(* on.                                                                     *)
THEOREM WindowScansComplete == Spec => [](kind = "win" => ScansComplete)
<1>1. StreamIndInv => (kind = "win" => ScansComplete)
  BY StreamsHold DEF StreamProperties, Streams
<1> QED BY <1>1, StreamInvariance, PTL

=============================================================================
