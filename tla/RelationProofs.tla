--------------------------- MODULE RelationProofs ---------------------------
(***************************************************************************)
(* Theorems about the stores of relations in Stores ("rel" and "own"), for *)
(* every number of pages, of tuples to a page and of elements to a queue:  *)
(* what the code links through the cells is one list of tuples and one of  *)
(* free cells, and what the operators hold is what the cells count.        *)
(***************************************************************************)
EXTENDS StoresProofs

-----------------------------------------------------------------------------
(***************************************************************************)
(* The memory below a relation.  P is where the tuples were made; those of *)
(* B hold their places, and those of A are in the list, the newest first.  *)
(* Tuple x has R[x] references, and its stubs in I[x] and D[x] have still  *)
(* to insert and to delete it.  The free cells are G[k] down to G[1].      *)
(***************************************************************************)
ListPlace == PlaceType \cup {NoTuple}
RelFields ==
  {"emptyPageList", "page", "outOfMemory", "stubs", "tuples", "freeTuples", "nextTuple"}

RelType(m) ==
  /\ DOMAIN m = RelFields
  /\ m.emptyPageList \in Seq(Page) /\ m.page \in [Page -> PageType] /\ m.outOfMemory \in BOOLEAN
  /\ m.stubs \in SUBSET Stub /\ m.tuples \in ListPlace /\ m.freeTuples \in ListPlace
  /\ m.nextTuple \in [m.stubs -> ListPlace]

(* Place 0 is none.                                                        *)
Pl(P, y) == IF y = 0 THEN NoTuple ELSE P[y]

(* Nothing of A is between y and x; 0 and N + 1 are the ends of the list.  *)
Adjacent(A, y, x) == y < x /\ \A z \in A : z <= y \/ x <= z

InList(m, P, A) ==
  LET top == Len(P) + 1 IN
  \A x \in A \cup {top}, y \in A \cup {0} : Adjacent(A, y, x) =>
    /\ Pl(P, y) = IF x = top THEN m.tuples ELSE CellOf(m, P[x]).next
    /\ y # 0 => CellOf(m, P[y]).prev = IF x = top THEN NoTuple ELSE P[x]

FreeList(m, G, k) ==
  /\ k \in Nat /\ G \in [Nat -> PlaceType]
  /\ m.freeTuples = Pl(G, k) /\ \A j \in 1 .. k : CellOf(m, G[j]).next = Pl(G, j - 1)
  /\ \A i, j \in 1 .. k : G[i] = G[j] => i = j

Cells(m, P, B, R, I, D) ==
  \A x \in B : /\ IdOf(m, P[x]) = x /\ CellOf(m, P[x]).ref = R[x]
               /\ CellOf(m, P[x]).toInsert = I[x] /\ CellOf(m, P[x]).toDelete = D[x]

(* Each place of the pages in use is free or one tuple's.                  *)
Apart(m, P, B, G, k) ==
  /\ NoneTwice(m.emptyPageList)
  /\ \A x, y \in B : P[x] = P[y] => x = y
  /\ \A x \in B, j \in 1 .. k : P[x] # G[j]
  /\ \A t \in PlaceType : t[1] \notin PagesOf(m.emptyPageList)
                            <=> (\E x \in B : P[x] = t) \/ \E j \in 1 .. k : G[j] = t

RelMemory(m, P, A, B, G, k, R, I, D) ==
  /\ RelType(m) /\ P \in Seq(PlaceType) /\ A \subseteq B /\ B \subseteq 1 .. Len(P)
  /\ R \in [Nat -> Int] /\ I \in [Nat -> SUBSET Stub] /\ D \in [Nat -> SUBSET Stub]
  /\ InList(m, P, A) /\ FreeList(m, G, k) /\ Cells(m, P, B, R, I, D) /\ Apart(m, P, B, G, k)

SetAt(f, x, v) == [f EXCEPT ![x] = v]

LEMMA PlaceFacts ==
  /\ \A t \in PlaceType : t[1] \in Page /\ t[2] \in Pos /\ t = <<t[1], t[2]>>
  /\ NoTuple \notin PlaceType
BY DEF PlaceType, Page, NoTuple

(* Writing a cell.                                                         *)
LEMMA CellWritten ==
  ASSUME NEW m, RelType(m), NEW t \in PlaceType, NEW c \in CellType, NEW w, w = WithCell(m, t, c)
  PROVE  /\ RelType(w) /\ \A u \in PlaceType : CellOf(w, u) = IF u = t THEN c ELSE CellOf(m, u)
         /\ w.emptyPageList = m.emptyPageList /\ w.outOfMemory = m.outOfMemory
         /\ w.stubs = m.stubs /\ w.tuples = m.tuples
         /\ w.freeTuples = m.freeTuples /\ w.nextTuple = m.nextTuple
<1>1. DOMAIN m = RelFields /\ m.page \in [Page -> PageType]
  BY DEF RelType
<1>2. t[1] \in Page /\ t[2] \in Pos
  BY PlaceFacts
<1> DEFINE g == [m.page[t[1]].cell EXCEPT ![t[2]] = c]
           p == [m.page[t[1]] EXCEPT !.cell = g]
           pages == [m.page EXCEPT ![t[1]] = p]
<1>3. w = [m EXCEPT !.page = pages]
  BY DEF WithCell
<1>4. /\ m.page[t[1]] \in PageType /\ m.page[t[1]].cell \in [Pos -> CellType]
  BY <1>1, <1>2 DEF PageType
<1>5. g \in [Pos -> CellType] /\ \A i \in Pos : g[i] = IF i = t[2] THEN c ELSE m.page[t[1]].cell[i]
  BY <1>2, <1>4
<1> HIDE DEF g
<1>6. p \in PageType /\ p.cell = g
  BY <1>4, <1>5 DEF PageType
<1> HIDE DEF p
<1>7. pages \in [Page -> PageType] /\ \A q \in Page : pages[q] = IF q = t[1] THEN p ELSE m.page[q]
  BY <1>1, <1>2, <1>6
<1> HIDE DEF pages
<1>8. /\ DOMAIN w = RelFields /\ w.page = pages
      /\ w.emptyPageList = m.emptyPageList /\ w.outOfMemory = m.outOfMemory
      /\ w.stubs = m.stubs /\ w.tuples = m.tuples
      /\ w.freeTuples = m.freeTuples /\ w.nextTuple = m.nextTuple
  BY <1>1, <1>3 DEF RelFields
<1>9. RelType(w)
  BY <1>7, <1>8 DEF RelType
<1>10. \A u \in PlaceType : CellOf(w, u) = IF u = t THEN c ELSE CellOf(m, u)
  <2> TAKE u \in PlaceType
  <2>1. u[1] \in Page /\ u[2] \in Pos /\ u = <<u[1], u[2]>> /\ t = <<t[1], t[2]>>
    BY PlaceFacts
  <2>2. CellOf(w, u) = pages[u[1]].cell[u[2]] /\ CellOf(m, u) = m.page[u[1]].cell[u[2]]
    BY <1>8 DEF CellOf
  <2>3. CASE u[1] = t[1]
    <3>1. CellOf(w, u) = g[u[2]]
      BY <1>6, <1>7, <2>1, <2>2, <2>3
    <3> QED BY <1>5, <2>1, <2>2, <2>3, <3>1
  <2>4. CASE u[1] # t[1]
    BY <1>7, <2>1, <2>2, <2>4
  <2> QED BY <2>3, <2>4
<1> QED BY <1>8, <1>9, <1>10

LEMMA CellTyped ==
  ASSUME NEW m, RelType(m), NEW t \in PlaceType
  PROVE  CellOf(m, t) \in CellType
<1>1. m.page \in [Page -> PageType] /\ t[1] \in Page /\ t[2] \in Pos
  BY PlaceFacts DEF RelType
<1>2. m.page[t[1]].cell \in [Pos -> CellType]
  BY <1>1 DEF PageType
<1> QED BY <1>1, <1>2 DEF CellOf

(* A field of a cell.                                                      *)
LEMMA FieldsWritten ==
  ASSUME NEW c \in CellType
  PROVE  /\ \A n \in ListPlace : LET d == [c EXCEPT !.next = n] IN
              /\ d \in CellType /\ d.next = n /\ d.prev = c.prev /\ d.id = c.id /\ d.ref = c.ref
              /\ d.toInsert = c.toInsert /\ d.toDelete = c.toDelete
         /\ \A n \in ListPlace : LET d == [c EXCEPT !.prev = n] IN
              /\ d \in CellType /\ d.next = c.next /\ d.prev = n /\ d.id = c.id /\ d.ref = c.ref
              /\ d.toInsert = c.toInsert /\ d.toDelete = c.toDelete
         /\ \A n \in Int : LET d == [c EXCEPT !.ref = @ + n] IN
              /\ d \in CellType /\ d.next = c.next /\ d.prev = c.prev /\ d.id = c.id
              /\ d.ref = c.ref + n /\ d.toInsert = c.toInsert /\ d.toDelete = c.toDelete
<1>1. /\ DOMAIN c = {"id", "ref", "next", "prev", "lin", "toInsert", "toDelete"}
      /\ c.id \in Nat /\ c.ref \in Int /\ c.next \in ListPlace /\ c.prev \in ListPlace
      /\ c.lin = Nothing /\ c.toInsert \in SUBSET Stub /\ c.toDelete \in SUBSET Stub
  BY DEF CellType, ListPlace
<1> QED BY <1>1 DEF CellType, ListPlace

LEMMA BitsWritten ==
  ASSUME NEW c \in CellType, NEW s
  PROVE  /\ \A d : d = [c EXCEPT !.toInsert = @ \ {s}] =>
              /\ d \in CellType /\ d.next = c.next /\ d.prev = c.prev /\ d.id = c.id
              /\ d.ref = c.ref /\ d.toInsert = c.toInsert \ {s} /\ d.toDelete = c.toDelete
         /\ \A d : d = [c EXCEPT !.toDelete = @ \ {s}] =>
              /\ d \in CellType /\ d.next = c.next /\ d.prev = c.prev /\ d.id = c.id
              /\ d.ref = c.ref /\ d.toInsert = c.toInsert /\ d.toDelete = c.toDelete \ {s}
<1>1. /\ DOMAIN c = {"id", "ref", "next", "prev", "lin", "toInsert", "toDelete"}
      /\ c.id \in Nat /\ c.ref \in Int /\ c.next \in ListPlace /\ c.prev \in ListPlace
      /\ c.lin = Nothing /\ c.toInsert \in SUBSET Stub /\ c.toDelete \in SUBSET Stub
  BY DEF CellType, ListPlace
<1> QED BY <1>1 DEF CellType, ListPlace

(* The cell of x changes in its references or its bits; the list does not. *)
Changes(m, P, x, c, w) ==
  /\ c \in CellType /\ w = WithCell(m, P[x], c)
  /\ LET b == CellOf(m, P[x]) IN c.id = b.id /\ c.next = b.next /\ c.prev = b.prev

SameBeside(m, w) ==
  /\ w.emptyPageList = m.emptyPageList /\ w.outOfMemory = m.outOfMemory
  /\ w.stubs = m.stubs /\ w.nextTuple = m.nextTuple

LEMMA Recelled ==
  ASSUME NEW m, NEW P, NEW A, NEW B, NEW G, NEW k, NEW R, NEW I, NEW D,
         RelMemory(m, P, A, B, G, k, R, I, D), NEW x \in B, NEW c, NEW w, Changes(m, P, x, c, w),
         NEW Q, NEW J, NEW E,
         Q = SetAt(R, x, c.ref), J = SetAt(I, x, c.toInsert), E = SetAt(D, x, c.toDelete)
  PROVE  RelMemory(w, P, A, B, G, k, Q, J, E) /\ SameBeside(m, w)
<1>1. /\ RelType(m) /\ P \in Seq(PlaceType) /\ A \subseteq B /\ B \subseteq 1 .. Len(P)
      /\ R \in [Nat -> Int] /\ I \in [Nat -> SUBSET Stub] /\ D \in [Nat -> SUBSET Stub]
      /\ InList(m, P, A) /\ FreeList(m, G, k) /\ Cells(m, P, B, R, I, D) /\ Apart(m, P, B, G, k)
  BY DEF RelMemory
<1>2. c \in CellType /\ w = WithCell(m, P[x], c)
      /\ c.id = CellOf(m, P[x]).id /\ c.next = CellOf(m, P[x]).next /\ c.prev = CellOf(m, P[x]).prev
  BY DEF Changes
<1>3. \A y \in B : y \in Nat /\ y \in 1 .. Len(P) /\ P[y] \in PlaceType
  BY <1>1
<1>4. /\ RelType(w) /\ \A u \in PlaceType : CellOf(w, u) = IF u = P[x] THEN c ELSE CellOf(m, u)
      /\ w.emptyPageList = m.emptyPageList /\ w.outOfMemory = m.outOfMemory
      /\ w.stubs = m.stubs /\ w.tuples = m.tuples
      /\ w.freeTuples = m.freeTuples /\ w.nextTuple = m.nextTuple
  BY <1>1, <1>2, <1>3, CellWritten
<1>5. \A u \in PlaceType : /\ CellOf(w, u).next = CellOf(m, u).next /\ CellOf(w, u).prev = CellOf(m, u).prev
                           /\ CellOf(w, u).id = CellOf(m, u).id
  BY <1>2, <1>4
<1>6. InList(w, P, A)
  BY <1>1, <1>3, <1>4, <1>5 DEF InList
<1>7. FreeList(w, G, k)
  <2>1. \A j \in 1 .. k : G[j] \in PlaceType
    BY <1>1 DEF FreeList
  <2> QED BY <1>1, <1>4, <1>5, <2>1 DEF FreeList
<1>8. Cells(w, P, B, Q, J, E)
  <2> SUFFICES ASSUME NEW y \in B
               PROVE  /\ IdOf(w, P[y]) = y /\ CellOf(w, P[y]).ref = Q[y]
                      /\ CellOf(w, P[y]).toInsert = J[y] /\ CellOf(w, P[y]).toDelete = E[y]
    BY DEF Cells
  <2>1. /\ IdOf(m, P[y]) = y /\ CellOf(m, P[y]).ref = R[y]
        /\ CellOf(m, P[y]).toInsert = I[y] /\ CellOf(m, P[y]).toDelete = D[y]
    BY <1>1 DEF Cells
  <2>2. IdOf(w, P[y]) = y
    BY <1>3, <1>5, <2>1 DEF IdOf
  <2>3. CASE y = x
    <3>1. CellOf(w, P[y]) = c
      BY <1>3, <1>4, <2>3
    <3>2. Q[x] = c.ref /\ J[x] = c.toInsert /\ E[x] = c.toDelete
      BY <1>1, <1>3 DEF SetAt
    <3> QED BY <2>2, <2>3, <3>1, <3>2
  <2>4. CASE y # x
    <3>1. P[y] # P[x]
      BY <1>1, <2>4 DEF Apart
    <3>2. CellOf(w, P[y]) = CellOf(m, P[y])
      BY <1>3, <1>4, <3>1
    <3>3. Q[y] = R[y] /\ J[y] = I[y] /\ E[y] = D[y]
      BY <1>1, <1>3, <2>4 DEF SetAt
    <3> QED BY <2>1, <2>2, <3>2, <3>3
  <2> QED BY <2>3, <2>4
<1>9. Apart(w, P, B, G, k)
  BY <1>1, <1>4 DEF Apart
<1>10. Q \in [Nat -> Int] /\ J \in [Nat -> SUBSET Stub] /\ E \in [Nat -> SUBSET Stub]
  <2>1. c.ref \in Int /\ c.toInsert \in SUBSET Stub /\ c.toDelete \in SUBSET Stub
    BY <1>2 DEF CellType
  <2> QED BY <1>1, <1>3, <2>1 DEF SetAt
<1> QED BY <1>1, <1>4, <1>6, <1>7, <1>8, <1>9, <1>10 DEF RelMemory, SameBeside

-----------------------------------------------------------------------------
LEMMA Smallest ==
  ASSUME NEW S, S \subseteq Nat, S # {}
  PROVE  \E x \in S : \A y \in S : x <= y
<1> DEFINE Smaller == {ss \in Nat \X Nat : ss[1] < ss[2]}
<1>1. Smaller = OpToRel(<, Nat)
  BY Zenon DEF OpToRel
<1>2. IsWellFoundedOn(Smaller, Nat)
  BY <1>1, NatLessThanWellFounded, Zenon
<1> HIDE DEF Smaller
<1>3. PICK x \in S : \A y \in S : ~ (<<y, x>> \in Smaller)
  BY <1>2, WFMin, Zenon
<1>4. ASSUME NEW y \in S PROVE x <= y
  <2>1. <<y, x>>[1] = y /\ <<y, x>>[2] = x /\ <<y, x>> \in Nat \X Nat
    OBVIOUS
  <2>2. ~ (y < x)
    BY <1>3, <2>1 DEF Smaller
  <2> QED BY <2>2
<1> QED BY <1>4

(* Each tuple has neighbours in the list.                                  *)
LEMMA NextBelow ==
  ASSUME NEW A, A \subseteq Nat \ {0}, NEW x \in Nat, x > 0
  PROVE  \E y \in A \cup {0} : Adjacent(A, y, x)
<1> DEFINE S == {n \in Nat : \E z \in A \cup {0} : z < x /\ n = x - z}
<1>1. S \subseteq Nat /\ S # {}
  <2>1. 0 \in A \cup {0} /\ 0 < x /\ x \in Nat /\ x = x - 0
    OBVIOUS
  <2> QED BY <2>1
<1> HIDE DEF S
<1>2. PICK n \in S : \A l \in S : n <= l
  BY <1>1, Smallest
<1>3. PICK y \in A \cup {0} : y < x /\ n = x - y
  BY <1>2 DEF S
<1>4. ASSUME NEW z \in A, ~(x <= z) PROVE z <= y
  <2>1. z \in Nat /\ y \in Nat /\ z < x
    BY <1>4
  <2>2. x - z \in S
    BY <2>1 DEF S
  <2>3. n <= x - z
    BY <1>2, <2>2
  <2> QED BY <1>3, <2>1, <2>3
<1> QED BY <1>3, <1>4 DEF Adjacent

LEMMA NextAbove ==
  ASSUME NEW N \in Nat, NEW A, A \subseteq 1 .. N, NEW x \in A
  PROVE  \E v \in A \cup {N + 1} : Adjacent(A, x, v)
<1> DEFINE S == {z \in A \cup {N + 1} : x < z}
<1>1. S \subseteq Nat /\ S # {}
  <2>1. N + 1 \in S /\ x \in Nat
    OBVIOUS
  <2>2. \A z \in S : z \in Nat
    OBVIOUS
  <2> HIDE DEF S
  <2> QED BY <2>1, <2>2
<1> HIDE DEF S
<1>2. PICK v \in S : \A l \in S : v <= l
  BY <1>1, Smallest
<1>3. v \in A \cup {N + 1} /\ x < v
  BY <1>2 DEF S
<1>4. ASSUME NEW z \in A, ~(z <= x) PROVE v <= z
  <2>1. z \in S
    BY <1>4 DEF S
  <2> QED BY <1>2, <2>1
<1> QED BY <1>3, <1>4 DEF Adjacent

LEMMA OneNeighbour ==
  ASSUME NEW A, A \subseteq Nat, NEW x \in Nat, NEW y \in A \cup {0}, NEW z \in A \cup {0},
         Adjacent(A, y, x), Adjacent(A, z, x)
  PROVE  y = z
BY DEF Adjacent

(* References, more and less, that do not free the cell.                   *)
LEMMA RefsAdded ==
  ASSUME NEW m, NEW P, NEW A, NEW B, NEW G, NEW k, NEW R, NEW I, NEW D,
         RelMemory(m, P, A, B, G, k, R, I, D), NEW x \in B, NEW n \in Int,
         NEW w, w = WithCell(m, P[x], [CellOf(m, P[x]) EXCEPT !.ref = @ + n]),
         NEW Q, Q = SetAt(R, x, R[x] + n)
  PROVE  RelMemory(w, P, A, B, G, k, Q, I, D) /\ SameBeside(m, w)
<1>1. /\ RelType(m) /\ P \in Seq(PlaceType) /\ B \subseteq 1 .. Len(P)
      /\ R \in [Nat -> Int] /\ I \in [Nat -> SUBSET Stub] /\ D \in [Nat -> SUBSET Stub]
      /\ Cells(m, P, B, R, I, D)
  BY DEF RelMemory
<1>2. x \in Nat /\ P[x] \in PlaceType
  BY <1>1
<1>3. PICK b : b = CellOf(m, P[x])
  OBVIOUS
<1>4. b \in CellType /\ b.ref = R[x] /\ b.toInsert = I[x] /\ b.toDelete = D[x]
  BY <1>1, <1>2, <1>3, CellTyped DEF Cells
<1>5. PICK c : c = [b EXCEPT !.ref = @ + n]
  OBVIOUS
<1>6. /\ c \in CellType /\ c.next = b.next /\ c.prev = b.prev /\ c.id = b.id
      /\ c.ref = b.ref + n /\ c.toInsert = b.toInsert /\ c.toDelete = b.toDelete
  BY <1>4, <1>5, FieldsWritten
<1>7. Changes(m, P, x, c, w)
  BY <1>3, <1>5, <1>6 DEF Changes
<1>8. Q = SetAt(R, x, c.ref)
  BY <1>4, <1>6
<1>9. PICK J, E : J = SetAt(I, x, c.toInsert) /\ E = SetAt(D, x, c.toDelete)
  OBVIOUS
<1>10. J = I /\ E = D
  BY <1>1, <1>2, <1>4, <1>6, <1>9 DEF SetAt
<1>11. RelMemory(w, P, A, B, G, k, Q, J, E) /\ SameBeside(m, w)
  BY <1>7, <1>8, <1>9, Recelled
<1> QED BY <1>10, <1>11

(* A stub inserts, or deletes, and the tuple stays in the list.            *)
LEMMA BitsMarked ==
  ASSUME NEW m, NEW P, NEW A, NEW B, NEW G, NEW k, NEW R, NEW I, NEW D,
         RelMemory(m, P, A, B, G, k, R, I, D), NEW x \in B, NEW s
  PROVE  /\ \A w : w = WithCell(m, P[x], [CellOf(m, P[x]) EXCEPT !.toInsert = @ \ {s}]) =>
              /\ RelMemory(w, P, A, B, G, k, R, SetAt(I, x, I[x] \ {s}), D) /\ SameBeside(m, w)
         /\ \A w : w = WithCell(m, P[x], [CellOf(m, P[x]) EXCEPT !.toDelete = @ \ {s}]) =>
              /\ RelMemory(w, P, A, B, G, k, R, I, SetAt(D, x, D[x] \ {s})) /\ SameBeside(m, w)
<1>1. /\ RelType(m) /\ P \in Seq(PlaceType) /\ B \subseteq 1 .. Len(P)
      /\ R \in [Nat -> Int] /\ I \in [Nat -> SUBSET Stub] /\ D \in [Nat -> SUBSET Stub]
      /\ Cells(m, P, B, R, I, D)
  BY DEF RelMemory
<1>2. x \in Nat /\ P[x] \in PlaceType
  BY <1>1
<1>3. PICK b : b = CellOf(m, P[x])
  OBVIOUS
<1>4. b \in CellType /\ b.ref = R[x] /\ b.toInsert = I[x] /\ b.toDelete = D[x]
  BY <1>1, <1>2, <1>3, CellTyped DEF Cells
<1>5. ASSUME NEW w, w = WithCell(m, P[x], [CellOf(m, P[x]) EXCEPT !.toInsert = @ \ {s}])
      PROVE  RelMemory(w, P, A, B, G, k, R, SetAt(I, x, I[x] \ {s}), D) /\ SameBeside(m, w)
  <2>1. PICK c : c = [b EXCEPT !.toInsert = @ \ {s}]
    OBVIOUS
  <2>2. /\ c \in CellType /\ c.next = b.next /\ c.prev = b.prev /\ c.id = b.id
        /\ c.ref = b.ref /\ c.toInsert = b.toInsert \ {s} /\ c.toDelete = b.toDelete
    BY <1>4, <2>1, BitsWritten
  <2>3. Changes(m, P, x, c, w)
    BY <1>3, <1>5, <2>1, <2>2 DEF Changes
  <2>4. PICK J : J = SetAt(I, x, I[x] \ {s})
    OBVIOUS
  <2>5. J = SetAt(I, x, c.toInsert)
    BY <1>4, <2>2, <2>4
  <2>6. PICK Q, H : Q = SetAt(R, x, c.ref) /\ H = SetAt(D, x, c.toDelete)
    OBVIOUS
  <2>7. Q = R /\ H = D
    BY <1>1, <1>2, <1>4, <2>2, <2>6 DEF SetAt
  <2>8. RelMemory(w, P, A, B, G, k, Q, J, H) /\ SameBeside(m, w)
    BY <2>3, <2>5, <2>6, Recelled
  <2> QED BY <2>4, <2>7, <2>8
<1>6. ASSUME NEW w, w = WithCell(m, P[x], [CellOf(m, P[x]) EXCEPT !.toDelete = @ \ {s}])
      PROVE  RelMemory(w, P, A, B, G, k, R, I, SetAt(D, x, D[x] \ {s})) /\ SameBeside(m, w)
  <2>1. PICK c : c = [b EXCEPT !.toDelete = @ \ {s}]
    OBVIOUS
  <2>2. /\ c \in CellType /\ c.next = b.next /\ c.prev = b.prev /\ c.id = b.id
        /\ c.ref = b.ref /\ c.toInsert = b.toInsert /\ c.toDelete = b.toDelete \ {s}
    BY <1>4, <2>1, BitsWritten
  <2>3. Changes(m, P, x, c, w)
    BY <1>3, <1>6, <2>1, <2>2 DEF Changes
  <2>4. PICK E : E = SetAt(D, x, D[x] \ {s})
    OBVIOUS
  <2>5. E = SetAt(D, x, c.toDelete)
    BY <1>4, <2>2, <2>4
  <2>6. PICK Q, H : Q = SetAt(R, x, c.ref) /\ H = SetAt(I, x, c.toInsert)
    OBVIOUS
  <2>7. Q = R /\ H = I
    BY <1>1, <1>2, <1>4, <2>2, <2>6 DEF SetAt
  <2>8. RelMemory(w, P, A, B, G, k, Q, H, E) /\ SameBeside(m, w)
    BY <2>3, <2>5, <2>6, Recelled
  <2> QED BY <2>4, <2>7, <2>8
<1> QED BY <1>5, <1>6

LEMMA RelOps ==
  /\ \A m, t : Rel!CellOf(m, t) = CellOf(m, t) /\ Links!CellOf(m, t) = CellOf(m, t)
  /\ \A m, t, c : Rel!WithCell(m, t, c) = WithCell(m, t, c) /\ Links!WithCell(m, t, c) = WithCell(m, t, c)
  /\ Rel!NoTuple = NoTuple /\ Links!NoTuple = NoTuple
BY DEF Rel!CellOf, CellOf, Links!CellOf, Rel!WithCell, WithCell, Links!WithCell, Rel!NoTuple,
   NoTuple, Links!NoTuple

(* A link of a cell is set, unless there is no cell.                       *)
SetsLink(m, t, f, n, w) ==
  /\ f \in {"next", "prev"} /\ t \in ListPlace /\ n \in ListPlace
  /\ w = IF t = NoTuple THEN m
         ELSE IF f = "next" THEN WithCell(m, t, [CellOf(m, t) EXCEPT !.next = n])
                           ELSE WithCell(m, t, [CellOf(m, t) EXCEPT !.prev = n])

LEMMA LinkSet ==
  ASSUME NEW m, RelType(m), NEW t, NEW n, NEW f, NEW w, SetsLink(m, t, f, n, w)
  PROVE  /\ RelType(w) /\ SameBeside(m, w) /\ w.tuples = m.tuples /\ w.freeTuples = m.freeTuples
         /\ \A u \in PlaceType :
              /\ CellOf(w, u).id = CellOf(m, u).id /\ CellOf(w, u).ref = CellOf(m, u).ref
              /\ CellOf(w, u).toInsert = CellOf(m, u).toInsert
              /\ CellOf(w, u).toDelete = CellOf(m, u).toDelete
              /\ CellOf(w, u).next = IF f = "next" /\ u = t THEN n ELSE CellOf(m, u).next
              /\ CellOf(w, u).prev = IF f = "prev" /\ u = t THEN n ELSE CellOf(m, u).prev
<1>0. f \in {"next", "prev"} /\ t \in ListPlace /\ n \in ListPlace
  BY DEF SetsLink
<1>1. CASE t = NoTuple
  BY <1>0, <1>1, PlaceFacts DEF SetsLink, SameBeside
<1>2. CASE t # NoTuple
  <2>1. t \in PlaceType
    BY <1>0, <1>2 DEF ListPlace
  <2>2. PICK b : b = CellOf(m, t)
    OBVIOUS
  <2>3. b \in CellType
    BY <2>1, <2>2, CellTyped
  <2>4. CASE f = "next"
    <3>1. PICK c : c = [b EXCEPT !.next = n]
      OBVIOUS
    <3>2. /\ c \in CellType /\ c.next = n /\ c.prev = b.prev /\ c.id = b.id /\ c.ref = b.ref
          /\ c.toInsert = b.toInsert /\ c.toDelete = b.toDelete
      BY <1>0, <2>3, <3>1, FieldsWritten
    <3>3. w = WithCell(m, t, c)
      BY <1>2, <2>2, <2>4, <3>1 DEF SetsLink
    <3>4. /\ RelType(w) /\ SameBeside(m, w) /\ w.tuples = m.tuples /\ w.freeTuples = m.freeTuples
          /\ \A u \in PlaceType : CellOf(w, u) = IF u = t THEN c ELSE CellOf(m, u)
      BY <2>1, <3>2, <3>3, CellWritten DEF SameBeside
    <3> QED BY <2>2, <2>4, <3>2, <3>4
  <2>5. CASE f = "prev"
    <3>1. PICK c : c = [b EXCEPT !.prev = n]
      OBVIOUS
    <3>2. /\ c \in CellType /\ c.next = b.next /\ c.prev = n /\ c.id = b.id /\ c.ref = b.ref
          /\ c.toInsert = b.toInsert /\ c.toDelete = b.toDelete
      BY <1>0, <2>3, <3>1, FieldsWritten
    <3>3. w = WithCell(m, t, c)
      BY <1>2, <2>2, <2>5, <3>1 DEF SetsLink
    <3>4. /\ RelType(w) /\ SameBeside(m, w) /\ w.tuples = m.tuples /\ w.freeTuples = m.freeTuples
          /\ \A u \in PlaceType : CellOf(w, u) = IF u = t THEN c ELSE CellOf(m, u)
      BY <2>1, <3>2, <3>3, CellWritten DEF SameBeside
    <3> QED BY <2>2, <2>5, <3>2, <3>4
  <2> QED BY <1>0, <2>4, <2>5
<1> QED BY <1>1, <1>2

SetsHead(m, h, t, w) ==
  h \in {"tuples", "freeTuples"} /\ t \in ListPlace /\ w = [m EXCEPT ![h] = t]

LEMMA ListHead ==
  ASSUME NEW m, RelType(m), NEW t, NEW h, NEW w, SetsHead(m, h, t, w)
  PROVE  /\ RelType(w) /\ SameBeside(m, w)
         /\ w.tuples = IF h = "tuples" THEN t ELSE m.tuples
         /\ w.freeTuples = IF h = "freeTuples" THEN t ELSE m.freeTuples
         /\ \A u : CellOf(w, u) = CellOf(m, u)
<1>1. DOMAIN m = RelFields
  BY DEF RelType
<1>0. h \in {"tuples", "freeTuples"} /\ t \in ListPlace /\ w = [m EXCEPT ![h] = t]
  BY DEF SetsHead
<1>2. /\ DOMAIN w = RelFields /\ w.page = m.page /\ w.emptyPageList = m.emptyPageList
      /\ w.outOfMemory = m.outOfMemory /\ w.stubs = m.stubs /\ w.nextTuple = m.nextTuple
      /\ w.tuples = IF h = "tuples" THEN t ELSE m.tuples
      /\ w.freeTuples = IF h = "freeTuples" THEN t ELSE m.freeTuples
  BY <1>0, <1>1 DEF RelFields
<1> QED BY <1>0, <1>2 DEF RelType, SameBeside, CellOf

(* A tuple leaves the list.                                                *)
LEMMA Unlinked ==
  ASSUME NEW m, NEW P, NEW A, NEW B, NEW G, NEW k, NEW R, NEW I, NEW D,
         RelMemory(m, P, A, B, G, k, R, I, D), NEW x \in A, NEW w, w = Rel!Unlink(m, P[x])
  PROVE  RelMemory(w, P, A \ {x}, B, G, k, R, I, D) /\ SameBeside(m, w)
<1>1. /\ RelType(m) /\ P \in Seq(PlaceType) /\ A \subseteq B /\ B \subseteq 1 .. Len(P)
      /\ R \in [Nat -> Int] /\ I \in [Nat -> SUBSET Stub] /\ D \in [Nat -> SUBSET Stub]
      /\ InList(m, P, A) /\ FreeList(m, G, k) /\ Cells(m, P, B, R, I, D) /\ Apart(m, P, B, G, k)
  BY DEF RelMemory
<1>2. PICK top : top = Len(P) + 1
  OBVIOUS
<1>3. /\ top \in Nat /\ \A a \in B : a \in Nat /\ a > 0 /\ a < top /\ P[a] \in PlaceType
      /\ A \subseteq Nat \ {0} /\ A \subseteq 1 .. Len(P) /\ Len(P) \in Nat
      /\ \A a \in A : a \in Nat /\ a > 0 /\ a < top /\ P[a] \in PlaceType /\ P[a] # NoTuple
      /\ \A a, b \in A : P[a] = P[b] => a = b
  <2>1. Len(P) \in Nat /\ \A a \in 1 .. Len(P) : P[a] \in PlaceType
    BY <1>1
  <2>2. \A a, b \in B : P[a] = P[b] => a = b
    BY <1>1 DEF Apart
  <2>3. \A a \in 1 .. Len(P) : a \in Nat /\ a > 0 /\ a < top
    BY <1>2, <2>1
  <2> QED BY <1>1, <1>2, <2>1, <2>2, <2>3, PlaceFacts
<1>4. PICK y \in A \cup {0} : Adjacent(A, y, x)
  BY <1>3, NextBelow
<1>5. PICK v \in A \cup {top} : Adjacent(A, x, v)
  BY <1>2, <1>3, NextAbove
<1>6. PICK c : c = CellOf(m, P[x])
  OBVIOUS
<1>7. c.next = Pl(P, y) /\ c.prev = IF v = top THEN NoTuple ELSE P[v]
  BY <1>1, <1>2, <1>3, <1>4, <1>5, <1>6 DEF InList
<1>8. c.next \in ListPlace /\ c.prev \in ListPlace
  BY <1>3, <1>4, <1>5, <1>7 DEF Pl, ListPlace
<1>0. PICK next, prev : next = "next" /\ prev = "prev"
  OBVIOUS
<1>90. PICK m1 : m1 = Rel!SetPrev(m, c.next, c.prev)
  OBVIOUS
<1>9. SetsLink(m, c.next, prev, c.prev, m1)
  BY <1>0, <1>8, <1>90, RelOps DEF SetsLink, Rel!SetPrev
<1>100. PICK m2 : m2 = Rel!SetNext(m1, c.prev, c.next)
  OBVIOUS
<1>10. SetsLink(m1, c.prev, next, c.next, m2)
  BY <1>0, <1>8, <1>100, RelOps DEF SetsLink, Rel!SetNext
<1>11. w = IF c.prev = NoTuple THEN [m2 EXCEPT !.tuples = c.next] ELSE m2
  BY <1>6, <1>90, <1>100, RelOps DEF Rel!Unlink
<1>12. /\ RelType(m1) /\ SameBeside(m, m1) /\ m1.tuples = m.tuples /\ m1.freeTuples = m.freeTuples
       /\ \A u \in PlaceType :
            /\ CellOf(m1, u).id = CellOf(m, u).id /\ CellOf(m1, u).ref = CellOf(m, u).ref
            /\ CellOf(m1, u).toInsert = CellOf(m, u).toInsert
            /\ CellOf(m1, u).toDelete = CellOf(m, u).toDelete
            /\ CellOf(m1, u).next = CellOf(m, u).next
            /\ CellOf(m1, u).prev = IF u = c.next THEN c.prev ELSE CellOf(m, u).prev
  BY <1>0, <1>1, <1>8, <1>9, LinkSet
<1>13. /\ RelType(m2) /\ SameBeside(m, m2) /\ m2.tuples = m.tuples /\ m2.freeTuples = m.freeTuples
       /\ \A u \in PlaceType :
            /\ CellOf(m2, u).id = CellOf(m, u).id /\ CellOf(m2, u).ref = CellOf(m, u).ref
            /\ CellOf(m2, u).toInsert = CellOf(m, u).toInsert
            /\ CellOf(m2, u).toDelete = CellOf(m, u).toDelete
            /\ CellOf(m2, u).next = IF u = c.prev THEN c.next ELSE CellOf(m, u).next
            /\ CellOf(m2, u).prev = IF u = c.next THEN c.prev ELSE CellOf(m, u).prev
  <2>1. /\ RelType(m2) /\ SameBeside(m1, m2) /\ m2.tuples = m1.tuples /\ m2.freeTuples = m1.freeTuples
        /\ \A u \in PlaceType :
             /\ CellOf(m2, u).id = CellOf(m1, u).id /\ CellOf(m2, u).ref = CellOf(m1, u).ref
             /\ CellOf(m2, u).toInsert = CellOf(m1, u).toInsert
             /\ CellOf(m2, u).toDelete = CellOf(m1, u).toDelete
             /\ CellOf(m2, u).next = IF u = c.prev THEN c.next ELSE CellOf(m1, u).next
             /\ CellOf(m2, u).prev = CellOf(m1, u).prev
    BY <1>0, <1>8, <1>10, <1>12, LinkSet
  <2> QED BY <1>12, <2>1 DEF SameBeside
<1>14. /\ RelType(w) /\ SameBeside(m, w) /\ w.freeTuples = m.freeTuples
       /\ w.tuples = IF c.prev = NoTuple THEN c.next ELSE m.tuples
       /\ \A u \in PlaceType : CellOf(w, u) = CellOf(m2, u)
  <2>1. CASE c.prev = NoTuple
    <3>0. PICK h : h = "tuples"
      OBVIOUS
    <3>1. SetsHead(m2, h, c.next, w)
      BY <1>8, <1>11, <2>1, <3>0 DEF SetsHead
    <3>2. RelType(w) /\ SameBeside(m2, w) /\ w.tuples = c.next /\ w.freeTuples = m2.freeTuples
          /\ \A u : CellOf(w, u) = CellOf(m2, u)
      BY <1>8, <1>13, <3>0, <3>1, ListHead
    <3> QED BY <1>13, <2>1, <3>2 DEF SameBeside
  <2>2. CASE c.prev # NoTuple
    BY <1>11, <1>13, <2>2
  <2> QED BY <2>1, <2>2
<1>15. /\ \A u \in PlaceType :
            /\ CellOf(w, u).id = CellOf(m, u).id /\ CellOf(w, u).ref = CellOf(m, u).ref
            /\ CellOf(w, u).toInsert = CellOf(m, u).toInsert
            /\ CellOf(w, u).toDelete = CellOf(m, u).toDelete
       /\ \A a \in A : CellOf(w, P[a]).next = IF a = v THEN Pl(P, y) ELSE CellOf(m, P[a]).next
       /\ \A a \in A : CellOf(w, P[a]).prev = IF a = y THEN c.prev ELSE CellOf(m, P[a]).prev
       /\ w.tuples = IF v = top THEN Pl(P, y) ELSE m.tuples
  <2>1. \A a \in A : P[a] = c.prev <=> a = v
    BY <1>3, <1>5, <1>7
  <2>2. \A a \in A : P[a] = c.next <=> a = y
    BY <1>3, <1>4, <1>7 DEF Pl
  <2>3. c.prev = NoTuple <=> v = top
    BY <1>3, <1>5, <1>7
  <2> QED BY <1>3, <1>7, <1>13, <1>14, <2>1, <2>2, <2>3
<1>16. \A j \in 1 .. k : G[j] \in PlaceType /\ CellOf(w, G[j]).next = CellOf(m, G[j]).next
  <2> TAKE j \in 1 .. k
  <2>1. G[j] \in PlaceType /\ \A a \in B : P[a] # G[j]
    BY <1>1 DEF FreeList, Apart
  <2>2. G[j] # c.prev
    BY <1>1, <1>5, <1>7, <2>1, PlaceFacts
  <2> QED BY <1>13, <1>14, <2>1, <2>2
<1>17. InList(w, P, A \ {x})
  <2> SUFFICES ASSUME NEW a \in (A \ {x}) \cup {top}, NEW b \in (A \ {x}) \cup {0},
                      Adjacent(A \ {x}, b, a)
               PROVE  /\ Pl(P, b) = IF a = top THEN w.tuples ELSE CellOf(w, P[a]).next
                      /\ b # 0 => CellOf(w, P[b]).prev = IF a = top THEN NoTuple ELSE P[a]
    BY <1>2 DEF InList
  <2>1. a \in Nat /\ b \in Nat /\ x \in Nat /\ y \in Nat /\ v \in Nat /\ b # x /\ a # x
        /\ a \in A \cup {top} /\ b \in A \cup {0}
    BY <1>3, <1>4, <1>5
  <2>2. CASE Adjacent(A, b, a)
    <3>1. a # v /\ b # y
      <4>1. a = v => FALSE
        BY <1>3, <1>5, <2>1, <2>2 DEF Adjacent
      <4>2. b = y => FALSE
        BY <1>3, <1>4, <2>1, <2>2 DEF Adjacent
      <4> QED BY <4>1, <4>2
    <3>2. /\ Pl(P, b) = IF a = top THEN m.tuples ELSE CellOf(m, P[a]).next
          /\ b # 0 => CellOf(m, P[b]).prev = IF a = top THEN NoTuple ELSE P[a]
      BY <1>1, <1>2, <2>1, <2>2 DEF InList
    <3>3. a # top => a \in A
      BY <2>1
    <3>4. b # 0 => b \in A
      BY <2>1
    <3> QED BY <1>15, <3>1, <3>2, <3>3, <3>4
  <2>3. CASE ~Adjacent(A, b, a)
    <3>1. b < x /\ x < a
      BY <1>3, <2>1, <2>3 DEF Adjacent
    <3>2. b <= y /\ a >= v
      BY <1>3, <1>4, <1>5, <2>1, <3>1 DEF Adjacent
    <3>3. y < x /\ x < v
      BY <1>4, <1>5 DEF Adjacent
    <3>4. y <= b /\ v >= a
      BY <1>3, <1>4, <1>5, <2>1, <3>1, <3>3 DEF Adjacent
    <3>5. b = y /\ a = v
      BY <2>1, <3>2, <3>4
    <3>6. a # top => a \in A
      BY <2>1
    <3>7. b # 0 => b \in A
      BY <2>1
    <3> QED BY <1>7, <1>15, <3>5, <3>6, <3>7
  <2> QED BY <2>2, <2>3
<1>18. FreeList(w, G, k)
  BY <1>1, <1>14, <1>16 DEF FreeList
<1>19. Cells(w, P, B, R, I, D)
  <2> SUFFICES ASSUME NEW b \in B
               PROVE  /\ IdOf(w, P[b]) = b /\ CellOf(w, P[b]).ref = R[b]
                      /\ CellOf(w, P[b]).toInsert = I[b] /\ CellOf(w, P[b]).toDelete = D[b]
    BY DEF Cells
  <2>1. /\ IdOf(m, P[b]) = b /\ CellOf(m, P[b]).ref = R[b]
        /\ CellOf(m, P[b]).toInsert = I[b] /\ CellOf(m, P[b]).toDelete = D[b]
    BY <1>1 DEF Cells
  <2>2. P[b] \in PlaceType
    BY <1>3
  <2> QED BY <1>15, <2>1, <2>2 DEF IdOf
<1>20. Apart(w, P, B, G, k)
  BY <1>1, <1>14 DEF Apart, SameBeside
<1>21. A \ {x} \subseteq B
  BY <1>1
<1> QED BY <1>1, <1>14, <1>17, <1>18, <1>19, <1>20, <1>21 DEF RelMemory

(* A reference less, that is not the last; and the last, of a tuple that   *)
(* has left the list.                                                      *)
LEMMA RefDropped ==
  ASSUME NEW m, NEW P, NEW A, NEW B, NEW G, NEW k, NEW R, NEW I, NEW D,
         RelMemory(m, P, A, B, G, k, R, I, D), NEW x \in B, NEW w, w = Links!decrRef(m, P[x])
  PROVE  /\ R[x] > 1 => RelMemory(w, P, A, B, G, k, SetAt(R, x, R[x] - 1), I, D) /\ SameBeside(m, w)
         /\ R[x] = 1 /\ x \notin A =>
              /\ RelMemory(w, P, A, B \ {x}, SetAt(G, k + 1, P[x]), k + 1, SetAt(R, x, R[x] - 1), I, D)
              /\ SameBeside(m, w)
<1>1. /\ RelType(m) /\ P \in Seq(PlaceType) /\ B \subseteq 1 .. Len(P) /\ R \in [Nat -> Int]
      /\ Cells(m, P, B, R, I, D)
  BY DEF RelMemory
<1>2. x \in Nat /\ P[x] \in PlaceType
  BY <1>1
<1>3. PICK b : b = CellOf(m, P[x])
  OBVIOUS
<1>4. b \in CellType /\ b.ref = R[x] /\ R[x] \in Int
  BY <1>1, <1>2, <1>3, CellTyped DEF Cells
<1>5. PICK n : n = -1
  OBVIOUS
<1>6. PICK d : d = WithCell(m, P[x], [CellOf(m, P[x]) EXCEPT !.ref = @ + n])
  OBVIOUS
<1>7. PICK Q : Q = SetAt(R, x, R[x] + n)
  OBVIOUS
<1>8. RelMemory(d, P, A, B, G, k, Q, I, D) /\ SameBeside(m, d)
  BY <1>5, <1>6, <1>7, RefsAdded
<1>9. R[x] + n = R[x] - 1 /\ Q[x] = R[x] - 1
  BY <1>1, <1>2, <1>4, <1>5, <1>7 DEF SetAt
<1>10. CellOf(d, P[x]).ref = R[x] - 1
  BY <1>8, <1>9 DEF RelMemory, Cells
<1>11. w = IF CellOf(d, P[x]).ref = 0
           THEN [Links!SetNext(d, P[x], m.freeTuples) EXCEPT !.freeTuples = P[x]] ELSE d
  <2>1. [CellOf(m, P[x]) EXCEPT !.ref = @ - 1] = [CellOf(m, P[x]) EXCEPT !.ref = @ + n]
    <3>1. b.ref - 1 = b.ref + n
      BY <1>4, <1>5
    <3> QED BY <1>3, <3>1
  <2> QED BY <1>6, <2>1, RelOps DEF Links!decrRef, Links!Unreferenced
<1>12. CASE R[x] > 1
  BY <1>4, <1>7, <1>8, <1>9, <1>10, <1>11, <1>12
<1>13. CASE R[x] = 1 /\ x \notin A
  <2>1. /\ RelType(d) /\ P \in Seq(PlaceType) /\ A \subseteq B /\ B \subseteq 1 .. Len(P)
        /\ Q \in [Nat -> Int] /\ I \in [Nat -> SUBSET Stub] /\ D \in [Nat -> SUBSET Stub]
        /\ InList(d, P, A) /\ FreeList(d, G, k) /\ Cells(d, P, B, Q, I, D) /\ Apart(d, P, B, G, k)
    BY <1>8 DEF RelMemory
  <2>2. PICK t : t = P[x]
    OBVIOUS
  <2>3. k \in Nat /\ G \in [Nat -> PlaceType] /\ t \in PlaceType /\ d.freeTuples = Pl(G, k)
        /\ d.freeTuples \in ListPlace
    BY <1>2, <2>1, <2>2 DEF FreeList, RelType
  <2>4. d.freeTuples = m.freeTuples
    BY <1>8 DEF RelMemory, FreeList
  <2> HIDE <2>4
  <2>5. PICK u : u = Links!SetNext(d, t, d.freeTuples)
    OBVIOUS
  <2>6. PICK next, free : next = "next" /\ free = "freeTuples"
    OBVIOUS
  <2>7. SetsLink(d, t, next, d.freeTuples, u)
    BY <2>3, <2>5, <2>6, RelOps DEF SetsLink, Links!SetNext, ListPlace
  <2>8. /\ RelType(u) /\ SameBeside(d, u) /\ u.tuples = d.tuples
        /\ \A v \in PlaceType :
             /\ CellOf(u, v).id = CellOf(d, v).id /\ CellOf(u, v).ref = CellOf(d, v).ref
             /\ CellOf(u, v).toInsert = CellOf(d, v).toInsert
             /\ CellOf(u, v).toDelete = CellOf(d, v).toDelete
             /\ CellOf(u, v).next = IF v = t THEN d.freeTuples ELSE CellOf(d, v).next
             /\ CellOf(u, v).prev = CellOf(d, v).prev
    BY <2>1, <2>6, <2>7, LinkSet
  <2>9. SetsHead(u, free, t, w)
    <3>1. w = [u EXCEPT !.freeTuples = t]
      BY <1>10, <1>11, <1>13, <2>2, <2>4, <2>5
    <3> QED BY <2>3, <2>6, <3>1 DEF SetsHead, ListPlace
  <2>10. /\ RelType(w) /\ SameBeside(d, w) /\ w.tuples = d.tuples /\ w.freeTuples = t
         /\ \A v \in PlaceType :
              /\ CellOf(w, v).id = CellOf(d, v).id /\ CellOf(w, v).ref = CellOf(d, v).ref
              /\ CellOf(w, v).toInsert = CellOf(d, v).toInsert
              /\ CellOf(w, v).toDelete = CellOf(d, v).toDelete
              /\ CellOf(w, v).next = IF v = t THEN Pl(G, k) ELSE CellOf(d, v).next
              /\ CellOf(w, v).prev = CellOf(d, v).prev
    <3>1. /\ RelType(w) /\ SameBeside(u, w) /\ w.tuples = u.tuples /\ w.freeTuples = t
          /\ \A v : CellOf(w, v) = CellOf(u, v)
      BY <2>6, <2>8, <2>9, ListHead
    <3> QED BY <2>3, <2>8, <3>1 DEF SameBeside
  <2>11. PICK H : H = SetAt(G, k + 1, t)
    OBVIOUS
  <2>12. H \in [Nat -> PlaceType] /\ H[k + 1] = t /\ \A j \in 0 .. k : H[j] = G[j]
    BY <2>3, <2>11 DEF SetAt
  <2>13. /\ \A y \in B : y \in Nat /\ P[y] \in PlaceType
         /\ \A y \in B : P[y] = t => y = x
         /\ \A j \in 1 .. k : G[j] # t /\ G[j] \in PlaceType
    BY <2>1, <2>2, <2>3 DEF Apart
  <2>14. InList(w, P, A)
    <3>1. \A y \in A : y \in B /\ P[y] # t /\ P[y] \in PlaceType
      BY <1>13, <2>1, <2>13
    <3>2. \A y \in A : CellOf(w, P[y]).next = CellOf(d, P[y]).next /\ CellOf(w, P[y]).prev = CellOf(d, P[y]).prev
      BY <2>10, <3>1
    <3>3. w.tuples = d.tuples
      BY <2>10
    <3> QED BY <2>1, <3>2, <3>3 DEF InList
  <2>15. FreeList(w, H, k + 1)
    <3>1. k + 1 \in Nat /\ w.freeTuples = Pl(H, k + 1)
      BY <2>3, <2>10, <2>12 DEF Pl
    <3>2. \A j \in 1 .. k + 1 : CellOf(w, H[j]).next = Pl(H, j - 1)
      <4> TAKE j \in 1 .. k + 1
      <4>1. CASE j = k + 1
        BY <2>3, <2>10, <2>12, <4>1 DEF Pl
      <4>2. CASE j # k + 1
        <5>1. j \in 1 .. k /\ j - 1 \in 0 .. k
          BY <2>3, <4>2
        <5>2. CellOf(d, G[j]).next = Pl(G, j - 1)
          BY <2>1, <5>1 DEF FreeList
        <5>3. Pl(H, j - 1) = Pl(G, j - 1)
          BY <2>12, <5>1 DEF Pl
        <5> QED BY <2>10, <2>12, <2>13, <5>1, <5>2, <5>3
      <4> QED BY <4>1, <4>2
    <3>3. \A i, j \in 1 .. k + 1 : H[i] = H[j] => i = j
      <4>1. \A i, j \in 1 .. k : G[i] = G[j] => i = j
        BY <2>1 DEF FreeList
      <4>2. \A i \in 1 .. k + 1 : i = k + 1 \/ i \in 1 .. k
        BY <2>3
      <4> QED BY <2>3, <2>12, <2>13, <4>1, <4>2
    <3> QED BY <2>12, <3>1, <3>2, <3>3 DEF FreeList
  <2>16. Cells(w, P, B \ {x}, Q, I, D)
    BY <2>1, <2>10, <2>13 DEF Cells, IdOf
  <2>17. Apart(w, P, B \ {x}, H, k + 1)
    <3>1. w.emptyPageList = d.emptyPageList
      BY <2>10 DEF SameBeside
    <3>2. \A j : j \in 1 .. k + 1 <=> j = k + 1 \/ j \in 1 .. k
      BY <2>3
    <3>3. \A y \in B \ {x}, j \in 1 .. k + 1 : P[y] # H[j]
      <4> TAKE y \in B \ {x}, j \in 1 .. k + 1
      <4>1. CASE j = k + 1
        BY <2>12, <2>13, <4>1
      <4>2. CASE j \in 1 .. k
        <5>1. H[j] = G[j]
          BY <2>3, <2>12, <4>2
        <5>2. P[y] # G[j]
          BY <2>1, <4>2 DEF Apart
        <5> QED BY <5>1, <5>2
      <4> QED BY <3>2, <4>1, <4>2
    <3>4. ASSUME NEW v \in PlaceType
          PROVE  ((\E y \in B : P[y] = v) \/ \E j \in 1 .. k : G[j] = v)
                   <=> (\E y \in B \ {x} : P[y] = v) \/ \E j \in 1 .. k + 1 : H[j] = v
      <4>1. \A j \in 1 .. k : H[j] = G[j]
        BY <2>3, <2>12
      <4>2. (\E y \in B : P[y] = v) <=> v = t \/ \E y \in B \ {x} : P[y] = v
        BY <2>2
      <4>3. (\E j \in 1 .. k + 1 : H[j] = v) <=> v = t \/ \E j \in 1 .. k : G[j] = v
        BY <2>12, <3>2, <4>1
      <4> QED BY <4>2, <4>3
    <3> QED BY <2>1, <3>1, <3>3, <3>4 DEF Apart
  <2>18. A \subseteq B \ {x}
    BY <1>13, <2>1
  <2>19. RelMemory(w, P, A, B \ {x}, H, k + 1, Q, I, D)
    BY <2>1, <2>10, <2>14, <2>15, <2>16, <2>17, <2>18 DEF RelMemory
  <2>20. SameBeside(m, w)
    BY <1>8, <2>10 DEF SameBeside
  <2> QED BY <1>4, <1>7, <1>9, <1>13, <2>2, <2>11, <2>19, <2>20
<1> QED BY <1>12, <1>13

-----------------------------------------------------------------------------
(* Walks along the links of cells.                                         *)
NumCells == NumPages * TuplesPerPage

ChainStep(m, halt, u) == IF u \in halt THEN u ELSE CellOf(m, u).next

Walks(f, m, t, halt) ==
  f[0] = t /\ \A n \in 1 .. NumCells : f[n] = ChainStep(m, halt, f[n - 1])

LEMMA CellsFinite ==
  /\ NumCells \in Nat /\ IsFiniteSet(PlaceType) /\ Cardinality(PlaceType) = NumCells
<1>1. IsFiniteSet(Page) /\ Cardinality(Page) = NumPages
  BY NumPagesAssumption, FS_Interval DEF Page
<1>2. IsFiniteSet(Pos) /\ Cardinality(Pos) = TuplesPerPage
  BY TuplesPerPageAssumption, FS_Interval DEF Pos
<1>3. IsFiniteSet(Page \X Pos) /\ Cardinality(Page \X Pos) = Cardinality(Page) * Cardinality(Pos)
  BY <1>1, <1>2, FS_Product
<1> QED BY <1>1, <1>2, <1>3, NumPagesAssumption, TuplesPerPageAssumption DEF NumCells, PlaceType

LEMMA ChainExists ==
  ASSUME NEW m, NEW t, NEW halt
  PROVE  \E f : f = Links!Chain(m, t, halt) /\ f = Rel!Chain(m, t, halt) /\ Walks(f, m, t, halt)
<1> DEFINE Is(f, k) ==
             f = [n \in 0 .. k |-> IF n = 0 THEN t ELSE LET u == f[n - 1] IN ChainStep(m, halt, u)]
           all == CHOOSE f : Is(f, NumCells)
           bad == {k \in 0 .. NumCells : ~\E f : Is(f, k)}
<1>0. NumCells \in Nat
  BY CellsFinite
<1>1. Links!Chain(m, t, halt) = all
  BY DEF Links!Chain, ChainStep, NumCells, Links!CellOf, CellOf
<1>2. Rel!Chain(m, t, halt) = all
  BY DEF Rel!Chain, ChainStep, NumCells, Rel!CellOf, CellOf
<1>3. bad = {}
  <2> SUFFICES ASSUME bad # {} PROVE FALSE
    OBVIOUS
  <2>1. PICK k \in bad : \A l \in bad : k <= l
    <3>1. bad \subseteq Nat
      BY <1>0
    <3> HIDE DEF bad
    <3> QED BY <3>1, Smallest
  <2>2. k \in Nat /\ k <= NumCells
    BY <1>0
  <2>3. CASE k = 0
    <3> DEFINE f == [n \in 0 .. 0 |-> t]
    <3>1. f = [n \in 0 .. 0 |-> IF n = 0 THEN t ELSE LET u == f[n - 1] IN ChainStep(m, halt, u)]
      OBVIOUS
    <3>2. Is(f, k)
      BY <2>3, <3>1
    <3> QED BY <2>1, <3>2
  <2>4. CASE k # 0
    <3>0. k - 1 \in 0 .. NumCells /\ ~(k <= k - 1)
      BY <1>0, <2>2, <2>4
    <3>1. k - 1 \in 0 .. NumCells /\ k - 1 \notin bad
      BY <2>1, <3>0
    <3>2. PICK g : Is(g, k - 1)
      BY <3>1
    <3> DEFINE f == [n \in 0 .. k |-> IF n = k THEN ChainStep(m, halt, g[k - 1]) ELSE g[n]]
    <3>3. \A n \in 0 .. k - 1 : g[n] = IF n = 0 THEN t ELSE ChainStep(m, halt, g[n - 1])
      BY <3>2
    <3>4. \A n \in 0 .. k : f[n] = IF n = 0 THEN t ELSE ChainStep(m, halt, f[n - 1])
      <4> TAKE n \in 0 .. k
      <4>1. CASE n = k
        <5>1. f[n] = ChainStep(m, halt, g[k - 1]) /\ f[n - 1] = g[n - 1]
          BY <2>2, <2>4, <4>1
        <5> QED BY <2>4, <4>1, <5>1
      <4>2. CASE n # k /\ n = 0
        BY <2>2, <2>4, <3>3, <4>2
      <4>3. CASE n # k /\ n # 0
        <5>1. n \in 0 .. k - 1 /\ f[n] = g[n] /\ f[n - 1] = g[n - 1]
          BY <2>2, <2>4, <4>3
        <5> QED BY <3>3, <4>3, <5>1
      <4> QED BY <4>1, <4>2, <4>3
    <3>5. f = [n \in 0 .. k |-> f[n]]
      OBVIOUS
    <3> HIDE DEF f
    <3>6. Is(f, k)
      BY <3>4, <3>5
    <3> QED BY <2>1, <3>6
  <2> QED BY <2>3, <2>4
<1>4. \E f : Is(f, NumCells)
  <2>1. NumCells \in 0 .. NumCells
    BY <1>0
  <2> QED BY <1>3, <2>1
<1>5. Is(all, NumCells)
  BY <1>4, Zenon
<1> HIDE DEF all
<1>6. \A n \in 0 .. NumCells : all[n] = IF n = 0 THEN t ELSE ChainStep(m, halt, all[n - 1])
  BY <1>5
<1>7. all[0] = t /\ \A n \in 1 .. NumCells : all[n] = ChainStep(m, halt, all[n - 1])
  BY <1>0, <1>6
<1> QED BY <1>1, <1>2, <1>7 DEF Walks

LEMMA TooMany ==
  ASSUME NEW k \in Nat, NEW f, \A j \in 1 .. k : f[j] \in PlaceType,
         \A i, j \in 1 .. k : f[i] = f[j] => i = j
  PROVE  k <= NumCells
<1> SUFFICES ASSUME NumCells < k PROVE FALSE
  BY CellsFinite
<1> DEFINE g == [j \in 1 .. k |-> f[j]]
<1>1. g \in [1 .. k -> PlaceType] /\ \A j \in 1 .. k : g[j] = f[j]
  OBVIOUS
<1>2. IsFiniteSet(1 .. k) /\ Cardinality(1 .. k) = k
  BY FS_Interval
<1> HIDE DEF g
<1>3. \E i, j \in 1 .. k : i # j /\ g[i] = g[j]
  BY <1>1, <1>2, CellsFinite, FS_PigeonHole
<1> QED BY <1>1, <1>3

(* The list of free cells is walked from its head to its end.              *)
LEMMA FreeOnes ==
  ASSUME NEW m, NEW G, NEW k, FreeList(m, G, k)
  PROVE  Links!FreeCells(m) = {G[j] : j \in 1 .. k}
<1>1. /\ k \in Nat /\ G \in [Nat -> PlaceType]
      /\ m.freeTuples = Pl(G, k) /\ \A j \in 1 .. k : CellOf(m, G[j]).next = Pl(G, j - 1)
      /\ \A i, j \in 1 .. k : G[i] = G[j] => i = j
  BY DEF FreeList
<1>2. NumCells \in Nat /\ k <= NumCells
  <2>1. \A j \in 1 .. k : G[j] \in PlaceType
    BY <1>1
  <2> QED BY <1>1, <2>1, CellsFinite, TooMany
<1>3. PICK f : f = Links!Chain(m, m.freeTuples, {NoTuple}) /\ Walks(f, m, m.freeTuples, {NoTuple})
  BY ChainExists
<1>4. Links!FreeCells(m) = {f[n] : n \in 0 .. NumCells} \ {NoTuple}
  BY <1>3, RelOps DEF Links!FreeCells, NumCells
<1> DEFINE bad == {n \in 0 .. NumCells : f[n] # IF n <= k THEN Pl(G, k - n) ELSE NoTuple}
<1>5. bad = {}
  <2> SUFFICES ASSUME bad # {} PROVE FALSE
    OBVIOUS
  <2>1. PICK n \in bad : \A l \in bad : n <= l
    <3>1. bad \subseteq Nat
      BY <1>2
    <3> HIDE DEF bad
    <3> QED BY <3>1, Smallest
  <2>2. n \in Nat /\ n <= NumCells
    BY <1>2
  <2>3. n # 0
    <3>1. f[0] = Pl(G, k) /\ k - 0 = k
      BY <1>1, <1>3 DEF Walks
    <3> QED BY <1>1, <2>1, <3>1
  <2>4. n - 1 \in 0 .. NumCells /\ n \in 1 .. NumCells /\ n - 1 \notin bad
    BY <1>2, <2>1, <2>2, <2>3
  <2>5. f[n] = ChainStep(m, {NoTuple}, f[n - 1]) /\ f[n - 1] = IF n - 1 <= k THEN Pl(G, k - (n - 1)) ELSE NoTuple
    BY <1>3, <2>4 DEF Walks
  <2> HIDE DEF bad
  <2>6. CASE n <= k
    <3>1. k - (n - 1) \in 1 .. k /\ k - (n - 1) - 1 = k - n /\ k - (n - 1) # 0 /\ n - 1 <= k
      BY <1>1, <2>2, <2>3, <2>6
    <3>2. f[n - 1] = G[k - (n - 1)]
      BY <2>5, <3>1 DEF Pl
    <3>3. f[n - 1] \in PlaceType
      BY <1>1, <3>1, <3>2
    <3>4. f[n] = CellOf(m, G[k - (n - 1)]).next
      BY <2>5, <3>2, <3>3, PlaceFacts DEF ChainStep
    <3>5. f[n] = Pl(G, k - n)
      BY <1>1, <3>1, <3>4
    <3> QED BY <2>1, <2>6, <3>5 DEF bad
  <2>7. CASE ~(n <= k)
    <3>1. f[n - 1] = NoTuple
      <4>1. CASE n - 1 <= k
        <5>1. k - (n - 1) = 0
          BY <1>1, <2>2, <2>7, <4>1
        <5> QED BY <2>5, <4>1, <5>1 DEF Pl
      <4>2. CASE ~(n - 1 <= k)
        BY <2>5, <4>2
      <4> QED BY <4>1, <4>2
    <3>2. f[n] = NoTuple
      BY <2>5, <3>1 DEF ChainStep
    <3> QED BY <2>1, <2>7, <3>2 DEF bad
  <2> QED BY <2>6, <2>7
<1>6. ASSUME NEW j \in 1 .. k PROVE G[j] \in {f[n] : n \in 0 .. NumCells} \ {NoTuple}
  <2>1. k - j \in 0 .. NumCells /\ k - j <= k /\ k - (k - j) = j /\ j # 0 /\ j \in Nat
    BY <1>1, <1>2
  <2>2. f[k - j] = Pl(G, k - (k - j))
    BY <1>5, <2>1
  <2>3. f[k - j] = G[j] /\ G[j] \in PlaceType
    BY <1>1, <2>1, <2>2 DEF Pl
  <2> QED BY <2>1, <2>3, PlaceFacts
<1>7. ASSUME NEW n \in 0 .. NumCells, f[n] # NoTuple PROVE \E j \in 1 .. k : f[n] = G[j]
  <2>1. n <= k /\ f[n] = Pl(G, k - n)
    BY <1>5, <1>7
  <2>2. k - n \in 1 .. k /\ f[n] = G[k - n]
    BY <1>1, <1>2, <1>7, <2>1 DEF Pl
  <2> QED BY <2>2
<1> QED BY <1>4, <1>6, <1>7

-----------------------------------------------------------------------------
(* The tuples of A that stub s has inserted and not deleted, and the       *)
(* newest of S among those up to x.                                        *)
ShownBy(A, I, D, s) == {a \in A : s \notin I[a] /\ s \in D[a]}
Greatest(S, x, z) == z \in S \cup {0} /\ z <= x /\ \A a \in S : a <= x => a <= z

(* After n steps from x the walk has come to y, and has not stopped before *)
(* z.                                                                      *)
Come(f, P, A, z, n) ==
  \E y \in A \cup {0} : /\ f[n] = Pl(P, y) /\ z <= y
                        /\ y = z \/ \A i \in 0 .. n - 1 : \E v \in A : f[i] = Pl(P, v) /\ y < v

LEMMA GreatestExists ==
  ASSUME NEW S, S \subseteq Nat \ {0}, NEW x \in Nat
  PROVE  \E z : Greatest(S, x, z)
<1>0. x + 1 \in Nat /\ x + 1 > 0
  OBVIOUS
<1>1. PICK y \in S \cup {0} : Adjacent(S, y, x + 1)
  BY <1>0, NextBelow
<1>2. y \in Nat /\ y < x + 1 /\ \A a \in S : a \in Nat /\ (a <= y \/ x + 1 <= a)
  BY <1>1 DEF Adjacent
<1> QED BY <1>2 DEF Greatest

LEMMA ShownFound ==
  ASSUME NEW m, NEW P, NEW A, NEW B, NEW G, NEW k, NEW R, NEW I, NEW D,
         RelMemory(m, P, A, B, G, k, R, I, D), NEW x \in A \cup {0}, NEW s, NEW z,
         Greatest(ShownBy(A, I, D, s), x, z)
  PROVE  Rel!FirstShown(m, Pl(P, x), s) = Pl(P, z)
<1>1. /\ RelType(m) /\ P \in Seq(PlaceType) /\ A \subseteq B /\ B \subseteq 1 .. Len(P)
      /\ InList(m, P, A) /\ Cells(m, P, B, R, I, D) /\ Apart(m, P, B, G, k)
  BY DEF RelMemory
<1>2. PICK S : S = ShownBy(A, I, D, s)
  OBVIOUS
<1>3. z \in S \cup {0} /\ z <= x /\ S \subseteq A /\ \A a \in S : a <= x => a <= z
  BY <1>2 DEF Greatest, ShownBy
<1>4. /\ \A a \in A : a \in Nat /\ a # 0 /\ a > 0 /\ P[a] \in PlaceType /\ P[a] # NoTuple /\ Pl(P, a) = P[a]
      /\ \A a, b \in A : P[a] = P[b] => a = b
      /\ A \subseteq Nat \ {0} /\ Pl(P, 0) = NoTuple /\ x \in Nat /\ z \in Nat /\ z \in A \cup {0}
  BY <1>1, <1>3, PlaceFacts DEF Apart, Pl
<1>5. PICK halt : halt = {u \in PlaceType : s \notin CellOf(m, u).toInsert /\ s \in CellOf(m, u).toDelete}
                          \cup {NoTuple}
  OBVIOUS
<1>6. \A a \in A : P[a] \in halt <=> a \in S
  <2> TAKE a \in A
  <2>1. CellOf(m, P[a]).toInsert = I[a] /\ CellOf(m, P[a]).toDelete = D[a]
    BY <1>1 DEF Cells
  <2> QED BY <1>2, <1>4, <1>5, <2>1 DEF ShownBy
<1>7. PICK t : t = Pl(P, x)
  OBVIOUS
<1>8. PICK f : f = Rel!Chain(m, t, halt) /\ Walks(f, m, t, halt)
  BY ChainExists
<1>9. Rel!FirstShown(m, t, s) = f[NumCells]
  <2>1. /\ Rel!Page = Page /\ Rel!Pos = Pos /\ Rel!NoTuple = NoTuple /\ PlaceType = Page \X Pos
        /\ \A u : Rel!Shows(m, u, s) <=> s \notin CellOf(m, u).toInsert /\ s \in CellOf(m, u).toDelete
    BY RelOps DEF Rel!Page, Page, Rel!Pos, Pos, PlaceType, Rel!Shows
  <2>2. {u \in Rel!Page \X Rel!Pos : Rel!Shows(m, u, s)} \cup {Rel!NoTuple} = halt
    BY <1>5, <2>1
  <2> QED BY <1>8, <2>2 DEF Rel!FirstShown, NumCells
<1>10. NumCells \in Nat
  BY CellsFinite
<1> DEFINE bad == {n \in 0 .. NumCells : ~Come(f, P, A, z, n)}
<1>11. bad = {}
  <2> SUFFICES ASSUME bad # {} PROVE FALSE
    OBVIOUS
  <2>1. PICK n \in bad : \A l \in bad : n <= l
    <3>1. bad \subseteq Nat
      BY <1>10
    <3> HIDE DEF bad
    <3> QED BY <3>1, Smallest
  <2>2. n \in Nat /\ n <= NumCells /\ ~Come(f, P, A, z, n)
    BY <1>10, <2>1
  <2>3. n # 0
    <3>1. f[0] = Pl(P, x) /\ \A i \in 0 .. 0 - 1 : FALSE
      BY <1>7, <1>8 DEF Walks
    <3>2. Come(f, P, A, z, 0)
      BY <1>3, <3>1 DEF Come
    <3> QED BY <2>2, <3>2
  <2>4. n - 1 \in 0 .. NumCells /\ n \in 1 .. NumCells /\ n - 1 \notin bad
    BY <1>10, <2>1, <2>2, <2>3
  <2>5. f[n] = ChainStep(m, halt, f[n - 1]) /\ Come(f, P, A, z, n - 1)
    BY <1>8, <2>4 DEF Walks
  <2> HIDE DEF bad
  <2>6. PICK y \in A \cup {0} :
          /\ f[n - 1] = Pl(P, y) /\ z <= y
          /\ y = z \/ \A i \in 0 .. n - 1 - 1 : \E v \in A : f[i] = Pl(P, v) /\ y < v
    BY <2>5 DEF Come
  <2>7. CASE y = z
    <3>1. f[n - 1] \in halt
      BY <1>3, <1>4, <1>5, <1>6, <2>6, <2>7
    <3>2. f[n] = Pl(P, y)
      BY <2>5, <2>6, <3>1 DEF ChainStep
    <3> QED BY <2>2, <2>6, <2>7, <3>2 DEF Come
  <2>8. CASE y # z
    <3>1. y \in Nat /\ y \in A /\ z < y
      BY <1>4, <2>6, <2>8
    <3>2. y <= x
      <4>1. CASE n - 1 = 0
        <5>1. P[y] = Pl(P, x)
          BY <1>4, <1>7, <1>8, <2>6, <3>1, <4>1 DEF Walks
        <5> QED BY <1>4, <3>1, <5>1
      <4>2. CASE n - 1 # 0
        <5>1. 0 \in 0 .. n - 1 - 1
          BY <2>2, <2>3, <4>2
        <5>2. PICK v \in A : f[0] = Pl(P, v) /\ y < v
          BY <2>6, <2>8, <5>1
        <5>3. P[v] = Pl(P, x)
          BY <1>4, <1>7, <1>8, <5>2 DEF Walks
        <5>4. v = x
          BY <1>4, <5>3
        <5> QED BY <1>4, <3>1, <5>2, <5>4
      <4> QED BY <4>1, <4>2
    <3>3. f[n - 1] = P[y] /\ P[y] \notin halt
      BY <1>3, <1>4, <1>6, <2>6, <3>1, <3>2
    <3>4. f[n] = CellOf(m, P[y]).next
      BY <2>5, <3>3 DEF ChainStep
    <3>5. PICK v \in A \cup {0} : Adjacent(A, v, y)
      BY <1>4, <3>1, NextBelow
    <3>6. Pl(P, v) = CellOf(m, P[y]).next
      <4>1. y # Len(P) + 1
        BY <1>1, <3>1
      <4> QED BY <1>1, <3>1, <3>5, <4>1 DEF InList
    <3>7. v \in Nat /\ v < y /\ z <= v
      BY <1>4, <3>1, <3>5 DEF Adjacent
    <3>8. ASSUME NEW i \in 0 .. n - 1 PROVE \E u \in A : f[i] = Pl(P, u) /\ v < u
      <4>1. CASE i = n - 1
        BY <2>6, <3>1, <3>7, <4>1
      <4>2. CASE i # n - 1
        <5>1. i \in 0 .. n - 1 - 1
          BY <2>2, <4>2
        <5>2. PICK u \in A : f[i] = Pl(P, u) /\ y < u
          BY <2>6, <2>8, <5>1
        <5> QED BY <1>4, <3>1, <3>7, <5>2
      <4> QED BY <4>1, <4>2
    <3>9. Come(f, P, A, z, n)
      BY <3>4, <3>5, <3>6, <3>7, <3>8 DEF Come
    <3> QED BY <2>2, <3>9
  <2> QED BY <2>7, <2>8
<1>12. \A n \in 0 .. NumCells : Come(f, P, A, z, n)
  BY <1>11
<1> HIDE DEF bad
<1>13. PICK y \in A \cup {0} :
         /\ f[NumCells] = Pl(P, y) /\ z <= y
         /\ y = z \/ \A i \in 0 .. NumCells - 1 : \E v \in A : f[i] = Pl(P, v) /\ y < v
  <2>1. Come(f, P, A, z, NumCells)
    BY <1>10, <1>12
  <2> QED BY <2>1 DEF Come
<1>14. ASSUME y # z PROVE FALSE
  <2>1. y \in Nat /\ y \in A /\ z < y
    BY <1>4, <1>13, <1>14
  <2>2. \A i \in 0 .. NumCells : \E v \in A : f[i] = P[v] /\ z < v
    <3> TAKE i \in 0 .. NumCells
    <3>1. CASE i = NumCells
      BY <1>4, <1>13, <2>1, <3>1
    <3>2. CASE i # NumCells
      <4>1. i \in 0 .. NumCells - 1
        BY <1>10, <3>2
      <4>2. PICK v \in A : f[i] = Pl(P, v) /\ y < v
        BY <1>13, <1>14, <4>1
      <4> QED BY <1>4, <2>1, <4>2
    <3> QED BY <3>1, <3>2
  <2>3. ASSUME NEW i \in 0 .. NumCells, NEW j \in 0 .. NumCells, i < j PROVE f[i] # f[j]
    <3>1. PICK w \in A : f[j] = P[w] /\ z < w
      BY <2>2
    <3>2. PICK u \in A \cup {0} :
            /\ f[j] = Pl(P, u)
            /\ u = z \/ \A l \in 0 .. j - 1 : \E v \in A : f[l] = Pl(P, v) /\ u < v
      BY <1>12 DEF Come
    <3>3. u = w
      BY <1>4, <3>1, <3>2
    <3>4. i \in 0 .. j - 1 /\ u # z
      BY <1>4, <1>10, <2>3, <3>1, <3>3
    <3>5. PICK v \in A : f[i] = Pl(P, v) /\ u < v
      BY <3>2, <3>4
    <3> QED BY <1>4, <3>1, <3>3, <3>5
  <2> DEFINE g == [j \in 1 .. NumCells + 1 |-> f[j - 1]]
  <2>4. \A j \in 1 .. NumCells + 1 : j - 1 \in 0 .. NumCells /\ g[j] = f[j - 1]
    BY <1>10
  <2>5. PICK h : h = g
    OBVIOUS
  <2> HIDE DEF g
  <2>6. \A j \in 1 .. NumCells + 1 : h[j] \in PlaceType
    BY <1>4, <2>2, <2>4, <2>5
  <2>7. \A i, j \in 1 .. NumCells + 1 : h[i] = h[j] => i = j
    <3> TAKE i, j \in 1 .. NumCells + 1
    <3>1. i - 1 \in 0 .. NumCells /\ j - 1 \in 0 .. NumCells /\ h[i] = f[i - 1] /\ h[j] = f[j - 1]
      BY <2>4, <2>5
    <3>2. i - 1 < j - 1 => h[i] # h[j]
      BY <2>3, <3>1
    <3>3. j - 1 < i - 1 => h[i] # h[j]
      BY <2>3, <3>1
    <3> QED BY <1>10, <3>2, <3>3
  <2>8. NumCells + 1 \in Nat
    BY <1>10
  <2>9. NumCells + 1 <= NumCells
    BY <2>6, <2>7, <2>8, TooMany
  <2> QED BY <1>10, <2>9
<1> QED BY <1>7, <1>9, <1>13, <1>14

-----------------------------------------------------------------------------
(* The first of the empty pages is taken off their list.                   *)
LEMMA FirstPageTaken ==
  ASSUME NEW L \in Seq(Page), L # <<>>, NoneTwice(L), NEW p, p = Head(L)
  PROVE  /\ p \in PagesOf(L) /\ p \in Page /\ Tail(L) \in Seq(Page)
         /\ PagesOf(Tail(L)) = PagesOf(L) \ {p} /\ NoneTwice(Tail(L))
<1>1. /\ p \in Page /\ p = L[1] /\ Len(L) \in Nat \ {0} /\ Tail(L) \in Seq(Page)
      /\ Len(Tail(L)) = Len(L) - 1 /\ \A i \in 1 .. Len(Tail(L)) : Tail(L)[i] = L[i + 1]
  OBVIOUS
<1>2. \A i, j \in 1 .. Len(L) : L[i] = L[j] => i = j
  BY DEF NoneTwice
<1>3. \A i \in 1 .. Len(Tail(L)) : i + 1 \in 1 .. Len(L) /\ Tail(L)[i] = L[i + 1] /\ L[i + 1] # p
  BY <1>1, <1>2
<1>4. ASSUME NEW i \in 1 .. Len(L), L[i] # p
      PROVE  i - 1 \in 1 .. Len(Tail(L)) /\ Tail(L)[i - 1] = L[i]
  <2>1. i # 1
    BY <1>1, <1>4
  <2>2. i - 1 \in 1 .. Len(Tail(L)) /\ (i - 1) + 1 = i
    BY <1>1, <2>1
  <2> QED BY <1>1, <2>2
<1>5. NoneTwice(Tail(L))
  BY <1>2, <1>3 DEF NoneTwice
<1>6. PagesOf(Tail(L)) \subseteq PagesOf(L) \ {p}
  BY <1>3 DEF PagesOf
<1>7. PagesOf(L) \ {p} \subseteq PagesOf(Tail(L))
  BY <1>4 DEF PagesOf
<1>8. p \in PagesOf(L)
  <2>1. 1 \in 1 .. Len(L)
    BY <1>1
  <2> QED BY <1>1, <2>1 DEF PagesOf
<1>9. PagesOf(Tail(L)) = PagesOf(L) \ {p}
  BY <1>6, <1>7
<1> QED BY <1>1, <1>5, <1>8, <1>9

(* The cells of a new page are linked from its first to its last.          *)
LEMMA PageLaid ==
  ASSUME NEW m, RelType(m), m.emptyPageList # <<>>, NEW p, p = Head(m.emptyPageList),
         NEW w, w = Rel!allocateMoreSpace(m)
  PROVE  /\ RelType(w) /\ w.emptyPageList = Tail(m.emptyPageList) /\ w.outOfMemory = m.outOfMemory
         /\ w.stubs = m.stubs /\ w.nextTuple = m.nextTuple /\ w.tuples = m.tuples
         /\ w.freeTuples = <<p, 0>>
         /\ \A u \in PlaceType : u[1] # p => CellOf(w, u) = CellOf(m, u)
         /\ \A i \in Pos : CellOf(w, <<p, i>>).next =
              IF i = TuplesPerPage - 1 THEN NoTuple ELSE <<p, i + 1>>
<1> DEFINE link == [i \in Pos |-> IF i = TuplesPerPage - 1 THEN NoTuple ELSE <<p, i + 1>>]
           cells == [i \in Pos |-> [BlankCell EXCEPT !.next = link[i]]]
<1>1. /\ DOMAIN m = RelFields /\ m.page \in [Page -> PageType] /\ m.emptyPageList \in Seq(Page)
      /\ p \in Page
  BY DEF RelType
<1>2. TuplesPerPage \in Nat /\ TuplesPerPage > 1 /\ 0 \in Pos
  BY TuplesPerPageAssumption DEF Pos
<1>3. \A i \in Pos : link[i] \in ListPlace
  <2> TAKE i \in Pos
  <2>1. i # TuplesPerPage - 1 => i + 1 \in Pos
    BY <1>2 DEF Pos
  <2> QED BY <1>1, <2>1 DEF ListPlace, PlaceType
<1>4. w = [[[m EXCEPT !.emptyPageList = Tail(@)] EXCEPT !.freeTuples = <<p, 0>>]
              EXCEPT !.page[p].cell = cells]
  <2>1. Rel!NewPage(m) = p /\ Rel!allocatePage(m) = [m EXCEPT !.emptyPageList = Tail(@)]
        /\ Rel!FirstPlace(p) = <<p, 0>> /\ Rel!Pos = Pos /\ Rel!BlankCell = BlankCell
        /\ Rel!NoTuple = NoTuple
        /\ \A i : /\ Rel!LastInPage(<<p, i>>) <=> i = TuplesPerPage - 1
                  /\ Rel!NextPlace(<<p, i>>) = <<p, i + 1>>
    BY RelOps DEF Rel!NewPage, Rel!allocatePage, Rel!FirstPlace, Rel!Pos, Pos, Rel!BlankCell, BlankCell,
       Rel!LastInPage, Rel!NextPlace, Rel!NoTuple, Rel!Nothing, NoTuple, Nothing
  <2>2. [i \in Rel!Pos |-> [Rel!BlankCell EXCEPT !.next =
            IF Rel!LastInPage(<<p, i>>) THEN Rel!NoTuple ELSE Rel!NextPlace(<<p, i>>)]] = cells
    BY <2>1
  <2> HIDE DEF cells, link
  <2> QED BY <2>1, <2>2 DEF Rel!allocateMoreSpace
<1>5. \A i \in Pos : cells[i] \in CellType /\ cells[i].next = link[i]
  <2>1. BlankCell \in CellType
    BY DEF BlankCell, CellType, Nothing
  <2>2. PICK b : b = BlankCell
    OBVIOUS
  <2> HIDE DEF link
  <2> TAKE i \in Pos
  <2>3. PICK d : d = [b EXCEPT !.next = link[i]]
    OBVIOUS
  <2>4. d \in CellType /\ d.next = link[i]
    BY <1>3, <2>1, <2>2, <2>3, FieldsWritten
  <2> QED BY <2>2, <2>3, <2>4
<1>6. cells \in [Pos -> CellType]
  <2>1. cells = [i \in Pos |-> cells[i]]
    OBVIOUS
  <2> HIDE DEF cells
  <2> QED BY <1>5, <2>1
<1>7. PICK cc : cc = cells
  OBVIOUS
<1> HIDE DEF cells
<1>8. m.page[p] \in PageType
  BY <1>1
<1>9. PICK pp : pp = [m.page[p] EXCEPT !.cell = cc]
  OBVIOUS
<1>10. pp \in PageType /\ pp.cell = cc
  BY <1>6, <1>7, <1>8, <1>9 DEF PageType
<1>11. PICK pages : pages = [m.page EXCEPT ![p] = pp]
  OBVIOUS
<1>12. pages \in [Page -> PageType] /\ \A q \in Page : pages[q] = IF q = p THEN pp ELSE m.page[q]
  BY <1>1, <1>10, <1>11
<1>13. /\ DOMAIN w = RelFields /\ w.page = pages /\ w.emptyPageList = Tail(m.emptyPageList)
       /\ w.outOfMemory = m.outOfMemory /\ w.stubs = m.stubs /\ w.nextTuple = m.nextTuple
       /\ w.tuples = m.tuples /\ w.freeTuples = <<p, 0>>
  BY <1>1, <1>4, <1>7, <1>9, <1>11 DEF RelFields
<1>14. RelType(w)
  <2>1. Tail(m.emptyPageList) \in Seq(Page) /\ <<p, 0>> \in ListPlace
    BY <1>1, <1>2 DEF ListPlace, PlaceType
  <2> QED BY <1>12, <1>13, <2>1 DEF RelType
<1>15. \A u \in PlaceType : u[1] # p => CellOf(w, u) = CellOf(m, u)
  BY <1>12, <1>13, PlaceFacts DEF CellOf
<1>16. \A i \in Pos : CellOf(w, <<p, i>>) = cc[i]
  BY <1>1, <1>10, <1>12, <1>13 DEF CellOf
<1> QED BY <1>5, <1>7, <1>13, <1>14, <1>15, <1>16

(* Space for a tuple: the free cells there are, or those of a new page; or *)
(* memory is out.                                                          *)
HasSpace(m) == m.freeTuples # NoTuple \/ m.emptyPageList # <<>>

SameAside(m, w) == w.outOfMemory = m.outOfMemory /\ w.stubs = m.stubs /\ w.nextTuple = m.nextTuple

LEMMA SpaceMade ==
  ASSUME NEW m, NEW P, NEW A, NEW B, NEW G, NEW k, NEW R, NEW I, NEW D,
         RelMemory(m, P, A, B, G, k, R, I, D), HasSpace(m), NEW w, w = Rel!WithSpace(m)
  PROVE  /\ SameAside(m, w)
         /\ \E H, l : l # 0 /\ RelMemory(w, P, A, B, H, l, R, I, D)
<1>1. /\ RelType(m) /\ P \in Seq(PlaceType) /\ A \subseteq B /\ B \subseteq 1 .. Len(P)
      /\ R \in [Nat -> Int] /\ I \in [Nat -> SUBSET Stub] /\ D \in [Nat -> SUBSET Stub]
      /\ InList(m, P, A) /\ FreeList(m, G, k) /\ Cells(m, P, B, R, I, D) /\ Apart(m, P, B, G, k)
  BY DEF RelMemory
<1>2. CASE m.freeTuples # NoTuple
  <2>1. w = m
    BY <1>2, RelOps DEF Rel!WithSpace
  <2>2. k # 0
    BY <1>1, <1>2 DEF FreeList, Pl
  <2> QED BY <2>1, <2>2 DEF SameAside
<1>3. CASE m.freeTuples = NoTuple
  <2>1. m.emptyPageList # <<>>
    BY <1>3 DEF HasSpace
  <2>2. w = Rel!allocateMoreSpace(m)
    BY <1>3, RelOps DEF Rel!WithSpace
  <2>3. PICK L, p : L = m.emptyPageList /\ p = Head(L)
    OBVIOUS
  <2>4. /\ RelType(w) /\ w.emptyPageList = Tail(L) /\ SameAside(m, w) /\ w.tuples = m.tuples
        /\ w.freeTuples = <<p, 0>>
        /\ \A u \in PlaceType : u[1] # p => CellOf(w, u) = CellOf(m, u)
        /\ \A i \in Pos : CellOf(w, <<p, i>>).next =
             IF i = TuplesPerPage - 1 THEN NoTuple ELSE <<p, i + 1>>
    <3>1. p = Head(m.emptyPageList) /\ RelType(m)
      BY <1>1, <2>3
    <3>2. /\ RelType(w) /\ w.emptyPageList = Tail(m.emptyPageList) /\ w.outOfMemory = m.outOfMemory
          /\ w.stubs = m.stubs /\ w.nextTuple = m.nextTuple /\ w.tuples = m.tuples
          /\ w.freeTuples = <<p, 0>>
          /\ \A u \in PlaceType : u[1] # p => CellOf(w, u) = CellOf(m, u)
          /\ \A i \in Pos : CellOf(w, <<p, i>>).next =
               IF i = TuplesPerPage - 1 THEN NoTuple ELSE <<p, i + 1>>
      BY <2>1, <2>2, <3>1, PageLaid
    <3> QED BY <2>3, <3>2 DEF SameAside
  <2>5. /\ L \in Seq(Page) /\ NoneTwice(L) /\ p \in PagesOf(L) /\ p \in Page
        /\ PagesOf(Tail(L)) = PagesOf(L) \ {p} /\ NoneTwice(Tail(L))
    <3>1. L \in Seq(Page) /\ NoneTwice(L) /\ L # <<>>
      BY <1>1, <2>1, <2>3 DEF Apart, RelType
    <3> QED BY <2>3, <3>1, FirstPageTaken
  <2>6. k = 0
    BY <1>1, <1>3, PlaceFacts DEF FreeList, Pl
  <2>7. PICK l : l = TuplesPerPage
    OBVIOUS
  <2>8. l \in Nat /\ l > 1 /\ Pos = 0 .. l - 1
    BY <2>7, TuplesPerPageAssumption DEF Pos
  <2>9. PICK H : H = [j \in Nat |-> IF j \in 1 .. l THEN <<p, l - j>> ELSE <<p, 0>>]
    OBVIOUS
  <2>10. H \in [Nat -> PlaceType] /\ \A j \in 1 .. l : l - j \in Pos /\ H[j] = <<p, l - j>>
    BY <2>5, <2>8, <2>9 DEF PlaceType
  <2>11. \A x \in B : P[x] \in PlaceType /\ P[x][1] # p
    <3> TAKE x \in B
    <3>1. P[x] \in PlaceType
      BY <1>1
    <3>2. P[x][1] \notin PagesOf(L)
      BY <1>1, <2>3, <3>1 DEF Apart
    <3> QED BY <2>5, <3>1, <3>2
  <2>12. \A x \in B : CellOf(w, P[x]) = CellOf(m, P[x])
    BY <2>4, <2>11
  <2>13. InList(w, P, A)
    <3>1. \A x \in A : CellOf(w, P[x]) = CellOf(m, P[x])
      BY <1>1, <2>12
    <3>2. w.tuples = m.tuples
      BY <2>4
    <3> QED BY <1>1, <3>1, <3>2 DEF InList
  <2>14. FreeList(w, H, l)
    <3>1. w.freeTuples = Pl(H, l)
      <4>1. l \in 1 .. l /\ l - l = 0 /\ l # 0
        BY <2>8
      <4> QED BY <2>4, <2>10, <4>1 DEF Pl
    <3>2. ASSUME NEW j \in 1 .. l PROVE CellOf(w, H[j]).next = Pl(H, j - 1)
      <4>1. CellOf(w, H[j]).next = IF l - j = l - 1 THEN NoTuple ELSE <<p, l - j + 1>>
        BY <2>4, <2>7, <2>10
      <4>2. CASE j = 1
        BY <2>8, <4>1, <4>2 DEF Pl
      <4>3. CASE j # 1
        <5>1. j - 1 \in 1 .. l /\ j - 1 # 0 /\ l - (j - 1) = l - j + 1 /\ l - j # l - 1
          BY <2>8, <4>3
        <5> QED BY <2>10, <4>1, <5>1 DEF Pl
      <4> QED BY <4>2, <4>3
    <3>3. ASSUME NEW i \in 1 .. l, NEW j \in 1 .. l, H[i] = H[j] PROVE i = j
      <4>1. <<p, l - i>> = <<p, l - j>>
        BY <2>10, <3>3
      <4>2. l - i = l - j
        BY <4>1
      <4> QED BY <2>8, <4>2
    <3> QED BY <2>8, <2>10, <3>1, <3>2, <3>3 DEF FreeList
  <2>15. Cells(w, P, B, R, I, D)
    <3>1. \A x \in B : IdOf(w, P[x]) = IdOf(m, P[x])
      BY <2>12 DEF IdOf
    <3> QED BY <1>1, <2>12, <3>1 DEF Cells
  <2>16. Apart(w, P, B, H, l)
    <3>1. ASSUME NEW x \in B, NEW j \in 1 .. l PROVE P[x] # H[j]
      <4>1. H[j][1] = p
        BY <2>10
      <4> QED BY <2>11, <4>1
    <3>2. ASSUME NEW t \in PlaceType
          PROVE  t[1] \notin PagesOf(Tail(L)) <=> (\E x \in B : P[x] = t) \/ \E j \in 1 .. l : H[j] = t
      <4>1. t[1] \notin PagesOf(L) <=> \E x \in B : P[x] = t
        BY <1>1, <2>3, <2>6 DEF Apart
      <4>2. t[1] = p <=> \E j \in 1 .. l : H[j] = t
        <5>1. ASSUME t[1] = p PROVE \E j \in 1 .. l : H[j] = t
          <6>1. t[2] \in Pos /\ t = <<p, t[2]>>
            BY <5>1, PlaceFacts
          <6>2. l - t[2] \in 1 .. l /\ l - (l - t[2]) = t[2]
            BY <2>8, <6>1
          <6>3. H[l - t[2]] = t
            BY <2>10, <6>1, <6>2
          <6> QED BY <6>2, <6>3
        <5>2. ASSUME NEW j \in 1 .. l, H[j] = t PROVE t[1] = p
          BY <2>10, <5>2
        <5> QED BY <5>1, <5>2
      <4>3. t[1] \notin PagesOf(Tail(L)) <=> t[1] \notin PagesOf(L) \/ t[1] = p
        BY <2>5
      <4> QED BY <4>1, <4>2, <4>3
    <3>3. w.emptyPageList = Tail(L)
      BY <2>4
    <3> QED BY <1>1, <2>5, <3>1, <3>2, <3>3 DEF Apart
  <2>17. l # 0 /\ RelMemory(w, P, A, B, H, l, R, I, D)
    BY <1>1, <2>4, <2>8, <2>13, <2>14, <2>15, <2>16 DEF RelMemory
  <2> QED BY <2>4, <2>17
<1> QED BY <1>2, <1>3

(* A tuple takes the first free cell, and is the first of the list.        *)
Places(m, N, t, c, w) ==
  /\ t = m.freeTuples /\ c = [Rel!NewCell(m, N) EXCEPT !.next = m.tuples]
  /\ w = [Rel!WithCell(Rel!SetPrev(m, m.tuples, t), t, c)
             EXCEPT !.freeTuples = CellOf(m, t).next, !.tuples = t]

LEMMA Placed ==
  ASSUME NEW m, NEW P, NEW A, NEW B, NEW G, NEW k, NEW R, NEW I, NEW D,
         RelMemory(m, P, A, B, G, k, R, I, D), k # 0, NEW N, N = Len(P) + 1,
         NEW t, NEW c, NEW w, Places(m, N, t, c, w)
  PROVE  /\ RelMemory(w, Append(P, t), A \cup {N}, B \cup {N}, G, k - 1,
                      SetAt(R, N, 1), SetAt(I, N, m.stubs), SetAt(D, N, m.stubs))
         /\ SameBeside(m, w)
<1>1. /\ RelType(m) /\ P \in Seq(PlaceType) /\ A \subseteq B /\ B \subseteq 1 .. Len(P)
      /\ R \in [Nat -> Int] /\ I \in [Nat -> SUBSET Stub] /\ D \in [Nat -> SUBSET Stub]
      /\ InList(m, P, A) /\ FreeList(m, G, k) /\ Cells(m, P, B, R, I, D) /\ Apart(m, P, B, G, k)
  BY DEF RelMemory
<1>2. /\ k \in Nat /\ k > 0 /\ k \in 1 .. k /\ k - 1 \in Nat /\ G \in [Nat -> PlaceType]
      /\ t = G[k] /\ t \in PlaceType /\ t \in ListPlace /\ t # NoTuple
      /\ CellOf(m, t).next = Pl(G, k - 1) /\ Pl(G, k - 1) \in ListPlace
      /\ m.tuples \in ListPlace /\ m.stubs \in SUBSET Stub
  <2>1. t = m.freeTuples
    BY DEF Places
  <2>2. k \in Nat /\ k > 0 /\ k \in 1 .. k /\ k - 1 \in Nat /\ k - 1 \in 0 .. k
    BY <1>1 DEF FreeList
  <2>3. G \in [Nat -> PlaceType] /\ t = G[k] /\ t \in PlaceType /\ CellOf(m, t).next = Pl(G, k - 1)
    BY <1>1, <2>1, <2>2 DEF FreeList, Pl
  <2>4. Pl(G, k - 1) \in ListPlace
    BY <2>2, <2>3 DEF Pl, ListPlace
  <2>5. m.tuples \in ListPlace /\ m.stubs \in SUBSET Stub
    BY <1>1 DEF RelType
  <2> QED BY <2>2, <2>3, <2>4, <2>5, PlaceFacts DEF ListPlace
<1>3. /\ N \in Nat /\ N > 0 /\ N \notin B /\ N \notin A /\ Len(P) \in Nat
      /\ \A x \in B : x \in Nat /\ x > 0 /\ x < N /\ P[x] \in PlaceType /\ P[x] # t
      /\ \A j \in 1 .. k : G[j] \in PlaceType
  BY <1>1, <1>2 DEF Apart
<1>4. PICK prev, free, tuples : prev = "prev" /\ free = "freeTuples" /\ tuples = "tuples"
  OBVIOUS
<1>5. PICK m1 : m1 = Rel!SetPrev(m, m.tuples, t)
  OBVIOUS
<1>6. SetsLink(m, m.tuples, prev, t, m1)
  BY <1>2, <1>4, <1>5, RelOps DEF SetsLink, Rel!SetPrev
<1>7. /\ RelType(m1) /\ SameBeside(m, m1) /\ m1.tuples = m.tuples
      /\ \A u \in PlaceType :
           /\ CellOf(m1, u).id = CellOf(m, u).id /\ CellOf(m1, u).ref = CellOf(m, u).ref
           /\ CellOf(m1, u).toInsert = CellOf(m, u).toInsert
           /\ CellOf(m1, u).toDelete = CellOf(m, u).toDelete
           /\ CellOf(m1, u).next = CellOf(m, u).next
           /\ CellOf(m1, u).prev = IF u = m.tuples THEN t ELSE CellOf(m, u).prev
  BY <1>1, <1>4, <1>6, LinkSet
<1>8. /\ c \in CellType /\ c.id = N /\ c.ref = 1 /\ c.next = m.tuples /\ c.prev = NoTuple
      /\ c.toInsert = m.stubs /\ c.toDelete = m.stubs
  <2>1. c = [id |-> N, ref |-> 1, next |-> m.tuples, prev |-> NoTuple, lin |-> Nothing,
             toInsert |-> m.stubs, toDelete |-> m.stubs]
    BY RelOps DEF Places, Rel!NewCell, Rel!BlankCell, Rel!NoTuple, NoTuple, Rel!Nothing, Nothing
  <2>2. /\ c.id = N /\ c.ref = 1 /\ c.next = m.tuples /\ c.prev = NoTuple
        /\ c.toInsert = m.stubs /\ c.toDelete = m.stubs
    BY <2>1
  <2>3. N \in Nat /\ m.tuples \in PlaceType \cup {NoTuple} /\ m.stubs \in SUBSET Stub
    BY <1>2, <1>3 DEF ListPlace
  <2>4. c \in CellType
    BY <2>1, <2>3, SMTT(30) DEF CellType
  <2> QED BY <2>2, <2>4
<1>9. PICK m2 : m2 = WithCell(m1, t, c)
  OBVIOUS
<1>10. /\ RelType(m2) /\ SameBeside(m1, m2)
       /\ \A u \in PlaceType : CellOf(m2, u) = IF u = t THEN c ELSE CellOf(m1, u)
  <2>1. RelType(m1) /\ t \in PlaceType /\ c \in CellType
    BY <1>2, <1>7, <1>8
  <2>2. /\ RelType(m2) /\ \A u \in PlaceType : CellOf(m2, u) = IF u = t THEN c ELSE CellOf(m1, u)
        /\ m2.emptyPageList = m1.emptyPageList /\ m2.outOfMemory = m1.outOfMemory
        /\ m2.stubs = m1.stubs /\ m2.nextTuple = m1.nextTuple
    BY <1>9, <2>1, CellWritten
  <2> QED BY <2>2 DEF SameBeside
<1>11. PICK n : n = Pl(G, k - 1)
  OBVIOUS
<1>12. PICK m3 : m3 = [m2 EXCEPT !.freeTuples = n]
  OBVIOUS
<1>13. SetsHead(m2, free, n, m3)
  BY <1>2, <1>4, <1>11, <1>12 DEF SetsHead
<1>14. RelType(m3) /\ SameBeside(m2, m3) /\ m3.freeTuples = n /\ \A u : CellOf(m3, u) = CellOf(m2, u)
  BY <1>2, <1>4, <1>10, <1>11, <1>13, ListHead
<1>15. w = [m3 EXCEPT !.tuples = t]
  BY <1>2, <1>5, <1>9, <1>11, <1>12, RelOps DEF Places
<1>16. SetsHead(m3, tuples, t, w)
  BY <1>2, <1>4, <1>15 DEF SetsHead
<1>17. /\ RelType(w) /\ SameBeside(m3, w) /\ w.freeTuples = m3.freeTuples /\ w.tuples = t
       /\ \A u : CellOf(w, u) = CellOf(m3, u)
  <2>1. RelType(m3)
    BY <1>14
  <2>2. /\ RelType(w) /\ SameBeside(m3, w)
        /\ w.tuples = IF tuples = "tuples" THEN t ELSE m3.tuples
        /\ w.freeTuples = IF tuples = "freeTuples" THEN t ELSE m3.freeTuples
        /\ \A u : CellOf(w, u) = CellOf(m3, u)
    BY <1>16, <2>1, ListHead
  <2>3. tuples = "tuples" /\ tuples # "freeTuples"
    BY <1>4
  <2> QED BY <2>2, <2>3
<1>18. SameBeside(m, w)
  BY <1>7, <1>10, <1>14, <1>17 DEF SameBeside
<1>19. /\ CellOf(w, t) = c
       /\ \A u \in PlaceType : u # t =>
            /\ CellOf(w, u).id = CellOf(m, u).id /\ CellOf(w, u).ref = CellOf(m, u).ref
            /\ CellOf(w, u).toInsert = CellOf(m, u).toInsert
            /\ CellOf(w, u).toDelete = CellOf(m, u).toDelete
            /\ CellOf(w, u).next = CellOf(m, u).next
            /\ CellOf(w, u).prev = IF u = m.tuples THEN t ELSE CellOf(m, u).prev
  BY <1>2, <1>7, <1>10, <1>14, <1>17
<1>20. PICK P2 : P2 = Append(P, t)
  OBVIOUS
<1>21. /\ P2 \in Seq(PlaceType) /\ Len(P2) = N /\ P2[N] = t /\ \A x \in 1 .. Len(P) : P2[x] = P[x]
       /\ \A x \in B : P2[x] = P[x]
  BY <1>1, <1>2, <1>20
<1>22. InList(w, P2, A \cup {N})
  <2> SUFFICES ASSUME NEW a \in A \cup {N} \cup {N + 1}, NEW b \in A \cup {N} \cup {0},
                      Adjacent(A \cup {N}, b, a)
               PROVE  /\ Pl(P2, b) = IF a = N + 1 THEN w.tuples ELSE CellOf(w, P2[a]).next
                      /\ b # 0 => CellOf(w, P2[b]).prev = IF a = N + 1 THEN NoTuple ELSE P2[a]
    BY <1>21 DEF InList
  <2>1. /\ \A x \in A : x \in B /\ x \in Nat /\ x > 0 /\ x < N /\ P[x] \in PlaceType /\ P[x] # t /\ P2[x] = P[x]
        /\ b < a /\ \A z \in A \cup {N} : z <= b \/ a <= z
    BY <1>1, <1>3, <1>21 DEF Adjacent
  <2>2. PICK top : top \in A \cup {0} /\ Adjacent(A, top, N)
    <3>1. A \subseteq Nat \ {0}
      BY <2>1
    <3> QED BY <1>3, <3>1, NextBelow
  <2>3. /\ Pl(P, top) = m.tuples /\ (top # 0 => CellOf(m, P[top]).prev = NoTuple)
        /\ top \in Nat /\ \A z \in A : z <= top
    <3>1. \A z \in A : ~(N <= z)
      BY <1>3, <2>1
    <3> QED BY <1>1, <1>3, <2>1, <2>2, <3>1 DEF InList, Adjacent
  <2>4. \A x \in A : P[x] = m.tuples <=> x = top
    <3>1. \A x, y \in A : P[x] = P[y] => x = y
      BY <1>1 DEF Apart
    <3> QED BY <2>1, <2>2, <2>3, <3>1, PlaceFacts DEF Pl
  <2>5. CASE a = N + 1
    <3>1. b = N
      BY <1>3, <2>1, <2>5
    <3>2. Pl(P2, b) = t /\ w.tuples = t
      BY <1>3, <1>17, <1>21, <3>1 DEF Pl
    <3>3. CellOf(w, P2[b]).prev = NoTuple
      BY <1>8, <1>19, <1>21, <3>1
    <3> QED BY <2>5, <3>2, <3>3
  <2>6. CASE a = N
    <3>1. b = top
      <4>0. b < N /\ b # N
        BY <1>3, <2>1, <2>6
      <4>1. b \in A \cup {0} /\ b \in Nat /\ b < N
        BY <2>1, <4>0
      <4>2. top <= b /\ b <= top
        BY <1>3, <2>1, <2>2, <2>3, <2>6, <4>1
      <4> QED BY <2>3, <4>1, <4>2
    <3>2. Pl(P2, top) = Pl(P, top)
      BY <2>1, <2>2 DEF Pl
    <3>3. CellOf(w, P2[a]).next = m.tuples /\ a # N + 1
      <4>1. P2[a] = t /\ a # N + 1
        BY <1>3, <1>21, <2>6
      <4>2. CellOf(w, P2[a]) = c
        BY <1>19, <4>1
      <4> QED BY <1>8, <4>1, <4>2
    <3>4. b # 0 => CellOf(w, P2[b]).prev = t
      BY <1>19, <2>1, <2>2, <2>4, <3>1
    <3> QED BY <1>21, <2>3, <2>6, <3>1, <3>2, <3>3, <3>4
  <2>7. CASE a \in A
    <3>1. b \in A \cup {0} /\ b < a /\ Adjacent(A, b, a) /\ b # N /\ a # N + 1 /\ a # N
      BY <1>3, <2>1, <2>7 DEF Adjacent
    <3>2. /\ Pl(P, b) = CellOf(m, P[a]).next
          /\ b # 0 => CellOf(m, P[b]).prev = P[a]
      BY <1>1, <1>3, <2>7, <3>1 DEF InList
    <3>3. b # 0 => b \in A /\ b # top
      BY <2>1, <2>3, <2>7, <3>1
    <3>4. Pl(P2, b) = Pl(P, b)
      BY <2>1, <3>3 DEF Pl
    <3> QED BY <1>19, <2>1, <2>4, <2>7, <3>1, <3>2, <3>3, <3>4
  <2> QED BY <2>5, <2>6, <2>7
<1>23. \A j \in 1 .. k - 1 : j \in 1 .. k /\ G[j] \in PlaceType /\ G[j] # t /\ CellOf(w, G[j]).next = CellOf(m, G[j]).next
  <2> TAKE j \in 1 .. k - 1
  <2>1. j \in 1 .. k /\ G[j] \in PlaceType /\ G[j] # G[k]
    BY <1>1, <1>2 DEF FreeList
  <2> QED BY <1>2, <1>19, <2>1
<1>24. FreeList(w, G, k - 1)
  BY <1>1, <1>2, <1>11, <1>14, <1>17, <1>23 DEF FreeList
<1>25. PICK Q, J, E : Q = SetAt(R, N, 1) /\ J = SetAt(I, N, m.stubs) /\ E = SetAt(D, N, m.stubs)
  OBVIOUS
<1>26. /\ Q \in [Nat -> Int] /\ J \in [Nat -> SUBSET Stub] /\ E \in [Nat -> SUBSET Stub]
       /\ Q[N] = 1 /\ J[N] = m.stubs /\ E[N] = m.stubs
       /\ \A x \in B : Q[x] = R[x] /\ J[x] = I[x] /\ E[x] = D[x]
  <2>1. DOMAIN R = Nat /\ DOMAIN I = Nat /\ DOMAIN D = Nat /\ N \in Nat /\ m.stubs \in SUBSET Stub
    BY <1>1, <1>3 DEF RelType
  <2>2. \A x \in B : x \in Nat /\ x # N
    BY <1>1, <1>2, <1>3
  <2>3. Q \in [Nat -> Int] /\ Q[N] = 1 /\ \A x \in Nat : x # N => Q[x] = R[x]
    BY <1>1, <1>25, <2>1 DEF SetAt
  <2>4. J \in [Nat -> SUBSET Stub] /\ J[N] = m.stubs /\ \A x \in Nat : x # N => J[x] = I[x]
    BY <1>1, <1>25, <2>1 DEF SetAt
  <2>5. E \in [Nat -> SUBSET Stub] /\ E[N] = m.stubs /\ \A x \in Nat : x # N => E[x] = D[x]
    BY <1>1, <1>25, <2>1 DEF SetAt
  <2> QED BY <2>2, <2>3, <2>4, <2>5
<1>27. Cells(w, P2, B \cup {N}, Q, J, E)
  <2> SUFFICES ASSUME NEW x \in B \cup {N}
               PROVE  /\ IdOf(w, P2[x]) = x /\ CellOf(w, P2[x]).ref = Q[x]
                      /\ CellOf(w, P2[x]).toInsert = J[x] /\ CellOf(w, P2[x]).toDelete = E[x]
    BY DEF Cells
  <2>1. CASE x = N
    BY <1>8, <1>19, <1>21, <1>26, <2>1 DEF IdOf
  <2>2. CASE x \in B
    <3>1. P2[x] = P[x] /\ P[x] \in PlaceType /\ P[x] # t /\ Q[x] = R[x] /\ J[x] = I[x] /\ E[x] = D[x]
      BY <1>3, <1>21, <1>26, <2>2
    <3>2. /\ CellOf(m, P[x]).id = x /\ CellOf(m, P[x]).ref = R[x]
          /\ CellOf(m, P[x]).toInsert = I[x] /\ CellOf(m, P[x]).toDelete = D[x]
      BY <1>1, <2>2 DEF Cells, IdOf
    <3> QED BY <1>19, <3>1, <3>2 DEF IdOf
  <2> QED BY <2>1, <2>2
<1>28. Apart(w, P2, B \cup {N}, G, k - 1)
  <2>1. w.emptyPageList = m.emptyPageList
    BY <1>18 DEF SameBeside
  <2>2. ASSUME NEW x \in B \cup {N}, NEW y \in B \cup {N}, P2[x] = P2[y] PROVE x = y
    BY <1>1, <1>3, <1>21, <2>2 DEF Apart
  <2>3. ASSUME NEW x \in B \cup {N}, NEW j \in 1 .. k - 1 PROVE P2[x] # G[j]
    BY <1>1, <1>3, <1>21, <1>23 DEF Apart
  <2>4. ASSUME NEW u \in PlaceType
        PROVE  ((\E x \in B : P[x] = u) \/ \E j \in 1 .. k : G[j] = u)
                 <=> (\E x \in B \cup {N} : P2[x] = u) \/ \E j \in 1 .. k - 1 : G[j] = u
    <3>1. (\E x \in B \cup {N} : P2[x] = u) <=> u = t \/ \E x \in B : P[x] = u
      BY <1>21
    <3>2. (\E j \in 1 .. k : G[j] = u) <=> u = t \/ \E j \in 1 .. k - 1 : G[j] = u
      <4>1. \A j \in 1 .. k : j = k \/ j \in 1 .. k - 1
        BY <1>2
      <4> QED BY <1>2, <1>23, <4>1
    <3> QED BY <3>1, <3>2
  <2> QED BY <1>1, <2>1, <2>2, <2>3, <2>4 DEF Apart
<1>29. A \cup {N} \subseteq B \cup {N} /\ B \cup {N} \subseteq 1 .. Len(P2)
  <2>1. N \in 1 .. N /\ \A x \in B : x \in 1 .. N
    BY <1>3
  <2> QED BY <1>1, <1>21, <2>1
<1>30. RelMemory(w, P2, A \cup {N}, B \cup {N}, G, k - 1, Q, J, E)
  BY <1>17, <1>21, <1>22, <1>24, <1>26, <1>27, <1>28, <1>29 DEF RelMemory
<1> QED BY <1>18, <1>20, <1>25, <1>30

-----------------------------------------------------------------------------
(* Nothing changes but what the list and the cells do not depend on.       *)
LEMMA SameMemory ==
  ASSUME NEW m, NEW P, NEW A, NEW B, NEW G, NEW k, NEW R, NEW I, NEW D,
         RelMemory(m, P, A, B, G, k, R, I, D), NEW w, RelType(w),
         w.page = m.page, w.emptyPageList = m.emptyPageList,
         w.tuples = m.tuples, w.freeTuples = m.freeTuples
  PROVE  RelMemory(w, P, A, B, G, k, R, I, D)
<1>1. /\ P \in Seq(PlaceType) /\ A \subseteq B /\ B \subseteq 1 .. Len(P)
      /\ R \in [Nat -> Int] /\ I \in [Nat -> SUBSET Stub] /\ D \in [Nat -> SUBSET Stub]
      /\ InList(m, P, A) /\ FreeList(m, G, k) /\ Cells(m, P, B, R, I, D) /\ Apart(m, P, B, G, k)
  BY DEF RelMemory
<1>2. \A u : CellOf(w, u) = CellOf(m, u) /\ IdOf(w, u) = IdOf(m, u)
  BY DEF CellOf, IdOf
<1>3. InList(w, P, A)
  BY <1>1, <1>2 DEF InList
<1>4. FreeList(w, G, k)
  BY <1>1, <1>2 DEF FreeList
<1>5. Cells(w, P, B, R, I, D)
  BY <1>1, <1>2 DEF Cells
<1>6. Apart(w, P, B, G, k)
  BY <1>1 DEF Apart
<1> QED BY <1>1, <1>3, <1>4, <1>5, <1>6 DEF RelMemory

(* What the ghosts say of tuples that are not in B does not matter.        *)
Agree(B, R, I, D, Q, J, E) ==
  /\ Q \in [Nat -> Int] /\ J \in [Nat -> SUBSET Stub] /\ E \in [Nat -> SUBSET Stub]
  /\ \A x \in B : Q[x] = R[x] /\ J[x] = I[x] /\ E[x] = D[x]

LEMMA GhostsAgree ==
  ASSUME NEW m, NEW P, NEW A, NEW B, NEW G, NEW k, NEW R, NEW I, NEW D,
         RelMemory(m, P, A, B, G, k, R, I, D), NEW Q, NEW J, NEW E, Agree(B, R, I, D, Q, J, E)
  PROVE  RelMemory(m, P, A, B, G, k, Q, J, E)
<1>1. Cells(m, P, B, Q, J, E)
  BY DEF RelMemory, Agree, Cells
<1> QED BY <1>1 DEF RelMemory, Agree

LEMMA Inserted ==
  ASSUME NEW m, NEW P, NEW A, NEW B, NEW G, NEW k, NEW R, NEW I, NEW D,
         RelMemory(m, P, A, B, G, k, R, I, D), NEW x \in B, NEW s,
         NEW w, w = Links!insertTuple_r(m, P[x], s)
  PROVE  RelMemory(w, P, A, B, G, k, R, SetAt(I, x, I[x] \ {s}), D) /\ SameBeside(m, w)
<1>1. w = WithCell(m, P[x], [CellOf(m, P[x]) EXCEPT !.toInsert = @ \ {s}])
  BY RelOps DEF Links!insertTuple_r, Links!MARK_INSERT
<1> QED BY <1>1, BitsMarked

LEMMA RefAdded ==
  ASSUME NEW m, NEW P, NEW A, NEW B, NEW G, NEW k, NEW R, NEW I, NEW D,
         RelMemory(m, P, A, B, G, k, R, I, D), NEW x \in B, NEW n \in Int,
         NEW w, w = Links!addRef(m, P[x], n)
  PROVE  RelMemory(w, P, A, B, G, k, SetAt(R, x, R[x] + n), I, D) /\ SameBeside(m, w)
<1>1. w = WithCell(m, P[x], [CellOf(m, P[x]) EXCEPT !.ref = @ + n])
  BY RelOps DEF Links!addRef
<1> QED BY <1>1, RefsAdded

(* The last stub to delete a tuple takes it out of the list.               *)
LEMMA DeletedBy ==
  ASSUME NEW m, NEW P, NEW A, NEW B, NEW G, NEW k, NEW R, NEW I, NEW D,
         RelMemory(m, P, A, B, G, k, R, I, D), NEW x \in A, NEW s,
         NEW w, w = Rel!deleteTuple_r(m, P[x], s)
  PROVE  /\ SameBeside(m, w)
         /\ RelMemory(w, P, IF I[x] = {} /\ D[x] \ {s} = {} THEN A \ {x} ELSE A, B, G, k, R, I,
                      SetAt(D, x, D[x] \ {s}))
<1>1. x \in B /\ D \in [Nat -> SUBSET Stub] /\ x \in Nat
  BY DEF RelMemory
<1>2. PICK d : d = WithCell(m, P[x], [CellOf(m, P[x]) EXCEPT !.toDelete = @ \ {s}])
  OBVIOUS
<1>0. RelMemory(d, P, A, B, G, k, R, I, SetAt(D, x, D[x] \ {s})) /\ SameBeside(m, d)
  <2>1. \A u : u = WithCell(m, P[x], [CellOf(m, P[x]) EXCEPT !.toDelete = @ \ {s}]) =>
              RelMemory(u, P, A, B, G, k, R, I, SetAt(D, x, D[x] \ {s})) /\ SameBeside(m, u)
    BY <1>1, BitsMarked, Zenon
  <2> QED BY <1>2, <2>1, Zenon
<1>9. PICK E : E = SetAt(D, x, D[x] \ {s})
  OBVIOUS
<1>3. RelMemory(d, P, A, B, G, k, R, I, E) /\ SameBeside(m, d)
  BY <1>0, <1>9
<1>4. CellOf(d, P[x]).toInsert = I[x] /\ CellOf(d, P[x]).toDelete = E[x]
  BY <1>1, <1>3 DEF RelMemory, Cells
<1>5. E[x] = D[x] \ {s}
  BY <1>1, <1>9 DEF SetAt
<1>6. w = IF I[x] = {} /\ D[x] \ {s} = {} THEN Rel!Unlink(d, P[x]) ELSE d
  BY <1>2, <1>4, <1>5, RelOps DEF Rel!deleteTuple_r, Rel!MARK_DELETE, Rel!UNUSED
<1>7. CASE I[x] = {} /\ D[x] \ {s} = {}
  <2>1. w = Rel!Unlink(d, P[x])
    BY <1>6, <1>7
  <2>2. RelMemory(w, P, A \ {x}, B, G, k, R, I, E) /\ SameBeside(d, w)
    BY <1>3, <2>1, Unlinked
  <2> QED BY <1>3, <1>7, <1>9, <2>2 DEF SameBeside
<1>8. CASE ~(I[x] = {} /\ D[x] \ {s} = {})
  BY <1>3, <1>6, <1>8, <1>9
<1> QED BY <1>7, <1>8

LEMMA SpaceOps ==
  ASSUME NEW m
  PROVE  /\ Links!NewPlace(m) = Rel!WithSpace(m).freeTuples
         /\ ~HasSpace(m) => Rel!WithSpace(m) = [m EXCEPT !.outOfMemory = TRUE]
<1>1. Links!WithSpace(m) = Rel!WithSpace(m)
  BY DEF Links!WithSpace, Rel!WithSpace, Links!allocateMoreSpace, Rel!allocateMoreSpace,
         Links!allocatePage, Rel!allocatePage, Links!NewPage, Rel!NewPage, Links!FirstPlace,
         Rel!FirstPlace, Links!Pos, Rel!Pos, Links!BlankCell, Rel!BlankCell, Links!LastInPage,
         Rel!LastInPage, Links!NextPlace, Rel!NextPlace, Links!NoTuple, Rel!NoTuple,
         Links!Nothing, Rel!Nothing
<1>2. ~HasSpace(m) => Rel!WithSpace(m) = [m EXCEPT !.outOfMemory = TRUE]
  BY RelOps DEF HasSpace, Rel!WithSpace, Rel!allocateMoreSpace, Rel!allocatePage
<1> QED BY <1>1, <1>2 DEF Links!NewPlace

(* A new tuple, unless memory is out.                                      *)
GetsTuple(m, w, P, A, B, R, I, D, N) ==
  \E H, l : RelMemory(w, Append(P, Links!NewPlace(m)), A \cup {N}, B \cup {N}, H, l,
                      SetAt(R, N, 1), SetAt(I, N, m.stubs), SetAt(D, N, m.stubs))

LEMMA NewInRelation ==
  ASSUME NEW m, NEW P, NEW A, NEW B, NEW G, NEW k, NEW R, NEW I, NEW D,
         RelMemory(m, P, A, B, G, k, R, I, D), ~m.outOfMemory, NEW N, N = Len(P) + 1,
         NEW w, w = Rel!newTuple(m, N)
  PROVE  /\ w.stubs = m.stubs /\ w.nextTuple = m.nextTuple
         /\ w.outOfMemory => RelMemory(w, P, A, B, G, k, R, I, D)
         /\ ~w.outOfMemory => GetsTuple(m, w, P, A, B, R, I, D, N)
<1>1. PICK space : space = Rel!WithSpace(m)
  OBVIOUS
<1>2. CASE HasSpace(m)
  <2>1. PICK H, l : l # 0 /\ SameAside(m, space) /\ RelMemory(space, P, A, B, H, l, R, I, D)
    BY <1>1, <1>2, SpaceMade
  <2>2. ~space.outOfMemory /\ space.stubs = m.stubs /\ space.nextTuple = m.nextTuple
    BY <2>1 DEF SameAside
  <2>3. PICK t, c : t = space.freeTuples /\ c = [Rel!NewCell(space, N) EXCEPT !.next = m.tuples]
    OBVIOUS
  <2>4. space.tuples = m.tuples
    BY <1>1, RelOps DEF Rel!WithSpace, Rel!allocateMoreSpace, Rel!allocatePage
  <2>5. Places(space, N, t, c, w)
    <3>1. w = [Rel!WithCell(Rel!SetPrev(space, m.tuples, t), t, c)
                 EXCEPT !.freeTuples = CellOf(space, t).next, !.tuples = t]
      BY <1>1, <2>2, <2>3, RelOps DEF Rel!newTuple
    <3> QED BY <2>3, <2>4, <3>1 DEF Places
  <2>6. PICK s : s = m.stubs
    OBVIOUS
  <2>7. /\ RelMemory(w, Append(P, t), A \cup {N}, B \cup {N}, H, l - 1,
                     SetAt(R, N, 1), SetAt(I, N, space.stubs), SetAt(D, N, space.stubs))
        /\ SameBeside(space, w)
    BY <2>1, <2>5, Placed
  <2>8. ~w.outOfMemory /\ w.stubs = m.stubs /\ w.nextTuple = m.nextTuple
    BY <2>2, <2>7 DEF SameBeside
  <2>9. t = Links!NewPlace(m)
    BY <1>1, <2>3, SpaceOps
  <2> QED BY <2>2, <2>7, <2>8, <2>9 DEF GetsTuple
<1>3. CASE ~HasSpace(m)
  <2>1. space = [m EXCEPT !.outOfMemory = TRUE]
    BY <1>1, <1>3, SpaceOps
  <2>2. RelType(m)
    BY DEF RelMemory
  <2>3. /\ DOMAIN space = RelFields /\ space.outOfMemory /\ space.page = m.page
        /\ space.emptyPageList = m.emptyPageList /\ space.tuples = m.tuples
        /\ space.freeTuples = m.freeTuples /\ space.stubs = m.stubs /\ space.nextTuple = m.nextTuple
        /\ space.outOfMemory \in BOOLEAN
    BY <2>1, <2>2 DEF RelType, RelFields
  <2>4. w = space
    BY <1>1, <2>3 DEF Rel!newTuple
  <2>5. RelType(space)
    BY <2>2, <2>3 DEF RelType
  <2>6. RelMemory(space, P, A, B, G, k, R, I, D)
    BY <2>3, <2>5, SameMemory
  <2> QED BY <2>3, <2>4, <2>6
<1> QED BY <1>2, <1>3

-----------------------------------------------------------------------------
(***************************************************************************)
(* What is on its way to a reader of a relation: each tuple once to come   *)
(* and once to go, in that order.                                          *)
(***************************************************************************)
InTurn(q) ==
  \A i, j \in 1 .. Len(q) : i < j /\ q[i].tuple = q[j].tuple => q[i].sign = "+" /\ q[j].sign = "-"

Among(q, c, x) == \E i \in 1 .. Len(q) : q[i].sign = c /\ q[i].tuple = x
OfSign(q, c) == {x \in Nat : Among(q, c, x)}

(* The relation has h, and its reader has n of it.                         *)
RelQueue(q, h, n) ==
  /\ q \in Seq(Element) /\ InTurn(q)
  /\ OfSign(q, "+") \cap n = {} /\ OfSign(q, "-") = (n \cup OfSign(q, "+")) \ h
  /\ h \subseteq n \cup OfSign(q, "+")

LEMMA SentOn ==
  ASSUME NEW q \in Seq(Element), NEW e \in Element, InTurn(q),
         \A x \in OfSign(q, e.sign) : x # e.tuple,
         e.sign = "+" => \A x \in OfSign(q, "-") : x # e.tuple
  PROVE  /\ Append(q, e) \in Seq(Element) /\ InTurn(Append(q, e))
         /\ OfSign(Append(q, e), e.sign) = OfSign(q, e.sign) \cup {e.tuple}
         /\ \A c : c # e.sign => OfSign(Append(q, e), c) = OfSign(q, c)
<1>1. e.tuple \in Nat /\ e.sign \in {"+", "-"}
  BY DEF Element
<1>2. PICK w : w = Append(q, e)
  OBVIOUS
<1>3. /\ w \in Seq(Element) /\ Len(q) \in Nat /\ Len(w) = Len(q) + 1 /\ w[Len(q) + 1] = e
      /\ \A i \in 1 .. Len(q) : w[i] = q[i] /\ q[i] \in Element
      /\ \A i \in 1 .. Len(w) : i = Len(q) + 1 \/ i \in 1 .. Len(q)
      /\ \A i \in 1 .. Len(q) : i \in 1 .. Len(w) /\ i < Len(q) + 1
      /\ Len(q) + 1 \in 1 .. Len(w)
  BY <1>2
<1>9. \A i \in 1 .. Len(w) : i = Len(q) + 1 \/ i \in 1 .. Len(q)
  BY <1>3
<1>4. \A i \in 1 .. Len(q) : q[i].sign \in {"+", "-"} /\ q[i].tuple \in Nat
  BY <1>3 DEF Element
<1>5. InTurn(w)
  <2> SUFFICES ASSUME NEW i \in 1 .. Len(w), NEW j \in 1 .. Len(w), i < j, w[i].tuple = w[j].tuple
               PROVE  w[i].sign = "+" /\ w[j].sign = "-"
    BY DEF InTurn
  <2>1. i \in 1 .. Len(q)
    BY <1>3
  <2>2. CASE j \in 1 .. Len(q)
    BY <1>3, <2>1, <2>2 DEF InTurn
  <2>3. CASE j = Len(q) + 1
    <3>1. q[i].tuple = e.tuple /\ q[i].tuple \in OfSign(q, q[i].sign)
      BY <1>3, <1>4, <2>1, <2>3 DEF OfSign, Among
    <3>2. q[i].sign # e.sign
      BY <3>1
    <3>3. e.sign # "+"
      BY <1>1, <1>4, <2>1, <3>1, <3>2
    <3> QED BY <1>1, <1>3, <1>4, <2>1, <2>3, <3>2, <3>3
  <2> QED BY <1>3, <2>2, <2>3
<1>6. ASSUME NEW c PROVE OfSign(w, c) = IF c = e.sign THEN OfSign(q, c) \cup {e.tuple} ELSE OfSign(q, c)
  <2>1. ASSUME NEW x PROVE Among(w, c, x) <=> Among(q, c, x) \/ (c = e.sign /\ x = e.tuple)
    <3>1. ASSUME NEW i \in 1 .. Len(w), w[i].sign = c, w[i].tuple = x
          PROVE  Among(q, c, x) \/ (c = e.sign /\ x = e.tuple)
      <4>1. CASE i = Len(q) + 1
        <5>1. w[i] = e
          BY <1>3, <4>1
        <5> QED BY <3>1, <5>1
      <4>2. CASE i \in 1 .. Len(q)
        BY <1>3, <3>1, <4>2 DEF Among
      <4> QED BY <1>9, <4>1, <4>2
    <3>2. ASSUME NEW i \in 1 .. Len(q), q[i].sign = c, q[i].tuple = x PROVE Among(w, c, x)
      BY <1>3, <3>2 DEF Among
    <3>3. c = e.sign /\ x = e.tuple => Among(w, c, x)
      BY <1>3 DEF Among
    <3> QED BY <3>1, <3>2, <3>3 DEF Among
  <2>2. \A x : x \in OfSign(w, c) <=> x \in OfSign(q, c) \/ (c = e.sign /\ x = e.tuple)
    BY <1>1, <2>1 DEF OfSign
  <2>3. CASE c = e.sign
    <3>1. \A x : x \in OfSign(w, c) <=> x \in OfSign(q, c) \cup {e.tuple}
      BY <2>2, <2>3
    <3> QED BY <2>3, <3>1
  <2>4. CASE c # e.sign
    <3>1. \A x : x \in OfSign(w, c) <=> x \in OfSign(q, c)
      BY <2>2, <2>4
    <3> QED BY <2>4, <3>1
  <2> QED BY <2>3, <2>4
<1> QED BY <1>2, <1>3, <1>5, <1>6

LEMMA ReadOn ==
  ASSUME NEW q \in Seq(Element), q # <<>>, InTurn(q), NEW e, e = Head(q)
  PROVE  /\ e \in Element /\ Tail(q) \in Seq(Element) /\ InTurn(Tail(q))
         /\ OfSign(Tail(q), e.sign) = OfSign(q, e.sign) \ {e.tuple} /\ e.tuple \in OfSign(q, e.sign)
         /\ \A c : c # e.sign => OfSign(Tail(q), c) = OfSign(q, c)
         /\ e.sign = "-" => e.tuple \notin OfSign(q, "+")
<1>1. PICK w : w = Tail(q)
  OBVIOUS
<1>2. /\ Len(q) \in Nat /\ Len(q) > 0 /\ e = q[1] /\ e \in Element /\ 1 \in 1 .. Len(q)
      /\ w \in Seq(Element) /\ Len(w) = Len(q) - 1
      /\ \A i \in 1 .. Len(w) : w[i] = q[i + 1] /\ i + 1 \in 1 .. Len(q)
      /\ \A i \in 1 .. Len(q) : i # 1 => i - 1 \in 1 .. Len(w) /\ 1 < i
  BY <1>1
<1>3. e.tuple \in Nat /\ e.sign \in {"+", "-"}
  BY <1>2 DEF Element
<1>4. \A i \in 1 .. Len(q) : i # 1 => w[i - 1] = q[i]
  <2> TAKE i \in 1 .. Len(q)
  <2> HAVE i # 1
  <2>1. i - 1 \in 1 .. Len(w) /\ i - 1 + 1 = i
    BY <1>2
  <2> QED BY <1>2, <2>1
<1>5. InTurn(w)
  <2> SUFFICES ASSUME NEW i \in 1 .. Len(w), NEW j \in 1 .. Len(w), i < j, w[i].tuple = w[j].tuple
               PROVE  w[i].sign = "+" /\ w[j].sign = "-"
    BY DEF InTurn
  <2>1. i + 1 \in 1 .. Len(q) /\ j + 1 \in 1 .. Len(q) /\ i + 1 < j + 1 /\ w[i] = q[i + 1] /\ w[j] = q[j + 1]
    BY <1>2
  <2> QED BY <2>1 DEF InTurn
<1>6. \A i \in 1 .. Len(q) : i # 1 /\ q[i].tuple = e.tuple => e.sign = "+" /\ q[i].sign = "-"
  BY <1>2 DEF InTurn
<1>7. ASSUME NEW c PROVE OfSign(w, c) = IF c = e.sign THEN OfSign(q, c) \ {e.tuple} ELSE OfSign(q, c)
  <2>1. ASSUME NEW x PROVE Among(w, c, x) <=> Among(q, c, x) /\ ~(c = e.sign /\ x = e.tuple)
    <3>0. "+" # "-"
      OBVIOUS
    <3>1. ASSUME NEW i \in 1 .. Len(w), w[i].sign = c, w[i].tuple = x
          PROVE  Among(q, c, x) /\ ~(c = e.sign /\ x = e.tuple)
      <4>1. i + 1 \in 1 .. Len(q) /\ i + 1 # 1 /\ w[i] = q[i + 1]
        BY <1>2
      <4>2. PICK j \in 1 .. Len(q) : j # 1 /\ q[j].sign = c /\ q[j].tuple = x
        BY <3>1, <4>1
      <4> QED BY <1>6, <3>0, <4>2 DEF Among
    <3>2. ASSUME NEW i \in 1 .. Len(q), q[i].sign = c, q[i].tuple = x, ~(c = e.sign /\ x = e.tuple)
          PROVE  Among(w, c, x)
      <4>1. i # 1
        BY <1>2, <3>2
      <4>2. i - 1 \in 1 .. Len(w) /\ w[i - 1] = q[i]
        BY <1>2, <1>4, <4>1
      <4> QED BY <3>2, <4>2 DEF Among
    <3> QED BY <3>1, <3>2 DEF Among
  <2> QED BY <2>1, Zenon DEF OfSign
<1>8. e.tuple \in OfSign(q, e.sign)
  BY <1>2, <1>3 DEF OfSign, Among
<1>9. e.sign = "-" => e.tuple \notin OfSign(q, "+")
  <2> SUFFICES ASSUME e.sign = "-", NEW i \in 1 .. Len(q), q[i].sign = "+", q[i].tuple = e.tuple PROVE FALSE
    BY DEF OfSign, Among
  <2>1. i # 1
    BY <1>2
  <2> QED BY <1>6, <2>1
<1> QED BY <1>1, <1>2, <1>5, <1>7, <1>8, <1>9

LEMMA QueueMade ==
  ASSUME NEW q, NEW h, NEW n, RelQueue(q, h, n), NEW x \in Nat, x \notin n \cup OfSign(q, "+")
  PROVE  /\ RelQueue(Append(q, Plus(x)), h \cup {x}, n)
         /\ OfSign(Append(q, Plus(x)), "+") = OfSign(q, "+") \cup {x}
<1>1. PICK e : e = Plus(x)
  OBVIOUS
<1>2. e \in Element /\ e.sign = "+" /\ e.tuple = x
  BY <1>1 DEF Plus, Element
<1>3. /\ q \in Seq(Element) /\ InTurn(q) /\ OfSign(q, "+") \cap n = {}
      /\ OfSign(q, "-") = (n \cup OfSign(q, "+")) \ h /\ h \subseteq n \cup OfSign(q, "+")
  BY DEF RelQueue
<1>4. (\A y \in OfSign(q, e.sign) : y # e.tuple) /\ \A y \in OfSign(q, "-") : y # e.tuple
  BY <1>2, <1>3
<1>5. /\ Append(q, e) \in Seq(Element) /\ InTurn(Append(q, e))
      /\ OfSign(Append(q, e), e.sign) = OfSign(q, e.sign) \cup {e.tuple}
      /\ \A c : c # e.sign => OfSign(Append(q, e), c) = OfSign(q, c)
  BY <1>2, <1>3, <1>4, SentOn
<1>6. OfSign(Append(q, e), "+") = OfSign(q, "+") \cup {x} /\ OfSign(Append(q, e), "-") = OfSign(q, "-")
  BY <1>2, <1>5
<1>7. RelQueue(Append(q, e), h \cup {x}, n)
  BY <1>3, <1>5, <1>6 DEF RelQueue
<1> QED BY <1>1, <1>6, <1>7

LEMMA QueueDeleted ==
  ASSUME NEW q, NEW h, NEW n, RelQueue(q, h, n), NEW x \in h, x \in Nat
  PROVE  /\ RelQueue(Append(q, Minus(x)), h \ {x}, n)
         /\ OfSign(Append(q, Minus(x)), "+") = OfSign(q, "+")
<1>1. PICK e : e = Minus(x)
  OBVIOUS
<1>2. e \in Element /\ e.sign = "-" /\ e.tuple = x
  BY <1>1 DEF Minus, Element
<1>3. /\ q \in Seq(Element) /\ InTurn(q) /\ OfSign(q, "+") \cap n = {}
      /\ OfSign(q, "-") = (n \cup OfSign(q, "+")) \ h /\ h \subseteq n \cup OfSign(q, "+")
  BY DEF RelQueue
<1>4. (\A y \in OfSign(q, e.sign) : y # e.tuple) /\ e.sign # "+"
  BY <1>2, <1>3
<1>5. /\ Append(q, e) \in Seq(Element) /\ InTurn(Append(q, e))
      /\ OfSign(Append(q, e), e.sign) = OfSign(q, e.sign) \cup {e.tuple}
      /\ \A c : c # e.sign => OfSign(Append(q, e), c) = OfSign(q, c)
  BY <1>2, <1>3, <1>4, SentOn
<1>6. OfSign(Append(q, e), "+") = OfSign(q, "+") /\ OfSign(Append(q, e), "-") = OfSign(q, "-") \cup {x}
  BY <1>2, <1>4, <1>5
<1>7. RelQueue(Append(q, e), h \ {x}, n)
  BY <1>3, <1>5, <1>6 DEF RelQueue
<1> QED BY <1>1, <1>6, <1>7

ComesIn(q, h, n, x) ==
  /\ x \in OfSign(q, "+") /\ RelQueue(Tail(q), h, n \cup {x})
  /\ OfSign(Tail(q), "+") = OfSign(q, "+") \ {x}
GoesOut(q, h, n, x) ==
  /\ x \in n /\ x \notin h /\ x \notin OfSign(q, "+") /\ RelQueue(Tail(q), h, n \ {x})
  /\ OfSign(Tail(q), "+") = OfSign(q, "+")

LEMMA QueueRead ==
  ASSUME NEW q, NEW h, NEW n, RelQueue(q, h, n), q # <<>>, NEW x, x = Head(q).tuple
  PROVE  /\ Head(q).sign \in {"+", "-"} /\ x \in Nat
         /\ Head(q).sign = "+" => ComesIn(q, h, n, x)
         /\ Head(q).sign = "-" => GoesOut(q, h, n, x)
<1>1. PICK e : e = Head(q)
  OBVIOUS
<1>2. /\ q \in Seq(Element) /\ InTurn(q) /\ OfSign(q, "+") \cap n = {}
      /\ OfSign(q, "-") = (n \cup OfSign(q, "+")) \ h /\ h \subseteq n \cup OfSign(q, "+")
  BY DEF RelQueue
<1>3. /\ e \in Element /\ Tail(q) \in Seq(Element) /\ InTurn(Tail(q))
      /\ OfSign(Tail(q), e.sign) = OfSign(q, e.sign) \ {e.tuple} /\ e.tuple \in OfSign(q, e.sign)
      /\ \A c : c # e.sign => OfSign(Tail(q), c) = OfSign(q, c)
      /\ e.sign = "-" => e.tuple \notin OfSign(q, "+")
  BY <1>1, <1>2, ReadOn
<1>4. e.sign \in {"+", "-"} /\ e.tuple \in Nat /\ e.tuple = x
  BY <1>1, <1>3 DEF Element
<1>5. CASE e.sign = "+"
  <2>1. "+" # "-"
    OBVIOUS
  <2>2. OfSign(Tail(q), "+") = OfSign(q, "+") \ {x} /\ x \in OfSign(q, "+") /\ OfSign(Tail(q), "-") = OfSign(q, "-")
    BY <1>3, <1>4, <1>5, <2>1
  <2>3. RelQueue(Tail(q), h, n \cup {x})
    BY <1>2, <1>3, <2>2 DEF RelQueue
  <2> QED BY <1>1, <1>4, <1>5, <2>1, <2>2, <2>3 DEF ComesIn
<1>6. CASE e.sign = "-"
  <2>1. "+" # "-"
    OBVIOUS
  <2>2. /\ OfSign(Tail(q), "-") = OfSign(q, "-") \ {x} /\ x \in OfSign(q, "-") /\ x \notin OfSign(q, "+")
        /\ OfSign(Tail(q), "+") = OfSign(q, "+")
    BY <1>3, <1>4, <1>6, <2>1
  <2>3. x \in n /\ x \notin h
    BY <1>2, <2>2
  <2>4. RelQueue(Tail(q), h, n \ {x})
    BY <1>2, <1>3, <2>2, <2>3 DEF RelQueue
  <2> QED BY <1>1, <1>4, <1>6, <2>1, <2>2, <2>3, <2>4 DEF GoesOut
<1> QED BY <1>4, <1>5, <1>6

-----------------------------------------------------------------------------
(***************************************************************************)
(* A relation, kept by its readers or by its operator alone: who has a     *)
(* tuple, or will have it, is who has still to delete it.                  *)
(***************************************************************************)
Rels == {"rel", "own"}

Keeps(Q, H, s) == H[s] \cup OfSign(Q[s], "+")
Kept(Q, H) == UNION {Keeps(Q, H, s) : s \in Stub}
InsOf(Q) == [x \in Nat |-> {s \in Stub : x \in OfSign(Q[s], "+")}]
DelOf(Q, H) == [x \in Nat |-> {s \in Stub : x \in Keeps(Q, H, s)}]

(* One reference of the operator while it has the tuple; of each reader    *)
(* that of the PLUS and, once the tuple is deleted, that of the MINUS.     *)
Holders(Q, H, x) == One(x \in Keeps(Q, H, 2)) + One(x \in Keeps(Q, H, 3))
RefsOf(Q, H) ==
  [x \in Nat |-> IF x \in H[1] THEN 1 + Holders(Q, H, x) ELSE 2 * Holders(Q, H, x)]

RelQueues(Q, H, N) ==
  /\ N \in Nat /\ Q \in [Stub -> Seq(Element)] /\ Q[1] = <<>> /\ H \in [Stub -> SUBSET (1 .. N)]
  /\ \A s \in Stub : OfSign(Q[s], "+") \subseteq 1 .. N
  /\ kind = "rel" => \A r \in {2, 3} : RelQueue(Q[r], H[1], H[r])
  /\ kind = "own" => \A r \in {2, 3} : Q[r] = <<>> /\ H[r] = {}

(* The scan will return tuple y next.                                      *)
RelScan(S, L, H, next, P, y) ==
  /\ S \subseteq {Scanner} /\ DOMAIN L = Stub
  /\ Scanner \in S => /\ next[Scanner] = Pl(P, y) /\ y \in H[Scanner] \cup {0}
                      /\ L[Scanner] = {x \in H[Scanner] : x <= y}

RelMem(m, P, Q, H, G, k) ==
  RelMemory(m, P, Kept(Q, H), Kept(Q, H), G, k, RefsOf(Q, H), InsOf(Q), DelOf(Q, H))

RelStubs == IF kind = "rel" THEN {1, 2, 3} ELSE {1}

RelInv(G, k, y) ==
  /\ RelQueues(queue, has, Len(place)) /\ RelMem(store, place, queue, has, G, k)
  /\ store.stubs = RelStubs
  /\ RelScan(scanning, left, has, store.nextTuple, place, y)

RelIndInv == kind \in Rels => \E G, k, y : RelInv(G, k, y)

LEMMA RelCalls ==
  ASSUME kind \in Rels
  PROVE  /\ \A m : NewPlace(m) = Links!NewPlace(m)
         /\ \A m, id : newTuple(m, id) = Rel!newTuple(m, id)
         /\ \A m, t, n : addRef(m, t, n) = Links!addRef(m, t, n)
         /\ \A m, t : decrRef(m, t) = Links!decrRef(m, t)
         /\ \A m, t, s : /\ insertTuple_r(m, t, s) = Links!insertTuple_r(m, t, s)
                         /\ deleteTuple_r(m, t, s) = Rel!deleteTuple_r(m, t, s)
         /\ \A m, s : /\ getScan_r(m, s) = Rel!getScan_r(m, s)
                      /\ getNext(m, s) = Rel!getNext(m, s)
                      /\ HasNext(m, s) <=> m.nextTuple[s] # NoTuple
                      /\ NextTuple(m, s) = m.nextTuple[s]
<1>0. /\ kind # "simple" /\ kind # "win" /\ kind # "pwin" /\ kind \in Linked /\ kind \in Listed
  BY DEF Rels, Linked, Listed
<1>1. /\ \A m : NewPlace(m) = Links!NewPlace(m)
      /\ \A m, id : newTuple(m, id) = Rel!newTuple(m, id)
  BY <1>0 DEF NewPlace, newTuple
<1>2. \A m, t, n : addRef(m, t, n) = Links!addRef(m, t, n)
  BY <1>0 DEF addRef
<1>3. \A m, t : decrRef(m, t) = Links!decrRef(m, t)
  BY <1>0 DEF decrRef
<1>4. \A m, t, s : /\ insertTuple_r(m, t, s) = Links!insertTuple_r(m, t, s)
                   /\ deleteTuple_r(m, t, s) = Rel!deleteTuple_r(m, t, s)
  BY <1>0 DEF insertTuple_r, deleteTuple_r
<1>5. \A m, s : /\ getScan_r(m, s) = Rel!getScan_r(m, s)
                /\ getNext(m, s) = Rel!getNext(m, s)
                /\ NextTuple(m, s) = m.nextTuple[s]
  BY <1>0 DEF getScan_r, getNext, NextTuple, Rel!NextTuple
<1>6. \A m, s : HasNext(m, s) <=> m.nextTuple[s] # NoTuple
  <2> TAKE m, s
  <2>1. HasNext(m, s) = Rel!HasNext(m, s)
    BY <1>0 DEF HasNext
  <2> QED BY <2>1, RelOps DEF Rel!HasNext
<1> QED BY <1>1, <1>2, <1>3, <1>4, <1>5, <1>6

LEMMA RelReaders ==
  /\ kind = "rel" => /\ ReadersOf(1) = {2, 3} /\ Keepers = {2, 3} /\ Scanner \in {2, 3}
                     /\ \A m, t : Given(m, 1, t) = Links!addRef(m, t, 1)
  /\ kind = "own" => Keepers = {1} /\ Scanner = 1 /\ \A o : ReadersOf(o) = {}
<1>1. CASE kind = "rel"
  <2>1. ReadersOf(1) = {2, 3}
    BY <1>1, StubAssumption DEF ReadersOf, Reads
  <2>2. Keepers = {2, 3}
    BY <1>1 DEF Keepers
  <2>3. Scanner \in {2, 3}
    BY <2>2 DEF Scanner
  <2>4. Cardinality({2, 3}) - 1 = 1
    <3>1. 2 \in Int /\ 3 \in Int
      OBVIOUS
    <3>2. Cardinality(2 .. 3) = IF 2 > 3 THEN 0 ELSE 3 - 2 + 1
      BY <3>1, FS_Interval, Zenon
    <3>3. {2, 3} = 2 .. 3
      OBVIOUS
    <3> QED BY <3>2, <3>3
  <2>5. \A m, t : Given(m, 1, t) = addRef(m, t, Cardinality({2, 3}) - 1)
    <3>1. ReadersOf(1) # {}
      BY <2>1
    <3> QED BY <2>1, <3>1 DEF Given
  <2>6. \A m, t : Given(m, 1, t) = Links!addRef(m, t, 1)
    BY <1>1, <2>4, <2>5, RelCalls DEF Rels
  <2> QED BY <1>1, <2>1, <2>2, <2>3, <2>6
<1>2. CASE kind = "own"
  <2>1. Keepers = {1} /\ \A o : ReadersOf(o) = {}
    BY <1>2 DEF Keepers, ReadersOf, Reads
  <2>2. Scanner = 1
    BY <2>1 DEF Scanner
  <2> QED BY <1>2, <2>1, <2>2
<1> QED BY <1>1, <1>2

LEMMA NoneOnTheWay ==
  ASSUME NEW c
  PROVE  OfSign(<<>>, c) = {}
BY DEF OfSign, Among

(* The ghosts, read.                                                       *)
LEMMA GhostsRead ==
  ASSUME kind \in Rels, NEW Q, NEW H, NEW N, RelQueues(Q, H, N)
  PROVE  /\ RefsOf(Q, H) \in [Nat -> Int] /\ InsOf(Q) \in [Nat -> SUBSET Stub]
         /\ DelOf(Q, H) \in [Nat -> SUBSET Stub] /\ Kept(Q, H) \subseteq 1 .. N
         /\ \A s \in Stub : /\ H[s] \subseteq 1 .. N /\ Keeps(Q, H, s) \subseteq Kept(Q, H)
                            /\ OfSign(Q[s], "+") \cap H[s] = {}
         /\ Keeps(Q, H, 1) = H[1] /\ OfSign(Q[1], "+") = {}
<1>1. /\ N \in Nat /\ Q \in [Stub -> Seq(Element)] /\ Q[1] = <<>> /\ H \in [Stub -> SUBSET (1 .. N)]
      /\ \A s \in Stub : OfSign(Q[s], "+") \subseteq 1 .. N
      /\ kind = "rel" => \A r \in {2, 3} : RelQueue(Q[r], H[1], H[r])
      /\ kind = "own" => \A r \in {2, 3} : Q[r] = <<>> /\ H[r] = {}
  BY DEF RelQueues
<1>2. OfSign(Q[1], "+") = {} /\ Keeps(Q, H, 1) = H[1]
  BY <1>1, NoneOnTheWay DEF Keeps
<1>3. \A s \in Stub : OfSign(Q[s], "+") \cap H[s] = {}
  <2> TAKE s \in Stub
  <2>1. CASE s = 1
    BY <1>2, <2>1
  <2>2. CASE s # 1
    <3>1. s \in {2, 3}
      BY <2>2, StubAssumption
    <3> QED BY <1>1, <3>1 DEF Rels, RelQueue
  <2> QED BY <2>1, <2>2
<1>4. \A s \in Stub : /\ H[s] \subseteq 1 .. N /\ Keeps(Q, H, s) \subseteq 1 .. N
                      /\ Keeps(Q, H, s) \subseteq Kept(Q, H)
  BY <1>1 DEF Keeps, Kept
<1>5. Kept(Q, H) \subseteq 1 .. N
  BY <1>4 DEF Kept
<1>6. InsOf(Q) \in [Nat -> SUBSET Stub] /\ DelOf(Q, H) \in [Nat -> SUBSET Stub]
  BY DEF InsOf, DelOf
<1>7. RefsOf(Q, H) \in [Nat -> Int]
  <2>1. \A x \in Nat : Holders(Q, H, x) \in Int
    BY DEF Holders, One
  <2> QED BY <2>1 DEF RefsOf
<1> QED BY <1>2, <1>3, <1>4, <1>5, <1>6, <1>7

(* What a stub shows is what it has.                                       *)
LEMMA ShownIsHad ==
  ASSUME kind \in Rels, NEW Q, NEW H, NEW N, RelQueues(Q, H, N), NEW s \in Stub
  PROVE  ShownBy(Kept(Q, H), InsOf(Q), DelOf(Q, H), s) = H[s]
<1>1. /\ H[s] \subseteq 1 .. N /\ Keeps(Q, H, s) \subseteq Kept(Q, H) /\ Kept(Q, H) \subseteq 1 .. N
      /\ OfSign(Q[s], "+") \cap H[s] = {}
  BY GhostsRead
<1>2. ASSUME NEW x \in Kept(Q, H)
      PROVE  s \notin InsOf(Q)[x] /\ s \in DelOf(Q, H)[x] <=> x \in H[s]
  <2>1. x \in Nat
    BY <1>1
  <2>2. s \in InsOf(Q)[x] <=> x \in OfSign(Q[s], "+")
    BY <2>1 DEF InsOf
  <2>3. s \in DelOf(Q, H)[x] <=> x \in H[s] \/ x \in OfSign(Q[s], "+")
    BY <2>1 DEF DelOf, Keeps
  <2> QED BY <1>1, <2>2, <2>3
<1>3. H[s] \subseteq Kept(Q, H)
  BY <1>1 DEF Keeps
<1> QED BY <1>2, <1>3 DEF ShownBy

-----------------------------------------------------------------------------
LEMMA RelInUse ==
  ASSUME kind \in Rels, NEW N, RelQueues(queue, has, N)
  PROVE  InUse = Kept(queue, has)
<1>1. /\ queue \in [Stub -> Seq(Element)] /\ queue[1] = <<>>
      /\ kind = "rel" => \A r \in {2, 3} : RelQueue(queue[r], has[1], has[r])
      /\ kind = "own" => \A r \in {2, 3} : queue[r] = <<>>
  BY DEF RelQueues
<1>2. ASSUME NEW s \in Stub, NEW i \in 1 .. Len(queue[s])
      PROVE  queue[s][i].tuple \in Keeps(queue, has, s)
  <2>1. queue[s] \in Seq(Element) /\ queue[s][i] \in Element
    BY <1>1
  <2>2. queue[s][i].tuple \in Nat /\ queue[s][i].sign \in {"+", "-"}
    BY <2>1 DEF Element
  <2>3. queue[s][i].tuple \in OfSign(queue[s], queue[s][i].sign)
    BY <2>2 DEF OfSign, Among
  <2>4. CASE queue[s][i].sign = "+"
    BY <2>3, <2>4 DEF Keeps
  <2>5. CASE queue[s][i].sign = "-"
    <3>1. queue[s] # <<>>
      OBVIOUS
    <3>2. s \in {2, 3} /\ kind = "rel"
      BY <1>1, <3>1, StubAssumption DEF Rels
    <3>3. OfSign(queue[s], "-") \subseteq has[s] \cup OfSign(queue[s], "+")
      BY <1>1, <3>2 DEF RelQueue
    <3> QED BY <2>3, <2>5, <3>3 DEF Keeps
  <2> QED BY <2>2, <2>4, <2>5
<1>3. ASSUME NEW s \in Stub, NEW x \in Keeps(queue, has, s)
      PROVE  x \in has[s] \/ \E i \in 1 .. Len(queue[s]) : x = queue[s][i].tuple
  BY DEF Keeps, OfSign, Among
<1>4. ASSUME NEW s \in Stub
      PROVE  has[s] \cup {queue[s][i].tuple : i \in 1 .. Len(queue[s])} = Keeps(queue, has, s)
  <2>1. has[s] \subseteq Keeps(queue, has, s)
    BY DEF Keeps
  <2> QED BY <1>2, <1>3, <2>1
<1> QED BY <1>4 DEF InUse, Kept

LEMMA RelLost ==
  ASSUME RelIndInv, kind \in Rels
  PROVE  NothingLost
<1>1. PICK G, k, y : RelInv(G, k, y)
  BY DEF RelIndInv
<1>2. PICK A : A = Kept(queue, has)
  OBVIOUS
<1>3. /\ FreeList(store, G, k) /\ Apart(store, place, A, G, k)
      /\ \A x \in A : IdOf(store, place[x]) = x /\ place[x] \in PlaceType
  BY <1>1, <1>2 DEF RelInv, RelMem, RelMemory, Cells
<1>4. InUse = A /\ EmptyPages = PagesOf(store.emptyPageList)
  BY <1>1, <1>2, RelInUse DEF RelInv, EmptyPages, PagesOf
<1>5. FreeCells = {G[j] : j \in 1 .. k}
  BY <1>3, FreeOnes DEF FreeCells
<1>6. \A x \in A : PageOf(place[x]) \notin EmptyPages
  BY <1>3, <1>4 DEF Apart, PageOf
<1>7. FreeCells \cap PlacesInUse = {}
  BY <1>3, <1>4, <1>5 DEF Apart, PlacesInUse
<1> QED BY <1>3, <1>4, <1>6, <1>7 DEF NothingLost

LEMMA RelLeaked ==
  ASSUME RelIndInv, kind \in Rels
  PROVE  NothingLeaked
<1>1. PICK G, k, y : RelInv(G, k, y)
  BY DEF RelIndInv
<1>2. PICK A : A = Kept(queue, has)
  OBVIOUS
<1>3. FreeList(store, G, k) /\ Apart(store, place, A, G, k)
  BY <1>1, <1>2 DEF RelInv, RelMem, RelMemory
<1>4. InUse = A /\ EmptyPages = PagesOf(store.emptyPageList)
  BY <1>1, <1>2, RelInUse DEF RelInv, EmptyPages, PagesOf
<1>5. FreeCells = {G[j] : j \in 1 .. k}
  BY <1>3, FreeOnes DEF FreeCells
<1>6. ASSUME NEW p \in Page \ EmptyPages, NEW i \in Pos PROVE <<p, i>> \in PlacesInUse \cup FreeCells
  <2>1. <<p, i>> \in PlaceType /\ <<p, i>>[1] \notin PagesOf(store.emptyPageList)
    BY <1>4 DEF PlaceType
  <2>2. (\E x \in A : place[x] = <<p, i>>) \/ \E j \in 1 .. k : G[j] = <<p, i>>
    BY <1>3, <2>1 DEF Apart
  <2> QED BY <1>4, <1>5, <2>2 DEF PlacesInUse
<1>7. kind \in Listed /\ kind # "simple" /\ kind # "win"
  BY DEF Rels, Listed, Linked
<1> QED BY <1>6, <1>7 DEF NothingLeaked

LEMMA RelScanned ==
  ASSUME RelIndInv, kind \in Rels
  PROVE  ScansComplete
<1> SUFFICES ASSUME NEW s \in scanning PROVE ScanIsRight(s)
  BY DEF ScansComplete
<1>1. PICK G, k, y : RelInv(G, k, y)
  BY DEF RelIndInv
<1>2. PICK N, A : N = Len(place) /\ A = Kept(queue, has)
  OBVIOUS
<1>3. s = Scanner /\ Scanner \in scanning /\ Scanner \in Stub
  <2>1. s = Scanner
    BY <1>1 DEF RelInv, RelScan
  <2>2. Scanner \in Stub
    BY RelReaders, StubAssumption DEF Rels
  <2> QED BY <2>1, <2>2
<1>4. /\ store.nextTuple[s] = Pl(place, y) /\ y \in has[s] \cup {0} /\ left[s] = {x \in has[s] : x <= y}
  BY <1>1, <1>3 DEF RelInv, RelScan
<1>5. has[s] \subseteq 1 .. N /\ has[s] \subseteq A
  <2>1. RelQueues(queue, has, N)
    BY <1>1, <1>2 DEF RelInv
  <2> QED BY <1>2, <1>3, <2>1, GhostsRead DEF Keeps
<1>6. \A x \in A : IdOf(store, place[x]) = x /\ place[x] \in PlaceType
  BY <1>1, <1>2 DEF RelInv, RelMem, RelMemory, Cells
<1>7. (HasNext(store, s) <=> store.nextTuple[s] # NoTuple) /\ NextTuple(store, s) = store.nextTuple[s]
  BY RelCalls
<1>8. CASE y = 0
  <2>1. ~HasNext(store, s)
    BY <1>4, <1>7, <1>8 DEF Pl
  <2>2. left[s] = {}
    BY <1>4, <1>5, <1>8
  <2> QED BY <2>1, <2>2 DEF ScanIsRight
<1>9. CASE y # 0
  <2>1. y \in has[s] /\ y \in A /\ y <= y
    BY <1>4, <1>5, <1>9
  <2>2. store.nextTuple[s] = place[y] /\ place[y] # NoTuple
    BY <1>4, <1>6, <1>9, <2>1, PlaceFacts DEF Pl
  <2>3. HasNext(store, s) /\ IdOf(store, NextTuple(store, s)) = y /\ y \in left[s]
    BY <1>4, <1>6, <1>7, <2>1, <2>2
  <2> QED BY <2>3 DEF ScanIsRight
<1> QED BY <1>8, <1>9

-----------------------------------------------------------------------------
(* The memory, the queues and the scan after a step decide the rest.       *)
LEMMA RelAgain ==
  ASSUME kind \in Rels, kind' = kind, NEW G, NEW k, NEW y,
         NEW m, m = store', NEW P, P = place', NEW Q, Q = queue', NEW H, H = has',
         NEW S, S = scanning', NEW L, L = left',
         RelQueues(Q, H, Len(P)), RelMem(m, P, Q, H, G, k), m.stubs = RelStubs,
         RelScan(S, L, H, m.nextTuple, P, y)
  PROVE  RelIndInv'
<1>1. (RelStubs = RelStubs') /\ Keepers' = Keepers
  BY DEF RelStubs, Keepers
<1>2. Scanner' = Scanner
  BY <1>1 DEF Scanner
<1>3. RelQueues(queue, has, Len(place))'
  BY DEF RelQueues
<1>4. RelMem(store, place, queue, has, G, k)'
  OBVIOUS
<1>5. RelScan(scanning, left, has, store.nextTuple, place, y)'
  BY <1>2 DEF RelScan
<1>6. RelInv(G, k, y)'
  BY <1>1, <1>3, <1>4, <1>5 DEF RelInv
<1> QED BY <1>6 DEF RelIndInv

LEMMA ScannersStub ==
  ASSUME kind \in Rels
  PROVE  Scanner \in Stub /\ Scanner \in RelStubs /\ Scanner \in Keepers /\ 1 \in RelStubs
<1>1. CASE kind = "rel"
  BY <1>1, RelReaders, StubAssumption DEF RelStubs
<1>2. CASE kind = "own"
  BY <1>2, RelReaders, StubAssumption DEF RelStubs
<1> QED BY <1>1, <1>2 DEF Rels

(* Behind tuple x, or from the head of the list, the scan finds the next   *)
(* one that its stub has.                                                  *)
LEMMA ScanFinds ==
  ASSUME kind \in Rels, NEW G, NEW k, NEW y, RelInv(G, k, y), NEW N, N = Len(place),
         NEW x \in has[Scanner] \cup {N + 1},
         NEW t, t = IF x = N + 1 THEN store.tuples ELSE CellOf(store, place[x]).next
  PROVE  \E z \in has[Scanner] \cup {0} :
            /\ Rel!FirstShown(store, t, Scanner) = Pl(place, z) /\ Pl(place, z) \in ListPlace
            /\ z < x /\ \A a \in has[Scanner] : a < x => a <= z
<1>1. PICK s : s = Scanner
  OBVIOUS
<1>2. PICK A, I, D, R : A = Kept(queue, has) /\ I = InsOf(queue) /\ D = DelOf(queue, has) /\ R = RefsOf(queue, has)
  OBVIOUS
<1>3. RelMemory(store, place, A, A, G, k, R, I, D) /\ RelQueues(queue, has, N)
  BY <1>2 DEF RelInv, RelMem
<1>4. s \in Stub
  BY <1>1, ScannersStub
<1>5. ShownBy(A, I, D, s) = has[s]
  BY <1>2, <1>3, <1>4, ShownIsHad
<1>6. has[s] \subseteq A /\ has[s] \subseteq 1 .. N /\ A \subseteq 1 .. N
  <2>1. has[s] \subseteq 1 .. N /\ A \subseteq 1 .. N /\ Keeps(queue, has, s) \subseteq A
    BY <1>2, <1>3, <1>4, GhostsRead
  <2> QED BY <2>1 DEF Keeps
<1>7. place \in Seq(PlaceType) /\ N \in Nat /\ InList(store, place, A)
  BY <1>3 DEF RelMemory
<1>8. x \in A \cup {N + 1} /\ x \in Nat /\ x > 0 /\ A \subseteq Nat \ {0}
  BY <1>1, <1>6, <1>7
<1>9. PICK v \in A \cup {0} : Adjacent(A, v, x)
  BY <1>8, NextBelow
<1>10. v \in Nat /\ v < x /\ \A a \in A : a <= v \/ x <= a
  BY <1>8, <1>9 DEF Adjacent
<1>11. Pl(place, v) = t
  BY <1>7, <1>8, <1>9 DEF InList
<1>12. PICK z : Greatest(has[s], v, z)
  <2>1. has[s] \subseteq Nat \ {0}
    BY <1>6, <1>7
  <2> QED BY <1>10, <2>1, GreatestExists
<1>13. Rel!FirstShown(store, t, s) = Pl(place, z)
  BY <1>3, <1>5, <1>11, <1>12, ShownFound
<1>14. z \in has[s] \cup {0} /\ z \in Nat /\ z <= v /\ \A a \in has[s] : a <= v => a <= z
  BY <1>6, <1>7, <1>12 DEF Greatest
<1>15. z < x
  BY <1>8, <1>10, <1>14
<1>16. \A a \in has[s] : a < x => a <= z
  <2> TAKE a \in has[s]
  <2>1. a \in A /\ a \in Nat
    BY <1>6, <1>7
  <2> QED BY <1>8, <1>10, <1>14, <2>1
<1>17. Pl(place, z) \in ListPlace
  BY <1>6, <1>7, <1>14 DEF Pl, ListPlace
<1> QED BY <1>1, <1>13, <1>14, <1>15, <1>16, <1>17

LEMMA ScanSet ==
  ASSUME kind \in Rels, NEW G, NEW k, NEW y, RelInv(G, k, y), NEW t \in ListPlace,
         NEW w, w = [store EXCEPT !.nextTuple[Scanner] = t]
  PROVE  /\ RelMem(w, place, queue, has, G, k) /\ w.stubs = RelStubs
         /\ w.nextTuple[Scanner] = t
<1>1. /\ RelMem(store, place, queue, has, G, k) /\ store.stubs = RelStubs /\ RelType(store)
  BY DEF RelInv, RelMem, RelMemory
<1>2. /\ DOMAIN store = RelFields /\ store.nextTuple \in [store.stubs -> ListPlace]
      /\ Scanner \in store.stubs
  BY <1>1, ScannersStub DEF RelType
<1>3. w.nextTuple = [store.nextTuple EXCEPT ![Scanner] = t]
  BY <1>2 DEF RelFields
<1>4. w.nextTuple \in [store.stubs -> ListPlace] /\ w.nextTuple[Scanner] = t
  BY <1>2, <1>3
<1>5. /\ DOMAIN w = RelFields /\ w.page = store.page /\ w.emptyPageList = store.emptyPageList
      /\ w.tuples = store.tuples /\ w.freeTuples = store.freeTuples
      /\ w.stubs = store.stubs /\ w.outOfMemory = store.outOfMemory
  BY <1>2 DEF RelFields
<1>6. RelType(w)
  BY <1>1, <1>4, <1>5 DEF RelType
<1>7. RelMem(w, place, queue, has, G, k)
  BY <1>1, <1>5, <1>6, SameMemory DEF RelMem
<1> QED BY <1>1, <1>4, <1>5, <1>7

LEMMA RelStartsScan ==
  ASSUME RelIndInv, kind \in Rels, Running(store), NEW s \in Stub, StartScan(s)
  PROVE  RelIndInv'
<1>1. PICK G, k, y : RelInv(G, k, y)
  BY DEF RelIndInv
<1>2. /\ s = Scanner /\ store' = Rel!getScan_r(store, s) /\ scanning' = scanning \cup {s}
      /\ left' = [left EXCEPT ![s] = has[s]]
      /\ kind' = kind /\ place' = place /\ queue' = queue /\ has' = has
  BY RelCalls DEF StartScan
<1>3. PICK N : N = Len(place)
  OBVIOUS
<1>4. PICK z \in has[s] \cup {0} :
        /\ Rel!FirstShown(store, store.tuples, s) = Pl(place, z) /\ Pl(place, z) \in ListPlace
        /\ z < N + 1 /\ \A a \in has[s] : a < N + 1 => a <= z
  BY <1>1, <1>2, <1>3, ScanFinds
<1>5. PICK t : t = Pl(place, z)
  OBVIOUS
<1>6. store' = [store EXCEPT !.nextTuple[s] = t]
  BY <1>2, <1>4, <1>5 DEF Rel!getScan_r
<1>7. PICK w : w = store'
  OBVIOUS
<1>8. RelMem(w, place, queue, has, G, k) /\ w.stubs = RelStubs /\ w.nextTuple[s] = t
  <2>1. t \in ListPlace /\ w = [store EXCEPT !.nextTuple[Scanner] = t]
    BY <1>2, <1>4, <1>5, <1>6, <1>7
  <2> QED BY <1>1, <1>2, <2>1, ScanSet
<1>9. RelQueues(queue, has, N) /\ RelScan(scanning, left, has, store.nextTuple, place, y)
  BY <1>1, <1>3 DEF RelInv
<1>10. PICK L : L = left'
  OBVIOUS
<1>11. DOMAIN L = Stub /\ L[s] = has[s]
  BY <1>2, <1>9, <1>10 DEF RelScan
<1>12. \A a \in has[s] : a <= z
  <2>1. has[s] \subseteq 1 .. N /\ N \in Nat
    BY <1>9 DEF RelQueues
  <2> QED BY <1>4, <2>1
<1>13. RelScan(scanning \cup {s}, L, has, w.nextTuple, place, z)
  <2>1. L[s] = {a \in has[s] : a <= z}
    BY <1>11, <1>12
  <2> QED BY <1>2, <1>4, <1>5, <1>8, <1>9, <1>11, <2>1 DEF RelScan
<1> QED BY <1>2, <1>3, <1>7, <1>8, <1>9, <1>10, <1>13, RelAgain

LEMMA RelEndsScan ==
  ASSUME RelIndInv, kind \in Rels, Running(store), NEW s \in Stub, EndScan(s)
  PROVE  RelIndInv'
<1>1. PICK G, k, y : RelInv(G, k, y)
  BY DEF RelIndInv
<1>2. /\ scanning' = scanning \ {s} /\ left' = [left EXCEPT ![s] = {}] /\ s \in scanning
      /\ kind' = kind /\ store' = store /\ place' = place /\ queue' = queue /\ has' = has
  BY DEF EndScan
<1>3. /\ RelQueues(queue, has, Len(place)) /\ RelMem(store, place, queue, has, G, k)
      /\ store.stubs = RelStubs /\ RelScan(scanning, left, has, store.nextTuple, place, y)
  BY <1>1 DEF RelInv
<1>4. PICK L : L = left'
  OBVIOUS
<1>5. RelScan(scanning \ {s}, L, has, store.nextTuple, place, y)
  BY <1>2, <1>3, <1>4 DEF RelScan
<1> QED BY <1>2, <1>3, <1>4, <1>5, RelAgain

-----------------------------------------------------------------------------
(* What an operator keeps for itself nobody else has.                      *)
LEMMA OwnGhosts ==
  ASSUME kind = "own", NEW Q, NEW H, NEW N, RelQueues(Q, H, N)
  PROVE  /\ Kept(Q, H) = H[1] /\ H[1] \subseteq 1 .. N /\ N \in Nat
         /\ \A x \in Nat : /\ InsOf(Q)[x] = {} /\ DelOf(Q, H)[x] = (IF x \in H[1] THEN {1} ELSE {})
                           /\ RefsOf(Q, H)[x] = One(x \in H[1])
<1>1. /\ N \in Nat /\ Q \in [Stub -> Seq(Element)] /\ H \in [Stub -> SUBSET (1 .. N)]
      /\ \A s \in Stub : Q[s] = <<>>
      /\ \A r \in {2, 3} : H[r] = {}
  BY StubAssumption DEF RelQueues
<1>2. \A s \in Stub : OfSign(Q[s], "+") = {}
  BY <1>1, NoneOnTheWay
<1>3. Keeps(Q, H, 1) = H[1] /\ Keeps(Q, H, 2) = {} /\ Keeps(Q, H, 3) = {}
  BY <1>1, <1>2, StubAssumption DEF Keeps
<1>4. Kept(Q, H) = H[1]
  BY <1>3, StubAssumption DEF Kept
<1>5. H[1] \subseteq 1 .. N
  BY <1>1, StubAssumption
<1>6. ASSUME NEW x \in Nat
      PROVE  /\ InsOf(Q)[x] = {} /\ DelOf(Q, H)[x] = (IF x \in H[1] THEN {1} ELSE {})
             /\ RefsOf(Q, H)[x] = One(x \in H[1])
  <2>1. InsOf(Q)[x] = {}
    BY <1>2 DEF InsOf
  <2>2. \A s \in Stub : x \in Keeps(Q, H, s) <=> s = 1 /\ x \in H[1]
    BY <1>3, StubAssumption
  <2>3. DelOf(Q, H)[x] = {s \in Stub : x \in Keeps(Q, H, s)}
    BY DEF DelOf
  <2>4. Holders(Q, H, x) = 0
    BY <1>3 DEF Holders, One
  <2>5. RefsOf(Q, H)[x] = IF x \in H[1] THEN 1 + 0 ELSE 2 * 0
    BY <2>4 DEF RefsOf
  <2> QED BY <2>1, <2>2, <2>3, <2>5, StubAssumption DEF One
<1> QED BY <1>1, <1>4, <1>5, <1>6

DropsOwn(m, t, w, H, x, J) ==
  /\ w = Links!decrRef(Rel!deleteTuple_r(m, t, 1), t)
  /\ J = SetAt(H, 1, H[1] \ {x})

LEMMA OwnDropped ==
  ASSUME kind = "own", NEW Q, NEW H, NEW N, RelQueues(Q, H, N),
         NEW m, NEW P, NEW G, NEW k, RelMem(m, P, Q, H, G, k), NEW x \in H[1],
         NEW w, NEW J, DropsOwn(m, P[x], w, H, x, J)
  PROVE  /\ RelQueues(Q, J, N) /\ SameBeside(m, w) /\ J[1] = H[1] \ {x}
         /\ \E F, l : RelMem(w, P, Q, J, F, l)
<1>0. w = Links!decrRef(Rel!deleteTuple_r(m, P[x], 1), P[x]) /\ J = SetAt(H, 1, H[1] \ {x})
  BY DEF DropsOwn
<1>1. PICK A, I, D, R, s : /\ A = Kept(Q, H) /\ I = InsOf(Q) /\ D = DelOf(Q, H) /\ R = RefsOf(Q, H)
                           /\ s = 1
  OBVIOUS
<1>2. RelMemory(m, P, A, A, G, k, R, I, D)
  BY <1>1 DEF RelMem
<1>3. /\ A = H[1] /\ H[1] \subseteq 1 .. N /\ N \in Nat
      /\ \A z \in Nat : /\ I[z] = {} /\ D[z] = (IF z \in H[1] THEN {1} ELSE {})
                        /\ R[z] = One(z \in H[1])
  BY <1>1, OwnGhosts
<1>4. x \in Nat /\ x \in A /\ I[x] = {} /\ D[x] \ {s} = {} /\ R[x] = 1
  BY <1>1, <1>3 DEF One
<1>5. PICK d : d = Rel!deleteTuple_r(m, P[x], s)
  OBVIOUS
<1>6. PICK E : E = SetAt(D, x, D[x] \ {s})
  OBVIOUS
<1>7. SameBeside(m, d) /\ RelMemory(d, P, A \ {x}, A, G, k, R, I, E)
  <2>1. /\ SameBeside(m, d)
        /\ RelMemory(d, P, IF I[x] = {} /\ D[x] \ {s} = {} THEN A \ {x} ELSE A, A, G, k, R, I,
                     SetAt(D, x, D[x] \ {s}))
    BY <1>2, <1>4, <1>5, DeletedBy
  <2> QED BY <1>4, <1>6, <2>1
<1>8. PICK F, T : F = SetAt(G, k + 1, P[x]) /\ T = SetAt(R, x, R[x] - 1)
  OBVIOUS
<1>9. SameBeside(d, w) /\ RelMemory(w, P, A \ {x}, A \ {x}, F, k + 1, T, I, E)
  <2>1. w = Links!decrRef(d, P[x])
    BY <1>0, <1>1, <1>5
  <2> QED BY <1>4, <1>7, <1>8, <2>1, RefDropped
<1>10. SameBeside(m, w)
  BY <1>7, <1>9 DEF SameBeside
<1>11. H \in [Stub -> SUBSET (1 .. N)] /\ 1 \in Stub
  BY StubAssumption DEF RelQueues
<1>12. J \in [Stub -> SUBSET (1 .. N)] /\ J[1] = H[1] \ {x} /\ \A r : r # 1 /\ r \in Stub => J[r] = H[r]
  BY <1>0, <1>3, <1>11 DEF SetAt
<1>13. RelQueues(Q, J, N)
  BY <1>12, StubAssumption DEF RelQueues
<1>14. /\ Kept(Q, J) = A \ {x}
       /\ \A z \in Nat : /\ DelOf(Q, J)[z] = (IF z \in A \ {x} THEN {1} ELSE {})
                         /\ RefsOf(Q, J)[z] = One(z \in A \ {x})
  <2>1. /\ Kept(Q, J) = J[1]
        /\ \A z \in Nat : /\ DelOf(Q, J)[z] = (IF z \in J[1] THEN {1} ELSE {})
                          /\ RefsOf(Q, J)[z] = One(z \in J[1])
    <3>1. \A K : RelQueues(Q, K, N) =>
            /\ Kept(Q, K) = K[1]
            /\ \A z \in Nat : /\ DelOf(Q, K)[z] = (IF z \in K[1] THEN {1} ELSE {})
                              /\ RefsOf(Q, K)[z] = One(z \in K[1])
      BY OwnGhosts
    <3> QED BY <1>13, <3>1, Zenon
  <2>2. J[1] = A \ {x}
    BY <1>3, <1>12
  <2> QED BY <2>1, <2>2
<1>15. RefsOf(Q, J) \in [Nat -> Int] /\ DelOf(Q, J) \in [Nat -> SUBSET Stub] /\ I \in [Nat -> SUBSET Stub]
  BY <1>1, <1>13, GhostsRead DEF Rels
<1>16. Agree(A \ {x}, T, I, E, RefsOf(Q, J), I, DelOf(Q, J))
  <2>1. \A z \in A \ {x} : RefsOf(Q, J)[z] = T[z] /\ DelOf(Q, J)[z] = E[z]
    <3> TAKE z \in A \ {x}
    <3>1. z \in Nat /\ z # x /\ z \in H[1]
      BY <1>3
    <3>2. T[z] = R[z] /\ E[z] = D[z]
      BY <1>2, <1>6, <1>8, <3>1 DEF SetAt, RelMemory
    <3> QED BY <1>3, <1>14, <3>1, <3>2 DEF One
  <2> QED BY <1>15, <2>1 DEF Agree
<1>17. RelMem(w, P, Q, J, F, k + 1)
  BY <1>1, <1>9, <1>14, <1>16, GhostsAgree DEF RelMem
<1> QED BY <1>10, <1>12, <1>13, <1>17

LEMMA OwnDeletes ==
  ASSUME RelIndInv, kind \in Rels, Running(store), NEW x, DeleteOwnTuple(x)
  PROVE  RelIndInv'
<1>1. PICK G, k, y : RelInv(G, k, y)
  BY DEF RelIndInv
<1>2. /\ kind = "own" /\ scanning = {} /\ x \in has[1] /\ store' = Dropped(store, x)
      /\ has' = SetAt(has, 1, has[1] \ {x}) /\ kind' = kind /\ place' = place /\ queue' = queue
      /\ scanning' = scanning /\ left' = left
  BY DEF DeleteOwnTuple, SetAt
<1>3. /\ RelQueues(queue, has, Len(place)) /\ RelMem(store, place, queue, has, G, k)
      /\ store.stubs = RelStubs /\ RelScan(scanning, left, has, store.nextTuple, place, y)
  BY <1>1 DEF RelInv
<1>4. PICK w, H, N : w = store' /\ H = has' /\ N = Len(place)
  OBVIOUS
<1>5. DropsOwn(store, place[x], w, has, x, H)
  BY <1>2, <1>4, RelCalls DEF Dropped, DropsOwn
<1>6. PICK F, l : /\ RelQueues(queue, H, Len(place)) /\ SameBeside(store, w)
                  /\ RelMem(w, place, queue, H, F, l)
  <2>1. RelQueues(queue, has, N)
    BY <1>3, <1>4
  <2>2. /\ RelQueues(queue, H, N) /\ SameBeside(store, w)
        /\ \E F, l : RelMem(w, place, queue, H, F, l)
    BY <1>2, <1>3, <1>5, <2>1, OwnDropped
  <2> QED BY <1>4, <2>2
<1>7. RelScan(scanning, left, H, w.nextTuple, place, y) /\ w.stubs = RelStubs
  BY <1>2, <1>3, <1>6 DEF RelScan, SameBeside
<1> QED BY <1>2, <1>4, <1>6, <1>7, RelAgain

LEMMA RelNextOfScan ==
  ASSUME RelIndInv, kind \in Rels, Running(store), NEW s \in Stub, NextOfScan(s)
  PROVE  RelIndInv'
<1>1. PICK G, k, y : RelInv(G, k, y)
  BY DEF RelIndInv
<1>2. PICK N : N = Len(place)
  OBVIOUS
<1>3. /\ RelQueues(queue, has, N) /\ RelMem(store, place, queue, has, G, k)
      /\ store.stubs = RelStubs /\ RelScan(scanning, left, has, store.nextTuple, place, y)
  BY <1>1, <1>2 DEF RelInv
<1>4. s = Scanner /\ s \in scanning
  BY <1>3 DEF NextOfScan, RelScan
<1>5. /\ store.nextTuple[s] = Pl(place, y) /\ y \in has[s] \cup {0} /\ DOMAIN left = Stub
      /\ left[s] = {x \in has[s] : x <= y} /\ scanning \subseteq {s}
  BY <1>3, <1>4 DEF RelScan
<1>6. y # 0
  <2>1. store.nextTuple[s] # NoTuple
    BY RelCalls DEF NextOfScan
  <2> QED BY <1>5, <2>1 DEF Pl
<1>7. y \in has[s] /\ store.nextTuple[s] = place[y]
  BY <1>5, <1>6 DEF Pl
<1>8. has[s] \subseteq 1 .. N /\ N \in Nat /\ y \in Nat /\ y \in Kept(queue, has)
  <2>1. /\ has[s] \subseteq 1 .. N /\ Keeps(queue, has, s) \subseteq Kept(queue, has)
    BY <1>3, GhostsRead
  <2> QED BY <1>3, <1>7, <2>1 DEF RelQueues, Keeps
<1>9. IdOf(store, NextTuple(store, s)) = y
  <2>1. NextTuple(store, s) = place[y]
    BY <1>7, RelCalls
  <2> QED BY <1>3, <1>8, <2>1 DEF RelMem, RelMemory, Cells
<1>10. PICK c : c = CellOf(store, place[y]).next
  OBVIOUS
<1>11. PICK z \in has[s] \cup {0} :
        /\ Rel!FirstShown(store, c, s) = Pl(place, z) /\ Pl(place, z) \in ListPlace
        /\ z < y /\ \A a \in has[s] : a < y => a <= z
  <2>1. y # N + 1
    BY <1>7, <1>8
  <2>2. y \in has[Scanner] \cup {N + 1} /\ c = IF y = N + 1 THEN store.tuples ELSE CellOf(store, place[y]).next
    BY <1>4, <1>7, <1>10, <2>1
  <2> QED BY <1>1, <1>2, <1>4, <2>2, ScanFinds
<1>12. PICK t : t = Pl(place, z)
  OBVIOUS
<1>13. PICK u : u = getNext(store, s)
  OBVIOUS
<1>14. u = [store EXCEPT !.nextTuple[s] = t]
  <2>1. RelType(store)
    BY <1>3 DEF RelMem, RelMemory
  <2>2. DOMAIN store = RelFields /\ s \in DOMAIN store.nextTuple
    BY <1>3, <1>4, <2>1, ScannersStub DEF RelType
  <2>3. u = [store EXCEPT !.nextTuple[s] = Rel!FirstShown(store, CellOf(store, store.nextTuple[s]).next, s)]
    BY <1>13, <2>2, RelCalls, RelOps DEF Rel!getNext, RelFields
  <2> QED BY <1>7, <1>10, <1>11, <1>12, <2>3
<1>15. RelMem(u, place, queue, has, G, k) /\ u.stubs = RelStubs /\ u.nextTuple[s] = t
  BY <1>1, <1>4, <1>11, <1>12, <1>14, ScanSet
<1>16. PICK L : L = left'
  OBVIOUS
<1>17. DOMAIN L = Stub /\ L[s] = left[s] \ {y}
  BY <1>5, <1>9, <1>16 DEF NextOfScan
<1>18. L[s] = {x \in has[s] : x <= z} /\ L[s] = {x \in has[s] \ {y} : x <= z}
  <2>1. \A x \in has[s] : x <= y /\ x # y <=> x <= z
    <3> TAKE x \in has[s]
    <3>1. x \in Nat /\ z \in Nat
      BY <1>8
    <3> QED BY <1>8, <1>11, <3>1
  <2> QED BY <1>5, <1>8, <1>11, <1>17, <2>1
<1>19. kind' = kind /\ place' = place /\ queue' = queue /\ scanning' = scanning
  BY DEF NextOfScan
<1>20. CASE store' = u /\ has' = has
  <2>1. RelScan(scanning, L, has, u.nextTuple, place, z)
    BY <1>4, <1>5, <1>11, <1>12, <1>15, <1>17, <1>18 DEF RelScan
  <2>2. RelQueues(queue, has, Len(place))
    BY <1>2, <1>3
  <2> QED BY <1>15, <1>16, <1>19, <1>20, <2>1, <2>2, RelAgain
<1>21. CASE kind = "own" /\ store' = Dropped(u, y) /\ has' = SetAt(has, 1, has[1] \ {y})
  <2>1. PICK w, H : w = store' /\ H = has'
    OBVIOUS
  <2>2. DropsOwn(u, place[y], w, has, y, H)
    BY <1>21, <2>1, RelCalls DEF Dropped, DropsOwn
  <2>3. s = 1
    BY <1>4, <1>21, RelReaders
  <2>4. PICK F, l : /\ RelQueues(queue, H, N) /\ SameBeside(u, w) /\ H[1] = has[1] \ {y}
                    /\ RelMem(w, place, queue, H, F, l)
    <3>1. y \in has[1] /\ RelMem(u, place, queue, has, G, k) /\ kind = "own"
      BY <1>7, <1>15, <1>21, <2>3
    <3>2. RelQueues(queue, has, N)
      BY <1>3
    <3>3. /\ RelQueues(queue, H, N) /\ SameBeside(u, w) /\ H[1] = has[1] \ {y}
          /\ \E F, l : RelMem(w, place, queue, H, F, l)
      BY <2>2, <3>1, <3>2, OwnDropped
    <3> QED BY <3>3
  <2>5. z \in H[s] \cup {0}
    BY <1>8, <1>11, <2>3, <2>4
  <2>6. RelScan(scanning, L, H, w.nextTuple, place, z) /\ w.stubs = RelStubs
    BY <1>4, <1>5, <1>12, <1>15, <1>17, <1>18, <2>3, <2>4, <2>5 DEF RelScan, SameBeside
  <2>7. RelQueues(queue, H, Len(place))
    BY <1>2, <2>4
  <2> QED BY <1>16, <1>19, <2>1, <2>4, <2>6, <2>7, RelAgain
<1>22. \/ store' = u /\ has' = has
       \/ kind = "own" /\ store' = Dropped(u, y) /\ has' = SetAt(has, 1, has[1] \ {y})
  BY <1>9, <1>13 DEF NextOfScan, SetAt
<1> QED BY <1>20, <1>21, <1>22

-----------------------------------------------------------------------------
LEMMA AtAndBeside ==
  ASSUME NEW f, DOMAIN f = Nat, NEW x \in Nat, NEW v, NEW g, g = SetAt(f, x, v)
  PROVE  DOMAIN g = Nat /\ g[x] = v /\ \A z \in Nat : z # x => g[z] = f[z]
BY DEF SetAt

LEMMA GhostsAt ==
  ASSUME NEW Q, NEW H
  PROVE  /\ \A x \in Nat, s \in Stub : /\ s \in InsOf(Q)[x] <=> x \in OfSign(Q[s], "+")
                                       /\ s \in DelOf(Q, H)[x] <=> x \in Keeps(Q, H, s)
         /\ \A x \in Nat : /\ InsOf(Q)[x] \subseteq Stub /\ DelOf(Q, H)[x] \subseteq Stub
                           /\ RefsOf(Q, H)[x] = IF x \in H[1] THEN 1 + Holders(Q, H, x)
                                                ELSE 2 * Holders(Q, H, x)
         /\ \A x : x \in Kept(Q, H) <=> \E s \in Stub : x \in Keeps(Q, H, s)
BY DEF InsOf, DelOf, RefsOf, Kept

(* The operator sends a tuple it has made to its two readers.              *)
SendsPlus(Q, H, N, S, J) ==
  /\ S = [r \in Stub |-> IF r \in {2, 3} THEN Append(Q[r], Plus(N)) ELSE Q[r]]
  /\ J = SetAt(H, 1, H[1] \cup {N})

LEMMA PlusGhosts ==
  ASSUME kind = "rel", NEW Q, NEW H, NEW n, RelQueues(Q, H, n), NEW N, N = n + 1,
         NEW S, NEW J, SendsPlus(Q, H, N, S, J)
  PROVE  /\ RelQueues(S, J, N) /\ N \notin Kept(Q, H) /\ Kept(S, J) = Kept(Q, H) \cup {N}
         /\ RefsOf(S, J)[N] = 3 /\ InsOf(S)[N] = {2, 3} /\ DelOf(S, J)[N] = Stub
         /\ \A x \in Nat : x # N =>
              /\ RefsOf(S, J)[x] = RefsOf(Q, H)[x] /\ InsOf(S)[x] = InsOf(Q)[x]
              /\ DelOf(S, J)[x] = DelOf(Q, H)[x]
         /\ \A r \in {2, 3} : J[r] = H[r]
<1>1. /\ n \in Nat /\ Q \in [Stub -> Seq(Element)] /\ Q[1] = <<>> /\ H \in [Stub -> SUBSET (1 .. n)]
      /\ \A s \in Stub : OfSign(Q[s], "+") \subseteq 1 .. n
      /\ \A r \in {2, 3} : RelQueue(Q[r], H[1], H[r])
  BY DEF RelQueues
<1>2. /\ 1 \in Stub /\ 2 \in Stub /\ 3 \in Stub /\ \A s \in Stub : s = 1 \/ s \in {2, 3}
  BY StubAssumption
<1>3. N \in Nat /\ N \notin 1 .. n /\ 1 .. N = (1 .. n) \cup {N}
  BY <1>1
<1>4. J \in [Stub -> SUBSET (1 .. N)] /\ J[1] = H[1] \cup {N} /\ \A r \in {2, 3} : J[r] = H[r]
  <2>1. J = SetAt(H, 1, H[1] \cup {N})
    BY DEF SendsPlus
  <2> QED BY <1>1, <1>2, <1>3, <2>1 DEF SetAt
<1>5. /\ DOMAIN S = Stub /\ S[1] = <<>> /\ \A r \in {2, 3} : S[r] = Append(Q[r], Plus(N))
  BY <1>1, <1>2 DEF SendsPlus
<1>6. \A r \in {2, 3} : /\ RelQueue(S[r], J[1], J[r])
                        /\ OfSign(S[r], "+") = OfSign(Q[r], "+") \cup {N}
  <2> TAKE r \in {2, 3}
  <2>1. N \notin H[r] \cup OfSign(Q[r], "+")
    BY <1>1, <1>2, <1>3
  <2>2. /\ RelQueue(Append(Q[r], Plus(N)), H[1] \cup {N}, H[r])
        /\ OfSign(Append(Q[r], Plus(N)), "+") = OfSign(Q[r], "+") \cup {N}
    <3>1. RelQueue(Q[r], H[1], H[r])
      BY <1>1
    <3>2. N \in Nat
      BY <1>3
    <3> QED BY <2>1, <3>1, <3>2, QueueMade
  <2> QED BY <1>4, <1>5, <2>2
<1>7. OfSign(S[1], "+") = {} /\ OfSign(Q[1], "+") = {}
  BY <1>1, <1>5, NoneOnTheWay
<1>8. S \in [Stub -> Seq(Element)]
  <2>1. \A r \in {2, 3} : S[r] \in Seq(Element)
    BY <1>6 DEF RelQueue
  <2>2. S[1] \in Seq(Element)
    BY <1>5
  <2>3. \A s \in Stub : S[s] \in Seq(Element)
    BY <1>2, <2>1, <2>2
  <2>4. S = [s \in Stub |-> S[s]]
    BY DEF SendsPlus
  <2> QED BY <2>3, <2>4
<1>9. RelQueues(S, J, N)
  <2>1. \A s \in Stub : OfSign(S[s], "+") \subseteq 1 .. N
    BY <1>1, <1>2, <1>3, <1>6, <1>7
  <2> QED BY <1>3, <1>4, <1>5, <1>6, <1>8, <2>1 DEF RelQueues
<1>10. \A s \in Stub : Keeps(S, J, s) = Keeps(Q, H, s) \cup {N} /\ N \notin Keeps(Q, H, s)
  <2>1. Keeps(S, J, 1) = Keeps(Q, H, 1) \cup {N}
    BY <1>4, <1>7 DEF Keeps
  <2>2. \A r \in {2, 3} : Keeps(S, J, r) = Keeps(Q, H, r) \cup {N}
    BY <1>4, <1>6 DEF Keeps
  <2>3. \A s \in Stub : N \notin Keeps(Q, H, s)
    BY <1>1, <1>3 DEF Keeps
  <2> QED BY <1>2, <2>1, <2>2, <2>3
<1>11. N \notin Kept(Q, H) /\ Kept(S, J) = Kept(Q, H) \cup {N}
  <2>1. \A x : x \in Kept(Q, H) <=> \E s \in Stub : x \in Keeps(Q, H, s)
    BY GhostsAt
  <2>2. \A x : x \in Kept(S, J) <=> \E s \in Stub : x \in Keeps(S, J, s)
    BY GhostsAt
  <2>3. N \notin Kept(Q, H)
    BY <1>10, <2>1
  <2>4. \A x : x \in Kept(S, J) <=> x \in Kept(Q, H) \cup {N}
    BY <1>2, <1>10, <2>1, <2>2
  <2> QED BY <2>3, <2>4
<1>12. Holders(S, J, N) = 2 /\ \A x \in Nat : x # N => Holders(S, J, x) = Holders(Q, H, x)
  BY <1>2, <1>10 DEF Holders, One
<1>13. RefsOf(S, J)[N] = 3 /\ \A x \in Nat : x # N => RefsOf(S, J)[x] = RefsOf(Q, H)[x]
  <2>1. RefsOf(S, J)[N] = 3
    <3>1. RefsOf(S, J)[N] = 1 + Holders(S, J, N)
      BY <1>3, <1>4 DEF RefsOf
    <3> QED BY <1>12, <3>1
  <2>2. ASSUME NEW x \in Nat, x # N PROVE RefsOf(S, J)[x] = RefsOf(Q, H)[x]
    <3>1. x \in J[1] <=> x \in H[1]
      BY <1>4, <2>2
    <3>2. Holders(S, J, x) = Holders(Q, H, x)
      BY <1>12, <2>2
    <3> QED BY <3>1, <3>2 DEF RefsOf
  <2> QED BY <2>1, <2>2
<1>14. InsOf(S)[N] = {2, 3} /\ \A x \in Nat : x # N => InsOf(S)[x] = InsOf(Q)[x]
  <2>1. \A s \in Stub : N \in OfSign(S[s], "+") <=> s \in {2, 3}
    BY <1>2, <1>6, <1>7
  <2>2. InsOf(S)[N] = {s \in Stub : N \in OfSign(S[s], "+")}
    BY <1>3 DEF InsOf
  <2>3. \A x \in Nat : x # N => \A s \in Stub : x \in OfSign(S[s], "+") <=> x \in OfSign(Q[s], "+")
    BY <1>2, <1>6, <1>7
  <2>4. InsOf(S)[N] = {2, 3}
    BY <1>2, <2>1, <2>2
  <2> QED BY <2>3, <2>4 DEF InsOf
<1>15. DelOf(S, J)[N] = Stub /\ \A x \in Nat : x # N => DelOf(S, J)[x] = DelOf(Q, H)[x]
  BY <1>3, <1>10 DEF DelOf
<1> QED BY <1>4, <1>9, <1>11, <1>13, <1>14, <1>15

LEMMA RelMakes ==
  ASSUME RelIndInv, kind \in Rels, Running(store), MakeRelationTuple
  PROVE  RelIndInv'
<1>1. PICK G, k, y : RelInv(G, k, y)
  BY DEF RelIndInv
<1>2. PICK n, N : n = Len(place) /\ N = n + 1
  OBVIOUS
<1>3. /\ RelQueues(queue, has, n) /\ RelMem(store, place, queue, has, G, k)
      /\ store.stubs = RelStubs /\ RelScan(scanning, left, has, store.nextTuple, place, y)
  BY <1>1, <1>2 DEF RelInv
<1>4. kind = "rel" /\ kind' = kind /\ scanning' = scanning /\ left' = left
  BY DEF MakeRelationTuple
<1>5. PICK A, I, D, R : A = Kept(queue, has) /\ I = InsOf(queue) /\ D = DelOf(queue, has) /\ R = RefsOf(queue, has)
  OBVIOUS
<1>6. PICK P : P = place
  OBVIOUS
<1>7. RelMemory(store, P, A, A, G, k, R, I, D) /\ n \in Nat /\ N \in Nat
  BY <1>2, <1>3, <1>5, <1>6 DEF RelMem, RelQueues
<1>8. PICK a, t : a = Rel!newTuple(store, N) /\ t = Links!NewPlace(store)
  OBVIOUS
<1>9. N = Len(P) + 1 /\ ~store.outOfMemory
  BY <1>2, <1>6 DEF Running
<1>10. /\ a.stubs = store.stubs /\ a.nextTuple = store.nextTuple
       /\ a.outOfMemory => RelMemory(a, P, A, A, G, k, R, I, D)
       /\ ~a.outOfMemory => \E F, l :
            RelMemory(a, Append(P, t), A \cup {N}, A \cup {N}, F, l,
                      SetAt(R, N, 1), SetAt(I, N, store.stubs), SetAt(D, N, store.stubs))
  <2>1. a = Rel!newTuple(store, N)
    BY <1>8
  <2>2. /\ a.stubs = store.stubs /\ a.nextTuple = store.nextTuple
        /\ a.outOfMemory => RelMemory(a, P, A, A, G, k, R, I, D)
        /\ ~a.outOfMemory => GetsTuple(store, a, P, A, A, R, I, D, N)
    BY <1>7, <1>9, <2>1, NewInRelation
  <2> QED BY <1>8, <2>2 DEF GetsTuple
<1>11. PICK b, c, w : /\ b = Links!insertTuple_r(a, t, 1) /\ c = Links!addRef(b, t, 1)
                      /\ w = Links!addRef(c, t, 1)
  OBVIOUS
<1>12. New = N /\ NewPlace(store) = t /\ newTuple(store, New) = a
  BY <1>2, <1>8, RelCalls DEF New
<1>13. Given(addRef(insertTuple_r(a, t, 1), t, 1), 1, t) = w
  BY <1>4, <1>11, RelCalls, RelReaders
<1>14. CASE a.outOfMemory
  <2>1. store' = a /\ place' = place /\ queue' = queue /\ has' = has
    BY <1>12, <1>14 DEF MakeRelationTuple, Made, Running
  <2>2. RelMem(a, place, queue, has, G, k)
    BY <1>5, <1>6, <1>10, <1>14 DEF RelMem
  <2>3. RelScan(scanning, left, has, a.nextTuple, place, y) /\ a.stubs = RelStubs
    BY <1>3, <1>10
  <2>4. RelQueues(queue, has, Len(place))
    BY <1>2, <1>3
  <2> QED BY <1>4, <2>1, <2>2, <2>3, <2>4, RelAgain
<1>15. CASE ~a.outOfMemory
  <2>1. PICK F, l : RelMemory(a, Append(P, t), A \cup {N}, A \cup {N}, F, l,
                      SetAt(R, N, 1), SetAt(I, N, store.stubs), SetAt(D, N, store.stubs))
    BY <1>10, <1>15
  <2>2. PICK Z, B, R1, I1, D1 : /\ Z = Append(P, t) /\ B = A \cup {N} /\ R1 = SetAt(R, N, 1)
                                /\ I1 = SetAt(I, N, store.stubs) /\ D1 = SetAt(D, N, store.stubs)
    OBVIOUS
  <2>3. RelMemory(a, Z, B, B, F, l, R1, I1, D1)
    BY <2>1, <2>2
  <2>4. Z[N] = t /\ Len(Z) = N /\ N \in B /\ \A x \in 1 .. n : Z[x] = P[x]
    <3>1. P \in Seq(PlaceType) /\ Z \in Seq(PlaceType)
      BY <1>7, <2>3 DEF RelMemory
    <3> QED BY <1>2, <1>6, <1>7, <2>2, <3>1
  <2>5. PICK I2, R2, R3 : I2 = SetAt(I1, N, I1[N] \ {1}) /\ R2 = SetAt(R1, N, R1[N] + 1)
                          /\ R3 = SetAt(R2, N, R2[N] + 1)
    OBVIOUS
  <2>6. RelMemory(b, Z, B, B, F, l, R1, I2, D1) /\ SameBeside(a, b)
    BY <1>11, <2>3, <2>4, <2>5, Inserted
  <2>7. RelMemory(c, Z, B, B, F, l, R2, I2, D1) /\ SameBeside(b, c)
    BY <1>11, <2>4, <2>5, <2>6, RefAdded
  <2>8. RelMemory(w, Z, B, B, F, l, R3, I2, D1) /\ SameBeside(c, w)
    BY <1>11, <2>4, <2>5, <2>7, RefAdded
  <2>9. w.stubs = store.stubs /\ w.nextTuple = store.nextTuple /\ ~w.outOfMemory
    BY <1>10, <1>15, <2>6, <2>7, <2>8 DEF SameBeside
  <2>10. PICK S, J : S = queue' /\ J = has'
    OBVIOUS
  <2>11. store' = w /\ place' = Z /\ SendsPlus(queue, has, N, S, J)
    <3>1. store' = w /\ place' = Z
      BY <1>6, <1>12, <1>13, <1>15, <2>2, <2>9 DEF MakeRelationTuple, Made, Running
    <3>2. queue' = Sent(queue, 1, Plus(N)) /\ has' = [has EXCEPT ![1] = @ \cup {N}]
      BY <1>12, <1>13, <1>15, <2>9 DEF MakeRelationTuple, Running
    <3>3. Sent(queue, 1, Plus(N)) = [r \in Stub |-> IF r \in {2, 3} THEN Append(queue[r], Plus(N)) ELSE queue[r]]
      BY <1>4, RelReaders DEF Sent
    <3> QED BY <2>10, <3>1, <3>2, <3>3 DEF SendsPlus, SetAt
  <2>12. /\ RelQueues(S, J, N) /\ N \notin A /\ Kept(S, J) = B
         /\ RefsOf(S, J)[N] = 3 /\ InsOf(S)[N] = {2, 3} /\ DelOf(S, J)[N] = Stub
         /\ \A x \in Nat : x # N =>
              /\ RefsOf(S, J)[x] = R[x] /\ InsOf(S)[x] = I[x] /\ DelOf(S, J)[x] = D[x]
         /\ \A r \in {2, 3} : J[r] = has[r]
    BY <1>2, <1>3, <1>4, <1>5, <2>2, <2>11, PlusGhosts
  <2>13. /\ RefsOf(S, J) \in [Nat -> Int] /\ InsOf(S) \in [Nat -> SUBSET Stub]
         /\ DelOf(S, J) \in [Nat -> SUBSET Stub] /\ B \subseteq 1 .. N
    BY <2>12, GhostsRead
  <2>14. store.stubs = Stub /\ Stub = {1, 2, 3}
    BY <1>3, <1>4, StubAssumption DEF RelStubs
  <2>15. DOMAIN R = Nat /\ DOMAIN I = Nat /\ DOMAIN D = Nat
    BY <1>7 DEF RelMemory
  <2>16. /\ R3[N] = 3 /\ I2[N] = {2, 3} /\ D1[N] = Stub
         /\ \A x \in Nat : x # N => R3[x] = R[x] /\ I2[x] = I[x] /\ D1[x] = D[x]
    <3>1. DOMAIN R1 = Nat /\ R1[N] = 1 /\ \A x \in Nat : x # N => R1[x] = R[x]
      BY <1>7, <2>2, <2>15, AtAndBeside
    <3>2. DOMAIN I1 = Nat /\ I1[N] = Stub /\ \A x \in Nat : x # N => I1[x] = I[x]
      BY <1>7, <2>2, <2>14, <2>15, AtAndBeside
    <3>3. D1[N] = Stub /\ \A x \in Nat : x # N => D1[x] = D[x]
      BY <1>7, <2>2, <2>14, <2>15, AtAndBeside
    <3>4. I2[N] = Stub \ {1} /\ \A x \in Nat : x # N => I2[x] = I[x]
      BY <1>7, <2>5, <3>2, AtAndBeside
    <3>5. DOMAIN R2 = Nat /\ R2[N] = 2 /\ \A x \in Nat : x # N => R2[x] = R[x]
      BY <1>7, <2>5, <3>1, AtAndBeside
    <3>6. R3[N] = 3 /\ \A x \in Nat : x # N => R3[x] = R[x]
      BY <1>7, <2>5, <3>5, AtAndBeside
    <3> QED BY <2>14, <3>3, <3>4, <3>6
  <2>17. Agree(B, R3, I2, D1, RefsOf(S, J), InsOf(S), DelOf(S, J))
    <3>1. \A x \in B : x \in Nat
      BY <2>13
    <3> QED BY <2>12, <2>13, <2>16, <3>1 DEF Agree
  <2>18. RelMem(w, Z, S, J, F, l)
    BY <2>8, <2>12, <2>17, GhostsAgree DEF RelMem
  <2>19. RelScan(scanning, left, J, w.nextTuple, Z, y)
    <3>1. Scanner \in {2, 3}
      BY <1>4, RelReaders
    <3>2. J[Scanner] = has[Scanner] /\ has[Scanner] \subseteq 1 .. n
      BY <1>3, <2>12, <3>1, StubAssumption DEF RelQueues
    <3>3. y \in has[Scanner] \cup {0} => Pl(Z, y) = Pl(place, y)
      BY <1>6, <2>4, <3>2 DEF Pl
    <3> QED BY <1>3, <2>9, <3>2, <3>3 DEF RelScan
  <2>20. RelQueues(S, J, Len(Z)) /\ w.stubs = RelStubs
    BY <1>3, <2>4, <2>9, <2>12
  <2> QED BY <1>4, <2>10, <2>11, <2>18, <2>19, <2>20, RelAgain
<1> QED BY <1>14, <1>15

LEMMA OwnMakes ==
  ASSUME RelIndInv, kind \in Rels, Running(store), MakeOwnTuple
  PROVE  RelIndInv'
<1>1. PICK G, k, y : RelInv(G, k, y)
  BY DEF RelIndInv
<1>2. PICK n, N : n = Len(place) /\ N = n + 1
  OBVIOUS
<1>3. /\ RelQueues(queue, has, n) /\ RelMem(store, place, queue, has, G, k)
      /\ store.stubs = RelStubs /\ RelScan(scanning, left, has, store.nextTuple, place, y)
  BY <1>1, <1>2 DEF RelInv
<1>4. kind = "own" /\ kind' = kind /\ queue' = queue /\ scanning' = scanning /\ left' = left /\ scanning = {}
  BY DEF MakeOwnTuple
<1>5. PICK A, I, D, R : A = Kept(queue, has) /\ I = InsOf(queue) /\ D = DelOf(queue, has) /\ R = RefsOf(queue, has)
  OBVIOUS
<1>6. PICK P : P = place
  OBVIOUS
<1>7. RelMemory(store, P, A, A, G, k, R, I, D) /\ n \in Nat /\ N \in Nat
  BY <1>2, <1>3, <1>5, <1>6 DEF RelMem, RelQueues
<1>8. PICK a, t : a = Rel!newTuple(store, N) /\ t = Links!NewPlace(store)
  OBVIOUS
<1>9. N = Len(P) + 1 /\ ~store.outOfMemory
  BY <1>2, <1>6 DEF Running
<1>10. /\ a.stubs = store.stubs /\ a.nextTuple = store.nextTuple
       /\ a.outOfMemory => RelMemory(a, P, A, A, G, k, R, I, D)
       /\ ~a.outOfMemory => \E F, l :
            RelMemory(a, Append(P, t), A \cup {N}, A \cup {N}, F, l,
                      SetAt(R, N, 1), SetAt(I, N, store.stubs), SetAt(D, N, store.stubs))
  <2>1. a = Rel!newTuple(store, N)
    BY <1>8
  <2>2. /\ a.stubs = store.stubs /\ a.nextTuple = store.nextTuple
        /\ a.outOfMemory => RelMemory(a, P, A, A, G, k, R, I, D)
        /\ ~a.outOfMemory => GetsTuple(store, a, P, A, A, R, I, D, N)
    BY <1>7, <1>9, <2>1, NewInRelation
  <2> QED BY <1>8, <2>2 DEF GetsTuple
<1>11. PICK w, e : e = 1 /\ w = Links!insertTuple_r(a, t, e)
  OBVIOUS
<1>12. New = N /\ NewPlace(store) = t /\ newTuple(store, New) = a /\ insertTuple_r(a, t, 1) = w
  BY <1>2, <1>8, <1>11, RelCalls DEF New
<1>14. CASE a.outOfMemory
  <2>1. store' = a /\ place' = place /\ has' = has
    BY <1>12, <1>14 DEF MakeOwnTuple, Made, Running
  <2>2. RelMem(a, place, queue, has, G, k)
    BY <1>5, <1>6, <1>10, <1>14 DEF RelMem
  <2>3. RelScan(scanning, left, has, a.nextTuple, place, y) /\ a.stubs = RelStubs
    BY <1>3, <1>10
  <2>4. RelQueues(queue, has, Len(place))
    BY <1>2, <1>3
  <2> QED BY <1>4, <2>1, <2>2, <2>3, <2>4, RelAgain
<1>15. CASE ~a.outOfMemory
  <2>1. PICK F, l : RelMemory(a, Append(P, t), A \cup {N}, A \cup {N}, F, l,
                      SetAt(R, N, 1), SetAt(I, N, store.stubs), SetAt(D, N, store.stubs))
    BY <1>10, <1>15
  <2>2. PICK Z, B, R1, I1, D1 : /\ Z = Append(P, t) /\ B = A \cup {N} /\ R1 = SetAt(R, N, 1)
                                /\ I1 = SetAt(I, N, store.stubs) /\ D1 = SetAt(D, N, store.stubs)
    OBVIOUS
  <2>3. RelMemory(a, Z, B, B, F, l, R1, I1, D1)
    BY <2>1, <2>2
  <2>4. Z[N] = t /\ Len(Z) = N /\ N \in B
    <3>1. P \in Seq(PlaceType) /\ Z \in Seq(PlaceType)
      BY <1>7, <2>3 DEF RelMemory
    <3> QED BY <1>2, <1>6, <1>7, <2>2, <3>1
  <2>5. PICK I2 : I2 = SetAt(I1, N, I1[N] \ {e})
    OBVIOUS
  <2>6. RelMemory(w, Z, B, B, F, l, R1, I2, D1) /\ SameBeside(a, w)
    <3>1. w = Links!insertTuple_r(a, Z[N], e)
      BY <1>11, <2>4
    <3>2. RelMemory(w, Z, B, B, F, l, R1, SetAt(I1, N, I1[N] \ {e}), D1) /\ SameBeside(a, w)
      BY <2>3, <2>4, <3>1, Inserted
    <3> QED BY <2>5, <3>2
  <2>9. w.stubs = store.stubs /\ w.nextTuple = store.nextTuple /\ ~w.outOfMemory
    BY <1>10, <1>15, <2>6 DEF SameBeside
  <2>10. PICK J : J = has'
    OBVIOUS
  <2>11. store' = w /\ place' = Z /\ J = [has EXCEPT ![1] = @ \cup {N}]
    BY <1>6, <1>12, <1>15, <2>2, <2>9, <2>10 DEF MakeOwnTuple, Made, Running
  <2>12. RelQueues(queue, J, N) /\ J[1] = has[1] \cup {N}
    <3>1. /\ queue \in [Stub -> Seq(Element)] /\ queue[1] = <<>> /\ has \in [Stub -> SUBSET (1 .. n)]
          /\ \A s \in Stub : OfSign(queue[s], "+") \subseteq 1 .. n
          /\ \A r \in {2, 3} : queue[r] = <<>> /\ has[r] = {}
      BY <1>3, <1>4 DEF RelQueues
    <3>2. N \in Nat /\ 1 .. n \subseteq 1 .. N /\ N \in 1 .. N
      BY <1>2, <1>7
    <3>3. J \in [Stub -> SUBSET (1 .. N)] /\ J[1] = has[1] \cup {N} /\ J[2] = {} /\ J[3] = {}
      BY <2>11, <3>1, <3>2, StubAssumption
    <3>4. \A s \in Stub : OfSign(queue[s], "+") \subseteq 1 .. N
      BY <3>1, <3>2
    <3> QED BY <1>4, <3>1, <3>2, <3>3, <3>4 DEF RelQueues
  <2>13. /\ A = has[1] /\ \A x \in Nat : /\ I[x] = {} /\ D[x] = (IF x \in has[1] THEN {1} ELSE {})
                                         /\ R[x] = One(x \in has[1])
    BY <1>3, <1>4, <1>5, OwnGhosts
  <2>14. /\ Kept(queue, J) = J[1] /\ J[1] \subseteq 1 .. N
         /\ \A x \in Nat : /\ DelOf(queue, J)[x] = (IF x \in J[1] THEN {1} ELSE {})
                           /\ RefsOf(queue, J)[x] = One(x \in J[1])
    BY <1>4, <2>12, OwnGhosts
  <2>15. RefsOf(queue, J) \in [Nat -> Int] /\ DelOf(queue, J) \in [Nat -> SUBSET Stub] /\ I \in [Nat -> SUBSET Stub]
    BY <1>5, <2>12, GhostsRead
  <2>16. DOMAIN R = Nat /\ DOMAIN I = Nat /\ DOMAIN D = Nat /\ store.stubs = {1}
    BY <1>3, <1>4, <1>7 DEF RelMemory, RelStubs
  <2>17. /\ R1[N] = 1 /\ I2[N] = {} /\ D1[N] = {1}
         /\ \A x \in Nat : x # N => R1[x] = R[x] /\ I2[x] = I[x] /\ D1[x] = D[x]
    <3>1. R1[N] = 1 /\ \A x \in Nat : x # N => R1[x] = R[x]
      BY <1>7, <2>2, <2>16, AtAndBeside
    <3>2. DOMAIN I1 = Nat /\ I1[N] = {1} /\ \A x \in Nat : x # N => I1[x] = I[x]
      BY <1>7, <2>2, <2>16, AtAndBeside
    <3>3. D1[N] = {1} /\ \A x \in Nat : x # N => D1[x] = D[x]
      BY <1>7, <2>2, <2>16, AtAndBeside
    <3>4. I2[N] = {1} \ {1} /\ \A x \in Nat : x # N => I2[x] = I[x]
      BY <1>7, <1>11, <2>5, <3>2, AtAndBeside
    <3> QED BY <3>1, <3>2, <3>3, <3>4
  <2>18. B = J[1]
    BY <2>2, <2>12, <2>13
  <2>19. Agree(B, R1, I2, D1, RefsOf(queue, J), I, DelOf(queue, J))
    <3>1. \A x \in B : /\ RefsOf(queue, J)[x] = R1[x] /\ I[x] = I2[x] /\ DelOf(queue, J)[x] = D1[x]
      <4> TAKE x \in B
      <4>1. x \in Nat /\ RefsOf(queue, J)[x] = 1 /\ DelOf(queue, J)[x] = {1}
        BY <2>14, <2>18 DEF One
      <4>2. CASE x = N
        BY <2>13, <2>17, <4>1, <4>2
      <4>3. CASE x # N
        <5>1. x \in has[1]
          BY <2>12, <2>18, <4>3
        <5> QED BY <2>13, <2>17, <4>1, <4>3, <5>1 DEF One
      <4> QED BY <4>2, <4>3
    <3> QED BY <2>15, <3>1 DEF Agree
  <2>20. RelMem(w, Z, queue, J, F, l)
    BY <1>5, <2>6, <2>14, <2>18, <2>19, GhostsAgree DEF RelMem
  <2>21. RelScan(scanning, left, J, w.nextTuple, Z, y)
    BY <1>3, <1>4 DEF RelScan
  <2>22. RelQueues(queue, J, Len(Z)) /\ w.stubs = RelStubs
    BY <1>3, <2>4, <2>9, <2>12
  <2> QED BY <1>4, <2>10, <2>11, <2>20, <2>21, <2>22, RelAgain
<1> QED BY <1>14, <1>15

-----------------------------------------------------------------------------
(* It deletes the tuple, and keeps it with a reference for the MINUS.      *)
SendsMinus(Q, H, x, S, J) ==
  /\ S = [r \in Stub |-> IF r \in {2, 3} THEN Append(Q[r], Minus(x)) ELSE Q[r]]
  /\ J = SetAt(H, 1, H[1] \ {x})

LEMMA MinusGhosts ==
  ASSUME kind = "rel", NEW Q, NEW H, NEW n, RelQueues(Q, H, n), NEW x \in H[1],
         NEW S, NEW J, SendsMinus(Q, H, x, S, J)
  PROVE  /\ RelQueues(S, J, n) /\ x \in Nat /\ x \in Kept(Q, H) /\ Kept(S, J) = Kept(Q, H)
         /\ RefsOf(S, J)[x] = RefsOf(Q, H)[x] + 1 /\ DelOf(Q, H)[x] \ {1} # {}
         /\ DelOf(S, J)[x] = DelOf(Q, H)[x] \ {1}
         /\ \A z \in Nat : /\ InsOf(S)[z] = InsOf(Q)[z]
                           /\ z # x => /\ RefsOf(S, J)[z] = RefsOf(Q, H)[z]
                                       /\ DelOf(S, J)[z] = DelOf(Q, H)[z]
         /\ \A r \in {2, 3} : J[r] = H[r]
<1>1. /\ n \in Nat /\ Q \in [Stub -> Seq(Element)] /\ Q[1] = <<>> /\ H \in [Stub -> SUBSET (1 .. n)]
      /\ \A s \in Stub : OfSign(Q[s], "+") \subseteq 1 .. n
      /\ \A r \in {2, 3} : RelQueue(Q[r], H[1], H[r])
  BY DEF RelQueues
<1>2. /\ 1 \in Stub /\ 2 \in Stub /\ 3 \in Stub /\ \A s \in Stub : s = 1 \/ s \in {2, 3}
  BY StubAssumption
<1>3. x \in Nat
  BY <1>1, <1>2
<1>4. J \in [Stub -> SUBSET (1 .. n)] /\ J[1] = H[1] \ {x} /\ \A r \in {2, 3} : J[r] = H[r]
  <2>1. J = SetAt(H, 1, H[1] \ {x})
    BY DEF SendsMinus
  <2> QED BY <1>1, <1>2, <1>3, <2>1 DEF SetAt
<1>5. /\ DOMAIN S = Stub /\ S[1] = <<>> /\ \A r \in {2, 3} : S[r] = Append(Q[r], Minus(x))
  BY <1>1, <1>2 DEF SendsMinus
<1>6. \A r \in {2, 3} : /\ RelQueue(S[r], J[1], J[r])
                        /\ OfSign(S[r], "+") = OfSign(Q[r], "+")
                        /\ x \in Keeps(Q, H, r)
  <2> TAKE r \in {2, 3}
  <2>1. /\ RelQueue(Append(Q[r], Minus(x)), H[1] \ {x}, H[r])
        /\ OfSign(Append(Q[r], Minus(x)), "+") = OfSign(Q[r], "+")
    BY <1>1, <1>3, QueueDeleted
  <2>2. x \in Keeps(Q, H, r)
    BY <1>1 DEF RelQueue, Keeps
  <2> QED BY <1>4, <1>5, <2>1, <2>2
<1>7. OfSign(S[1], "+") = {} /\ OfSign(Q[1], "+") = {}
  BY <1>1, <1>5, NoneOnTheWay
<1>8. S \in [Stub -> Seq(Element)]
  <2>1. \A r \in {2, 3} : S[r] \in Seq(Element)
    BY <1>6 DEF RelQueue
  <2>2. S[1] \in Seq(Element)
    BY <1>5
  <2>3. \A s \in Stub : S[s] \in Seq(Element)
    BY <1>2, <2>1, <2>2
  <2>4. S = [s \in Stub |-> S[s]]
    BY DEF SendsMinus
  <2> QED BY <2>3, <2>4
<1>9. \A s \in Stub : OfSign(S[s], "+") = OfSign(Q[s], "+")
  BY <1>2, <1>6, <1>7
<1>10. RelQueues(S, J, n)
  <2>1. \A s \in Stub : OfSign(S[s], "+") \subseteq 1 .. n
    BY <1>1, <1>9
  <2> QED BY <1>1, <1>4, <1>5, <1>6, <1>8, <2>1 DEF RelQueues
<1>11. /\ Keeps(S, J, 1) = Keeps(Q, H, 1) \ {x} /\ x \in Keeps(Q, H, 1)
       /\ \A r \in {2, 3} : Keeps(S, J, r) = Keeps(Q, H, r)
  BY <1>4, <1>6, <1>7 DEF Keeps
<1>12. x \in Kept(Q, H) /\ Kept(S, J) = Kept(Q, H)
  <2>1. \A z : z \in Kept(Q, H) <=> \E s \in Stub : z \in Keeps(Q, H, s)
    BY GhostsAt
  <2>2. \A z : z \in Kept(S, J) <=> \E s \in Stub : z \in Keeps(S, J, s)
    BY GhostsAt
  <2>3. x \in Kept(Q, H) /\ x \in Kept(S, J)
    BY <1>2, <1>6, <1>11, <2>1, <2>2
  <2>4. \A z : z # x => (z \in Kept(S, J) <=> z \in Kept(Q, H))
    BY <1>2, <1>11, <2>1, <2>2
  <2> QED BY <2>3, <2>4
<1>13. \A z \in Nat : Holders(S, J, z) = Holders(Q, H, z)
  BY <1>11 DEF Holders
<1>14. Holders(Q, H, x) = 2
  BY <1>6 DEF Holders, One
<1>15. /\ RefsOf(S, J)[x] = RefsOf(Q, H)[x] + 1
       /\ \A z \in Nat : z # x => RefsOf(S, J)[z] = RefsOf(Q, H)[z]
  <2>1. RefsOf(Q, H)[x] = 1 + 2
    BY <1>3, <1>14 DEF RefsOf
  <2>2. RefsOf(S, J)[x] = 2 * 2
    BY <1>3, <1>4, <1>13, <1>14 DEF RefsOf
  <2>3. \A z \in Nat : z # x => RefsOf(S, J)[z] = RefsOf(Q, H)[z]
    <3> TAKE z \in Nat
    <3> HAVE z # x
    <3>1. (z \in J[1] <=> z \in H[1]) /\ Holders(S, J, z) = Holders(Q, H, z)
      BY <1>4, <1>13
    <3> QED BY <3>1 DEF RefsOf
  <2> QED BY <2>1, <2>2, <2>3
<1>16. \A z \in Nat : InsOf(S)[z] = InsOf(Q)[z]
  BY <1>9 DEF InsOf
<1>17. \A z \in Nat, s \in Stub : s \in DelOf(S, J)[z] <=> z \in Keeps(S, J, s)
  BY GhostsAt
<1>18. \A z \in Nat, s \in Stub : s \in DelOf(Q, H)[z] <=> z \in Keeps(Q, H, s)
  BY GhostsAt
<1>19. \A z \in Nat : DelOf(Q, H)[z] \subseteq Stub /\ DelOf(S, J)[z] \subseteq Stub
  BY GhostsAt
<1>20. DelOf(S, J)[x] = DelOf(Q, H)[x] \ {1} /\ DelOf(Q, H)[x] \ {1} # {}
  <2>1. 2 \in DelOf(Q, H)[x] /\ 2 # 1
    BY <1>2, <1>3, <1>6, <1>18
  <2>2. \A s \in Stub : s \in DelOf(S, J)[x] <=> s \in DelOf(Q, H)[x] \ {1}
    BY <1>2, <1>3, <1>11, <1>17, <1>18
  <2> QED BY <1>3, <1>19, <2>1, <2>2
<1>21. \A z \in Nat : z # x => DelOf(S, J)[z] = DelOf(Q, H)[z]
  <2> TAKE z \in Nat
  <2> HAVE z # x
  <2>1. \A s \in Stub : s \in DelOf(S, J)[z] <=> s \in DelOf(Q, H)[z]
    BY <1>2, <1>11, <1>17, <1>18
  <2> QED BY <1>19, <2>1
<1> QED BY <1>3, <1>4, <1>10, <1>12, <1>15, <1>16, <1>20, <1>21

LEMMA RelDeletes ==
  ASSUME RelIndInv, kind \in Rels, Running(store), NEW x, DeleteRelationTuple(x)
  PROVE  RelIndInv'
<1>1. PICK G, k, y : RelInv(G, k, y)
  BY DEF RelIndInv
<1>2. PICK n, e, f : n = Len(place) /\ e = 1 /\ f = 1
  OBVIOUS
<1>3. /\ RelQueues(queue, has, n) /\ RelMem(store, place, queue, has, G, k)
      /\ store.stubs = RelStubs /\ RelScan(scanning, left, has, store.nextTuple, place, y)
  BY <1>1, <1>2 DEF RelInv
<1>4. /\ kind = "rel" /\ x \in has[1] /\ kind' = kind /\ place' = place
      /\ scanning' = scanning /\ left' = left
  BY DEF DeleteRelationTuple
<1>5. PICK A, I, D, R : A = Kept(queue, has) /\ I = InsOf(queue) /\ D = DelOf(queue, has) /\ R = RefsOf(queue, has)
  OBVIOUS
<1>6. PICK P : P = place
  OBVIOUS
<1>7. RelMemory(store, P, A, A, G, k, R, I, D) /\ n \in Nat
  BY <1>2, <1>3, <1>5, <1>6 DEF RelMem, RelQueues
<1>8. PICK S, J, w : S = queue' /\ J = has' /\ w = store'
  OBVIOUS
<1>9. SendsMinus(queue, has, x, S, J)
  <2>1. queue' = Sent(queue, 1, Minus(x)) /\ has' = [has EXCEPT ![1] = @ \ {x}]
    BY DEF DeleteRelationTuple
  <2>2. Sent(queue, 1, Minus(x)) = [r \in Stub |-> IF r \in {2, 3} THEN Append(queue[r], Minus(x)) ELSE queue[r]]
    BY <1>4, RelReaders DEF Sent
  <2> QED BY <1>8, <2>1, <2>2 DEF SendsMinus, SetAt
<1>10. /\ RelQueues(S, J, n) /\ x \in Nat /\ x \in A /\ Kept(S, J) = A
       /\ RefsOf(S, J)[x] = R[x] + 1 /\ D[x] \ {1} # {}
       /\ DelOf(S, J)[x] = D[x] \ {1}
       /\ \A z \in Nat : /\ InsOf(S)[z] = I[z]
                         /\ z # x => RefsOf(S, J)[z] = R[z] /\ DelOf(S, J)[z] = D[z]
       /\ \A r \in {2, 3} : J[r] = has[r]
  BY <1>3, <1>4, <1>5, <1>9, MinusGhosts
<1>11. PICK b : b = Rel!deleteTuple_r(store, P[x], e)
  OBVIOUS
<1>12. w = Links!addRef(b, P[x], f)
  <2>1. store' = Given(deleteTuple_r(store, place[x], 1), 1, place[x])
    BY DEF DeleteRelationTuple
  <2>2. store' = Links!addRef(Rel!deleteTuple_r(store, place[x], 1), place[x], 1)
    BY <1>4, <2>1, RelCalls, RelReaders
  <2> QED BY <1>2, <1>6, <1>8, <1>11, <2>2
<1>13. PICK E, T : E = SetAt(D, x, D[x] \ {e}) /\ T = SetAt(R, x, R[x] + f)
  OBVIOUS
<1>14. RelMemory(b, P, A, A, G, k, R, I, E) /\ SameBeside(store, b)
  <2>1. /\ SameBeside(store, b)
        /\ RelMemory(b, P, IF I[x] = {} /\ D[x] \ {e} = {} THEN A \ {x} ELSE A, A, G, k, R, I,
                     SetAt(D, x, D[x] \ {e}))
    <3>1. x \in A /\ RelMemory(store, P, A, A, G, k, R, I, D)
      BY <1>7, <1>10
    <3> QED BY <1>11, <3>1, DeletedBy
  <2>2. D[x] \ {e} # {}
    BY <1>2, <1>10
  <2> QED BY <1>13, <2>1, <2>2
<1>15. RelMemory(w, P, A, A, G, k, T, I, E) /\ SameBeside(b, w)
  <2>1. f \in Int
    BY <1>2
  <2>2. RelMemory(w, P, A, A, G, k, SetAt(R, x, R[x] + f), I, E) /\ SameBeside(b, w)
    BY <1>10, <1>12, <1>14, <2>1, RefAdded
  <2> QED BY <1>13, <2>2
<1>16. w.stubs = store.stubs /\ w.nextTuple = store.nextTuple
  BY <1>14, <1>15 DEF SameBeside
<1>17. /\ RefsOf(S, J) \in [Nat -> Int] /\ InsOf(S) \in [Nat -> SUBSET Stub]
       /\ DelOf(S, J) \in [Nat -> SUBSET Stub] /\ A \subseteq 1 .. n
  BY <1>10, GhostsRead
<1>18. /\ T[x] = R[x] + 1 /\ E[x] = D[x] \ {1}
       /\ \A z \in Nat : z # x => T[z] = R[z] /\ E[z] = D[z]
  <2>1. DOMAIN R = Nat /\ DOMAIN D = Nat
    BY <1>7 DEF RelMemory
  <2>2. T[x] = R[x] + f /\ \A z \in Nat : z # x => T[z] = R[z]
    BY <1>10, <1>13, <2>1, AtAndBeside
  <2>3. E[x] = D[x] \ {e} /\ \A z \in Nat : z # x => E[z] = D[z]
    BY <1>10, <1>13, <2>1, AtAndBeside
  <2> QED BY <1>2, <2>2, <2>3
<1>19. Agree(A, T, I, E, RefsOf(S, J), InsOf(S), DelOf(S, J))
  <2>1. \A z \in A : z \in Nat
    BY <1>17
  <2> QED BY <1>10, <1>17, <1>18, <2>1 DEF Agree
<1>20. RelMem(w, P, S, J, G, k)
  BY <1>10, <1>15, <1>19, GhostsAgree DEF RelMem
<1>21. RelScan(scanning, left, J, w.nextTuple, P, y)
  <2>1. Scanner \in {2, 3}
    BY <1>4, RelReaders
  <2>2. J[Scanner] = has[Scanner]
    BY <1>10, <2>1
  <2> QED BY <1>3, <1>6, <1>16, <2>2 DEF RelScan
<1>22. RelQueues(S, J, Len(P)) /\ w.stubs = RelStubs
  BY <1>2, <1>3, <1>6, <1>10, <1>16
<1> QED BY <1>4, <1>6, <1>8, <1>20, <1>21, <1>22, RelAgain

-----------------------------------------------------------------------------
(* A reader takes the first element of its queue: a tuple to keep, or one  *)
(* to let go of.                                                           *)
Takes(Q, H, r, x, S, J) ==
  /\ x = Head(Q[r]).tuple /\ S = SetAt(Q, r, Tail(Q[r]))
  /\ J = SetAt(H, r, IF Head(Q[r]).sign = "+" THEN H[r] \cup {x} ELSE H[r] \ {x})

Gains(Q, H, r, x, S, J) ==
  /\ OfSign(S[r], "+") = OfSign(Q[r], "+") \ {x} /\ J[r] = H[r] \cup {x}
  /\ x \in OfSign(Q[r], "+")
Loses(Q, H, r, x, S, J) ==
  /\ OfSign(S[r], "+") = OfSign(Q[r], "+") /\ J[r] = H[r] \ {x}
  /\ x \in H[r] /\ x \notin H[1] /\ x \notin OfSign(Q[r], "+")

LEMMA TakenOff ==
  ASSUME kind = "rel", NEW Q, NEW H, NEW n, RelQueues(Q, H, n), NEW r \in {2, 3}, Q[r] # <<>>,
         NEW x, NEW S, NEW J, Takes(Q, H, r, x, S, J)
  PROVE  /\ RelQueues(S, J, n) /\ x \in Nat /\ Head(Q[r]).sign \in {"+", "-"}
         /\ \A s \in Stub : s # r => J[s] = H[s] /\ S[s] = Q[s]
         /\ Head(Q[r]).sign = "+" => Gains(Q, H, r, x, S, J)
         /\ Head(Q[r]).sign = "-" => Loses(Q, H, r, x, S, J)
<1>1. /\ n \in Nat /\ Q \in [Stub -> Seq(Element)] /\ Q[1] = <<>> /\ H \in [Stub -> SUBSET (1 .. n)]
      /\ \A s \in Stub : OfSign(Q[s], "+") \subseteq 1 .. n
      /\ \A t \in {2, 3} : RelQueue(Q[t], H[1], H[t])
  BY DEF RelQueues
<1>2. 1 \in Stub /\ 2 \in Stub /\ 3 \in Stub /\ r \in Stub /\ r # 1
  BY StubAssumption
<1>3. PICK q, h, c : q = Q[r] /\ h = H[r] /\ c = Head(q).sign
  OBVIOUS
<1>4. /\ c \in {"+", "-"} /\ x \in Nat
      /\ c = "+" => /\ x \in OfSign(q, "+") /\ RelQueue(Tail(q), H[1], h \cup {x})
                    /\ OfSign(Tail(q), "+") = OfSign(q, "+") \ {x}
      /\ c = "-" => /\ x \in h /\ x \notin H[1] /\ x \notin OfSign(q, "+")
                    /\ RelQueue(Tail(q), H[1], h \ {x}) /\ OfSign(Tail(q), "+") = OfSign(q, "+")
  <2>1. PICK g : g = H[1]
    OBVIOUS
  <2>2. RelQueue(q, g, h) /\ q # <<>> /\ x = Head(q).tuple
    BY <1>1, <1>3, <2>1 DEF Takes
  <2>3. /\ Head(q).sign \in {"+", "-"} /\ x \in Nat
        /\ Head(q).sign = "+" => ComesIn(q, g, h, x)
        /\ Head(q).sign = "-" => GoesOut(q, g, h, x)
    BY <2>2, QueueRead
  <2> QED BY <1>3, <2>1, <2>3 DEF ComesIn, GoesOut
<1>5. PICK v : v = IF c = "+" THEN h \cup {x} ELSE h \ {x}
  OBVIOUS
<1>6. S = SetAt(Q, r, Tail(q)) /\ J = SetAt(H, r, v)
  BY <1>3, <1>5 DEF Takes
<1>7. v \subseteq 1 .. n
  <2>1. h \subseteq 1 .. n /\ OfSign(q, "+") \subseteq 1 .. n
    BY <1>1, <1>2, <1>3
  <2> QED BY <1>4, <1>5, <2>1
<1>8. RelQueue(Tail(q), H[1], v) /\ Tail(q) \in Seq(Element)
  <2>1. RelQueue(Tail(q), H[1], v)
    BY <1>4, <1>5
  <2> QED BY <2>1 DEF RelQueue
<1>9. /\ S \in [Stub -> Seq(Element)] /\ S[r] = Tail(q) /\ \A s \in Stub : s # r => S[s] = Q[s]
      /\ J \in [Stub -> SUBSET (1 .. n)] /\ J[r] = v /\ \A s \in Stub : s # r => J[s] = H[s]
  BY <1>1, <1>2, <1>6, <1>7, <1>8 DEF SetAt
<1>10. RelQueues(S, J, n)
  <2>1. \A t \in {2, 3} : RelQueue(S[t], J[1], J[t])
    <3> TAKE t \in {2, 3}
    <3>1. CASE t = r
      BY <1>2, <1>8, <1>9, <3>1
    <3>2. CASE t # r
      BY <1>1, <1>2, <1>9, <3>2
    <3> QED BY <3>1, <3>2
  <2>2. \A s \in Stub : OfSign(S[s], "+") \subseteq 1 .. n
    <3> TAKE s \in Stub
    <3>1. CASE s = r
      <4>1. OfSign(Tail(q), "+") \subseteq OfSign(q, "+")
        BY <1>4
      <4> QED BY <1>1, <1>3, <1>9, <3>1, <4>1
    <3>2. CASE s # r
      BY <1>1, <1>9, <3>2
    <3> QED BY <3>1, <3>2
  <2> QED BY <1>1, <1>2, <1>9, <2>1, <2>2 DEF RelQueues
<1>11. Head(Q[r]).sign = c
  BY <1>3
<1>12. c = "+" => /\ OfSign(S[r], "+") = OfSign(Q[r], "+") \ {x} /\ J[r] = H[r] \cup {x}
                  /\ x \in OfSign(Q[r], "+")
  BY <1>3, <1>4, <1>5, <1>9
<1>13. c = "-" => /\ OfSign(S[r], "+") = OfSign(Q[r], "+") /\ J[r] = H[r] \ {x}
                  /\ x \in H[r] /\ x \notin H[1] /\ x \notin OfSign(Q[r], "+")
  <2>1. "-" # "+"
    OBVIOUS
  <2> QED BY <1>3, <1>4, <1>5, <1>9, <2>1
<1> QED BY <1>4, <1>9, <1>10, <1>11, <1>12, <1>13 DEF Gains, Loses

LEMMA KeptGhosts ==
  ASSUME kind = "rel", NEW Q, NEW H, NEW n, RelQueues(Q, H, n), NEW r \in {2, 3}, Q[r] # <<>>,
         NEW x, NEW S, NEW J, Takes(Q, H, r, x, S, J), Head(Q[r]).sign = "+"
  PROVE  /\ x \in Nat /\ x \in Kept(Q, H) /\ Kept(S, J) = Kept(Q, H)
         /\ RefsOf(S, J) = RefsOf(Q, H) /\ DelOf(S, J) = DelOf(Q, H)
         /\ InsOf(S)[x] = InsOf(Q)[x] \ {r}
         /\ \A z \in Nat : z # x => InsOf(S)[z] = InsOf(Q)[z]
<1>1. /\ x \in Nat /\ OfSign(S[r], "+") = OfSign(Q[r], "+") \ {x} /\ J[r] = H[r] \cup {x}
      /\ x \in OfSign(Q[r], "+") /\ \A s \in Stub : s # r => J[s] = H[s] /\ S[s] = Q[s]
  <2>1. /\ x \in Nat /\ \A s \in Stub : s # r => J[s] = H[s] /\ S[s] = Q[s]
        /\ Gains(Q, H, r, x, S, J)
    BY TakenOff
  <2> QED BY <2>1 DEF Gains
<1>2. 1 \in Stub /\ 2 \in Stub /\ 3 \in Stub /\ r \in Stub /\ r # 1
  BY StubAssumption
<1>3. \A s \in Stub : Keeps(S, J, s) = Keeps(Q, H, s)
  <2> TAKE s \in Stub
  <2>1. CASE s = r
    BY <1>1, <2>1 DEF Keeps
  <2>2. CASE s # r
    BY <1>1, <2>2 DEF Keeps
  <2> QED BY <2>1, <2>2
<1>4. x \in Kept(Q, H)
  BY <1>1, <1>2 DEF Kept, Keeps
<1>5. Kept(S, J) = Kept(Q, H)
  BY <1>3 DEF Kept
<1>6. DelOf(S, J) = DelOf(Q, H)
  BY <1>3 DEF DelOf
<1>7. \A z : Holders(S, J, z) = Holders(Q, H, z)
  BY <1>2, <1>3 DEF Holders
<1>8. RefsOf(S, J) = RefsOf(Q, H)
  BY <1>1, <1>2, <1>7 DEF RefsOf
<1>9. \A z \in Nat, s \in Stub : z # x \/ s # r => (z \in OfSign(S[s], "+") <=> z \in OfSign(Q[s], "+"))
  BY <1>1
<1>10. \A z \in Nat, s \in Stub : (s \in InsOf(S)[z] <=> z \in OfSign(S[s], "+"))
                                  /\ (s \in InsOf(Q)[z] <=> z \in OfSign(Q[s], "+"))
  BY GhostsAt
<1>11. \A z \in Nat : InsOf(S)[z] \subseteq Stub /\ InsOf(Q)[z] \subseteq Stub
  BY DEF InsOf
<1>12. InsOf(S)[x] = InsOf(Q)[x] \ {r}
  <2>1. r \notin InsOf(S)[x]
    BY <1>1, <1>2, <1>10
  <2>2. \A s \in Stub : s # r => (s \in InsOf(S)[x] <=> s \in InsOf(Q)[x])
    BY <1>1, <1>9, <1>10
  <2> QED BY <1>1, <1>11, <2>1, <2>2
<1>13. \A z \in Nat : z # x => InsOf(S)[z] = InsOf(Q)[z]
  BY <1>9, <1>10, <1>11
<1> QED BY <1>1, <1>4, <1>5, <1>6, <1>8, <1>12, <1>13

LEMMA LeftGhosts ==
  ASSUME kind = "rel", NEW Q, NEW H, NEW n, RelQueues(Q, H, n), NEW r \in {2, 3}, Q[r] # <<>>,
         NEW x, NEW S, NEW J, Takes(Q, H, r, x, S, J), Head(Q[r]).sign = "-"
  PROVE  /\ x \in Nat /\ x \in Kept(Q, H) /\ InsOf(S) = InsOf(Q)
         /\ Kept(S, J) = IF InsOf(Q)[x] = {} /\ DelOf(Q, H)[x] \ {r} = {} THEN Kept(Q, H) \ {x}
                         ELSE Kept(Q, H)
         /\ RefsOf(Q, H)[x] = (IF x \in Kept(S, J) THEN 4 ELSE 2)
         /\ RefsOf(S, J)[x] = RefsOf(Q, H)[x] - 2 /\ DelOf(S, J)[x] = DelOf(Q, H)[x] \ {r}
         /\ \A z \in Nat : z # x => /\ RefsOf(S, J)[z] = RefsOf(Q, H)[z]
                                    /\ DelOf(S, J)[z] = DelOf(Q, H)[z]
<1>1. /\ x \in Nat /\ OfSign(S[r], "+") = OfSign(Q[r], "+") /\ J[r] = H[r] \ {x}
      /\ x \in H[r] /\ x \notin H[1] /\ x \notin OfSign(Q[r], "+")
      /\ \A s \in Stub : s # r => J[s] = H[s] /\ S[s] = Q[s]
  <2>1. /\ x \in Nat /\ Loses(Q, H, r, x, S, J)
        /\ \A s \in Stub : s # r => J[s] = H[s] /\ S[s] = Q[s]
    BY TakenOff
  <2> QED BY <2>1 DEF Loses
<1>2. /\ 1 \in Stub /\ 2 \in Stub /\ 3 \in Stub /\ r \in Stub /\ r # 1
      /\ \A s \in Stub : s = 1 \/ s = 2 \/ s = 3
  BY StubAssumption
<1>3. \A s \in Stub : OfSign(S[s], "+") = OfSign(Q[s], "+")
  BY <1>1
<1>4. /\ Keeps(S, J, r) = Keeps(Q, H, r) \ {x} /\ x \in Keeps(Q, H, r)
      /\ \A s \in Stub : s # r => Keeps(S, J, s) = Keeps(Q, H, s)
  BY <1>1, <1>3 DEF Keeps
<1>5. x \notin Keeps(Q, H, 1)
  <2>1. OfSign(Q[1], "+") = {}
    BY NoneOnTheWay DEF RelQueues
  <2> QED BY <1>1, <2>1 DEF Keeps
<1>6. InsOf(S) = InsOf(Q)
  BY <1>3 DEF InsOf
<1>7. PICK o : o \in {2, 3} /\ o # r /\ o \in Stub
  BY <1>2
<1>8. x \in Kept(Q, H) /\ (x \in Kept(S, J) <=> x \in Keeps(Q, H, o))
      /\ \A z : z # x => (z \in Kept(S, J) <=> z \in Kept(Q, H))
  <2>1. \A z : z \in Kept(Q, H) <=> \E s \in Stub : z \in Keeps(Q, H, s)
    BY GhostsAt
  <2>2. \A z : z \in Kept(S, J) <=> \E s \in Stub : z \in Keeps(S, J, s)
    BY GhostsAt
  <2>3. x \in Kept(Q, H)
    BY <1>2, <1>4, <2>1
  <2>4. x \in Kept(S, J) <=> x \in Keeps(Q, H, o)
    BY <1>2, <1>4, <1>5, <1>7, <2>2
  <2>5. \A z : z # x => (z \in Kept(S, J) <=> z \in Kept(Q, H))
    BY <1>2, <1>4, <2>1, <2>2
  <2> QED BY <2>3, <2>4, <2>5
<1>9. \A z \in Nat, s \in Stub : (s \in DelOf(S, J)[z] <=> z \in Keeps(S, J, s))
                                 /\ (s \in DelOf(Q, H)[z] <=> z \in Keeps(Q, H, s))
  BY GhostsAt
<1>10. \A z \in Nat : DelOf(S, J)[z] \subseteq Stub /\ DelOf(Q, H)[z] \subseteq Stub
  BY GhostsAt
<1>11. /\ DelOf(S, J)[x] = DelOf(Q, H)[x] \ {r}
       /\ \A z \in Nat : z # x => DelOf(S, J)[z] = DelOf(Q, H)[z]
  <2>1. \A s \in Stub : s \in DelOf(S, J)[x] <=> s \in DelOf(Q, H)[x] \ {r}
    BY <1>1, <1>2, <1>4, <1>9
  <2>2. \A z \in Nat : z # x => \A s \in Stub : s \in DelOf(S, J)[z] <=> s \in DelOf(Q, H)[z]
    BY <1>2, <1>4, <1>9
  <2>3. DelOf(S, J)[x] = DelOf(Q, H)[x] \ {r}
    BY <1>1, <1>10, <2>1
  <2>4. ASSUME NEW z \in Nat, z # x PROVE DelOf(S, J)[z] = DelOf(Q, H)[z]
    <3>1. \A s \in Stub : s \in DelOf(S, J)[z] <=> s \in DelOf(Q, H)[z]
      BY <2>2, <2>4
    <3>2. DelOf(S, J)[z] \subseteq Stub /\ DelOf(Q, H)[z] \subseteq Stub
      BY <1>10
    <3> QED BY <3>1, <3>2
  <2> QED BY <2>3, <2>4
<1>12. InsOf(Q)[x] = {} /\ DelOf(Q, H)[x] \ {r} = {} <=> x \notin Kept(S, J)
  <2>1. \A s \in Stub : s \in DelOf(Q, H)[x] => s = r \/ (s = o /\ x \in Keeps(Q, H, o))
    BY <1>1, <1>2, <1>5, <1>7, <1>9
  <2>2. \A s \in Stub : s \in InsOf(Q)[x] => s = o /\ x \in Keeps(Q, H, o)
    <3>1. \A s \in Stub : s \in InsOf(Q)[x] <=> x \in OfSign(Q[s], "+")
      BY <1>1, GhostsAt
    <3> QED BY <1>1, <1>2, <1>5, <1>7, <3>1 DEF Keeps
  <2>3. x \in Keeps(Q, H, o) => o \in DelOf(Q, H)[x] \ {r}
    BY <1>1, <1>7, <1>9
  <2>4. InsOf(Q)[x] \subseteq Stub
    BY <1>1, GhostsAt
  <2>5. x \notin Keeps(Q, H, o) => InsOf(Q)[x] = {} /\ DelOf(Q, H)[x] \ {r} = {}
    BY <1>1, <1>10, <2>1, <2>2, <2>4
  <2> QED BY <1>8, <2>3, <2>5
<1>13. Kept(S, J) = IF InsOf(Q)[x] = {} /\ DelOf(Q, H)[x] \ {r} = {} THEN Kept(Q, H) \ {x}
                    ELSE Kept(Q, H)
  <2>1. CASE x \in Kept(S, J)
    <3>1. \A z : z \in Kept(S, J) <=> z \in Kept(Q, H)
      BY <1>8, <2>1
    <3> QED BY <1>12, <2>1, <3>1
  <2>2. CASE x \notin Kept(S, J)
    <3>1. \A z : z \in Kept(S, J) <=> z \in Kept(Q, H) \ {x}
      BY <1>8, <2>2
    <3>2. Kept(S, J) = Kept(Q, H) \ {x}
      BY <3>1
    <3> QED BY <1>12, <2>2, <3>2
  <2> QED BY <2>1, <2>2
<1>14. /\ Holders(Q, H, x) = (IF x \in Kept(S, J) THEN 2 ELSE 1) /\ Holders(S, J, x) = Holders(Q, H, x) - 1
       /\ \A z : z # x => Holders(S, J, z) = Holders(Q, H, z)
  <2>1. \A z : One(z \in Keeps(Q, H, 2)) + One(z \in Keeps(Q, H, 3)) =
               One(z \in Keeps(Q, H, r)) + One(z \in Keeps(Q, H, o))
    BY <1>7 DEF One
  <2>2. \A z : One(z \in Keeps(S, J, 2)) + One(z \in Keeps(S, J, 3)) =
               One(z \in Keeps(S, J, r)) + One(z \in Keeps(Q, H, o))
    BY <1>4, <1>7 DEF One
  <2>3. Holders(Q, H, x) = 1 + One(x \in Keeps(Q, H, o)) /\ Holders(S, J, x) = One(x \in Keeps(Q, H, o))
    BY <1>4, <2>1, <2>2 DEF Holders, One
  <2>4. \A z : z # x => Holders(S, J, z) = Holders(Q, H, z)
    BY <1>4, <2>1, <2>2 DEF Holders, One
  <2> QED BY <1>8, <2>3, <2>4 DEF One
<1>15. J[1] = H[1]
  BY <1>1, <1>2
<1>16. /\ RefsOf(Q, H)[x] = 2 * Holders(Q, H, x) /\ RefsOf(S, J)[x] = 2 * Holders(S, J, x)
       /\ \A z \in Nat : z # x => RefsOf(S, J)[z] = RefsOf(Q, H)[z]
  BY <1>1, <1>14, <1>15 DEF RefsOf
<1> QED BY <1>1, <1>6, <1>8, <1>11, <1>13, <1>14, <1>16

LEMMA RelReads ==
  ASSUME RelIndInv, kind \in Rels, Running(store), NEW r \in Stub, ReadIntoRelation(r)
  PROVE  RelIndInv'
<1>1. PICK G, k, y : RelInv(G, k, y)
  BY DEF RelIndInv
<1>2. PICK n : n = Len(place)
  OBVIOUS
<1>3. /\ RelQueues(queue, has, n) /\ RelMem(store, place, queue, has, G, k)
      /\ store.stubs = RelStubs /\ RelScan(scanning, left, has, store.nextTuple, place, y)
  BY <1>1, <1>2 DEF RelInv
<1>4. /\ r \in Keepers /\ queue[r] # <<>> /\ r \notin scanning /\ kind' = kind /\ place' = place
      /\ scanning' = scanning /\ left' = left
  BY DEF ReadIntoRelation, Reading
<1>5. kind = "rel" /\ r \in {2, 3}
  <2>1. kind # "own"
    BY <1>3, <1>4, RelReaders DEF RelQueues
  <2> QED BY <1>4, <2>1, RelReaders DEF Rels
<1>6. PICK A, I, D, R : A = Kept(queue, has) /\ I = InsOf(queue) /\ D = DelOf(queue, has) /\ R = RefsOf(queue, has)
  OBVIOUS
<1>7. PICK P : P = place
  OBVIOUS
<1>8. RelMemory(store, P, A, A, G, k, R, I, D) /\ n \in Nat
  BY <1>2, <1>3, <1>6, <1>7 DEF RelMem, RelQueues
<1>9. PICK S, J, w, x : S = queue' /\ J = has' /\ w = store' /\ x = Head(queue[r]).tuple
  OBVIOUS
<1>10. Takes(queue, has, r, x, S, J)
  BY <1>9 DEF ReadIntoRelation, Reading, Takes, SetAt
<1>11. /\ RelQueues(S, J, n) /\ x \in Nat /\ Head(queue[r]).sign \in {"+", "-"}
       /\ \A s \in Stub : s # r => J[s] = has[s]
  BY <1>3, <1>4, <1>5, <1>10, TakenOff
<1>12. /\ RefsOf(S, J) \in [Nat -> Int] /\ InsOf(S) \in [Nat -> SUBSET Stub]
       /\ DelOf(S, J) \in [Nat -> SUBSET Stub] /\ Kept(S, J) \subseteq 1 .. n
  BY <1>11, GhostsRead
<1>13. PICK B : B = Kept(S, J)
  OBVIOUS
<1>14. ASSUME NEW F, NEW l, NEW Q, NEW K, NEW E, RelMemory(w, P, B, B, F, l, Q, K, E), SameBeside(store, w),
              \A z \in Nat : Q[z] = RefsOf(S, J)[z] /\ K[z] = InsOf(S)[z] /\ E[z] = DelOf(S, J)[z]
       PROVE  RelIndInv'
  <2>1. Agree(B, Q, K, E, RefsOf(S, J), InsOf(S), DelOf(S, J))
    <3>1. \A z \in B : z \in Nat
      BY <1>12, <1>13
    <3> QED BY <1>12, <1>14, <3>1 DEF Agree
  <2>2. RelMem(w, P, S, J, F, l)
    BY <1>13, <1>14, <2>1, GhostsAgree DEF RelMem
  <2>3. w.stubs = store.stubs /\ w.nextTuple = store.nextTuple
    BY <1>14 DEF SameBeside
  <2>4. RelScan(scanning, left, J, w.nextTuple, P, y)
    <3>1. Scanner \in scanning => J[Scanner] = has[Scanner]
      BY <1>4, <1>11, ScannersStub
    <3> QED BY <1>3, <1>7, <2>3, <3>1 DEF RelScan
  <2>5. RelQueues(S, J, Len(P)) /\ w.stubs = RelStubs
    BY <1>2, <1>3, <1>7, <1>11, <2>3
  <2> QED BY <1>4, <1>7, <1>9, <2>2, <2>4, <2>5, RelAgain
<1>15. DOMAIN R = Nat /\ DOMAIN I = Nat /\ DOMAIN D = Nat /\ R[x] \in Int
  BY <1>8, <1>11 DEF RelMemory
<1>16. CASE Head(queue[r]).sign = "+"
  <2>1. /\ x \in A /\ B = A /\ RefsOf(S, J) = R /\ DelOf(S, J) = D /\ InsOf(S)[x] = I[x] \ {r}
        /\ \A z \in Nat : z # x => InsOf(S)[z] = I[z]
    BY <1>3, <1>4, <1>5, <1>6, <1>10, <1>13, <1>16, KeptGhosts
  <2>2. w = Links!insertTuple_r(store, P[x], r)
    BY <1>7, <1>9, <1>16, RelCalls DEF ReadIntoRelation
  <2>3. PICK K : K = SetAt(I, x, I[x] \ {r})
    OBVIOUS
  <2>4. RelMemory(w, P, A, A, G, k, R, K, D) /\ SameBeside(store, w)
    <3>1. RelMemory(w, P, A, A, G, k, R, SetAt(I, x, I[x] \ {r}), D) /\ SameBeside(store, w)
      BY <1>8, <2>1, <2>2, Inserted
    <3> QED BY <2>3, <3>1
  <2>5. \A z \in Nat : K[z] = InsOf(S)[z]
    <3>1. K[x] = I[x] \ {r} /\ \A z \in Nat : z # x => K[z] = I[z]
      BY <1>11, <1>15, <2>3, AtAndBeside
    <3> QED BY <2>1, <3>1
  <2> QED BY <1>14, <2>1, <2>4, <2>5
<1>17. CASE Head(queue[r]).sign = "-"
  <2>1. /\ x \in A /\ InsOf(S) = I
        /\ B = IF I[x] = {} /\ D[x] \ {r} = {} THEN A \ {x} ELSE A
        /\ R[x] = (IF x \in B THEN 4 ELSE 2)
        /\ RefsOf(S, J)[x] = R[x] - 2 /\ DelOf(S, J)[x] = D[x] \ {r}
        /\ \A z \in Nat : z # x => RefsOf(S, J)[z] = R[z] /\ DelOf(S, J)[z] = D[z]
    BY <1>3, <1>4, <1>5, <1>6, <1>10, <1>13, <1>17, LeftGhosts
  <2>2. PICK b, c : b = Rel!deleteTuple_r(store, P[x], r) /\ c = Links!decrRef(b, P[x])
    OBVIOUS
  <2>3. w = Links!decrRef(c, P[x])
    <3>1. "-" # "+"
      OBVIOUS
    <3> QED BY <1>7, <1>9, <1>17, <2>2, <3>1, RelCalls DEF ReadIntoRelation
  <2>4. PICK E, R1, R2 : /\ E = SetAt(D, x, D[x] \ {r}) /\ R1 = SetAt(R, x, R[x] - 1)
                         /\ R2 = SetAt(R1, x, R1[x] - 1)
    OBVIOUS
  <2>5. RelMemory(b, P, B, A, G, k, R, I, E) /\ SameBeside(store, b)
    <3>1. x \in A /\ RelMemory(store, P, A, A, G, k, R, I, D)
      BY <1>8, <2>1
    <3>2. /\ SameBeside(store, b)
          /\ RelMemory(b, P, IF I[x] = {} /\ D[x] \ {r} = {} THEN A \ {x} ELSE A, A, G, k, R, I,
                       SetAt(D, x, D[x] \ {r}))
      BY <2>2, <3>1, DeletedBy
    <3> QED BY <2>1, <2>4, <3>2
  <2>6. RelMemory(c, P, B, A, G, k, R1, I, E) /\ SameBeside(b, c)
    <3>1. x \in A /\ R[x] > 1
      BY <2>1
    <3>2. RelMemory(b, P, B, A, G, k, R, I, E) /\ c = Links!decrRef(b, P[x])
      BY <2>2, <2>5
    <3>3. RelMemory(c, P, B, A, G, k, SetAt(R, x, R[x] - 1), I, E) /\ SameBeside(b, c)
      BY <3>1, <3>2, RefDropped
    <3> QED BY <2>4, <3>3
  <2>7. /\ R1[x] = R[x] - 1 /\ R2[x] = R[x] - 2 /\ E[x] = D[x] \ {r}
        /\ \A z \in Nat : z # x => R2[z] = R[z] /\ E[z] = D[z]
    <3>1. DOMAIN R1 = Nat /\ R1[x] = R[x] - 1 /\ \A z \in Nat : z # x => R1[z] = R[z]
      BY <1>11, <1>15, <2>4, AtAndBeside
    <3>2. R2[x] = R1[x] - 1 /\ \A z \in Nat : z # x => R2[z] = R1[z]
      BY <1>11, <2>4, <3>1, AtAndBeside
    <3>3. E[x] = D[x] \ {r} /\ \A z \in Nat : z # x => E[z] = D[z]
      BY <1>11, <1>15, <2>4, AtAndBeside
    <3> QED BY <1>15, <3>1, <3>2, <3>3
  <2>8. \E F, l : RelMemory(w, P, B, B, F, l, R2, I, E) /\ SameBeside(c, w)
    <3>1. CASE x \in B
      <4>1. x \in A /\ R1[x] > 1 /\ B = A
        BY <2>1, <2>7, <3>1
      <4>2. RelMemory(w, P, B, A, G, k, R2, I, E) /\ SameBeside(c, w)
        <5>1. RelMemory(c, P, B, A, G, k, R1, I, E) /\ x \in A /\ R1[x] > 1
          BY <2>6, <4>1
        <5>2. RelMemory(w, P, B, A, G, k, SetAt(R1, x, R1[x] - 1), I, E) /\ SameBeside(c, w)
          BY <2>3, <5>1, RefDropped
        <5> QED BY <2>4, <5>2
      <4> QED BY <4>1, <4>2
    <3>2. CASE x \notin B
      <4>1. x \in A /\ R1[x] = 1 /\ x \notin B /\ B = A \ {x}
        BY <2>1, <2>7, <3>2
      <4>2. /\ RelMemory(w, P, B, A \ {x}, SetAt(G, k + 1, P[x]), k + 1, R2, I, E)
            /\ SameBeside(c, w)
        BY <2>3, <2>4, <2>6, <4>1, RefDropped
      <4> QED BY <4>1, <4>2
    <3> QED BY <3>1, <3>2
  <2>9. SameBeside(c, w) => SameBeside(store, w)
    BY <2>5, <2>6 DEF SameBeside
  <2>10. \A z \in Nat : R2[z] = RefsOf(S, J)[z] /\ I[z] = InsOf(S)[z] /\ E[z] = DelOf(S, J)[z]
    BY <2>1, <2>7
  <2> QED BY <1>14, <2>8, <2>9, <2>10
<1> QED BY <1>11, <1>16, <1>17

-----------------------------------------------------------------------------
LEMMA RelStarts ==
  ASSUME Init
  PROVE  RelIndInv
<1> SUFFICES ASSUME kind \in Rels PROVE RelIndInv
  BY DEF RelIndInv
<1> DEFINE list == [p \in Page |-> p]
<1>1. PICK st : st = RelStubs
  OBVIOUS
<1>2. /\ has = [s \in Stub |-> {}] /\ scanning = {} /\ place = <<>> /\ queue = [s \in Stub |-> <<>>]
      /\ left = [s \in Stub |-> {}] /\ store = Rel!initialize(InitialMemory, st)
  <2>1. /\ has = [s \in Stub |-> {}] /\ scanning = {} /\ place = <<>> /\ queue = [s \in Stub |-> <<>>]
        /\ left = [s \in Stub |-> {}] /\ store = initialize(kind, InitialMemory)
    BY DEF Init
  <2>2. kind = "rel" => initialize(kind, InitialMemory) = Rel!initialize(InitialMemory, {1, 2, 3})
    BY DEF initialize
  <2>3. kind = "own" => initialize(kind, InitialMemory) = Rel!initialize(InitialMemory, {1})
    BY DEF initialize
  <2>4. kind = "rel" \/ kind = "own"
    BY DEF Rels
  <2>5. (kind = "rel" => st = {1, 2, 3}) /\ (kind = "own" => st = {1})
    BY <1>1 DEF RelStubs
  <2> QED BY <2>1, <2>2, <2>3, <2>4, <2>5
<1>3. /\ InitialMemory.emptyPageList = list /\ InitialMemory.page = [p \in Page |-> BlankPage]
      /\ InitialMemory.outOfMemory = FALSE /\ DOMAIN InitialMemory = {"emptyPageList", "page", "outOfMemory"}
  BY DEF InitialMemory
<1>4. PICK nt : nt = [s \in st |-> NoTuple]
  OBVIOUS
<1>5. PICK r : r = [stubs |-> st, tuples |-> NoTuple, freeTuples |-> NoTuple, nextTuple |-> nt]
  OBVIOUS
<1>6. store = WithFields(InitialMemory, r)
  <2>1. Rel!initialize(InitialMemory, st) = Rel!WithFields(InitialMemory, r)
    BY <1>4, <1>5, RelOps DEF Rel!initialize
  <2> QED BY <1>2, <2>1 DEF Rel!WithFields, WithFields
<1>7. /\ DOMAIN r = {"stubs", "tuples", "freeTuples", "nextTuple"} /\ r.stubs = st
      /\ r.tuples = NoTuple /\ r.freeTuples = NoTuple /\ r.nextTuple = nt
  BY <1>5
<1> HIDE DEF list
<1>8. /\ DOMAIN store = RelFields
      /\ store.emptyPageList = list /\ store.outOfMemory = FALSE
      /\ store.page = [p \in Page |-> BlankPage]
      /\ store.stubs = st /\ store.tuples = NoTuple /\ store.freeTuples = NoTuple
      /\ store.nextTuple = nt
  BY <1>3, <1>6, <1>7 DEF WithFields, RelFields
<1>9. /\ list \in Seq(Page) /\ \A i, j \in 1 .. Len(list) : list[i] = list[j] => i = j
      /\ \A p \in Page : p \in 1 .. Len(list) /\ list[p] = p
  BY NumPagesAssumption DEF Page, list
<1>10. RelType(store)
  <2>1. BlankPage \in PageType
    BY DEF BlankPage, PageType, BlankCell, CellType, Nothing
  <2>2. store.page \in [Page -> PageType]
    BY <1>8, <2>1
  <2>3. NoTuple \in ListPlace
    BY DEF ListPlace
  <2>4. store.nextTuple \in [store.stubs -> ListPlace] /\ store.tuples \in ListPlace /\ store.freeTuples \in ListPlace
    BY <1>4, <1>8, <2>3
  <2>5. store.stubs \in SUBSET Stub
    BY <1>1, <1>8, StubAssumption DEF RelStubs
  <2>6. store.outOfMemory \in BOOLEAN
    BY <1>8, Zenon
  <2>7. store.emptyPageList \in Seq(Page)
    BY <1>8, <1>9
  <2>8. DOMAIN store = RelFields
    BY <1>8
  <2> QED BY <2>2, <2>4, <2>5, <2>6, <2>7, <2>8, Zenon DEF RelType
<1>11. RelQueues(queue, has, 0)
  <2>1. \A s \in Stub : queue[s] = <<>> /\ has[s] = {}
    BY <1>2
  <2>2. \A s \in Stub : OfSign(queue[s], "+") = {} /\ OfSign(queue[s], "-") = {}
    BY <2>1, NoneOnTheWay
  <2>3. \A s \in Stub : RelQueue(queue[s], has[1], has[s])
    <3> TAKE s \in Stub
    <3>1. InTurn(<<>>) /\ <<>> \in Seq(Element)
      BY DEF InTurn
    <3>2. has[1] = {}
      BY <2>1, StubAssumption
    <3> QED BY <2>1, <2>2, <3>1, <3>2 DEF RelQueue
  <2>4. queue \in [Stub -> Seq(Element)] /\ has \in [Stub -> SUBSET (1 .. 0)]
    BY <1>2
  <2> QED BY <2>1, <2>2, <2>3, <2>4, StubAssumption DEF RelQueues
<1>12. Kept(queue, has) = {}
  <2>1. Kept(queue, has) \subseteq 1 .. 0
    BY <1>11, GhostsRead
  <2> QED BY <2>1
<1>13. PICK G : G \in [Nat -> PlaceType]
  <2>1. <<1, 0>> \in PlaceType
    BY NumPagesAssumption, TuplesPerPageAssumption DEF PlaceType, Page, Pos
  <2>2. [j \in Nat |-> <<1, 0>>] \in [Nat -> PlaceType]
    BY <2>1
  <2> QED BY <2>2
<1>14. RelMem(store, place, queue, has, G, 0)
  <2>1. PICK A, R, I, D, k : /\ A = Kept(queue, has) /\ R = RefsOf(queue, has) /\ I = InsOf(queue)
                             /\ D = DelOf(queue, has) /\ k = 0
    OBVIOUS
  <2>2. /\ R \in [Nat -> Int] /\ I \in [Nat -> SUBSET Stub] /\ D \in [Nat -> SUBSET Stub]
    BY <1>11, <2>1, GhostsRead
  <2>3. A = {} /\ place \in Seq(PlaceType) /\ Len(place) = 0
    BY <1>2, <1>12, <2>1
  <2>4. InList(store, place, A)
    BY <1>8, <2>3 DEF InList, Pl
  <2>5. FreeList(store, G, k)
    BY <1>8, <1>13, <2>1 DEF FreeList, Pl
  <2>6. Cells(store, place, A, R, I, D)
    BY <2>3 DEF Cells
  <2>7. Apart(store, place, A, G, k)
    <3>1. NoneTwice(store.emptyPageList)
      BY <1>8, <1>9 DEF NoneTwice
    <3>2. \A t \in PlaceType : t[1] \in PagesOf(store.emptyPageList)
      BY <1>8, <1>9, PlaceFacts DEF PagesOf
    <3> QED BY <2>1, <2>3, <3>1, <3>2 DEF Apart
  <2>8. RelMemory(store, place, A, A, G, k, R, I, D)
    BY <1>10, <2>2, <2>3, <2>4, <2>5, <2>6, <2>7 DEF RelMemory
  <2> QED BY <2>1, <2>8 DEF RelMem
<1>15. RelScan(scanning, left, has, store.nextTuple, place, 0)
  BY <1>2 DEF RelScan
<1>16. RelInv(G, 0, 0)
  <2>1. Len(place) = 0
    BY <1>2
  <2>2. store.stubs = RelStubs
    BY <1>1, <1>8
  <2> QED BY <1>11, <1>14, <1>15, <2>1, <2>2 DEF RelInv
<1> QED BY <1>16 DEF RelIndInv

LEMMA RelSteps ==
  ASSUME RelIndInv, kind \in Rels, Next
  PROVE  RelIndInv'
<1>1. Running(store)
  BY DEF Next
<1>2. \/ MakeRelationTuple \/ MakeOwnTuple
      \/ \E x : DeleteRelationTuple(x) \/ DeleteOwnTuple(x)
      \/ \E s \in Stub : ReadIntoRelation(s) \/ StartScan(s) \/ NextOfScan(s) \/ EndScan(s)
  <2>1. kind # "simple" /\ kind # "win" /\ kind # "pwin" /\ kind # "lin"
    BY DEF Rels
  <2>2. /\ ~MakeStreamTuple /\ ~MakePartitionTuple
        /\ \A l : ~MakeLineageTuple(l) /\ ~DeleteLineageTuple(l)
        /\ \A s : ~ReadStreamTuple(s) /\ ~ReadIntoWindow(s) /\ ~Expire(s)
    BY <2>1 DEF MakeStreamTuple, MakePartitionTuple, MakeLineageTuple, DeleteLineageTuple,
           ReadStreamTuple, ReadIntoWindow, Expire
  <2> QED BY <2>2 DEF Next
<1>3. ASSUME MakeRelationTuple PROVE RelIndInv'
  BY <1>1, <1>3, RelMakes
<1>4. ASSUME MakeOwnTuple PROVE RelIndInv'
  BY <1>1, <1>4, OwnMakes
<1>5. ASSUME NEW x, DeleteRelationTuple(x) PROVE RelIndInv'
  BY <1>1, <1>5, RelDeletes
<1>6. ASSUME NEW x, DeleteOwnTuple(x) PROVE RelIndInv'
  BY <1>1, <1>6, OwnDeletes
<1>7. ASSUME NEW s \in Stub, ReadIntoRelation(s) PROVE RelIndInv'
  BY <1>1, <1>7, RelReads
<1>8. ASSUME NEW s \in Stub, StartScan(s) PROVE RelIndInv'
  BY <1>1, <1>8, RelStartsScan
<1>9. ASSUME NEW s \in Stub, NextOfScan(s) PROVE RelIndInv'
  BY <1>1, <1>9, RelNextOfScan
<1>10. ASSUME NEW s \in Stub, EndScan(s) PROVE RelIndInv'
  BY <1>1, <1>10, RelEndsScan
<1> QED BY <1>2, <1>3, <1>4, <1>5, <1>6, <1>7, <1>8, <1>9, <1>10

(* For every number of pages and of tuples to a page, and every bound of   *)
(* the queues, over every interleaving of the operators, up to and with    *)
(* the call that runs out of memory: the store of a relation, under the    *)
(* operator that makes it and two that keep it, or under one that keeps    *)
(* its own, is one list of what somebody has or will have, the newest      *)
(* first, and one of the free cells, with no place in both or in neither.  *)
THEOREM RelationInvariance == Spec => []RelIndInv
<1>1. Init => RelIndInv
  BY RelStarts
<1>2. RelIndInv /\ [Next]_vars => RelIndInv'
  <2> SUFFICES ASSUME RelIndInv, [Next]_vars PROVE RelIndInv'
    OBVIOUS
  <2>1. CASE vars' = vars
    <3>1. /\ kind' = kind /\ store' = store /\ place' = place /\ queue' = queue /\ has' = has
          /\ scanning' = scanning /\ left' = left
      BY <2>1 DEF vars
    <3>2. Scanner' = Scanner /\ RelStubs' = RelStubs
      BY <3>1 DEF Scanner, Keepers, RelStubs
    <3>3. ASSUME NEW G, NEW k, NEW y, RelInv(G, k, y) PROVE RelInv(G, k, y)'
      BY <3>1, <3>2, <3>3 DEF RelInv, RelQueues, RelScan
    <3> QED BY <3>1, <3>3 DEF RelIndInv
  <2>2. CASE Next
    <3>1. CASE kind \in Rels
      BY <2>2, <3>1, RelSteps
    <3>2. CASE kind \notin Rels
      <4>1. kind' = kind
        BY <2>2, KindStays
      <4> QED BY <3>2, <4>1 DEF RelIndInv
    <3> QED BY <3>1, <3>2
  <2> QED BY <2>1, <2>2
<1> QED BY <1>1, <1>2, PTL DEF Spec

(* No cell of a relation comes to the list of free ones while an operator  *)
(* may still look at the tuple there, and none is in that list and in the  *)
(* relation: RelStoreImpl keeps both in one column, and takes a tuple out  *)
(* of the relation with its last deletion, before its last reference goes. *)
THEOREM RelationsLoseNothing == Spec => [](kind \in Rels => NothingLost)
<1>1. RelIndInv => (kind \in Rels => NothingLost)
  BY RelLost
<1> QED BY <1>1, RelationInvariance, PTL

(* Every cell of a page of a relation is free or holds a tuple in use: the *)
(* references that come with a PLUS and a MINUS add up to those that are   *)
(* let go of.                                                              *)
THEOREM RelationsLeakNothing == Spec => [](kind \in Rels => NothingLeaked)
<1>1. RelIndInv => (kind \in Rels => NothingLeaked)
  BY RelLeaked
<1> QED BY <1>1, RelationInvariance, PTL

(* A scan of a relation returns what its stub had when it began, each      *)
(* tuple once, though others make, delete and free tuples in between, and  *)
(* though an operator on its own relation deletes those it is given.       *)
THEOREM RelationScansComplete == Spec => [](kind \in Rels => ScansComplete)
<1>1. RelIndInv => (kind \in Rels => ScansComplete)
  BY RelScanned
<1> QED BY <1>1, RelationInvariance, PTL

=============================================================================
