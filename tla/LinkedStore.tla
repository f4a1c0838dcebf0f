---------------------------- MODULE LinkedStore ----------------------------
(***************************************************************************)
(* What the stores of relations and of partitioned windows have in common  *)
(* (rel_store_impl.cc, lin_store_impl.cc, pwin_store_impl.cc): a tuple has *)
(* its own count of references and the bits of its stubs, and one column   *)
(* links it to the next tuple of the list it is in, which is the list of   *)
(* free cells once its last reference has gone.                            *)
(***************************************************************************)
EXTENDS MemoryManager

SetNext(m, t, n) == IF t = NoTuple THEN m ELSE WithCell(m, t, [CellOf(m, t) EXCEPT !.next = n])

(* The cells of a new page, linked one to the next. *)
allocateMoreSpace(m) ==
    LET p == NewPage(m)
    IN  IF m.emptyPageList = <<>> THEN allocatePage(m)
        ELSE [allocatePage(m) EXCEPT
                !.freeTuples = FirstPlace(p),
                !.page[p].cell = [i \in Pos |-> [BlankCell EXCEPT !.next =
                    IF LastInPage(<<p, i>>) THEN NoTuple ELSE NextPlace(<<p, i>>)]]]

WithSpace(m) == IF m.freeTuples = NoTuple THEN allocateMoreSpace(m) ELSE m
NewPlace(m)  == WithSpace(m).freeTuples

(* The stubs of the store have still to insert a new tuple.                *)
NewCell(m, id) ==
    [BlankCell EXCEPT !.id = id, !.ref = 1, !.toInsert = m.stubs, !.toDelete = m.stubs]

addRef(m, t, n) == WithCell(m, t, [CellOf(m, t) EXCEPT !.ref = @ + n])

(* A cell that is freed a reference too early, and as it is. *)
Unreferenced_Early(c) == c.ref <= 1

Unreferenced(c) == c.ref = 0

decrRef(m, t) ==
    LET dropped == WithCell(m, t, [CellOf(m, t) EXCEPT !.ref = @ - 1])
    IN  IF Unreferenced(CellOf(dropped, t))
        THEN [SetNext(dropped, t, m.freeTuples) EXCEPT !.freeTuples = t]
        ELSE dropped

MARK_INSERT(m, t, s) == WithCell(m, t, [CellOf(m, t) EXCEPT !.toInsert = @ \ {s}])
MARK_DELETE(m, t, s) == WithCell(m, t, [CellOf(m, t) EXCEPT !.toDelete = @ \ {s}])

(* UNUSED for a tuple that some stub has still to delete, and as it is. *)
UNUSED_Early(c) == Cardinality(c.toDelete) < Cardinality(Stub)

UNUSED(c) == c.toInsert = {} /\ c.toDelete = {}

insertTuple_r(m, t, s) == MARK_INSERT(m, t, s)

(* The cells from t on, link by link, up to one to halt at; the walk takes *)
(* at most as many steps as there are cells.                               *)
Chain(m, t, halt) ==
    LET walk[n \in 0 .. NumPages * TuplesPerPage] ==
            IF n = 0 THEN t
            ELSE LET u == walk[n - 1] IN IF u \in halt THEN u ELSE CellOf(m, u).next
    IN  walk

(* The first tuple from t on that stub s has inserted and not deleted.     *)
Shows(m, t, s) == s \notin CellOf(m, t).toInsert /\ s \in CellOf(m, t).toDelete

FirstShown(m, t, s) ==
    Chain(m, t, {u \in Page \X Pos : Shows(m, u, s)} \cup {NoTuple})[NumPages * TuplesPerPage]

(* The free cells. *)
FreeCells(m) ==
    LET walk == Chain(m, m.freeTuples, {NoTuple})
    IN  {walk[n] : n \in 0 .. NumPages * TuplesPerPage} \ {NoTuple}

=============================================================================
