---------------------------- MODULE SimpleStore ----------------------------
(***************************************************************************)
(* The store of a stream's tuples: simple_store.cc.  Tuples come one after *)
(* the other; a page counts the references to all its tuples, and one more *)
(* while it is the page that is being filled.                              *)
(***************************************************************************)
EXTENDS MemoryManager

allocateNewPage(m) ==
    IF allocatePage(m).outOfMemory THEN allocatePage(m)
    ELSE [allocatePage(m) EXCEPT !.curPage = NewPage(m),
                                 !.page[NewPage(m)].count = 1,
                                 !.nextTuple = FirstPlace(NewPage(m)),
                                 !.numAllocInCurPage = 0]

initialize(m) ==
    allocateNewPage(WithFields(m, [curPage |-> 0, nextTuple |-> NoTuple, numAllocInCurPage |-> 0]))

(* A full page keeps the reference of the page being filled, and drops it. *)
Filled_Kept(m) == m

Filled(m) == [m EXCEPT !.page[m.curPage].count = @ - 1]

(* The client writes its tuple, id, into the place it is given. *)
NewPlace(m) == m.nextTuple

newTuple(m, id) ==
    LET taken == [m EXCEPT !.page[m.curPage].count = @ + 1,
                           !.page[m.curPage].cell[m.nextTuple[2]].id = id,
                           !.numAllocInCurPage = @ + 1]
    IN  IF taken.numAllocInCurPage = TuplesPerPage
        THEN allocateNewPage(Filled(taken))
        ELSE [taken EXCEPT !.nextTuple = NextPlace(@)]

addRef(m, t, n) == [m EXCEPT !.page[PageOf(t)].count = @ + n]

decrRef(m, t) ==
    LET dropped == [m EXCEPT !.page[PageOf(t)].count = @ - 1]
    IN  IF dropped.page[PageOf(t)].count = 0 THEN deallocatePage(dropped, PageOf(t))
                                             ELSE dropped

=============================================================================
