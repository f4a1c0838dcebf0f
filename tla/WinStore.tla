------------------------------ MODULE WinStore ------------------------------
(***************************************************************************)
(* The store that serves windows: win_store_impl.cc.  Tuples come one      *)
(* after the other, and each stub is two of them, the last it inserted and *)
(* the last it deleted; the first place of all holds no tuple, so that     *)
(* there is always a last one.  A page counts the references to all its    *)
(* tuples and the stubs that have not deleted beyond it.                   *)
(*                                                                         *)
(* deleteUnqualifiedTuple_w() is deleteTuple_r() under another name; what  *)
(* its caller makes of it is in RowWindow.                                 *)
(***************************************************************************)
EXTENDS MemoryManager

initialize(m) ==
    LET p     == NewPage(m)
        dummy == FirstPlace(p)
    IN  WithFields([allocatePage(m) EXCEPT !.page[p].count = Cardinality(Stub)],
          [curPage |-> p, nextTuple |-> NextPlace(dummy), numAllocInCurPage |-> 1,
           lastInsTuple |-> [s \in Stub |-> dummy],
           lastDelTuple |-> [s \in Stub |-> dummy],
           iters        |-> [s \in Stub |-> [lastOutputTuple |-> dummy, lastInsTuple |-> dummy]]])

NewPlace(m) == m.nextTuple

newTuple(m, id) ==
    LET taken == [m EXCEPT !.page[m.curPage].count = @ + 1,
                           !.page[m.curPage].cell[m.nextTuple[2]].id = id,
                           !.numAllocInCurPage = @ + 1]
        p     == NewPage(m)
    IN  IF taken.numAllocInCurPage < TuplesPerPage
        THEN [taken EXCEPT !.nextTuple = NextPlace(@)]
        ELSE IF m.emptyPageList = <<>> THEN allocatePage(taken)
        ELSE [allocatePage(taken) EXCEPT !.page[m.curPage].next = p,
                                         !.curPage = p,
                                         !.page[p].count = Cardinality(Stub),
                                         !.numAllocInCurPage = 0,
                                         !.nextTuple = FirstPlace(p)]

addRef(m, t, n) == [m EXCEPT !.page[PageOf(t)].count = @ + n]

decrRef(m, t) ==
    LET dropped == [m EXCEPT !.page[PageOf(t)].count = @ - 1]
    IN  IF dropped.page[PageOf(t)].count = 0 THEN deallocatePage(dropped, PageOf(t))
                                             ELSE dropped

(* INCR that stays on the page; and the next place, on the next page       *)
(* behind the last of a page.                                              *)
INCR_Around(m, t) == IF LastInPage(t) THEN FirstPlace(PageOf(t)) ELSE NextPlace(t)

INCR(m, t) == IF LastInPage(t) THEN FirstPlace(m.page[PageOf(t)].next) ELSE NextPlace(t)

insertTuple_w(m, s) == [m EXCEPT !.lastInsTuple[s] = INCR(m, @)]
insertTuple_r(m, s) == insertTuple_w(m, s)

isEmpty_w(m, s) == m.lastDelTuple[s] = m.lastInsTuple[s]

getOldestTuple_w(m, s) == INCR(m, m.lastDelTuple[s])

(* Leaving a page for the next one, keeping the count of the page that was *)
(* left, dropping that of the page it comes to, and as it is.              *)
LeavePage_Kept(m, p, q) == m
LeavePage_Other(m, p, q) == decrRef(m, FirstPlace(q))

LeavePage(m, p, q) == decrRef(m, FirstPlace(p))

deleteOldestTuple_w(m, s) ==
    LET t     == m.lastDelTuple[s]
        moved == [m EXCEPT !.lastDelTuple[s] = INCR(m, @)]
    IN  IF LastInPage(t) THEN LeavePage(moved, PageOf(t), PageOf(INCR(m, t))) ELSE moved

deleteTuple_r(m, s) == deleteOldestTuple_w(m, s)

-----------------------------------------------------------------------------
(* A scan goes from the last tuple deleted to the last one inserted. *)

getScan_r(m, s) ==
    [m EXCEPT !.iters[s] = [lastOutputTuple |-> m.lastDelTuple[s],
                            lastInsTuple    |-> m.lastInsTuple[s]]]

HasNext(m, s)   == m.iters[s].lastInsTuple # m.iters[s].lastOutputTuple
NextTuple(m, s) == INCR(m, m.iters[s].lastOutputTuple)
getNext(m, s)   == [m EXCEPT !.iters[s].lastOutputTuple = NextTuple(m, s)]

=============================================================================
