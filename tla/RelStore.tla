------------------------------ MODULE RelStore ------------------------------
(***************************************************************************)
(* The store that serves relations: rel_store_impl.cc, and, with an index  *)
(* on the lineage beside it, lin_store_impl.cc.  All tuples are in one     *)
(* doubly linked list, the newest first; each knows which stubs have still *)
(* to insert it and which have still to delete it, and leaves the list     *)
(* when none has.  The list of free cells runs through the same column, so *)
(* the last reference must not go before the tuple has left the list.      *)
(***************************************************************************)
EXTENDS LinkedStore

initialize(m, stubs) ==
    WithFields(m, [stubs |-> stubs, tuples |-> NoTuple, freeTuples |-> NoTuple,
                   nextTuple |-> [s \in stubs |-> NoTuple]])

SetPrev(m, t, n) == IF t = NoTuple THEN m ELSE WithCell(m, t, [CellOf(m, t) EXCEPT !.prev = n])

(* At the head of the list. *)
newTuple(m, id) ==
    LET space == WithSpace(m)
        t     == space.freeTuples
    IN  IF space.outOfMemory THEN space
        ELSE [WithCell(SetPrev(space, m.tuples, t), t, [NewCell(space, id) EXCEPT !.next = m.tuples])
                EXCEPT !.freeTuples = CellOf(space, t).next, !.tuples = t]

(* Out of the list, forgetting its head, and remembering it. *)
Unlink_Headless(m, t) ==
    LET c == CellOf(m, t) IN SetNext(SetPrev(m, c.next, c.prev), c.prev, c.next)

Unlink(m, t) ==
    LET c        == CellOf(m, t)
        unlinked == SetNext(SetPrev(m, c.next, c.prev), c.prev, c.next)
    IN  IF c.prev = NoTuple THEN [unlinked EXCEPT !.tuples = c.next] ELSE unlinked

deleteTuple_r(m, t, s) ==
    LET marked == MARK_DELETE(m, t, s)
    IN  IF UNUSED(CellOf(marked, t)) THEN Unlink(marked, t) ELSE marked

-----------------------------------------------------------------------------
(* A scan holds the tuple it will return next: the tuple after the one it  *)
(* returns is looked for before the client has it.                         *)

getScan_r(m, s) == [m EXCEPT !.nextTuple[s] = FirstShown(m, m.tuples, s)]

HasNext(m, s)   == m.nextTuple[s] # NoTuple
NextTuple(m, s) == m.nextTuple[s]
getNext(m, s)   == [m EXCEPT !.nextTuple[s] = FirstShown(m, CellOf(m, @).next, s)]

=============================================================================
