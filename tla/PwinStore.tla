----------------------------- MODULE PwinStore -----------------------------
(***************************************************************************)
(* The store of a partitioned window: pwin_store_impl.cc.  A header for    *)
(* each partition has the list of its tuples, oldest first; the tuples the *)
(* window has deleted and another stub has not are in a list of their own, *)
(* and the cells that are free in a third.  All three run through the same *)
(* column.  The index finds the header of a partition, and all headers are *)
(* on one page (see README.md for the second).                             *)
(***************************************************************************)
EXTENDS LinkedStore

(* A page for the headers, and one for the tuples. *)
initialize(m) ==
    allocateMoreSpace(WithFields(allocatePage(m),
      [stubs |-> Stub, h_pages |-> NewPage(m), header |-> <<>>,
       freeTuples |-> NoTuple, d_oldestExpTuple |-> NoTuple, d_newestExpTuple |-> NoTuple,
       iters |-> [s \in Stub |-> [state |-> "END", nextTuple |-> NoTuple, hdr |-> 0]]]))

newTuple(m, id) ==
    LET space == WithSpace(m)
        t     == space.freeTuples
    IN  IF space.outOfMemory THEN space
        ELSE [WithCell(space, t, NewCell(space, id)) EXCEPT !.freeTuples = CellOf(space, t).next]

-----------------------------------------------------------------------------
(* The window: stub s, partition key *)

HeaderOf(m, key) == CHOOSE h \in 1 .. Len(m.header) : m.header[h].key = key
Present(m, key)  == \E h \in 1 .. Len(m.header) : m.header[h].key = key

(* Behind the newest tuple of the partition, or as the first of one. *)
insertTuple_p(m, t, key, s) ==
    LET h == HeaderOf(m, key)
        placed ==
            IF Present(m, key)
            THEN [SetNext(SetNext(m, m.header[h].newest, t), t, NoTuple) EXCEPT
                    !.header[h].newest = t, !.header[h].count = @ + 1]
            ELSE [m EXCEPT !.header =
                    Append(@, [key |-> key, oldest |-> t, newest |-> t, count |-> 1])]
    IN  MARK_INSERT(placed, t, s)

getPartnSize_p(m, key) == m.header[HeaderOf(m, key)].count

(* To the end of the list of expired tuples. *)
Expire(m, t) ==
    IF m.d_newestExpTuple = NoTuple
    THEN [SetNext(m, t, NoTuple) EXCEPT !.d_oldestExpTuple = t, !.d_newestExpTuple = t]
    ELSE [SetNext(SetNext(m, m.d_newestExpTuple, t), t, NoTuple) EXCEPT !.d_newestExpTuple = t]

getOldestTuple_p(m, key) == m.header[HeaderOf(m, key)].oldest

deleteOldestTuple_p(m, key, s) ==
    LET h == HeaderOf(m, key)
        t == m.header[h].oldest
        marked == MARK_DELETE([m EXCEPT !.header[h].oldest = CellOf(m, t).next,
                                        !.header[h].count = @ - 1], t, s)
    IN  IF UNUSED(CellOf(marked, t)) THEN marked ELSE Expire(marked, t)

-----------------------------------------------------------------------------
(* The other stubs *)

(* The tuple that becomes unused is taken for the oldest expired one. *)
deleteTuple_r(m, t, s) ==
    LET marked == MARK_DELETE(m, t, s)
        second == CellOf(m, m.d_oldestExpTuple).next
    IN  IF ~UNUSED(CellOf(marked, t)) THEN marked
        ELSE [marked EXCEPT !.d_oldestExpTuple = second,
                            !.d_newestExpTuple = IF second = NoTuple THEN NoTuple ELSE @]

-----------------------------------------------------------------------------
(* A scan goes over the expired tuples, then over the partitions. *)

AtEnd(h) == [state |-> "END", nextTuple |-> NoTuple, hdr |-> h]

(* getNextMainTuple(), after tuple t of partition h. *)
NextMain(m, t, h, s) ==
    LET rest   == IF t = NoTuple THEN NoTuple ELSE FirstShown(m, CellOf(m, t).next, s)
        shown(k) == FirstShown(m, m.header[k].oldest, s)
        later  == {k \in h + 1 .. Len(m.header) : shown(k) # NoTuple}
        next   == CHOOSE k \in later : \A l \in later : k <= l
    IN  IF rest # NoTuple THEN [state |-> "MAIN", nextTuple |-> rest, hdr |-> h]
        ELSE IF later = {} THEN AtEnd(Len(m.header))
        ELSE [state |-> "MAIN", nextTuple |-> shown(next), hdr |-> next]

(* Behind the last expired tuple come the partitions, from their first     *)
(* tuple on: the first is prefetched, and skipped.                         *)
AfterExpired(m, s) ==
    LET first == NextMain(m, NoTuple, 0, s)
    IN  IF first.state = "END" THEN first ELSE NextMain(m, first.nextTuple, first.hdr, s)

NextOf(m, it, s) ==
    LET t == FirstShown(m, CellOf(m, it.nextTuple).next, s)
    IN  IF it.state = "MAIN" THEN NextMain(m, it.nextTuple, it.hdr, s)
        ELSE IF t # NoTuple THEN [it EXCEPT !.nextTuple = t]
        ELSE AfterExpired(m, s)

getScan_r(m, s) ==
    LET t == FirstShown(m, m.d_oldestExpTuple, s)
    IN  [m EXCEPT !.iters[s] = IF t # NoTuple
                               THEN [state |-> "EXPIRED", nextTuple |-> t, hdr |-> 0]
                               ELSE NextMain(m, NoTuple, 0, s)]

HasNext(m, s)   == m.iters[s].state # "END"
NextTuple(m, s) == m.iters[s].nextTuple
getNext(m, s)   == [m EXCEPT !.iters[s] = NextOf(m, @, s)]

=============================================================================
