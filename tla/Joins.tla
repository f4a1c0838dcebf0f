------------------------------- MODULE Joins --------------------------------
(***************************************************************************)
(* The join of two relations: execution/operators/bin_join.cc.  Plan[o].   *)
(* left is the outer input and right the inner one.  Each side's tuples    *)
(* are kept in a synopsis, newest first, for the other side to scan.       *)
(* Plan[o].joins has the pairs of tuples that satisfy the predicate.       *)
(*                                                                         *)
(* With Plan[o].joinSynopsis the operator remembers the tuples it made, by *)
(* lineage, so that a deletion is of the very tuple that was inserted;     *)
(* without, it makes an equal tuple for the deletion.                      *)
(***************************************************************************)
EXTENDS Merge

BinaryJoinInit ==
    [lastTs |-> Zero, minTs |-> Zero, lastOutputTs |-> 0,
     synopsis |-> [side \in Sides |-> <<>>], joinSynopsis |-> <<>>,
     bStalled |-> FALSE, stallSide |-> "left", stallElement |-> Heartbeat(0), rest |-> <<>>]

(* A deletion holds its tuple while it is stalled; an insertion need not,  *)
(* for its tuple is in the synopsis.                                       *)
LockedByStall(s) ==
    IF s.bStalled /\ s.stallElement.kind = MINUS THEN <<s.stallElement.tuple>> ELSE <<>>

BinaryJoinKeeps(o) ==
    op[o].synopsis["left"] \o op[o].synopsis["right"]
        \o [i \in DOMAIN op[o].joinSynopsis |-> op[o].joinSynopsis[i].out]
        \o LockedByStall(op[o])

-----------------------------------------------------------------------------
(***************************************************************************)
(* Output tuples.  x has the flow and the operator's state so far; t is    *)
(* the tuple of element e, which was read of the given side, and u one the *)
(* scan of the other side found.                                           *)
(***************************************************************************)
Lineage(side, t, u) == IF side = "left" THEN <<t, u>> ELSE <<u, t>>
Joined(o, lineage)  == <<o>> \o lineage[1] \o lineage[2]

AllJoined(o, lineages) == [i \in DOMAIN lineages |-> Joined(o, lineages[i])]
Records(o, lineages) ==
    [i \in DOMAIN lineages |-> [out |-> Joined(o, lineages[i]), lineage |-> lineages[i]]]

(* A new tuple's references: the element's and the join synopsis'.         *)
JoinPlus(o, x, lineages, ts) ==
    LET made == AllJoined(o, lineages)
        f    == insertAll(x.flow, Plan[o].out, made, ts)
    IN  IF Plan[o].joinSynopsis
        THEN [flow |-> addRefs(f, made, 1),
              op   |-> [x.op EXCEPT !.joinSynopsis = Reverse(Records(o, lineages)) \o @]]
        ELSE [flow |-> f, op |-> x.op]

Recorded(s, lineage) == SelectSeq(s.joinSynopsis, LAMBDA j : j.lineage = lineage)

DeleteAll(o, f, ts, time) ==
    enqueueAll(f, Plan[o].out, [i \in DOMAIN ts |-> Element(MINUS, ts[i], time)])

JoinMinusOf(o, x, gone, ts) ==
    [flow |-> DeleteAll(o, x.flow, [i \in DOMAIN gone |-> gone[i].out], ts),
     op   |-> [x.op EXCEPT !.joinSynopsis = SelectSeq(@, LAMBDA j : j \notin ToSet(gone))]]

JoinMinusNew(o, x, made, ts) ==
    [flow |-> DeleteAll(o, newTuples(x.flow, made), made, ts), op |-> x.op]

Join(o, x, e, lineages) ==
    CASE e.kind = PLUS ->
            JoinPlus(o, x, lineages, e.timestamp)
      [] e.kind = MINUS /\ Plan[o].joinSynopsis ->
            JoinMinusOf(o, x, [i \in DOMAIN lineages |-> Head(Recorded(x.op, lineages[i]))],
                        e.timestamp)
      [] e.kind = MINUS /\ ~Plan[o].joinSynopsis ->
            JoinMinusNew(o, x, AllJoined(o, lineages), e.timestamp)

(***************************************************************************)
(* The scan sends while the output has space.  If that is full in the end  *)
(* the operator is stalled, with what is left of the scan, be it nothing.  *)
(***************************************************************************)
ScanStall_Over(f, q, rest) ==           \* deviation: ends with the scan's last match
    isFull(f, q) /\ Len(rest) > 1
ScanStall(f, q, rest) == isFull(f, q)

StallIf(full, x, side, e, rest) ==
    [x EXCEPT !.op.bStalled     = full,
              !.op.stallSide    = IF full THEN side ELSE "left",
              !.op.stallElement = IF full THEN e ELSE Heartbeat(0),
              !.op.rest         = IF full THEN rest ELSE <<>>]

StallOrNot(o, x, side, e, rest) ==
    StallIf(ScanStall(x.flow, Plan[o].out, rest), x, side, e, rest)

Noting(x, n, ts) == IF n = 0 THEN x ELSE [x EXCEPT !.op.lastOutputTs = ts]

JoinSome(o, x, side, e, partners, n) ==
    StallOrNot(o,
        Noting(Join(o, x, e, [i \in 1 .. n |-> Lineage(side, e.tuple, partners[i])]),
               n, e.timestamp),
        side, e, SubSeq(partners, n + 1, Len(partners)))

SendJoins(o, x, side, e, partners) ==
    JoinSome(o, x, side, e, partners, Min({Len(partners), Space(x.flow, Plan[o].out)}))

Partners(o, s, side, t) ==
    LET others == s.synopsis[Other(side)]
    IN  At(others, {i \in DOMAIN others : Lineage(side, t, others[i]) \in Plan[o].joins})

-----------------------------------------------------------------------------
(***************************************************************************)
(* processOuterPlus() and the three like it.  The synopsis takes over the  *)
(* reference of an inserted element; a deletion drops the synopsis' and,   *)
(* unless it stalls, the element's.                                        *)
(***************************************************************************)
UpdateSynopsis(s, side, e) ==
    [s EXCEPT !.synopsis[side] =
        CASE e.kind = PLUS      -> <<e.tuple>> \o @
          [] e.kind = MINUS     -> AllBut(@, e.tuple)
          [] e.kind = HEARTBEAT -> @]

LetGo(x, e) ==
    IF e.kind = MINUS /\ ~x.op.bStalled THEN [x EXCEPT !.flow = decrRef(@, e.tuple)] ELSE x

Process(o, s, side, e, f) ==
    IF IsData(e)
    THEN LetGo(SendJoins(o,
                 [flow |-> IF e.kind = MINUS THEN decrRef(f, e.tuple) ELSE f,
                  op   |-> UpdateSynopsis(s, side, e)],
                 side, e, Partners(o, s, side, e.tuple)), e)
    ELSE [flow |-> f, op |-> s]

(***************************************************************************)
(* clearStall(): goes on with the scan where it stopped.                   *)
(***************************************************************************)
ClearJoinStall_Kept(o, s) ==            \* deviation: the deleted tuple stays locked
    SendJoins(o, [flow |-> flow, op |-> s], s.stallSide, s.stallElement, s.rest)

ClearJoinStall(o, s) ==
    LetGo(SendJoins(o, [flow |-> flow, op |-> s], s.stallSide, s.stallElement, s.rest),
          s.stallElement)

(***************************************************************************)
(* joinSynopsis->getTuple() fails if it does not know the lineage.  (What  *)
(* was sent before that is left out: OnlyOutsidersFail says it never       *)
(* happens.)                                                               *)
(***************************************************************************)
Unrecorded(o, side, e, partners) ==
    /\ Plan[o].joinSynopsis
    /\ e.kind = MINUS
    /\ \E u \in ToSet(partners) : Recorded(op[o], Lineage(side, e.tuple, u)) = <<>>

-----------------------------------------------------------------------------
BinaryJoinBegin(o) ==
    LET s == op[o]
    IN  IF s.bStalled
        THEN IF Unrecorded(o, s.stallSide, s.stallElement, s.rest)
             THEN running = Idle /\ ReturnError /\ UNCHANGED <<flow, op>>
             ELSE BeginUnlessStalled(o, MinTsReset(ClearJoinStall(o, s)))
        ELSE MergeBegin(o)

BinaryJoinIterateWith(o, side, e) ==
    IF IsData(e) /\ Unrecorded(o, side, e, Partners(o, op[o], side, e.tuple))
    THEN ReturnError /\ UNCHANGED <<flow, op>>
    ELSE LoopUnlessStalled(o,
            MinTsKept(Process(o, Noted(o, side, e), side, e, dequeue(flow, Input(o, side)))))

BinaryJoinIterate(o) ==
    /\ MayIterate(o)
    /\ ~NothingReady(o)
    /\ BinaryJoinIterateWith(o, Chosen(o), peek(flow, Input(o, Chosen(o))))

BinaryJoinEnd(o) == MayEnd(o, NothingReady(o)) /\ MergeReturn(o)

-----------------------------------------------------------------------------
(***************************************************************************)
(* The join of a stream with a relation: execution/operators/              *)
(* bin_str_join.cc.  Plan[o].left is the stream (outer), Plan[o].right the *)
(* relation (inner).  A tuple of the stream meets the relation as it is at *)
(* the time of the tuple, so the relation must be complete up to then.     *)
(***************************************************************************)
BinStreamJoinInit ==
    [lastTs |-> Zero, minTs |-> Zero, lastOutputTs |-> 0,
     innerSynopsis |-> <<>>, bStalled |-> FALSE, stallTuple |-> <<>>, rest |-> <<>>]

BinStreamJoinKeeps(o) ==
    op[o].innerSynopsis \o (IF op[o].bStalled THEN <<op[o].stallTuple>> ELSE <<>>)

OuterFirst_Tie(o) ==                    \* deviation: does not wait for its instant
    MinTs(o)["left"] <= MinTs(o)["right"]
OuterFirst(o) == MinTs(o)["left"] < MinTs(o)["right"]

StreamJoinSide(o) == IF OuterFirst(o) THEN "left" ELSE "right"

StreamJoinStuck(o) == isEmpty(flow, Input(o, StreamJoinSide(o)))

(***************************************************************************)
(* The scan of processOuter() and of clearStall(), for the tuple t with    *)
(* timestamp ts.                                                           *)
(***************************************************************************)
JoinsWith(o, s, t) ==
    At(s.innerSynopsis,
       {i \in DOMAIN s.innerSynopsis : <<t, s.innerSynopsis[i]>> \in Plan[o].joins})

StreamJoinStallIf(full, s, f, t, rest) ==
    [flow |-> f,
     op   |-> [s EXCEPT !.bStalled   = full,
                        !.stallTuple = IF full THEN t ELSE <<>>,
                        !.rest       = IF full THEN rest ELSE <<>>]]

StreamJoinStallOrNot(o, s, f, t, rest) ==
    StreamJoinStallIf(isFull(f, Plan[o].out), s, f, t, rest)

StreamJoinSome(o, s, f, t, ts, partners, n) ==
    StreamJoinStallOrNot(o,
        [s EXCEPT !.lastOutputTs = IF n = 0 THEN @ ELSE ts],
        insertAll(f, Plan[o].out, [i \in 1 .. n |-> Joined(o, <<t, partners[i]>>)], ts),
        t, SubSeq(partners, n + 1, Len(partners)))

StreamJoinScan(o, s, f, t, ts, partners) ==
    StreamJoinSome(o, s, f, t, ts, partners, Min({Len(partners), Space(f, Plan[o].out)}))

(***************************************************************************)
(* The stall keeps the tuple of the stream, and clearing it lets it go.    *)
(***************************************************************************)
LetStreamTupleGo(x, t) ==
    IF x.op.bStalled THEN x ELSE [x EXCEPT !.flow = decrRef(@, t)]

ProcessOuter(o, s, t, ts, f) ==
    LetStreamTupleGo(StreamJoinScan(o, s, f, t, ts, JoinsWith(o, s, t)), t)

ClearStreamJoinStall(o, s) ==
    LetStreamTupleGo(StreamJoinScan(o, s, flow, s.stallTuple, s.lastTs["left"], s.rest),
                     s.stallTuple)

ProcessInner(s, e, f) ==
    IF e.kind = PLUS
    THEN [flow |-> decrRef(addRef(f, e.tuple, 1), e.tuple),
          op   |-> [s EXCEPT !.innerSynopsis = <<e.tuple>> \o @]]
    ELSE [flow |-> decrRef(decrRef(f, e.tuple), e.tuple),
          op   |-> [s EXCEPT !.innerSynopsis = AllBut(@, e.tuple)]]

-----------------------------------------------------------------------------
BinStreamJoinBegin(o) ==
    IF op[o].bStalled
    THEN BeginUnlessStalled(o, MinTsReset(ClearStreamJoinStall(o, op[o])))
    ELSE MergeBegin(o)

StreamJoinProcess(o, s, side, e, f) ==
    CASE ~IsData(e)                  -> [flow |-> f, op |-> s]
      [] IsData(e) /\ side = "left"  -> ProcessOuter(o, s, e.tuple, e.timestamp, f)
      [] IsData(e) /\ side = "right" -> ProcessInner(s, e, f)

BinStreamJoinIterate(o) ==
    LET side == StreamJoinSide(o)
        e    == peek(flow, Input(o, side))
    IN  /\ MayIterate(o)
        /\ ~StreamJoinStuck(o)
        /\ LoopUnlessStalled(o, MinTsKept(
              StreamJoinProcess(o, Noted(o, side, e), side, e, dequeue(flow, Input(o, side)))))

BinStreamJoinEnd(o) == MayEnd(o, StreamJoinStuck(o)) /\ MergeReturn(o)

=============================================================================
