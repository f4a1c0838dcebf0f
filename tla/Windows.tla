------------------------------ MODULE Windows ------------------------------
(***************************************************************************)
(* The tuples of a window, as the window operators see them through        *)
(* synopses/win_syn_impl.cc: a stub of the store that allocated the tuples *)
(* (stores/win_store_impl.cc).                                             *)
(*                                                                         *)
(* The store keeps no list.  It lays the tuples out in the order in which  *)
(* it allocated them and a stub is two places in that order, the last      *)
(* tuple inserted and the last one deleted; inserting and deleting move    *)
(* these one place on, whatever tuple they are given.  The timestamp is    *)
(* written into the tuple that is given.                                   *)
(***************************************************************************)
EXTENDS Dataflow

WindowInit == [lastIns |-> 0, lastDel |-> 0, stamp |-> [t \in {} |-> 0]]

(* The tuples of operator o's input, in the order of their allocation.     *)
Allocated(o) == Plan[Plan[o].store].tuples
TupleAt(o, n) == <<Allocated(o)[n]>>

insertTuple(w, t, ts) ==
    [w EXCEPT !.lastIns = @ + 1,
              !.stamp = [u \in DOMAIN @ \cup {t} |-> IF u = t THEN ts ELSE @[u]]]

isEmpty_w(w)            == w.lastIns = w.lastDel
OldestTuple(o, w)       == TupleAt(o, w.lastDel + 1)
deleteOldestTuple_Kept(w) == w   \* deviation: reports the oldest but keeps it
deleteOldestTuple(w)    == [w EXCEPT !.lastDel = @ + 1]
deleteUnqualifiedTuple(w) == [w EXCEPT !.lastDel = @ + 1]

(***************************************************************************)
(* The window keeps a reference of its own for each tuple: the MINUS takes *)
(* it over.                                                                *)
(***************************************************************************)
Lock_None(f, t) == f             \* deviation: the window shares the PLUS's reference
Lock(f, t) == addRef(f, t, 1)

(* The tuples between the two places, oldest first.                        *)
WindowTuples(o, w) == [i \in 1 .. w.lastIns - w.lastDel |-> TupleAt(o, w.lastDel + i)]

(* What a window operator holds: its window and the element it has still   *)
(* to send.                                                                *)
WindowKeeps(o) ==
    WindowTuples(o, op[o].window)
        \o (IF op[o].bStalled /\ IsData(op[o].stalledElement)
            THEN <<op[o].stalledElement.tuple>> ELSE <<>>)

-----------------------------------------------------------------------------
(***************************************************************************)
(* The time window: execution/operators/range_win.cc.  It turns a stream   *)
(* into the relation of its tuples of the last Plan[o].windowSize time     *)
(* units: a PLUS when a tuple comes and a MINUS when it expires.           *)
(***************************************************************************)

RangeWindowInit ==
    [lastInputTs |-> 0, lastOutputTs |-> 0, window |-> WindowInit,
     bStalled |-> FALSE, stalledElement |-> Heartbeat(0)]

(***************************************************************************)
(* expireTuples(): the oldest tuples leave while they are at least         *)
(* windowSize old, and while the output has space for their MINUS; with    *)
(* one left over the operator stalls.  The result is the flow, the state   *)
(* of the operator and whether it stalled.                                 *)
(***************************************************************************)
Expired(o, s, t) == s.window.stamp[t] + Plan[o].windowSize <= s.lastInputTs

NumExpired(o, s) ==
    LET ts == WindowTuples(o, s.window)
        expiredUpTo(n) == \A i \in 1 .. n : Expired(o, s, ts[i])
    IN  Max({n \in 0 .. Len(ts) : expiredUpTo(n)})

MinusOf_Now(o, s, t) ==          \* deviation: deleted when noticed, not when expired
    Element(MINUS, t, s.lastInputTs)
MinusOf_Inserted(o, s, t) ==     \* deviation: the timestamp of the insertion
    Element(MINUS, t, s.window.stamp[t])
MinusOf(o, s, t) == Element(MINUS, t, s.window.stamp[t] + Plan[o].windowSize)

Sendable_All(due, space) == due  \* deviation: assumes that there is space
Sendable(due, space) == IF due < space THEN due ELSE space

SendExpired(o, s, f, gone, due) ==
    [flow |-> enqueueAll(f, Plan[o].out, gone),
     op   |-> [s EXCEPT
                 !.window.lastDel = @ + Len(gone),
                 !.lastOutputTs = IF gone = <<>> THEN @ ELSE Last(gone).timestamp,
                 !.bStalled = Len(gone) < due]]

ExpireUpTo(o, s, f, due) ==
    SendExpired(o, s, f,
        [i \in 1 .. Sendable(due, Space(f, Plan[o].out)) |->
            MinusOf(o, s, WindowTuples(o, s.window)[i])],
        due)

ExpireTuples(o, s, f) == ExpireUpTo(o, s, f, NumExpired(o, s))

(***************************************************************************)
(* The element goes out after the expired ones, or stalls in its turn.     *)
(***************************************************************************)
SendPlus(o, x, e) ==
    IF isFull(x.flow, Plan[o].out)
    THEN [x EXCEPT !.op.bStalled = TRUE]
    ELSE [flow |-> enqueue(x.flow, Plan[o].out, e),
          op   |-> [x.op EXCEPT !.lastOutputTs = e.timestamp]]

SendUnlessStalled(o, x, e) ==
    IF x.op.bStalled \/ ~IsData(e) THEN x ELSE SendPlus(o, x, e)

ExpireThenSend(o, s, e, f) == SendUnlessStalled(o, ExpireTuples(o, s, f), e)

(***************************************************************************)
(* A run first tries to clear a stall, and does nothing else if it fails.  *)
(***************************************************************************)
clearStall_Dropped(o, s, f) ==   \* deviation: the stalled element is forgotten
    ExpireTuples(o, [s EXCEPT !.bStalled = FALSE], f)
clearStall(o, s, f) ==
    ExpireThenSend(o, [s EXCEPT !.bStalled = FALSE], s.stalledElement, f)

RangeWindowBegin(o) ==
    IF op[o].bStalled
    THEN BeginUnlessStalled(o, clearStall(o, op[o], flow))
    ELSE Begin(o) /\ UNCHANGED <<flow, op>>

-----------------------------------------------------------------------------
RangeWindowStuck(o) == isEmpty(flow, Plan[o].in)

InsertThenExpire(o, s, f, e) ==
    IF e.kind = PLUS
    THEN ExpireThenSend(o, [s EXCEPT !.window = insertTuple(@, e.tuple, e.timestamp)],
                        e, Lock(f, e.tuple))
    ELSE ExpireThenSend(o, s, e, f)

Remember(x, e) ==
    IF x.op.bStalled THEN [x EXCEPT !.op.stalledElement = e] ELSE x

InsertAndRemember(o, s, f, e) == Remember(InsertThenExpire(o, s, f, e), e)

RangeWindowIterate(o) ==
    LET e == peek(flow, Plan[o].in)
    IN  /\ MayIterate(o)
        /\ ~RangeWindowStuck(o)
        /\ LoopUnlessStalled(o,
               InsertAndRemember(o, [op[o] EXCEPT !.lastInputTs = e.timestamp],
                                  dequeue(flow, Plan[o].in), e))

(***************************************************************************)
(* The heartbeat does not count as output: an idle window repeats it at    *)
(* the end of every run.                                                   *)
(***************************************************************************)
RangeWindowEnd(o) ==
    /\ MayEnd(o, RangeWindowStuck(o))
    /\ Return
    /\ flow' = IF HeartbeatDue(o, op[o].lastInputTs)
               THEN enqueue(flow, Plan[o].out, Heartbeat(op[o].lastInputTs))
               ELSE flow
    /\ UNCHANGED op

-----------------------------------------------------------------------------
(***************************************************************************)
(* The row window: execution/operators/row_win.cc.  It turns a stream into *)
(* the relation of its last Plan[o].windowSize tuples.  Plan[o].qualify    *)
(* are the tuples whose level passes the window's level filter; a window   *)
(* without a level has them all there.                                     *)
(***************************************************************************)

RowWindowInit ==
    [lastInputTs |-> 0, lastOutputTs |-> 0, window |-> WindowInit,
     numProcessed |-> 0, bStalled |-> FALSE, stalledElement |-> Heartbeat(0)]

(***************************************************************************)
(* clearStall() returns whether it failed and run() gives up on the        *)
(* opposite: a run that clears the stall does nothing else, one that fails *)
(* goes on into a loop that ends at once.                                  *)
(***************************************************************************)
RowWindowBegin(o) ==
    /\ running = Idle
    /\ IF op[o].bStalled /\ ~isFull(flow, Plan[o].out)
       THEN /\ flow' = enqueue(flow, Plan[o].out, op[o].stalledElement)
            /\ op' = [op EXCEPT ![o].bStalled = FALSE]
            /\ Return
       ELSE Begin(o) /\ UNCHANGED <<flow, op>>

RowWindowStuck(o) == isFull(flow, Plan[o].out) \/ isEmpty(flow, Plan[o].in)

-----------------------------------------------------------------------------
(***************************************************************************)
(* A tuple of another level goes no further, and is not released.          *)
(***************************************************************************)
Disqualify(o, e, f) ==
    /\ op' = [op EXCEPT ![o].lastInputTs = e.timestamp,
                        ![o].window = deleteUnqualifiedTuple(@)]
    /\ flow' = f
    /\ Loop

(***************************************************************************)
(* Any other goes out and, once the window is full, the oldest leaves it;  *)
(* the MINUS of that one waits in stalledElement if the PLUS took the last *)
(* slot, and ends the loop.                                                *)
(***************************************************************************)
WindowIsFull_Late(o) == op[o].numProcessed = Plan[o].windowSize + 1  \* deviation
WindowIsFull(o)      == op[o].numProcessed = Plan[o].windowSize

NoSpace_Unchecked(f, q) == FALSE \* deviation: two elements need two slots
NoSpace(f, q) == isFull(f, q)

Expels(o, e, f) ==
    LET s == [op[o] EXCEPT !.lastInputTs = e.timestamp,
                           !.lastOutputTs = e.timestamp,
                           !.window = insertTuple(@, e.tuple, e.timestamp)]
        out   == Plan[o].out
        g     == enqueue(Lock(f, e.tuple), out, e)
        minus == Element(MINUS, OldestTuple(o, s.window), e.timestamp)
        d     == [s EXCEPT !.window = deleteOldestTuple(@)]
    IN  IF ~WindowIsFull(o)
        THEN /\ flow' = g
             /\ op' = [op EXCEPT ![o] = [s EXCEPT !.numProcessed = @ + 1]]
             /\ Loop
        ELSE IF NoSpace(g, out)
        THEN /\ flow' = g
             /\ op' = [op EXCEPT ![o] = [d EXCEPT !.bStalled = TRUE,
                                                  !.stalledElement = minus]]
             /\ slice' = 0 /\ UNCHANGED running
        ELSE /\ flow' = enqueue(g, out, minus)
             /\ op' = [op EXCEPT ![o] = d]
             /\ Loop

RowWindowIterate(o) ==
    LET e == peek(flow, Plan[o].in)
        f == dequeue(flow, Plan[o].in)
    IN  /\ MayIterate(o)
        /\ ~RowWindowStuck(o)
        /\ IF ~IsData(e)
           THEN /\ flow' = f
                /\ op' = [op EXCEPT ![o].lastInputTs = e.timestamp]
                /\ Loop
           ELSE IF e.tuple \notin Plan[o].qualify
           THEN Disqualify(o, e, f)
           ELSE Expels(o, e, f)

RowWindowEnd(o) ==
    /\ MayEnd(o, RowWindowStuck(o))
    /\ Return
    /\ flow' = IF HeartbeatDue(o, op[o].lastInputTs)
               THEN enqueue(flow, Plan[o].out, Heartbeat(op[o].lastInputTs))
               ELSE flow
    /\ UNCHANGED op

=============================================================================
