---------------------------- MODULE RelToStream -----------------------------
(***************************************************************************)
(* The stream of a relation's insertions, execution/operators/istream.cc,  *)
(* and of its deletions, operators/dstream.cc.  Both count, for the        *)
(* current timestamp curTs, the insertions less the deletions of tuples of *)
(* the same contents (Plan[o].value), and send as many copies as there are *)
(* insertions left (Istream) or deletions left (Dstream) when the first    *)
(* element comes that is later.                                            *)
(*                                                                         *)
(* synopsis is the sequence of [value, count] in the order of its scan.    *)
(* A scan deletes what it is done with: when the operator stalls, what is  *)
(* left of the scan is what is left of the synopsis.                       *)
(***************************************************************************)
EXTENDS Dataflow

IstreamInit ==
    [lastInputTs |-> 0, lastOutputTs |-> 0, curTs |-> 0, synopsis |-> <<>>,
     bStalled |-> FALSE, stallElement |-> Heartbeat(0)]

NetTuple(o, v)      == <<o, v>>
Change(o, v, ts, n) == <<o, v, ts, n>>

IstreamKeeps(o) ==
    LET s == op[o]
    IN  [i \in DOMAIN s.synopsis |-> NetTuple(o, s.synopsis[i].value)]
        \o (IF s.bStalled /\ IsData(s.stallElement) THEN <<s.stallElement.tuple>> ELSE <<>>)

-----------------------------------------------------------------------------
(***************************************************************************)
(* produceOutput(): the scan of the synopsis.  Of an entry with n copies   *)
(* to send as many are sent as there is space for; the operator stalls if  *)
(* there is none left after that, else the entry is deleted.  y is the     *)
(* scan so far.                                                            *)
(***************************************************************************)
Owed(sign, n) == IF sign * n > 0 THEN sign * n ELSE 0
Unsent(sign, s, n) == [s EXCEPT !.count = @ - sign * n]

SendChanges(o, f, ts) == insertAll(f, Plan[o].out, ts, op[o].curTs)

SendCopies(o, f, v, owed, n) ==
    SendChanges(o, f, [i \in 1 .. n |-> Change(o, v, op[o].curTs, owed - i + 1)])

AfterCopies(o, y, f, n, left) ==
    IF isFull(f, Plan[o].out)
    THEN [flow |-> f, bStalled |-> TRUE, sent |-> y.sent \/ n > 0, rest |-> <<left>>]
    ELSE [y EXCEPT !.flow = decrRef(f, NetTuple(o, left.value)), !.sent = @ \/ n > 0]

SendSome(o, sign, y, s, n) ==
    AfterCopies(o, y, SendCopies(o, y.flow, s.value, Owed(sign, s.count), n), n,
                Unsent(sign, s, n))

SendNet(o, sign, y, s) ==
    IF y.bStalled
    THEN [y EXCEPT !.rest = Append(@, s)]
    ELSE SendSome(o, sign, y, s, Min({Owed(sign, s.count), Space(y.flow, Plan[o].out)}))

Produced(s, y) ==
    [flow |-> y.flow,
     op   |-> [s EXCEPT !.synopsis     = y.rest,
                        !.bStalled     = y.bStalled,
                        !.lastOutputTs = IF y.sent THEN s.curTs ELSE @,
                        !.curTs        = IF y.bStalled THEN @ ELSE s.lastInputTs]]

NothingSent(f) == [flow |-> f, bStalled |-> FALSE, sent |-> FALSE, rest |-> <<>>]

SendAll(o, sign, y, entries) ==
    LET after[n \in 0 .. Len(entries)] ==
            IF n = 0 THEN y ELSE SendNet(o, sign, after[n - 1], entries[n])
    IN  after[Len(entries)]

ProduceOutput(o, sign, s, f) ==
    Produced(s, SendAll(o, sign, NothingSent(f), s.synopsis))

(***************************************************************************)
(* clearStall() goes on with the entry the operator stalled at.  The       *)
(* Dstream's subtracts one there for every copy sent, where the count is   *)
(* negative and produceOutput() adds one: what is owed grows as it is      *)
(* sent, until there is no space left, and the operator stays stalled.     *)
(***************************************************************************)
Surplus(o, s, i) == Change(o, s.value, op[o].curTs, s.count - i)

SendSurplus(o, y, s, n) ==
    AfterCopies(o, y, SendChanges(o, y.flow, [i \in 1 .. n |-> Surplus(o, s, i)]),
                n, Unsent(1, s, n))

ResumeNet(o, sign, y, s) ==
    IF sign = -1 /\ s.count < 0
    THEN SendSurplus(o, y, s, Space(y.flow, Plan[o].out))
    ELSE SendNet(o, sign, y, s)

ResumeOutput(o, sign, s) ==
    Produced(s, SendAll(o, sign, ResumeNet(o, sign, NothingSent(flow), Head(s.synopsis)),
                        Tail(s.synopsis)))

(***************************************************************************)
(* handlePlus(), handleMinus(): counts the element for its timestamp; an   *)
(* entry whose count comes to 0 is deleted.                                *)
(***************************************************************************)
EntryOf(s, v) == {i \in DOMAIN s.synopsis : s.synopsis[i].value = v}

Tallied(s, v, unit) ==
    IF EntryOf(s, v) = {}
    THEN <<[value |-> v, count |-> unit]>> \o s.synopsis
    ELSE At([i \in DOMAIN s.synopsis |->
                IF i \in EntryOf(s, v)
                THEN [s.synopsis[i] EXCEPT !.count = @ + unit]
                ELSE s.synopsis[i]],
            {i \in DOMAIN s.synopsis : i \in EntryOf(s, v) => s.synopsis[i].count # -unit})

NetTupleCounted(o, s, f, v, unit) ==
    CASE EntryOf(s, v) = {} -> newTuple(f, NetTuple(o, v))
      [] \E i \in EntryOf(s, v) : s.synopsis[i].count = -unit -> decrRef(f, NetTuple(o, v))
      [] \E i \in EntryOf(s, v) : s.synopsis[i].count # -unit -> f

Net(o, x, e) ==
    LET v    == Plan[o].value[e.tuple]
        unit == IF e.kind = PLUS THEN 1 ELSE -1
    IN  IF IsData(e)
        THEN [flow |-> decrRef(NetTupleCounted(o, x.op, x.flow, v, unit), e.tuple),
              op   |-> [x.op EXCEPT !.synopsis = Tallied(x.op, v, unit)]]
        ELSE x

(***************************************************************************)
(* An element that is later than curTs first needs the output of curTs,    *)
(* and is kept in stallElement if there is no space for that.              *)
(***************************************************************************)
NetOrStall(o, x, e) ==
    IF x.op.bStalled
    THEN [x EXCEPT !.op.stallElement = e]
    ELSE Net(o, [x EXCEPT !.op.stallElement = Heartbeat(0)], e)

Late(s) == s.curTs < s.lastInputTs

Receive(o, sign, s, f, e) ==
    IF Late(s)
    THEN NetOrStall(o, ProduceOutput(o, sign, s, f), e)
    ELSE Net(o, [flow |-> f, op |-> s], e)

ClearNetStall(o, sign) ==
    NetOrStall(o, ResumeOutput(o, sign, op[o]), op[o].stallElement)

-----------------------------------------------------------------------------
ChangesBegin(o, sign) ==
    IF op[o].bStalled
    THEN BeginUnlessStalled(o, ClearNetStall(o, sign))
    ELSE Begin(o) /\ UNCHANGED <<flow, op>>

ChangesStuck(o) == isEmpty(flow, Plan[o].in)

ChangesIterate(o, sign) ==
    LET e == peek(flow, Plan[o].in)
    IN  /\ MayIterate(o)
        /\ ~ChangesStuck(o)
        /\ LoopUnlessStalled(o, Receive(o, sign, [op[o] EXCEPT !.lastInputTs = e.timestamp],
                                        dequeue(flow, Plan[o].in), e))

IstreamBegin(o)   == ChangesBegin(o, 1)
IstreamIterate(o) == ChangesIterate(o, 1)

IstreamEnd(o) ==
    /\ MayEnd(o, ChangesStuck(o))
    /\ Return
    /\ IF HeartbeatDue(o, op[o].lastInputTs)
       THEN /\ flow' = enqueue(flow, Plan[o].out, Heartbeat(op[o].lastInputTs))
            /\ op' = [op EXCEPT ![o].lastOutputTs = op[o].lastInputTs]
       ELSE UNCHANGED <<flow, op>>

DstreamBegin(o)   == ChangesBegin(o, -1)
DstreamIterate(o) == ChangesIterate(o, -1)

(* A Dstream sends no heartbeats.                                          *)
DstreamEnd(o) ==
    /\ MayEnd(o, ChangesStuck(o))
    /\ Return
    /\ UNCHANGED <<flow, op>>

-----------------------------------------------------------------------------
(***************************************************************************)
(* The stream of a relation, all of it at every instant:                   *)
(* execution/operators/rstream.cc.  lastInputTs is the next instant to be  *)
(* sent, and rest what is left of the scan for it when the operator is     *)
(* stalled.                                                                *)
(***************************************************************************)
RstreamInit ==
    [lastInputTs |-> 0, lastOutputTs |-> 0, synopsis |-> <<>>,
     bStalled |-> FALSE, stallElement |-> Heartbeat(0), rest |-> <<>>]

RstreamKeeps(o) ==
    LET s == op[o]
    IN  s.synopsis
        \o (IF s.bStalled /\ IsData(s.stallElement) THEN <<s.stallElement.tuple>> ELSE <<>>)

Copy(o, ts, t) == <<o, ts>> \o t

(***************************************************************************)
(* produceOutput(), and the scan of clearStall(): the tuples of a scan for *)
(* the instant lastInputTs, as many as there is space for.                 *)
(***************************************************************************)
SendCopiesOf(o, f, ts, scan, n) ==
    insertAll(f, Plan[o].out, [i \in 1 .. n |-> Copy(o, ts, scan[i])], ts)

Scanned(o, s, f, n, scan) ==
    [flow |-> f,
     op   |-> [s EXCEPT
                 !.lastOutputTs = IF n = 0 THEN @ ELSE s.lastInputTs,
                 !.bStalled     = isFull(f, Plan[o].out),
                 !.rest         = IF isFull(f, Plan[o].out)
                                  THEN SubSeq(scan, n + 1, Len(scan)) ELSE <<>>]]

SendSomeOf(o, x, scan, n) ==
    Scanned(o, x.op, SendCopiesOf(o, x.flow, x.op.lastInputTs, scan, n), n, scan)

SendScan(o, x, scan) ==
    SendSomeOf(o, x, scan, Min({Len(scan), Space(x.flow, Plan[o].out)}))

(***************************************************************************)
(* The instants before ts, one after the other, until the operator stalls. *)
(***************************************************************************)
NextInstant(x) == IF x.op.bStalled THEN x ELSE [x EXCEPT !.op.lastInputTs = @ + 1]

SendInstant(o, y) ==
    IF y.op.bStalled THEN y ELSE NextInstant(SendScan(o, y, y.op.synopsis))

SendInstants(o, x, ts) ==
    LET instants == ts - x.op.lastInputTs
        after[n \in 0 .. instants] == IF n = 0 THEN x ELSE SendInstant(o, after[n - 1])
    IN  IF instants > 0 THEN after[instants] ELSE x

(* The element itself: a deletion drops the synopsis' reference and its own. *)
Apply(x, e) ==
    CASE e.kind = PLUS  -> [x EXCEPT !.op.synopsis = <<e.tuple>> \o @]
      [] e.kind = MINUS ->
            [flow |-> decrRef(decrRef(x.flow, e.tuple), e.tuple),
             op   |-> [x.op EXCEPT !.synopsis = AllBut(@, e.tuple)]]
      [] e.kind = HEARTBEAT -> x

ApplyOrStall(x, e) ==
    IF x.op.bStalled
    THEN [x EXCEPT !.op.stallElement = e]
    ELSE Apply([x EXCEPT !.op.stallElement = Heartbeat(0)], e)

SendThenApply(o, x, e) == ApplyOrStall(SendInstants(o, x, e.timestamp), e)

Resumed(o) == SendScan(o, [flow |-> flow, op |-> op[o]], op[o].rest)

ClearScanStall_Again(o) ==              \* deviation: the instant is sent again
    SendThenApply(o, Resumed(o), op[o].stallElement)
ClearScanStall(o) ==
    SendThenApply(o, NextInstant(Resumed(o)), op[o].stallElement)

-----------------------------------------------------------------------------
RstreamBegin(o) ==
    IF op[o].bStalled
    THEN BeginUnlessStalled(o, ClearScanStall(o))
    ELSE Begin(o) /\ UNCHANGED <<flow, op>>

RstreamStuck(o) == isEmpty(flow, Plan[o].in)

RstreamIterate(o) ==
    /\ MayIterate(o)
    /\ ~RstreamStuck(o)
    /\ LoopUnlessStalled(o,
          SendThenApply(o, [flow |-> dequeue(flow, Plan[o].in), op |-> op[o]],
                        peek(flow, Plan[o].in)))

RstreamEnd(o) ==
    /\ MayEnd(o, RstreamStuck(o))
    /\ Return
    /\ IF HeartbeatDue(o, op[o].lastInputTs)
       THEN /\ flow' = enqueue(flow, Plan[o].out, Heartbeat(op[o].lastInputTs))
            /\ op' = [op EXCEPT ![o].lastOutputTs = op[o].lastInputTs]
       ELSE UNCHANGED <<flow, op>>

=============================================================================
