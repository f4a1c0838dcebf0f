------------------------- MODULE PipelineInvariant --------------------------
(***************************************************************************)
(* The inductive invariant of Pipeline.                                    *)
(*                                                                         *)
(* An operator keeps its promise because it knows how far its inputs have  *)
(* come, and every kind of operator knows it from other variables: OpInv.  *)
(***************************************************************************)
EXTENDS Pipeline

-----------------------------------------------------------------------------
(***************************************************************************)
(* Sequences of whatever elements; what is pending on a queue that has     *)
(* promised p; and the queues of a set of operators.                       *)
(***************************************************************************)
IsSeq(s) == s \in Seq({s[i] : i \in DOMAIN s})

KindOf == {PLUS, MINUS, HEARTBEAT}

InOrder(s, p) ==
    /\ IsSeq(s)
    /\ Len(s) <= MaxElements
    /\ \A i \in 1 .. Len(s) : s[i].kind \in KindOf /\ s[i].timestamp \in Nat /\ s[i].timestamp <= p
    /\ \A i, j \in 1 .. Len(s) : i <= j => s[i].timestamp <= s[j].timestamp

FlowOK(ops, f) ==
    /\ DOMAIN f = {"queue", "refs", "history", "promise"}
    /\ DOMAIN f.queue = Outs(ops)
    /\ f.promise \in [Outs(ops) -> Nat]
    /\ \A q \in Outs(ops) : /\ DOMAIN f.queue[q] = Reader(q)
                            /\ \A r \in Reader(q) : InOrder(f.queue[q][r], f.promise[q])

(***************************************************************************)
(* What calls do to the queues: nothing; elements are added to queue q,    *)
(* none older than what q had promised.                                    *)
(***************************************************************************)
SameQueues(f, g) ==
    DOMAIN g = DOMAIN f /\ g.queue = f.queue /\ g.promise = f.promise

Extends(s, t, p) ==
    /\ Len(s) <= Len(t)
    /\ \A k \in 1 .. Len(s) : t[k] = s[k]
    /\ \A k \in Len(s) + 1 .. Len(t) : p <= t[k].timestamp

Put(ops, q, f, g) ==
    /\ FlowOK(ops, g)
    /\ \A p \in Outs(ops) \ {q} : g.queue[p] = f.queue[p] /\ g.promise[p] = f.promise[p]
    /\ f.promise[q] <= g.promise[q]
    /\ \A r \in Reader(q) : Extends(f.queue[q][r], g.queue[q][r], f.promise[q])

(* Operator o may have read its inputs.                                    *)
Read(ops, o, f, g) ==
    /\ FlowOK(ops, g)
    /\ g.promise = f.promise
    /\ \A q \in Outs(ops) : \A r \in Reader(q) :
          \/ g.queue[q][r] = f.queue[q][r]
          \/ \E side \in Ports(o) : Plan[o][side][1] = q /\ Plan[o][side][2] = r

(* A step of o: it may have read its inputs and written its output.        *)
Moved(ops, o, f, g) ==
    /\ FlowOK(ops, g)
    /\ \A q \in Outs(ops) :
          IF HasOutput(o) /\ q = Plan[o].out
          THEN /\ f.promise[q] <= g.promise[q]
               /\ \A r \in Reader(q) : Extends(f.queue[q][r], g.queue[q][r], f.promise[q])
          ELSE /\ f.promise[q] = g.promise[q]
               /\ \A r \in Reader(q) :
                     \/ g.queue[q][r] = f.queue[q][r]
                     \/ \E side \in Ports(o) : Plan[o][side][1] = q /\ Plan[o][side][2] = r

(* Input i brings nothing older than ts.                                   *)
NotBefore(f, i, ts) ==
    /\ ts <= f.promise[i[1]]
    /\ \A k \in 1 .. Len(Pending(f, i)) : ts <= Pending(f, i)[k].timestamp

-----------------------------------------------------------------------------
(***************************************************************************)
(* The operators, by what keeps their output's promise: s has the member   *)
(* variables of o, and f is the flow.                                      *)
(***************************************************************************)
Promise(o, f) == f.promise[Plan[o].out]

Reads(o, s, f) ==
    /\ s.lastInputTs \in Nat
    /\ NotBefore(f, Plan[o].in, s.lastInputTs)

OriginInv(o, s, f) ==
    /\ DOMAIN s = DOMAIN InitialState(Plan[o].kind)
    /\ s.lastInputTs \in Nat
    /\ Promise(o, f) <= s.lastInputTs
    /\ Plan[o].kind = "source" => s.next \in 1 .. Len(Plan[o].tuples) + 1

FilterInv(o, s, f) ==
    /\ DOMAIN s = DOMAIN InitialState(Plan[o].kind)
    /\ Reads(o, s, f)
    /\ Promise(o, f) <= s.lastInputTs

(* What waits for space in the output of a row window, a partitioned       *)
(* window or a grouping is of the instant last read.                       *)
PairInv(o, s, f) ==
    /\ FilterInv(o, s, f)
    /\ s.bStalled \in BOOLEAN
    /\ s.bStalled => s.stalledElement.kind \in KindOf /\ s.stalledElement.timestamp = s.lastInputTs

(* The time window: the tuples in it are stamped in their order, and what  *)
(* has been sent is not younger than the expiry of any; unless it stalls   *)
(* nothing in it has expired.                                              *)
Stamp_w(o, s, n) == s.window.stamp[TupleAt(o, n)]

WindowInv(o, s, p) ==
    /\ DOMAIN s = DOMAIN RangeWindowInit
    /\ DOMAIN s.window = {"lastIns", "lastDel", "stamp"}
    /\ s.window.lastIns \in Nat /\ s.window.lastDel \in 0 .. s.window.lastIns
    /\ s.window.lastIns <= Len(Allocated(o))
    /\ \A n \in 1 .. s.window.lastIns :
          /\ TupleAt(o, n) \in DOMAIN s.window.stamp
          /\ Stamp_w(o, s, n) \in Nat /\ Stamp_w(o, s, n) <= s.lastInputTs
    /\ \A m, n \in 1 .. s.window.lastIns : m <= n => Stamp_w(o, s, m) <= Stamp_w(o, s, n)
    /\ \A n \in s.window.lastDel + 1 .. s.window.lastIns :
          p <= Stamp_w(o, s, n) + Plan[o].windowSize

Unexpired(o, s) ==
    \A n \in s.window.lastDel + 1 .. s.window.lastIns :
        s.lastInputTs < Stamp_w(o, s, n) + Plan[o].windowSize

RangeInv(o, s, f) ==
    /\ PairInv(o, s, f)
    /\ WindowInv(o, s, Promise(o, f))
    /\ ~s.bStalled => Unexpired(o, s)

(* What the window has still to read of its source are the source's tuples *)
(* from the one after lastIns on, in their order.                          *)
Nth(o, e, n) == IsData(e) /\ e.tuple = TupleAt(o, n)

FeedInv(o, s, t, f) ==
    LET pending == Pending(f, Plan[o].in)
    IN  /\ s.window.lastIns < t.next
        /\ \A k \in 1 .. Len(pending) : pending[k].kind # MINUS
        /\ \A k \in 1 .. Len(pending) : IsData(pending[k]) =>
              \E n \in s.window.lastIns + 1 .. t.next - 1 : Nth(o, pending[k], n)
        /\ \A n \in s.window.lastIns + 1 .. t.next - 1 :
              \E k \in 1 .. Len(pending) : Nth(o, pending[k], n)
        /\ \A k, l \in 1 .. Len(pending) : \A m, n \in s.window.lastIns + 1 .. t.next - 1 :
              Nth(o, pending[k], m) /\ Nth(o, pending[l], n) /\ k < l => m < n

(* Istream and Dstream send what is of curTs.                              *)
Entry(e)  == DOMAIN e = {"value", "count"} /\ e.count \in Int
Counts(s) == IsSeq(s) /\ \A i \in 1 .. Len(s) : Entry(s[i])

ChangesInv(o, s, f) ==
    /\ DOMAIN s = DOMAIN IstreamInit
    /\ Reads(o, s, f)
    /\ s.curTs \in Nat /\ s.curTs <= s.lastInputTs
    /\ Promise(o, f) <= s.curTs
    /\ s.bStalled \in BOOLEAN
    /\ ~s.bStalled => s.curTs = s.lastInputTs
    /\ s.bStalled => s.stallElement.kind \in KindOf /\ s.synopsis # <<>>
    /\ Counts(s.synopsis)

(* Rstream's lastInputTs is the instant to be sent next.                   *)
RstreamInv(o, s, f) ==
    /\ FilterInv(o, s, f)
    /\ s.bStalled \in BOOLEAN
    /\ IsSeq(s.synopsis) /\ IsSeq(s.rest)
    /\ s.bStalled => /\ s.stallElement.kind \in KindOf
                     /\ s.stallElement.timestamp \in Nat
                     /\ s.lastInputTs < s.stallElement.timestamp
                     /\ NotBefore(f, Plan[o].in, s.stallElement.timestamp)

(* What a side of a merge may still bring, at the earliest.                *)
AtLeast(o, s, f, side, ts) ==
    IF isEmpty(f, Input(o, side)) THEN ts <= s.lastTs[side]
    ELSE ts <= peek(f, Input(o, side)).timestamp

MergeInv(o, s, f) ==
    /\ DOMAIN s = DOMAIN InitialState(Plan[o].kind)
    /\ s.lastTs \in [Sides -> Nat] /\ s.minTs \in [Sides -> Nat]
    /\ \A side \in Sides : /\ NotBefore(f, Input(o, side), s.lastTs[side])
                           /\ AtLeast(o, s, f, side, Promise(o, f))

JoinInv(o, s, f) ==
    /\ MergeInv(o, s, f)
    /\ s.bStalled \in BOOLEAN
    /\ s.synopsis \in [Sides -> {s.synopsis[side] : side \in Sides}]
    /\ \A side \in Sides : IsSeq(s.synopsis[side])
    /\ IsSeq(s.rest)
    /\ s.bStalled => /\ s.stallSide \in Sides
                     /\ s.stallElement.kind \in {PLUS, MINUS}
                     /\ s.stallElement.timestamp \in Nat
                     /\ Promise(o, f) <= s.stallElement.timestamp
                     /\ \A side \in Sides : AtLeast(o, s, f, side, s.stallElement.timestamp)

StreamJoinInv(o, s, f) ==
    /\ MergeInv(o, s, f)
    /\ s.bStalled \in BOOLEAN
    /\ IsSeq(s.innerSynopsis) /\ IsSeq(s.rest)
    /\ s.bStalled => /\ Promise(o, f) <= s.lastTs["left"]
                     /\ \A side \in Sides : AtLeast(o, s, f, side, s.lastTs["left"])

(* While a merge runs, minTs is what it knows of its inputs.               *)
MergeRuns(o, s, f, left) ==
    \A side \in Sides :
        /\ isEmpty(f, Input(o, side)) => s.minTs[side] = s.lastTs[side]
        /\ ~isEmpty(f, Input(o, side)) => s.minTs[side] <= peek(f, Input(o, side)).timestamp
        /\ left < TimeSlice => Promise(o, f) <= s.minTs[side]

StalledMeansFull(o, s, f) == s.bStalled => isFull(f, Plan[o].out)

-----------------------------------------------------------------------------
OpInv(o, s, f) ==
    CASE Plan[o].kind \in Originating -> OriginInv(o, s, f)
      [] Plan[o].kind \in {"select", "project", "distinct"} -> FilterInv(o, s, f)
      [] Plan[o].kind \in {"group", "partn", "row"} -> PairInv(o, s, f)
      [] Plan[o].kind = "range" -> RangeInv(o, s, f)
      [] Plan[o].kind \in {"istream", "dstream"} -> ChangesInv(o, s, f)
      [] Plan[o].kind = "rstream" -> RstreamInv(o, s, f)
      [] Plan[o].kind \in {"union", "except"} -> MergeInv(o, s, f)
      [] Plan[o].kind = "join" -> JoinInv(o, s, f)
      [] Plan[o].kind = "streamjoin" -> StreamJoinInv(o, s, f)
      [] Plan[o].kind \in Terminal -> TRUE

RunInv(o, s, f, left) ==
    CASE Plan[o].kind \in {"group", "range", "istream", "dstream", "rstream"} -> ~s.bStalled
      [] Plan[o].kind \in {"partn", "row"} -> StalledMeansFull(o, s, f)
      [] Plan[o].kind \in {"union", "except"} -> MergeRuns(o, s, f, left)
      [] Plan[o].kind \in {"join", "streamjoin"} -> ~s.bStalled /\ MergeRuns(o, s, f, left)
      [] OTHER -> TRUE

Types ==
    /\ query \in Queries
    /\ running \in query \cup {Idle, Failed}
    /\ slice \in 0 .. TimeSlice
    /\ DOMAIN op = query
    /\ FlowOK(query, flow)

Feeds ==
    \A o \in query : Plan[o].kind = "range" => FeedInv(o, op[o], op[Plan[o].store], flow)

IInv ==
    /\ Types
    /\ Feeds
    /\ \A o \in query : OpInv(o, op[o], flow)
    /\ running \in query => RunInv(running, op[running], flow, slice)

=============================================================================
