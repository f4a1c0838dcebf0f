------------------------------- MODULE Merge -------------------------------
(***************************************************************************)
(* What the operators with two inputs share: the order in which they read  *)
(* them.  The same code stands in execution/operators/union.cc, except.cc  *)
(* and bin_join.cc (where left is the outer input and right the inner).    *)
(*                                                                         *)
(* op[o].lastTs has the timestamp of the last element read of each side.   *)
(* op[o].minTs are the locals of run(): the smallest timestamp each side   *)
(* may still bring, as far as the last peek told; 0 between runs.          *)
(***************************************************************************)
EXTENDS Dataflow

Sides    == {"left", "right"}
Zero     == [side \in Sides |-> 0]
Input(o, side) == Plan[o][side]
Other(side)    == IF side = "left" THEN "right" ELSE "left"

MinTs(o) ==
    [side \in Sides |-> IF isEmpty(flow, Input(o, side))
                        THEN op[o].minTs[side]
                        ELSE peek(flow, Input(o, side)).timestamp]

(***************************************************************************)
(* A side may be read once the other one can bring nothing older; when     *)
(* both may, the left is.                                                  *)
(***************************************************************************)
Ready_Eager(o, side) ==                 \* deviation: does not wait
    ~isEmpty(flow, Input(o, side))
Ready(o, side) ==
    /\ ~isEmpty(flow, Input(o, side))
    /\ MinTs(o)[side] <= MinTs(o)[Other(side)]

Chosen(o) == IF Ready(o, "left") THEN "left" ELSE "right"

NothingReady(o) == \A side \in Sides : ~Ready(o, side)

(***************************************************************************)
(* The member variables after element e was read of a side.                *)
(***************************************************************************)
Noted(o, side, e) ==
    [op[o] EXCEPT !.minTs = MinTs(o), !.lastTs[side] = e.timestamp]

MergeBegin(o) ==
    /\ Begin(o)
    /\ op' = [op EXCEPT ![o].minTs = op[o].lastTs]
    /\ UNCHANGED flow

(***************************************************************************)
(* The locals of a run() that may stall: set when the stall is cleared,    *)
(* gone when the run returns because of another.                           *)
(***************************************************************************)
MinTsReset(x) == [x EXCEPT !.op.minTs = IF x.op.bStalled THEN Zero ELSE x.op.lastTs]
MinTsKept(x)  == [x EXCEPT !.op.minTs = IF x.op.bStalled THEN Zero ELSE @]

(***************************************************************************)
(* The code after the loop, which has peeked before it gave up unless the  *)
(* time slice was over (or the output full, when no heartbeat is sent).    *)
(***************************************************************************)
MergeReturn(o) ==
    LET min == IF slice > 0 THEN MinTs(o) ELSE op[o].minTs
        ts  == IF min["left"] < min["right"] THEN min["left"] ELSE min["right"]
        s   == [op[o] EXCEPT !.minTs = Zero]
    IN  /\ Return
        /\ IF HeartbeatDue(o, ts)
           THEN /\ flow' = enqueue(flow, Plan[o].out, Heartbeat(ts))
                /\ op' = [op EXCEPT ![o] = [s EXCEPT !.lastOutputTs = ts]]
           ELSE UNCHANGED flow /\ op' = [op EXCEPT ![o] = s]

(***************************************************************************)
(* A data element that was read is released, whichever way it went.        *)
(***************************************************************************)
Release(f, e) == IF IsData(e) THEN decrRef(f, e.tuple) ELSE f

=============================================================================
