------------------------------ MODULE Sources -------------------------------
(***************************************************************************)
(* The operator that turns what a table source delivers into a stream:     *)
(* execution/operators/stream_source.cc.                                   *)
(*                                                                         *)
(* Plan[o] has the tuples the source will deliver, in order, and the       *)
(* timestamps it may put on them.  op[o].next counts those delivered.      *)
(***************************************************************************)
EXTENDS Dataflow

StreamSourceInit == [lastInputTs |-> 0, lastOutputTs |-> 0, next |-> 1]

StreamSourceBegin(o) == Begin(o) /\ UNCHANGED <<flow, op>>

(***************************************************************************)
(* The first field of what getNext() returns is its timestamp; one that is *)
(* smaller than the last ends the scheduler's run, as does a getNext()     *)
(* that fails (both only if Plan[o].errors).                               *)
(***************************************************************************)
Misordered_Ignored(o, ts) == FALSE      \* deviation: the check is forgotten
Misordered(o, ts) == ts < op[o].lastInputTs

StreamSourceTuple(o, ts) ==
    LET t == <<Plan[o].tuples[op[o].next]>>
    IN  /\ op[o].next <= Len(Plan[o].tuples)
        /\ flow' = enqueue(newTuple(flow, t), Plan[o].out, Element(PLUS, t, ts))
        /\ op' = [op EXCEPT ![o].lastInputTs = ts,
                            ![o].lastOutputTs = ts,
                            ![o].next = @ + 1]

StreamSourceHeartbeat(o, ts) ==
    /\ Plan[o].heartbeats
    /\ op' = [op EXCEPT ![o].lastInputTs = ts]
    /\ UNCHANGED flow

StreamSourceIterate(o) ==
    /\ MayIterate(o)
    /\ ~isFull(flow, Plan[o].out)
    /\ \E ts \in Plan[o].timestamps :
          \/ ~Misordered(o, ts) /\ StreamSourceTuple(o, ts) /\ Loop
          \/ ~Misordered(o, ts) /\ StreamSourceHeartbeat(o, ts) /\ Loop
          \/ Plan[o].errors /\ Misordered(o, ts) /\ ReturnError /\ UNCHANGED <<flow, op>>
          \/ Plan[o].errors /\ ReturnError /\ UNCHANGED <<flow, op>>

(***************************************************************************)
(* The loop also ends when the source has nothing yet, which can be the    *)
(* case at any time.                                                       *)
(***************************************************************************)
StreamSourceEnd_Silent(o) ==     \* deviation: keeps the time to itself
    MayEnd(o, TRUE) /\ Return /\ UNCHANGED <<flow, op>>

StreamSourceEnd(o) ==
    /\ MayEnd(o, TRUE)
    /\ Return
    /\ IF HeartbeatDue(o, op[o].lastInputTs)
       THEN /\ flow' = enqueue(flow, Plan[o].out, Heartbeat(op[o].lastInputTs))
            /\ op' = [op EXCEPT ![o].lastOutputTs = op[o].lastInputTs]
       ELSE UNCHANGED <<flow, op>>

-----------------------------------------------------------------------------
(***************************************************************************)
(* The operator that turns what a table source says of a relation into     *)
(* insertions and deletions: execution/operators/rel_source.cc.            *)
(*                                                                         *)
(* Plan[o].tuples are the tuples that may be inserted, in that order, and  *)
(* Plan[o].value has their contents: the client that deletes a tuple can   *)
(* only give its contents.                                                 *)
(***************************************************************************)
RelSourceInit == [lastInputTs |-> 0, lastOutputTs |-> 0, next |-> 1, rel |-> <<>>]

RelSourceKeeps(o) == op[o].rel

RelSourceBegin(o) == Begin(o) /\ UNCHANGED <<flow, op>>

(***************************************************************************)
(* getSynTuple(): the tuple that was inserted last among equal ones, which *)
(* is where a scan of the synopsis begins.                                 *)
(***************************************************************************)
Equal(o, v) == SelectSeq(op[o].rel, LAMBDA t : Plan[o].value[t] = v)
SynTuple(o, v) == Head(Equal(o, v))

RelSourceInsert(o, ts) ==
    LET t == <<Plan[o].tuples[op[o].next]>>
    IN  /\ op[o].next <= Len(Plan[o].tuples)
        /\ flow' = enqueue(addRef(newTuple(flow, t), t, 1),
                           Plan[o].out, Element(PLUS, t, ts))
        /\ op' = [op EXCEPT ![o] = [lastInputTs  |-> ts,
                                    lastOutputTs |-> ts,
                                    next         |-> @.next + 1,
                                    rel          |-> <<t>> \o @.rel]]

(* The synopsis' reference goes with the deletion.                         *)
RelSourceDelete(o, v, ts) ==
    LET t == SynTuple(o, v)
    IN  /\ Equal(o, v) # <<>>
        /\ flow' = enqueue(flow, Plan[o].out, Element(MINUS, t, ts))
        /\ op' = [op EXCEPT ![o].lastInputTs = ts,
                            ![o].lastOutputTs = ts,
                            ![o].rel = SelectSeq(@, LAMBDA u : u # t)]

RelSourceHeartbeat(o, ts) ==
    /\ Plan[o].heartbeats
    /\ op' = [op EXCEPT ![o].lastInputTs = ts]
    /\ UNCHANGED flow

(***************************************************************************)
(* A timestamp that goes back, the deletion of what is not there and a     *)
(* source that fails end the scheduler's run.                              *)
(***************************************************************************)
RelSourceFails(o) ==
    /\ Plan[o].errors
    /\ ReturnError
    /\ UNCHANGED <<flow, op>>

RelSourceIterate(o) ==
    /\ MayIterate(o)
    /\ ~isFull(flow, Plan[o].out)
    /\ \/ \E ts \in Plan[o].timestamps :
            /\ ts >= op[o].lastInputTs
            /\ \/ RelSourceInsert(o, ts)
               \/ \E v \in {Plan[o].value[t] : t \in ToSet(op[o].rel)} : RelSourceDelete(o, v, ts)
               \/ RelSourceHeartbeat(o, ts)
            /\ Loop
       \/ RelSourceFails(o)

RelSourceEnd(o) ==
    /\ MayEnd(o, TRUE)
    /\ Return
    /\ IF HeartbeatDue(o, op[o].lastInputTs)
       THEN /\ flow' = enqueue(flow, Plan[o].out, Heartbeat(op[o].lastInputTs))
            /\ op' = [op EXCEPT ![o].lastOutputTs = op[o].lastInputTs]
       ELSE UNCHANGED <<flow, op>>

=============================================================================
