--------------------------- MODULE SelectProject ----------------------------
(***************************************************************************)
(* The filter: execution/operators/select.cc.  Plan[o].satisfy is the set  *)
(* of tuples the predicate accepts.                                        *)
(***************************************************************************)
EXTENDS Dataflow

SelectInit == [lastInputTs |-> 0, lastOutputTs |-> 0]

SelectBegin(o) == Begin(o) /\ UNCHANGED <<flow, op>>

SelectStuck_Full(o) == isEmpty(flow, Plan[o].in)   \* deviation: fills a full queue
SelectStuck(o) == isFull(flow, Plan[o].out) \/ isEmpty(flow, Plan[o].in)

(***************************************************************************)
(* A tuple that fails the predicate is released to its store.              *)
(***************************************************************************)
Discard_Kept(f, t) == f                 \* deviation: the tuple is not released
Discard(f, t) == decrRef(f, t)

SelectIterate(o) ==
    LET e == peek(flow, Plan[o].in)
        f == dequeue(flow, Plan[o].in)
        passes == IsData(e) /\ e.tuple \in Plan[o].satisfy
    IN  /\ MayIterate(o)
        /\ ~SelectStuck(o)
        /\ Loop
        /\ op' = [op EXCEPT ![o].lastInputTs = e.timestamp,
                            ![o].lastOutputTs = IF passes THEN e.timestamp ELSE @]
        /\ flow' = CASE passes              -> enqueue(f, Plan[o].out, e)
                     [] IsData(e) /\ ~passes -> Discard(f, e.tuple)
                     [] ~IsData(e)          -> f

SelectEnd_NoHeartbeat(o) ==             \* deviation: filters in silence
    MayEnd(o, SelectStuck(o)) /\ Return /\ UNCHANGED <<flow, op>>

SelectEnd(o) ==
    /\ MayEnd(o, SelectStuck(o))
    /\ Return
    /\ IF HeartbeatDue(o, op[o].lastInputTs)
       THEN /\ flow' = enqueue(flow, Plan[o].out, Heartbeat(op[o].lastInputTs))
            /\ op' = [op EXCEPT ![o].lastOutputTs = op[o].lastInputTs]
       ELSE UNCHANGED <<flow, op>>

-----------------------------------------------------------------------------
(***************************************************************************)
(* The projection: execution/operators/project.cc.  Each tuple it reads is *)
(* replaced by a new one of its own store.  When its input is a relation   *)
(* (Plan[o].relation) outSynopsis remembers which tuple it made of which,  *)
(* newest first, to find it again when the input tuple is deleted.         *)
(***************************************************************************)
ProjectInit == [lastInputTs |-> 0, lastOutputTs |-> 0, outSynopsis |-> <<>>]

ProjectKeeps(o) ==
    [i \in DOMAIN op[o].outSynopsis |-> op[o].outSynopsis[i].out]

ProjectBegin(o) == Begin(o) /\ UNCHANGED <<flow, op>>

ProjectStuck(o) == isFull(flow, Plan[o].out) \/ isEmpty(flow, Plan[o].in)

Projected(o, t)  == <<o>> \o t
MadeOf(o, t)     == SelectSeq(op[o].outSynopsis, LAMBDA s : s.lineage = t)

ProjectPlus(o, e, f) ==
    LET t == Projected(o, e.tuple)
        g == enqueue(newTuple(f, t), Plan[o].out, Element(PLUS, t, e.timestamp))
        s == <<[out |-> t, lineage |-> e.tuple]>> \o op[o].outSynopsis
    IN  /\ flow' = decrRef(IF Plan[o].relation THEN addRef(g, t, 1) ELSE g, e.tuple)
        /\ op' = [op EXCEPT ![o].lastInputTs = e.timestamp,
                            ![o].lastOutputTs = e.timestamp,
                            ![o].outSynopsis = IF Plan[o].relation THEN s ELSE @]
        /\ Loop

ProjectMinus(o, e, f) ==
    LET s == Head(MadeOf(o, e.tuple))
    IN  /\ flow' = decrRef(enqueue(f, Plan[o].out, Element(MINUS, s.out, e.timestamp)),
                           e.tuple)
        /\ op' = [op EXCEPT ![o].lastInputTs = e.timestamp,
                            ![o].lastOutputTs = e.timestamp,
                            ![o].outSynopsis = SelectSeq(@, LAMBDA x : x # s)]
        /\ Loop

ProjectIterate(o) ==
    LET e == peek(flow, Plan[o].in)
        f == dequeue(flow, Plan[o].in)
    IN  /\ MayIterate(o)
        /\ ~ProjectStuck(o)
        /\ CASE e.kind = PLUS -> ProjectPlus(o, e, f)
             [] e.kind = MINUS /\ MadeOf(o, e.tuple) # <<>> -> ProjectMinus(o, e, f)
             [] e.kind = MINUS /\ MadeOf(o, e.tuple) = <<>> ->
                    ReturnError /\ UNCHANGED <<flow, op>>
             [] e.kind = HEARTBEAT ->
                    /\ flow' = f
                    /\ op' = [op EXCEPT ![o].lastInputTs = e.timestamp]
                    /\ Loop

ProjectEnd(o) ==
    /\ MayEnd(o, ProjectStuck(o))
    /\ Return
    /\ IF HeartbeatDue(o, op[o].lastInputTs)
       THEN /\ flow' = enqueue(flow, Plan[o].out, Heartbeat(op[o].lastInputTs))
            /\ op' = [op EXCEPT ![o].lastOutputTs = op[o].lastInputTs]
       ELSE UNCHANGED <<flow, op>>

=============================================================================
