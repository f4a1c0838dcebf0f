------------------------------- MODULE Output -------------------------------
(***************************************************************************)
(* The end of a query: execution/operators/output.cc gives each data       *)
(* element to the connection behind QueryOutput::putNext(); an error there *)
(* (when Plan[o].disconnects) ends the scheduler's run.  sent is what the  *)
(* connection was given.                                                   *)
(***************************************************************************)
EXTENDS Dataflow

OutputInit == [sent |-> <<>>]

OutputBegin(o) == Begin(o) /\ UNCHANGED <<flow, op>>

OutputStuck(o) == isEmpty(flow, Plan[o].in)

OutputIterate(o) ==
    LET e == peek(flow, Plan[o].in)
        f == dequeue(flow, Plan[o].in)
    IN  /\ MayIterate(o)
        /\ ~OutputStuck(o)
        /\ flow' = IF IsData(e) THEN decrRef(f, e.tuple) ELSE f
        /\ \/ /\ IsData(e) => op' = [op EXCEPT ![o].sent = Append(@, e)]
              /\ ~IsData(e) => UNCHANGED op
              /\ Loop
           \/ /\ IsData(e) /\ Plan[o].disconnects
              /\ UNCHANGED op
              /\ ReturnError

OutputEnd(o) ==
    /\ MayEnd(o, OutputStuck(o))
    /\ Return
    /\ UNCHANGED <<flow, op>>

-----------------------------------------------------------------------------
(***************************************************************************)
(* The end of what nobody listens to: execution/operators/sink.cc.         *)
(***************************************************************************)
SinkInit == [read |-> 0]

SinkBegin(o) == Begin(o) /\ UNCHANGED <<flow, op>>

SinkIterate(o) ==
    LET e == peek(flow, Plan[o].in)
        f == dequeue(flow, Plan[o].in)
    IN  /\ MayIterate(o)
        /\ ~isEmpty(flow, Plan[o].in)
        /\ flow' = IF IsData(e) THEN decrRef(f, e.tuple) ELSE f
        /\ UNCHANGED op
        /\ Loop

SinkEnd(o) ==
    /\ MayEnd(o, isEmpty(flow, Plan[o].in))
    /\ Return
    /\ UNCHANGED <<flow, op>>

=============================================================================
