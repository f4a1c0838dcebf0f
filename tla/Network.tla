------------------------------ MODULE Network ------------------------------
(***************************************************************************)
(* The way of the data through the network server: one client sends the    *)
(* lines of a stream to an input connection, the engine's thread takes     *)
(* them with getNext() and hands each tuple to putNext() (the query is the *)
(* identity, heartbeats end in the engine), and another client gets the    *)
(* output.  Five threads: the two clients, the two connections' and the    *)
(* engine's; a sixth, that of the command connection, ends it all with     *)
(* RESET or TERMINATE.  The server executes from the start.                *)
(*                                                                         *)
(* A connection whose thread left on an error is destroyed although the    *)
(* engine goes on with it.  What it then finds is undefined: either the    *)
(* memory as it was, or the process crashes.                               *)
(***************************************************************************)
EXTENDS InputConnection, OutputConnection, FiniteSets

CONSTANT NL    \* the character that ends a line

ASSUME LinesAssumption == MaxLines \in Nat
ASSUME CharAssumption  == (1 .. MaxLines) \cup {NL} \subseteq Char

VARIABLES engine,    \* the server's thread
          cmd,       \* the command connection's thread
          command,   \* the command it handles
          crashed

ctlVars == <<engine, cmd, command, crashed>>
vars    == <<inVars, outVars, ctlVars>>

Init ==
    /\ InputInit
    /\ OutputInit
    /\ engine = "running"
    /\ cmd = "serving"
    /\ command = "none"
    /\ crashed = FALSE

(* putNext() prints a tuple as a line. *)
Printed(line) == <<line.n, NL>>

(* One round of the engine, when no putNext() is under way. *)
InRound == engine = "running" /\ cmd # "stopping" /\ prod = "idle"

EngineRound ==
    /\ InRound
    /\ getNext
    /\ IF lastTuple'.kind = "tuple"
       THEN putNext(Printed(lastTuple'))
       ELSE UNCHANGED outVars
    /\ UNCHANGED ctlVars

(* The set of operators of a stopped server goes at the next round. *)
EngineStops ==
    /\ engine = "running" /\ cmd = "stopping" /\ prod = "idle"
    /\ engine' = "stopped"
    /\ UNCHANGED <<inVars, outVars, cmd, command, crashed>>

(* handle_reset() and handle_terminate(): stop and join; end the output    *)
(* connections; RESET only, end the input connections.                     *)
stopExecution ==
    /\ cmd = "serving"
    /\ cmd' = "stopping"
    /\ command' \in {"RESET", "TERMINATE"}
    /\ UNCHANGED <<inVars, outVars, engine, crashed>>

JoinEngine ==
    /\ cmd = "stopping" /\ engine = "stopped"
    /\ cmd' = "endOutputs"
    /\ UNCHANGED <<inVars, outVars, engine, command, crashed>>

EndOutputs ==
    /\ cmd = "endOutputs"
    /\ outputEnd
    /\ cmd' = IF command = "RESET" THEN "endInputs" ELSE "done"
    /\ UNCHANGED <<inVars, engine, command, crashed>>

EndInputs ==
    /\ cmd = "endInputs"
    /\ inputEnd
    /\ cmd' = "done"
    /\ UNCHANGED <<outVars, engine, command, crashed>>

(* A step of a thread on a connection that was destroyed. *)
TouchesDestroyed ==
    \/ inThread = "gone" /\ (cmd = "endInputs" \/ InRound)
    \/ cons = "gone" /\ (cmd = "endOutputs" \/ prod \notin {"idle", "wait"})

Crash ==
    /\ TouchesDestroyed
    /\ crashed' = TRUE
    /\ UNCHANGED <<inVars, outVars, engine, cmd, command>>

InputSide  == InputThread /\ UNCHANGED <<outVars, ctlVars>>
OutputSide == Consumer /\ UNCHANGED <<inVars, ctlVars>>
Writing    == Producer /\ UNCHANGED <<inVars, ctlVars>>
Engine     == EngineRound \/ EngineStops \/ Writing
Commands   == JoinEngine \/ EndOutputs \/ EndInputs
Clients    == \/ ConnectInput /\ UNCHANGED <<outVars, ctlVars>>
              \/ (ConnectOutput \/ BreakOutput) /\ UNCHANGED <<inVars, ctlVars>>

Next ==
    /\ ~crashed
    /\ InputSide \/ OutputSide \/ Engine \/ Commands \/ stopExecution \/ Clients \/ Crash

(* Threads are scheduled.  Clients do as they like. *)
Fairness ==
    /\ WF_vars(~crashed /\ InputSide)
    /\ WF_vars(~crashed /\ OutputSide)
    /\ WF_vars(~crashed /\ Engine)
    /\ WF_vars(~crashed /\ Commands)

Spec     == Init /\ [][Next]_vars
FairSpec == Spec /\ Fairness

-----------------------------------------------------------------------------
(***************************************************************************)
(* Properties                                                              *)
(***************************************************************************)

(* The lines that are answered, the tuples before a malformed line, which  *)
(* ends the connection; and what they are printed as, in their order.      *)
GoodUpTo(n) == \A i \in 1 .. n : sent[i].kind # "malformed"
Answered == {n \in 1 .. MaxLines : sent[n].kind = "tuple" /\ GoodUpTo(n)}
Rank(n)  == Cardinality({m \in Answered : m <= n})
Expected ==
    [i \in 1 .. 2 * Cardinality(Answered) |->
        LET n == CHOOSE n \in Answered : Rank(n) = (i + 1) \div 2
        IN  Printed(sent[n])[2 - (i % 2)]]

StartOf(s, t) == s = SubSeq(t, 1, Len(s))

(* Through both buffers, with the pointers read while the other thread     *)
(* moves them and whatever ends when, the output client gets the tuples    *)
(* that the input client sent, whole, once each, and in their order.       *)
DeliveredInOrder ==
    /\ StartOf(delivered, written)
    /\ StartOf(written, Expected)

(* An input connection goes before the engine has ended it only after an   *)
(* error, a line of the client that cannot be taken or a read that failed: *)
(* at the end of the input its thread waits for end(), for the engine      *)
(* still takes tuples out of its queue.                                    *)
InputOutlivesEngine ==
    inThread = "gone" /\ ~bEndIn => ~bInit \/ lineBuffer.kind \in {"malformed", "failed"}

(* What goes into the ring reaches a client that stays, also when RESET or *)
(* TERMINATE comes in between: the last round of the thread empties it.    *)
WrittenIsDelivered ==
    delivered # written ~> delivered = written \/ crashed \/ outBroken \/ cons = "unconnected"

(* Every tuple sent is answered, whatever empty lines and heartbeats are   *)
(* around it and although both buffers fill up: unless a client is not     *)
(* there, breaks the protocol or cannot be read from, or the server is     *)
(* stopped.                                                                *)
Excused ==
    \/ crashed \/ outBroken \/ cons = "unconnected"
    \/ inThread = "unconnected" \/ ~GoodUpTo(MaxLines) \/ (inThread = "gone" /\ ~bInit)
    \/ lineBuffer = Failed
    \/ cmd # "serving"

TuplesAnswered == []<>(delivered = Expected \/ Excused)

(* RESET and TERMINATE come to an end: the engine's thread may be waiting  *)
(* for space in the ring when it is to be joined, and the connection's     *)
(* thread, not ended yet, makes some.                                      *)
CommandEnds ==
    cmd = "stopping" ~> cmd = "done" \/ crashed \/ outBroken \/ cons = "unconnected"

=============================================================================
