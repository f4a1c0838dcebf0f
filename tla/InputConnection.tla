--------------------------- MODULE InputConnection ---------------------------
(***************************************************************************)
(* A connection that feeds a table: net_server/src/in_conn.cc, and the end *)
(* of its thread in gen_conn.cc.  The connection's thread reads the lines  *)
(* of the client and fills a queue; the thread of the engine takes the     *)
(* tuples out with getNext().  The queue is the bounded FIFO that NetQueue *)
(* is shown to be.  The server is not a master that forwards its input.    *)
(***************************************************************************)
EXTENDS Integers, Sequences

CONSTANTS capacity,    \* objects the queue holds
          MaxLines     \* bound: lines the client sends after the schema

(* A malformed line is one longer than the buffer that readline() is to    *)
(* fill, or one that constructTuple() refuses.                             *)
Kind == {"tuple", "heartbeat", "empty", "malformed"}
Line == [n : 1 .. MaxLines, kind : Kind]

Schema    == [n |-> 0, kind |-> "schema"]
BadSchema == [n |-> 0, kind |-> "malformed"]
NoLine    == [n |-> 0, kind |-> "none"]
Failed    == [n |-> 0, kind |-> "failed"]

VARIABLES inSocket,     \* lines sent and not read
          sent,         \* history: the lines the client sent
          inClosed,     \* the client has closed its side
          inThread,     \* where the thread of the connection is
          lineBuffer,   \* the line read last, or Failed when read() failed
          bInit,
          bEndIn,       \* bEnd: end() was called
          queue,        \* tuples committed and not dequeued
          lastTuple     \* the tuple returned by the last getNext()

client == <<inSocket, sent, inClosed>>   \* the socket
inVars == <<client, inThread, lineBuffer, bInit, bEndIn, queue, lastTuple>>

(* inThread is where the thread is: "unconnected", "schema", "slot",       *)
(* "line", "commit", "closing", "waitEnd", or "gone" when it has left and  *)
(* destroyed the connection.                                               *)

(* What the client sends is there from the start: a line that comes late   *)
(* is one that is read late, and one that does not come at all is much     *)
(* like an empty one.  The client then closes its side or does not.        *)
InputInit ==
    /\ \E kinds \in [1 .. MaxLines -> Kind] : sent = [n \in 1 .. MaxLines |-> [n |-> n, kind |-> kinds[n]]]
    /\ \E schema \in {Schema, BadSchema} : inSocket = <<schema>> \o sent
    /\ inClosed \in BOOLEAN
    /\ inThread = "unconnected"
    /\ lineBuffer = NoLine
    /\ bInit = FALSE
    /\ bEndIn = FALSE
    /\ queue = <<>>
    /\ lastTuple = NoLine

-----------------------------------------------------------------------------
(* run() *)

ConnectInput ==
    /\ inThread = "unconnected"
    /\ inThread' = "schema"
    /\ UNCHANGED <<client, lineBuffer, bInit, bEndIn, queue, lastTuple>>

(* An error of any call made by run() ends it there, without the wait for  *)
(* end() that is the rest of it, and morphToInputConn() destroys the       *)
(* connection.                                                             *)

(* initialize(): the first line is the schema. *)
initialize ==
    /\ inThread = "schema"
    /\ inSocket' = Tail(inSocket)
    /\ bInit' = (Head(inSocket) = Schema)
    /\ inThread' = IF bInit' THEN "slot" ELSE "gone"
    /\ UNCHANGED <<sent, inClosed, lineBuffer, bEndIn, queue, lastTuple>>

(* The writer's side of the queue: the thread waits while it is full. *)
GetWriteSlot ==
    /\ inThread = "slot" /\ Len(queue) < capacity
    /\ inThread' = "line"
    /\ UNCHANGED <<client, lineBuffer, bInit, bEndIn, queue, lastTuple>>

(* An empty line that ends the loop, and one that is passed over. *)
AfterLine_EmptyEnds(kind) ==
    CASE kind = "empty"                  -> "closing"
      [] kind \in {"tuple", "heartbeat"} -> "commit"
      [] kind = "malformed"              -> "gone"

AfterLine(kind) ==
    CASE kind = "empty"                  -> "slot"
      [] kind \in {"tuple", "heartbeat"} -> "commit"
      [] kind = "malformed"              -> "gone"

readline ==
    /\ inThread = "line" /\ inSocket # <<>>
    /\ lineBuffer' = Head(inSocket)
    /\ inSocket' = Tail(inSocket)
    /\ inThread' = AfterLine(Head(inSocket).kind)
    /\ UNCHANGED <<sent, inClosed, bInit, bEndIn, queue, lastTuple>>

(* read() failed, which it may whenever the thread comes to it. *)
ReadFails ==
    /\ inThread \in {"schema", "line"}
    /\ lineBuffer' = Failed
    /\ inThread' = "gone"
    /\ UNCHANGED <<client, bInit, bEndIn, queue, lastTuple>>

(* read() returned 0: beof, the line is empty and the loop ends. *)
ReadEof ==
    /\ inThread = "line" /\ inSocket = <<>> /\ inClosed
    /\ inThread' = "closing"
    /\ UNCHANGED <<client, lineBuffer, bInit, bEndIn, queue, lastTuple>>

CommitTuple ==
    /\ inThread = "commit"
    /\ queue' = Append(queue, lineBuffer)
    /\ inThread' = "slot"
    /\ UNCHANGED <<client, lineBuffer, bInit, bEndIn, lastTuple>>

(* The end of run() that waits for nobody, and as it is. *)
MustWait_Never == FALSE

MustWait == ~bEndIn

WaitForEnd ==
    /\ inThread = "closing"
    /\ inThread' = IF MustWait THEN "waitEnd" ELSE "gone"
    /\ UNCHANGED <<client, lineBuffer, bInit, bEndIn, queue, lastTuple>>

InputThread ==
    \/ initialize \/ GetWriteSlot \/ readline \/ ReadFails \/ ReadEof
    \/ CommitTuple \/ WaitForEnd

-----------------------------------------------------------------------------
(* Called by other threads *)

(* getNext(), by the engine: the tuple of the last call is dequeued, and   *)
(* the next one is looked at.  Without the dequeuing, and with it.         *)
Remaining_Undropped == queue

Remaining == IF lastTuple = NoLine THEN queue ELSE Tail(queue)

getNext ==
    /\ IF bInit
       THEN /\ queue' = Remaining
            /\ lastTuple' = IF Remaining = <<>> THEN NoLine ELSE Head(Remaining)
       ELSE UNCHANGED <<queue, lastTuple>>
    /\ UNCHANGED <<client, inThread, lineBuffer, bInit, bEndIn>>

(* end(), by the thread of the commands: the signal reaches a thread that  *)
(* waits in run(), and no other.                                           *)
inputEnd ==
    /\ bEndIn' = TRUE
    /\ inThread' = IF inThread = "waitEnd" THEN "gone" ELSE inThread
    /\ UNCHANGED <<client, lineBuffer, bInit, queue, lastTuple>>

=============================================================================
