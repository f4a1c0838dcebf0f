-------------------------- MODULE OutputConnection --------------------------
(***************************************************************************)
(* A connection that takes the output of a query to a client:              *)
(* net_server/src/out_conn.cc, and the end of its thread in gen_conn.cc.   *)
(* The engine's thread writes characters into a ring, the connection's     *)
(* thread empties it every tenth of a second.  Both read the other's       *)
(* position without a lock, and INCR goes through a value behind the end   *)
(* of the ring, which the other thread may see.                            *)
(***************************************************************************)
EXTENDS Integers, Sequences

CONSTANTS BUF_SIZE,  \* characters of the ring
          Char,      \* the characters
          NoChar     \* what a cell never written holds

ASSUME BufSizeAssumption == BUF_SIZE \in Nat /\ BUF_SIZE > 1

VARIABLES shared_buf,
          read_ptr,
          write_ptr,
          b_prod_waiting,
          bEndOut,         \* bEnd
          prod,            \* where the producer is
          toWrite,         \* characters of its line it has yet to write
          cons,            \* where the connection's thread is
          nbytes,
          lastRound,       \* the thread has left its loop
          written,         \* history: characters put into the ring
          delivered,       \* characters the client got
          outBroken        \* the client has gone

ring    == <<shared_buf, read_ptr, write_ptr>>
outVars == <<ring, b_prod_waiting, bEndOut, prod, toWrite, cons, nbytes, lastRound,
             written, delivered, outBroken>>

(* prod is where the writer is: "idle", "test", "lock", "wait", "woken",   *)
(* "store", "advance", "wrap"; cons where the connection's thread is:      *)
(* "unconnected", "loop", "test", "measure", "send", "sendRest", "free",   *)
(* "signal", "gone".                                                       *)
Cell == 0 .. BUF_SIZE - 1

OutputInit ==
    /\ shared_buf = [c \in Cell |-> NoChar]
    /\ read_ptr = 0
    /\ write_ptr = 0
    /\ b_prod_waiting = FALSE
    /\ bEndOut = FALSE
    /\ prod = "idle"
    /\ toWrite = <<>>
    /\ cons = "unconnected"
    /\ nbytes = 0
    /\ lastRound = FALSE
    /\ written = <<>>
    /\ delivered = <<>>
    /\ outBroken = FALSE

-----------------------------------------------------------------------------
(* putNext() calls writeln(), which calls writechar() for each character.  *)

putNext(line) ==
    /\ prod = "idle"
    /\ toWrite' = line
    /\ prod' = "test"
    /\ UNCHANGED <<ring, b_prod_waiting, bEndOut, cons, nbytes, lastRound, written, delivered, outBroken>>

(* One cell of the ring stays free. *)
buf_full ==
    \/ write_ptr = BUF_SIZE - 1 /\ read_ptr = 0
    \/ write_ptr + 1 = read_ptr

buf_empty == read_ptr = write_ptr

TestFull ==
    /\ prod = "test"
    /\ prod' = IF buf_full THEN "lock" ELSE "store"
    /\ UNCHANGED <<ring, b_prod_waiting, bEndOut, toWrite, cons, nbytes, lastRound, written, delivered, outBroken>>

(* The lock, the flag and the wait, which gives up the lock; there is no   *)
(* second test.                                                            *)
WaitForSpace ==
    /\ prod = "lock"
    /\ b_prod_waiting' = TRUE
    /\ prod' = "wait"
    /\ UNCHANGED <<ring, bEndOut, toWrite, cons, nbytes, lastRound, written, delivered, outBroken>>

WakeUp ==
    /\ prod = "woken"
    /\ b_prod_waiting' = FALSE
    /\ prod' = "store"
    /\ UNCHANGED <<ring, bEndOut, toWrite, cons, nbytes, lastRound, written, delivered, outBroken>>

StoreChar ==
    /\ prod = "store"
    /\ shared_buf' = [shared_buf EXCEPT ![write_ptr] = Head(toWrite)]
    /\ written' = Append(written, Head(toWrite))
    /\ prod' = "advance"
    /\ UNCHANGED <<read_ptr, write_ptr, b_prod_waiting, bEndOut, toWrite, cons, nbytes, lastRound, delivered, outBroken>>

(* INCR: the increment, then the reset at the end of the ring. *)
NextChar ==
    /\ toWrite' = Tail(toWrite)
    /\ prod' = IF Len(toWrite) > 1 THEN "test" ELSE "idle"

AtEnd == write_ptr + 1 = BUF_SIZE

AdvanceWrite ==
    /\ prod = "advance"
    /\ write_ptr' = write_ptr + 1
    /\ IF AtEnd THEN prod' = "wrap" /\ UNCHANGED toWrite ELSE NextChar
    /\ UNCHANGED <<shared_buf, read_ptr, b_prod_waiting, bEndOut, cons, nbytes, lastRound, written, delivered, outBroken>>

WrapWrite ==
    /\ prod = "wrap"
    /\ write_ptr' = 0
    /\ NextChar
    /\ UNCHANGED <<shared_buf, read_ptr, b_prod_waiting, bEndOut, cons, nbytes, lastRound, written, delivered, outBroken>>

Producer ==
    \/ TestFull \/ WaitForSpace \/ WakeUp \/ StoreChar \/ AdvanceWrite \/ WrapWrite

-----------------------------------------------------------------------------
(* run() and consumeBuf() *)

ConnectOutput ==
    /\ cons = "unconnected"
    /\ cons' = "loop"
    /\ UNCHANGED <<ring, b_prod_waiting, bEndOut, prod, toWrite, nbytes, lastRound, written, delivered, outBroken>>

(* The test of bEnd; the nap follows, or the last round. *)
Loop ==
    /\ cons = "loop"
    /\ lastRound' = bEndOut
    /\ cons' = "test"
    /\ UNCHANGED <<ring, b_prod_waiting, bEndOut, prod, toWrite, nbytes, written, delivered, outBroken>>

(* A signal only after a round that has sent something, and after each. *)
AfterRound_IfSent == IF lastRound THEN "gone" ELSE IF buf_empty THEN "loop" ELSE "signal"

AfterRound == IF lastRound THEN "gone" ELSE "signal"

TestEmpty ==
    /\ cons = "test"
    /\ cons' = IF buf_empty THEN AfterRound ELSE "measure"
    /\ UNCHANGED <<ring, b_prod_waiting, bEndOut, prod, toWrite, nbytes, lastRound, written, delivered, outBroken>>

Measure ==
    /\ cons = "measure"
    /\ nbytes' = write_ptr - read_ptr
    /\ cons' = "send"
    /\ UNCHANGED <<ring, b_prod_waiting, bEndOut, prod, toWrite, lastRound, written, delivered, outBroken>>

Cells(from, size) == [i \in 1 .. size |-> shared_buf[from + i - 1]]

(* write() fails once the client has gone: the thread leaves and destroys  *)
(* the connection.                                                         *)
Send(from, size, next) ==
    /\ IF outBroken /\ size > 0
       THEN cons' = "gone" /\ UNCHANGED delivered
       ELSE cons' = next /\ delivered' = delivered \o Cells(from, size)
    /\ UNCHANGED <<ring, b_prod_waiting, bEndOut, prod, toWrite, nbytes, lastRound, written, outBroken>>

SendFirst ==
    /\ cons = "send"
    /\ IF nbytes > 0 THEN Send(read_ptr, nbytes, "free")
                     ELSE Send(read_ptr, BUF_SIZE - read_ptr, "sendRest")

SendRest ==
    /\ cons = "sendRest"
    /\ Send(0, nbytes + read_ptr, "free")

(* Freeing up to where the producer is by now, and what was sent. *)
Freed_All == write_ptr

Freed == read_ptr + nbytes

FreeCells ==
    /\ cons = "free"
    /\ read_ptr' = Freed
    /\ cons' = AfterRound
    /\ UNCHANGED <<shared_buf, write_ptr, b_prod_waiting, bEndOut, prod, toWrite, nbytes, lastRound, written, delivered, outBroken>>

SignalProducer ==
    /\ cons = "signal"
    /\ prod' = IF b_prod_waiting /\ ~buf_full /\ prod = "wait" THEN "woken" ELSE prod
    /\ cons' = "loop"
    /\ UNCHANGED <<ring, b_prod_waiting, bEndOut, toWrite, nbytes, lastRound, written, delivered, outBroken>>

Consumer ==
    \/ Loop \/ TestEmpty \/ Measure \/ SendFirst \/ SendRest
    \/ FreeCells \/ SignalProducer

-----------------------------------------------------------------------------

(* end(), by the thread of the commands. *)
outputEnd ==
    /\ bEndOut' = TRUE
    /\ UNCHANGED <<ring, b_prod_waiting, prod, toWrite, cons, nbytes, lastRound, written, delivered, outBroken>>

(* The client closes its socket. *)
BreakOutput ==
    /\ ~outBroken
    /\ outBroken' = TRUE
    /\ UNCHANGED <<ring, b_prod_waiting, bEndOut, prod, toWrite, cons, nbytes, lastRound, written, delivered>>

=============================================================================
