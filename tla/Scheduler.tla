----------------------------- MODULE Scheduler -----------------------------
(***************************************************************************)
(* The round robin scheduler that all servers of the network manager       *)
(* share: execution/scheduler/round_robin.cc.  It keeps a set of operators *)
(* for each server and one thread, the first that asked, goes round them.  *)
(*                                                                         *)
(* Nothing here is locked: connections add and delete while a thread is    *)
(* in run().  The steps are as small as it takes for a read and the write  *)
(* that depends on it to be apart, so that the search for a slot, the      *)
(* count of the sets (numOpSet++ on one side, numOpSet-- on the other) and *)
(* the test of brun can go wrong here the way they can in the program.     *)
(*                                                                         *)
(* opset[s] is a slot, its operators a sequence: the array is scanned up   *)
(* to its first null, and the memory it is in is zero when the scheduler   *)
(* is made.  numOps, which nothing depends on below the limit of all slots *)
(* together, is left out.                                                  *)
(***************************************************************************)
EXTENDS Integers, Sequences, FiniteSets, FiniteSetsExt, SequencesExt

CONSTANTS Server,       \* the servers' numbers, which name their threads too
          MAXOPSET,     \* slots
          MAX_OPS,      \* operators of a slot
          RunTimes,     \* what RUN_TIME may be: rounds of a run(), 0 for no limit
          MayFail,      \* whether an operator may return an error
          UIntRange,    \* values of numOpSet: 2^32 in the program
          NoOp          \* no operator has run yet

NoServer == -1

ASSUME SchedulerAssumption ==
    /\ Server \subseteq Nat
    /\ MAXOPSET \in Nat \ {0}
    /\ MAX_OPS \in Nat \ {0}
    /\ UIntRange \in Nat /\ UIntRange > 2 * MAXOPSET
    /\ RunTimes \subseteq Nat /\ RunTimes # {}
    /\ MayFail \in BOOLEAN

VARIABLES opset, numOpSet, bStop,
          brun,                \* whether run() was ever entered
          serverIdForDelete,   \* whose operators are to be deleted
          loop,                \* thread -> where it is in requestRun()
          lastRun              \* the operator that ran last

schedVars == <<opset, numOpSet, bStop, brun, serverIdForDelete, loop, lastRun>>

Slot    == 1 .. MAXOPSET
Empty   == [serverID |-> NoServer, ops |-> <<>>]
Outside == [pc |-> "out", o |-> 0, k |-> 0, t |-> 0, limit |-> 0, loaded |-> 0]

SchedulerInit ==
    /\ opset = [s \in Slot |-> Empty]
    /\ numOpSet = 0
    /\ bStop = FALSE
    /\ brun = FALSE
    /\ serverIdForDelete = NoServer
    /\ loop = [i \in Server |-> Outside]
    /\ lastRun = NoOp

-----------------------------------------------------------------------------
(***************************************************************************)
(* addOperator(), in the steps of the thread that calls it: it looks for a *)
(* slot, writes to it, counts a new set, and calls resume().  A set that   *)
(* is full takes the operator without complaint: the test that would       *)
(* refuse it is inside a loop that ends before the test can succeed.       *)
(***************************************************************************)
Owned(id) == {s \in Slot : opset[s].serverID = id}
Free      == Owned(NoServer)

SlotFor(id) == IF Owned(id) # {} THEN Min(Owned(id)) ELSE Min(Free)

Appended_OneMore(ops, op) ==            \* deviation: the limit is off by one
    IF Len(ops) <= MAX_OPS THEN Append(ops, op) ELSE ops
Appended(ops, op) == IF Len(ops) < MAX_OPS THEN Append(ops, op) ELSE ops

AddToSet(s, op) ==
    opset' = [opset EXCEPT ![s].ops = Appended(@, op)]

AddSet(s, id, op) ==
    opset' = [opset EXCEPT ![s].serverID = id,
                           ![s].ops = <<op>> \o SubSeq(@, 2, Len(@))]

Counted_Never(n) == n                   \* deviation: the set is not counted
Counted(n) == ((n + 1) % UIntRange)
resume == bStop' = FALSE

requestStop(id) == serverIdForDelete' = id

-----------------------------------------------------------------------------
(***************************************************************************)
(* requestRun(): only who finds that nobody ever ran enters run().         *)
(***************************************************************************)
At(i, pc)   == loop[i].pc = pc
Goto(i, pc) == loop' = [loop EXCEPT ![i].pc = pc]

NeverRan_Negated == brun                \* deviation: the test is the wrong way round
NeverRan == ~brun

requestRun(i) ==
    /\ At(i, "out")
    /\ IF NeverRan
       THEN \E r \in RunTimes : loop' = [loop EXCEPT ![i].pc = "called", ![i].limit = r]
       ELSE Goto(i, "returned")
    /\ UNCHANGED <<opset, numOpSet, bStop, brun, serverIdForDelete, lastRun>>

EnterRun(i) ==
    /\ At(i, "called")
    /\ brun' = TRUE
    /\ Goto(i, "round")
    /\ UNCHANGED <<opset, numOpSet, bStop, serverIdForDelete, lastRun>>

(***************************************************************************)
(* A round visits the slots from the first on, up to the first empty one.  *)
(***************************************************************************)
TimeIsUp(i) == loop[i].limit > 0 /\ loop[i].t = loop[i].limit

Round(i) ==
    /\ At(i, "round")
    /\ IF bStop \/ TimeIsUp(i)
       THEN Goto(i, "returned")
       ELSE loop' = [loop EXCEPT ![i].pc = "set", ![i].o = 1,
                                 ![i].t = IF loop[i].limit > 0 THEN @ + 1 ELSE @]
    /\ UNCHANGED <<opset, numOpSet, bStop, brun, serverIdForDelete, lastRun>>

InRound(o) == o <= MAXOPSET /\ o <= numOpSet /\ opset[o].serverID # NoServer

ToDelete_First(o) == serverIdForDelete # NoServer   \* deviation: whichever comes first
ToDelete(o) == opset[o].serverID = serverIdForDelete

Visit(i) ==
    LET o == loop[i].o
    IN  /\ At(i, "set")
        /\ (InRound(o) /\ loop[i].limit = 0) => ~ToDelete(o)
        /\ IF InRound(o)
           THEN loop' = [loop EXCEPT ![i].pc = "op", ![i].k = 1]
           ELSE Goto(i, "round")
        /\ UNCHANGED <<opset, numOpSet, bStop, brun, serverIdForDelete, lastRun>>

(***************************************************************************)
(* A run() without limit empties the set whose server asked for it; it     *)
(* stops when it was the last one.                                         *)
(***************************************************************************)
DeleteSet(i) ==
    LET o == loop[i].o
    IN  /\ At(i, "set")
        /\ loop[i].limit = 0
        /\ InRound(o)
        /\ ToDelete(o)
        /\ opset' = [opset EXCEPT ![o] = Empty]
        /\ Goto(i, "forget")
        /\ UNCHANGED <<numOpSet, bStop, brun, serverIdForDelete, lastRun>>

ForgetRequest(i) ==
    /\ At(i, "forget")
    /\ serverIdForDelete' = NoServer
    /\ loop' = [loop EXCEPT ![i].pc = "count", ![i].loaded = numOpSet]
    /\ UNCHANGED <<opset, numOpSet, bStop, brun, lastRun>>

StopsAt_Always(n) == TRUE               \* deviation: any deletion stops the scheduler
StopsAt_Never(n) == FALSE               \* deviation: the last one does not either
StopsAt(n) == n = 0

CountDeletion(i) ==
    LET n == ((loop[i].loaded - 1) % UIntRange)
    IN  /\ At(i, "count")
        /\ numOpSet' = n
        /\ bStop' = (bStop \/ StopsAt(n))
        /\ loop' = [loop EXCEPT ![i].pc = "op", ![i].k = 1]
        /\ UNCHANGED <<opset, brun, serverIdForDelete, lastRun>>

(***************************************************************************)
(* The operators of a slot run one after the other; an error ends run().   *)
(***************************************************************************)
RunOp(i) ==
    LET o == loop[i].o
        k == loop[i].k
    IN  /\ At(i, "op")
        /\ k <= Len(opset[o].ops)
        /\ lastRun' = opset[o].ops[k]
        /\ \/ loop' = [loop EXCEPT ![i].k = k + 1]
           \/ MayFail /\ Goto(i, "returned")
        /\ UNCHANGED <<opset, numOpSet, bStop, brun, serverIdForDelete>>

NextSlot(i) ==
    /\ At(i, "op")
    /\ loop[i].k > Len(opset[loop[i].o].ops)
    /\ loop' = [loop EXCEPT ![i].pc = "set", ![i].o = @ + 1]
    /\ UNCHANGED <<opset, numOpSet, bStop, brun, serverIdForDelete, lastRun>>

InScheduler(i) ==
    \/ EnterRun(i) \/ Round(i) \/ Visit(i) \/ DeleteSet(i) \/ ForgetRequest(i)
    \/ CountDeletion(i) \/ RunOp(i) \/ NextSlot(i)

=============================================================================
