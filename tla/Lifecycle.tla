----------------------------- MODULE Lifecycle -----------------------------
(***************************************************************************)
(* The life of a server: a command connection (net_server command_conn.cc) *)
(* creates it, has it add its operators to the shared scheduler, starts a  *)
(* thread that executes it (server/server_impl.cc), and on RESET or        *)
(* TERMINATE stops it, joins the thread and deletes it.                    *)
(*                                                                         *)
(* A client sends one command after the other, and EXECUTE once to each    *)
(* server.  What comes before END APP (registering tables and queries) is  *)
(* left out, and so are monitors: a server starts out in S_APP_SPEC.       *)
(***************************************************************************)
EXTENDS Scheduler

CONSTANTS Conn,            \* command connections
          OpsPerServer     \* operators of a server's plan

ASSUME LifecycleAssumption == OpsPerServer \in Nat \ {0}

VARIABLES nextServerId,    \* the network manager's serverId
          CURRENTSERVERID,
          conn,            \* connection -> its thread
          server           \* server -> the ServerImpl and its thread

vars == <<schedVars, nextServerId, CURRENTSERVERID, conn, server>>

Ops(i) == {<<i, n>> : n \in 1 .. OpsPerServer}

NoConn   == [pc |-> "new", server |-> NoServer, started |-> FALSE, todo |-> 0,
             slot |-> 0, loaded |-> 0, ends |-> FALSE]
NotYet   == [state |-> "S_APP_SPEC", serverId |-> NoServer, thread |-> "none", alive |-> FALSE]

Init ==
    /\ SchedulerInit
    /\ nextServerId = 0
    /\ CURRENTSERVERID = NoServer
    /\ conn = [c \in Conn |-> NoConn]
    /\ server = [i \in Server |-> NotYet]

Its(c) == conn[c].server
ConnAt(c, pc)   == conn[c].pc = pc
ConnGoto(c, pc) == conn' = [conn EXCEPT ![c].pc = pc]

-----------------------------------------------------------------------------
(***************************************************************************)
(* initServer(): the number of the newest server of any connection is also *)
(* left in a global variable.                                              *)
(***************************************************************************)
initServer(c) ==
    /\ ConnAt(c, "new")
    /\ nextServerId \in Server
    /\ nextServerId' = nextServerId + 1
    /\ CURRENTSERVERID' = nextServerId
    /\ conn' = [conn EXCEPT ![c].pc = "ready", ![c].server = nextServerId]
    /\ server' = [server EXCEPT ![nextServerId].alive = TRUE]
    /\ UNCHANGED schedVars

(***************************************************************************)
(* END APP: from here on the server goes by the number found there.        *)
(***************************************************************************)
handle_end_app(c) ==
    /\ ConnAt(c, "ready")
    /\ server[Its(c)].state = "S_APP_SPEC"
    /\ server' = [server EXCEPT ![Its(c)].serverId = CURRENTSERVERID]
    /\ conn' = [conn EXCEPT ![c].pc = "find", ![c].todo = 1]
    /\ UNCHANGED <<schedVars, nextServerId, CURRENTSERVERID>>

FindSlot(c) ==
    LET id == server[Its(c)].serverId
    IN  /\ ConnAt(c, "find")
        /\ conn' = IF Owned(id) \cup Free = {}
                   THEN [conn EXCEPT ![c].pc = "ready"]
                   ELSE [conn EXCEPT ![c].slot = SlotFor(id),
                                     ![c].pc = IF Owned(id) # {} THEN "add" ELSE "addset"]
        /\ UNCHANGED <<schedVars, nextServerId, CURRENTSERVERID, server>>

WriteSlot(c) ==
    LET op == <<Its(c), conn[c].todo>>
        s  == conn[c].slot
    IN  /\ \/ /\ ConnAt(c, "add")
              /\ AddToSet(s, op)
              /\ ConnGoto(c, "resume")
           \/ /\ ConnAt(c, "addset")
              /\ AddSet(s, server[Its(c)].serverId, op)
              /\ conn' = [conn EXCEPT ![c].pc = "count", ![c].loaded = numOpSet]
        /\ UNCHANGED <<numOpSet, bStop, brun, serverIdForDelete, loop, lastRun>>
        /\ UNCHANGED <<nextServerId, CURRENTSERVERID, server>>

CountSet(c) ==
    /\ ConnAt(c, "count")
    /\ numOpSet' = Counted(conn[c].loaded)
    /\ ConnGoto(c, "resume")
    /\ UNCHANGED <<opset, bStop, brun, serverIdForDelete, loop, lastRun>>
    /\ UNCHANGED <<nextServerId, CURRENTSERVERID, server>>

Resume(c) ==
    LET last == conn[c].todo = OpsPerServer
    IN  /\ ConnAt(c, "resume")
        /\ resume
        /\ conn' = [conn EXCEPT ![c].pc = IF last THEN "ready" ELSE "find",
                                ![c].todo = @ + 1]
        /\ server' = IF last THEN [server EXCEPT ![Its(c)].state = "S_PLAN_GEN"] ELSE server
        /\ UNCHANGED <<opset, numOpSet, brun, serverIdForDelete, loop, lastRun>>
        /\ UNCHANGED <<nextServerId, CURRENTSERVERID>>

(***************************************************************************)
(* EXECUTE starts the server's thread.                                     *)
(***************************************************************************)
handle_execute(c) ==
    /\ ConnAt(c, "ready")
    /\ ~conn[c].started
    /\ server' = [server EXCEPT ![Its(c)].thread = "begin"]
    /\ conn' = [conn EXCEPT ![c].started = TRUE]
    /\ UNCHANGED <<schedVars, nextServerId, CURRENTSERVERID>>

(***************************************************************************)
(* RESET and TERMINATE (ends): stopExecution() and the join come only if   *)
(* there is a thread.                                                      *)
(***************************************************************************)
stopExecution(i) ==
    /\ IF server[i].state = "S_EXEC"
       THEN requestStop(server[i].serverId)
       ELSE UNCHANGED serverIdForDelete
    /\ server' = [server EXCEPT ![i].state = "S_END"]

handle_reset(c) ==
    /\ ConnAt(c, "ready")
    /\ \E ends \in BOOLEAN :
          conn' = [conn EXCEPT ![c].pc = IF conn[c].started THEN "join" ELSE "delete",
                               ![c].ends = ends]
    /\ IF conn[c].started
       THEN stopExecution(Its(c))
       ELSE UNCHANGED <<serverIdForDelete, server>>
    /\ UNCHANGED <<opset, numOpSet, bStop, brun, loop, lastRun>>
    /\ UNCHANGED <<nextServerId, CURRENTSERVERID>>

Join(c) ==
    /\ ConnAt(c, "join")
    /\ server[Its(c)].thread = "done"
    /\ conn' = [conn EXCEPT ![c].pc = "delete", ![c].started = FALSE]
    /\ UNCHANGED <<schedVars, nextServerId, CURRENTSERVERID, server>>

DeleteServer(c) ==
    /\ ConnAt(c, "delete")
    /\ server' = [server EXCEPT ![Its(c)].alive = FALSE]
    /\ ConnGoto(c, IF conn[c].ends THEN "ended" ELSE "new")
    /\ UNCHANGED <<schedVars, nextServerId, CURRENTSERVERID>>

Command(c) == handle_end_app(c) \/ handle_execute(c) \/ handle_reset(c)

Handle(c) ==
    \/ initServer(c) \/ FindSlot(c) \/ WriteSlot(c) \/ CountSet(c) \/ Resume(c)
    \/ Join(c) \/ DeleteServer(c)

-----------------------------------------------------------------------------
(***************************************************************************)
(* beginExecution(), in the server's thread.                               *)
(***************************************************************************)
ThreadAt(i, pc)   == server[i].thread = pc
ThreadGoto(i, pc) == server' = [server EXCEPT ![i].thread = pc]

Begin(i) ==
    /\ ThreadAt(i, "begin")
    /\ ThreadGoto(i, IF server[i].state = "S_PLAN_GEN" THEN "enter" ELSE "done")
    /\ UNCHANGED <<schedVars, nextServerId, CURRENTSERVERID, conn>>

Enter(i) ==
    /\ ThreadAt(i, "enter")
    /\ server' = [server EXCEPT
                    ![i].thread = "while",
                    ![i].state = IF @ = "S_PLAN_GEN" THEN "S_EXEC" ELSE @]
    /\ UNCHANGED <<schedVars, nextServerId, CURRENTSERVERID, conn>>

While(i) ==
    /\ ThreadAt(i, "while")
    /\ IF server[i].state = "S_EXEC"
       THEN requestRun(i) /\ ThreadGoto(i, "run")
       ELSE ThreadGoto(i, "done") /\ UNCHANGED schedVars
    /\ UNCHANGED <<nextServerId, CURRENTSERVERID, conn>>

(***************************************************************************)
(* requestRun() has no return statement: its result is any.                *)
(***************************************************************************)
Returned(i) ==
    /\ ThreadAt(i, "run")
    /\ At(i, "returned")
    /\ loop' = [loop EXCEPT ![i] = Outside]
    /\ ThreadGoto(i, "after") \/ ThreadGoto(i, "done")
    /\ UNCHANGED <<opset, numOpSet, bStop, brun, serverIdForDelete, lastRun>>
    /\ UNCHANGED <<nextServerId, CURRENTSERVERID, conn>>

After(i) ==
    /\ ThreadAt(i, "after")
    /\ server' = [server EXCEPT ![i].thread = "while",
                                ![i].state = IF @ = "S_EXEC" THEN "S_END" ELSE @]
    /\ UNCHANGED <<schedVars, nextServerId, CURRENTSERVERID, conn>>

Execute(i) ==
    \/ Begin(i) \/ Enter(i) \/ While(i) \/ Returned(i) \/ After(i)
    \/ InScheduler(i) /\ UNCHANGED <<nextServerId, CURRENTSERVERID, conn, server>>

Next ==
    \/ \E c \in Conn : Command(c) \/ Handle(c)
    \/ \E i \in Server : Execute(i)

Spec == Init /\ [][Next]_vars

(***************************************************************************)
(* Every thread goes on; the clients need not.                             *)
(***************************************************************************)
Fairness ==
    /\ \A c \in Conn : WF_vars(Handle(c))
    /\ \A i \in Server : WF_vars(Execute(i))

FairSpec == Spec /\ Fairness

-----------------------------------------------------------------------------
ServerState == {"S_APP_SPEC", "S_PLAN_GEN", "S_EXEC", "S_END"}

TypeOK ==
    /\ \A s \in Slot : /\ opset[s].serverID \in Server \cup {NoServer}
                       /\ opset[s].ops \in Seq(UNION {Ops(i) : i \in Server})
                       /\ Len(opset[s].ops) <= MAX_OPS
    /\ numOpSet \in 0 .. UIntRange - 1
    /\ bStop \in BOOLEAN /\ brun \in BOOLEAN
    /\ serverIdForDelete \in Server \cup {NoServer}
    /\ \A i \in Server : server[i].state \in ServerState
    /\ CURRENTSERVERID \in Server \cup {NoServer}

(***************************************************************************)
(* The count says how many slots are in use, whenever nobody is between    *)
(* the write to a slot and the write to the count.                         *)
(***************************************************************************)
Counting ==
    \/ \E c \in Conn : ConnAt(c, "count")
    \/ \E i \in Server : At(i, "forget") \/ At(i, "count")

SetsCounted == ~Counting => numOpSet = Cardinality(Slot \ Free)

(***************************************************************************)
(* A scheduler that was told to stop has no set left to serve, unless an   *)
(* addOperator() that will resume it is under way.                         *)
(***************************************************************************)
StoppedMeansEmpty ==
    bStop /\ (\A c \in Conn : ~ConnAt(c, "count") /\ ~ConnAt(c, "resume")) => Slot = Free

(***************************************************************************)
(* The operators of a set are taken away only from a server that was       *)
(* stopped.                                                                *)
(***************************************************************************)
DeletedOnRequest ==
    [][\A s \in Slot :
          opset[s].serverID # NoServer /\ opset'[s].serverID = NoServer =>
              \E i \in Server : /\ server[i].serverId = opset[s].serverID
                                /\ server[i].state = "S_END"]_vars

(***************************************************************************)
(* A server that is started runs, unless it is stopped.                    *)
(***************************************************************************)
Stopping(i) == \E c \in Conn : Its(c) = i /\ conn[c].pc \in {"join", "delete"}
Ran(i)      == lastRun \in Ops(i)

Started(i)  == ThreadAt(i, "begin") /\ server[i].state = "S_PLAN_GEN"

Executes == \A i \in Server : Started(i) ~> (Ran(i) \/ Stopping(i))

(***************************************************************************)
(* The first server of the process that is started runs, unless it is      *)
(* stopped, when no other left operators behind that come before its own.  *)
(***************************************************************************)
Scheduled == UNION {ToSet(opset[s].ops) : s \in Slot}

FirstExecutes ==
    \A i \in Server :
        Started(i) /\ ~brun /\ Scheduled \subseteq Ops(i) ~> (Ran(i) \/ Stopping(i))

(***************************************************************************)
(* RESET and TERMINATE of a server come to an end when no other server     *)
(* left a set behind, nor the hole that the deletion of one makes: what    *)
(* stops run() is that the last set is gone.                               *)
(***************************************************************************)
Resetting(c) == ConnAt(c, "join")

AloneInScheduler(i) ==
    \A s \in Slot \ Free : s = 1 /\ opset[s].serverID = server[i].serverId

ResetAloneCompletes ==
    \A c \in Conn : Resetting(c) /\ AloneInScheduler(Its(c)) ~> ~Resetting(c)

=============================================================================
