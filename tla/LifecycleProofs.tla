-------------------------- MODULE LifecycleProofs --------------------------
(***************************************************************************)
(* Theorems about Lifecycle, for any number of connections, servers, slots *)
(* and operators: its types, and that the operators of a server are taken  *)
(* from the scheduler only after that server was stopped; and for one      *)
(* connection at a time, that the number of sets is right and that the     *)
(* scheduler stops only when none is left.                                 *)
(***************************************************************************)
EXTENDS Lifecycle, WellFoundedInduction, FiniteSetTheorems, TLAPS

AllOps == UNION {Ops(i) : i \in Server}

Maybe == Server \cup {NoServer}

ConnPc == {"new", "ready", "find", "add", "addset", "count", "resume", "join", "delete", "ended"}

ThreadPc == {"none", "begin", "enter", "while", "run", "after", "done"}

LoopPc == {"out", "called", "round", "set", "op", "forget", "count", "returned"}

Connections == [pc : ConnPc, server : Maybe, started : BOOLEAN, todo : Nat,
                slot : Nat, loaded : Nat, ends : BOOLEAN]

Loops == [pc : LoopPc, o : Nat, k : Nat, t : Nat, limit : Nat, loaded : Nat]

Servers == [state : ServerState, serverId : Maybe, thread : ThreadPc, alive : BOOLEAN]

Types ==
    /\ opset \in [Slot -> [serverID : Maybe, ops : Seq(AllOps)]]
    /\ \A s \in Slot : Len(opset[s].ops) <= MAX_OPS
    /\ numOpSet \in 0 .. UIntRange - 1
    /\ bStop \in BOOLEAN /\ brun \in BOOLEAN
    /\ serverIdForDelete \in Maybe
    /\ loop \in [Server -> Loops]
    /\ nextServerId \in Nat
    /\ CURRENTSERVERID \in Maybe
    /\ conn \in [Conn -> Connections]
    /\ server \in [Server -> Servers]

(***************************************************************************)
(* A server belongs to the connection that made it.                        *)
(***************************************************************************)
OwnServers ==
    /\ \A c \in Conn :
          /\ conn[c].server < nextServerId
          /\ conn[c].pc # "new" => conn[c].server \in Server /\ CURRENTSERVERID \in Server
    /\ \A c, d \in Conn :
          conn[c].server = conn[d].server /\ conn[c].server # NoServer => c = d

(***************************************************************************)
(* While a connection adds its operators, nobody else touches its server's *)
(* state, and the server has a number.                                     *)
(***************************************************************************)
Adding(c) == conn[c].pc \in {"find", "add", "addset", "count", "resume"}

AddingIsSpec ==
    \A c \in Conn :
        Adding(c) => /\ server[conn[c].server].state = "S_APP_SPEC"
                     /\ server[conn[c].server].serverId \in Server
                     /\ conn[c].todo \in 1 .. OpsPerServer

(***************************************************************************)
(* A deletion is asked for by a server that was stopped.                   *)
(***************************************************************************)
StoppedOne(id) == \E i \in Server : server[i].serverId = id /\ server[i].state = "S_END"

RequestedIsStopped == serverIdForDelete # NoServer => StoppedOne(serverIdForDelete)

LInv == Types /\ OwnServers /\ AddingIsSpec /\ RequestedIsStopped

-----------------------------------------------------------------------------
LEMMA NoServerIsNone == NoServer \notin Server
  BY SchedulerAssumption DEF NoServer

LEMMA MaybeIsInt == Maybe \subseteq Int
<1>1. NoServer \in Int
  BY DEF NoServer
<1> QED  BY <1>1, SchedulerAssumption DEF Maybe

LEMMA MinIsIn == ASSUME NEW S, S \subseteq Nat, S # {} PROVE Min(S) \in S
<1> DEFINE Less == {ss \in Nat \X Nat : ss[1] < ss[2]}
<1>1. Less = OpToRel(<, Nat)
  BY Zenon DEF OpToRel
<1>2. IsWellFoundedOn(Less, Nat)
  BY <1>1, NatLessThanWellFounded, Zenon
<1> HIDE DEF Less
<1>3. PICK x \in S : \A y \in S : ~ (<<y, x>> \in Less)
  BY <1>2, WFMin, Zenon
<1>4. ASSUME NEW y \in S PROVE x =< y
  <2>1. <<y, x>>[1] = y /\ <<y, x>>[2] = x /\ <<y, x>> \in Nat \X Nat
    OBVIOUS
  <2>2. ~ (<<y, x>>[1] < <<y, x>>[2])
    BY <1>3, <2>1, Zenon DEF Less
  <2> QED  BY <2>1, <2>2
<1> QED  BY <1>4 DEF Min

LEMMA SlotForIsSlot ==
    ASSUME NEW id, Owned(id) \cup Free # {}
    PROVE  SlotFor(id) \in Slot
<1>1. Owned(id) \subseteq Slot /\ Free \subseteq Slot /\ Slot \subseteq Nat
  BY SchedulerAssumption DEF Owned, Free, Slot
<1> QED  BY <1>1, MinIsIn DEF SlotFor

LEMMA InitInv == Init => LInv
<1> SUFFICES ASSUME Init PROVE LInv
  OBVIOUS
<1> USE SchedulerAssumption, LifecycleAssumption DEF Init, SchedulerInit
<1>1. Types
  <2>1. opset \in [Slot -> [serverID : Maybe, ops : Seq(AllOps)]]
    BY DEF Empty, Maybe
  <2>2. \A s \in Slot : Len(opset[s].ops) <= MAX_OPS
    BY DEF Empty
  <2>3. loop \in [Server -> Loops]
    BY DEF Outside, Loops, LoopPc
  <2>4. conn \in [Conn -> Connections]
    BY DEF NoConn, Connections, ConnPc, Maybe
  <2>5. server \in [Server -> Servers]
    BY DEF NotYet, Servers, ServerState, ThreadPc, Maybe
  <2>6. 0 \in 0 .. UIntRange - 1
    OBVIOUS
  <2> QED  BY <2>1, <2>2, <2>3, <2>4, <2>5, <2>6 DEF Types, Maybe
<1>2. OwnServers
  BY DEF OwnServers, NoConn, NoServer
<1>3. AddingIsSpec /\ RequestedIsStopped
  BY DEF AddingIsSpec, Adding, NoConn, RequestedIsStopped
<1> QED  BY <1>1, <1>2, <1>3 DEF LInv

-----------------------------------------------------------------------------
(***************************************************************************)
(* The scheduler's own steps write to opset, the counts and the thread's   *)
(* place; the request they may only take back.                             *)
(***************************************************************************)
LEMMA SchedulerStep ==
    ASSUME LInv, NEW i \in Server, InScheduler(i),
           UNCHANGED <<nextServerId, CURRENTSERVERID, conn, server>>
    PROVE  LInv'
<1> USE DEF At, Goto
<1>0. Types /\ OwnServers /\ AddingIsSpec /\ RequestedIsStopped
  BY DEF LInv
<1>1. loop \in [Server -> Loops] /\ numOpSet \in Nat
  BY <1>0, SchedulerAssumption DEF Types
<1>2. loop' \in [Server -> Loops]
  <2>1. CASE EnterRun(i)
    BY <1>1, <2>1 DEF EnterRun, Loops, LoopPc
  <2>2. CASE Round(i)
    BY <1>1, <2>2 DEF Round, Loops, LoopPc
  <2>3. CASE Visit(i)
    BY <1>1, <2>3 DEF Visit, Loops, LoopPc
  <2>4. CASE DeleteSet(i)
    BY <1>1, <2>4 DEF DeleteSet, Loops, LoopPc
  <2>5. CASE ForgetRequest(i)
    BY ZenonT(30), <1>1, <2>5 DEF ForgetRequest, Loops, LoopPc
  <2>6. CASE CountDeletion(i)
    BY ZenonT(30), <1>1, <2>6 DEF CountDeletion, Loops, LoopPc
  <2>7. CASE RunOp(i)
    <3>1. \/ loop' = [loop EXCEPT ![i].k = loop[i].k + 1]
          \/ loop' = [loop EXCEPT ![i].pc = "returned"]
      BY <2>7 DEF RunOp
    <3>2. loop[i].k + 1 \in Nat
      BY <1>1 DEF Loops
    <3> QED  BY <1>1, <3>1, <3>2 DEF Loops, LoopPc
  <2>8. CASE NextSlot(i)
    <3>1. loop' = [loop EXCEPT ![i].pc = "set", ![i].o = loop[i].o + 1]
      BY <2>8 DEF NextSlot
    <3>2. loop[i].o + 1 \in Nat
      BY <1>1 DEF Loops
    <3> QED  BY <1>1, <3>1, <3>2 DEF Loops, LoopPc
  <2> QED
    BY <2>1, <2>2, <2>3, <2>4, <2>5, <2>6, <2>7, <2>8 DEF InScheduler
<1>a. /\ opset' \in [Slot -> [serverID : Maybe, ops : Seq(AllOps)]]
      /\ \A s \in Slot : Len(opset'[s].ops) <= MAX_OPS
  <2>1. CASE DeleteSet(i)
    <3>1. Empty \in [serverID : Maybe, ops : Seq(AllOps)] /\ Len(Empty.ops) <= MAX_OPS
      BY SchedulerAssumption DEF Empty, Maybe
    <3> QED  BY <1>0, <2>1, <3>1 DEF DeleteSet, Types
  <2>2. CASE opset' = opset
    BY <1>0, <2>2 DEF Types
  <2> QED
    BY <2>1, <2>2 DEF InScheduler, EnterRun, Round, Visit, ForgetRequest, CountDeletion, RunOp,
                      NextSlot
<1>b. numOpSet' \in 0 .. UIntRange - 1 /\ bStop' \in BOOLEAN
  <2>1. CASE CountDeletion(i)
    <3>1. loop[i].loaded \in Nat
      BY <1>1 DEF Loops
    <3>2. (loop[i].loaded - 1) % UIntRange \in 0 .. UIntRange - 1
      BY <3>1, SchedulerAssumption
    <3> QED  BY <1>0, <2>1, <3>2 DEF CountDeletion, StopsAt, Types
  <2>2. CASE numOpSet' = numOpSet /\ bStop' = bStop
    BY <1>0, <2>2 DEF Types
  <2> QED
    BY <2>1, <2>2 DEF InScheduler, EnterRun, Round, Visit, DeleteSet, ForgetRequest, RunOp,
                      NextSlot
<1>c. brun' \in BOOLEAN
  BY <1>0 DEF InScheduler, EnterRun, Round, Visit, DeleteSet, ForgetRequest, CountDeletion, RunOp,
         NextSlot, Types
<1>3. OwnServers' /\ AddingIsSpec'
  BY <1>0 DEF OwnServers, AddingIsSpec, Adding
<1>4. serverIdForDelete' \in {serverIdForDelete, NoServer}
  BY DEF InScheduler, EnterRun, Round, Visit, DeleteSet, ForgetRequest, CountDeletion, RunOp,
         NextSlot
<1>5. RequestedIsStopped'
  BY <1>0, <1>4 DEF RequestedIsStopped, StoppedOne
<1>6. Types'
  BY <1>0, <1>2, <1>a, <1>b, <1>c, <1>4 DEF Types, Maybe
<1> QED  BY <1>3, <1>5, <1>6 DEF LInv

(***************************************************************************)
(* What most steps leave alone.                                            *)
(***************************************************************************)
LEMMA OwnershipKept ==
    ASSUME OwnServers, nextServerId' = nextServerId, CURRENTSERVERID' = CURRENTSERVERID,
           \A d \in Conn : /\ conn'[d].server = conn[d].server
                           /\ conn'[d].pc # "new" => conn[d].pc # "new"
    PROVE  OwnServers'
  BY DEF OwnServers

LEMMA RequestKept ==
    ASSUME RequestedIsStopped, serverIdForDelete' \in {serverIdForDelete, NoServer},
           \A i \in Server : server[i].state = "S_END" =>
               server'[i].state = "S_END" /\ server'[i].serverId = server[i].serverId
    PROVE  RequestedIsStopped'
  BY DEF RequestedIsStopped, StoppedOne

LEMMA AddingKept ==
    ASSUME AddingIsSpec,
           \A d \in Conn : Adding(d)' =>
               \/ /\ Adding(d) /\ conn'[d].server = conn[d].server /\ conn'[d].todo = conn[d].todo
                  /\ server'[conn[d].server].state = server[conn[d].server].state
                  /\ server'[conn[d].server].serverId = server[conn[d].server].serverId
               \/ /\ server'[conn'[d].server].state = "S_APP_SPEC"
                  /\ server'[conn'[d].server].serverId \in Server
                  /\ conn'[d].todo \in 1 .. OpsPerServer
    PROVE  AddingIsSpec'
  BY DEF AddingIsSpec

(***************************************************************************)
(* The connections' steps.                                                 *)
(***************************************************************************)
LEMMA ConnectionStep ==
    ASSUME LInv, NEW c \in Conn, Command(c) \/ Handle(c)
    PROVE  LInv'
<1> USE DEF ConnAt, ConnGoto, Its
<1>0. Types /\ OwnServers /\ AddingIsSpec /\ RequestedIsStopped
  BY DEF LInv
<1>1. /\ conn \in [Conn -> Connections] /\ server \in [Server -> Servers]
      /\ numOpSet \in Nat /\ numOpSet \in 0 .. UIntRange - 1
      /\ nextServerId \in Nat /\ CURRENTSERVERID \in Maybe
      /\ opset \in [Slot -> [serverID : Maybe, ops : Seq(AllOps)]]
  BY <1>0, SchedulerAssumption DEF Types
<1>2. CASE initServer(c)
  <2>1. /\ conn' \in [Conn -> Connections] /\ server' \in [Server -> Servers]
        /\ CURRENTSERVERID' \in Maybe /\ nextServerId' \in Nat
    <3>1. /\ conn' = [conn EXCEPT ![c].pc = "ready", ![c].server = nextServerId]
          /\ server' = [server EXCEPT ![nextServerId].alive = TRUE]
          /\ nextServerId \in Server /\ nextServerId' = nextServerId + 1
          /\ CURRENTSERVERID' = nextServerId
      BY <1>2 DEF initServer
    <3>2. conn' \in [Conn -> Connections]
      <4>1. PICK i \in Maybe : conn' = [conn EXCEPT ![c].pc = "ready", ![c].server = i]
        BY <3>1 DEF Maybe
      <4>2. [conn[c] EXCEPT !.pc = "ready", !.server = i] \in Connections
        BY <1>1 DEF Connections, ConnPc
      <4>3. conn' = [conn EXCEPT ![c] = [conn[c] EXCEPT !.pc = "ready", !.server = i]]
        BY <1>1, <4>1
      <4> QED  BY <1>1, <4>2, <4>3
    <3>3. server' \in [Server -> Servers]
      <4>1. PICK i \in Server : server' = [server EXCEPT ![i].alive = TRUE]
        BY <3>1
      <4> QED  BY <1>1, <4>1 DEF Servers
    <3>4. nextServerId' \in Nat /\ CURRENTSERVERID' \in Maybe
      <4>1. nextServerId \in Nat
        BY <1>1
      <4> QED  BY <3>1, <4>1 DEF Maybe
    <3> QED  BY <3>2, <3>3, <3>4
  <2>2. Types'
    BY <1>0, <1>2, <2>1 DEF Types, initServer, schedVars
  <2>3. conn' = [conn EXCEPT ![c].pc = "ready", ![c].server = nextServerId]
        /\ nextServerId \in Server /\ nextServerId' = nextServerId + 1
        /\ CURRENTSERVERID' = nextServerId
        /\ server' = [server EXCEPT ![nextServerId].alive = TRUE]
    BY <1>2 DEF initServer
  <2>4. \A d \in Conn : conn[d].server \in Maybe /\ conn[d].server < nextServerId
    BY <1>0, <1>1 DEF OwnServers, Connections
  <2>5. \A d \in Conn : IF d = c THEN conn'[d].server = nextServerId /\ conn'[d].pc = "ready"
                                 ELSE conn'[d] = conn[d]
    BY <1>1, <2>3 DEF Connections
  <2>6. OwnServers'
    <3>1. \A d \in Conn : conn'[d].server < nextServerId'
      <4>1. \A d \in Conn : conn[d].server \in Int
        BY <2>4, MaybeIsInt
      <4>2. \A d \in Conn : conn'[d].server \in {nextServerId, conn[d].server}
        BY <2>5
      <4>3. ASSUME NEW d \in Conn PROVE conn'[d].server < nextServerId'
        <5>1. conn[d].server < nextServerId /\ conn[d].server \in Int
          BY <2>4, <4>1
        <5>2. nextServerId' = nextServerId + 1 /\ nextServerId \in Nat
          BY <1>1, <2>3
        <5>3. CASE conn'[d].server = nextServerId
          BY <5>2, <5>3
        <5>4. CASE conn'[d].server = conn[d].server
          BY <5>1, <5>2, <5>4
        <5> QED  BY <4>2, <5>3, <5>4
      <4> QED  BY <4>3
    <3>2. \A d \in Conn : conn'[d].pc # "new" => conn'[d].server \in Server /\ CURRENTSERVERID' \in Server
      BY <1>0, <2>3, <2>5 DEF OwnServers
    <3>3. \A d, e \in Conn : conn'[d].server = conn'[e].server /\ conn'[d].server # NoServer => d = e
      BY <1>0, <1>1, <2>4, <2>5 DEF OwnServers, Maybe
    <3> QED  BY <3>1, <3>2, <3>3 DEF OwnServers
  <2>7. \A i \in Server : server'[i].state = server[i].state /\ server'[i].serverId = server[i].serverId
    BY <1>1, <2>3 DEF Servers
  <2>8. AddingIsSpec'
    BY <1>0, <2>5, <2>7 DEF AddingIsSpec, Adding, OwnServers
  <2>9. RequestedIsStopped'
    BY <1>0, <1>2, <2>7 DEF RequestedIsStopped, StoppedOne, initServer, schedVars
  <2> QED  BY <2>2, <2>6, <2>8, <2>9 DEF LInv
<1>3. CASE handle_end_app(c)
  <2>1. /\ conn' = [conn EXCEPT ![c].pc = "find", ![c].todo = 1]
        /\ server' = [server EXCEPT ![conn[c].server].serverId = CURRENTSERVERID]
        /\ conn[c].pc = "ready" /\ server[conn[c].server].state = "S_APP_SPEC"
        /\ UNCHANGED <<schedVars, nextServerId, CURRENTSERVERID>>
    BY <1>3 DEF handle_end_app
  <2>2. conn[c].server \in Server /\ CURRENTSERVERID \in Server
    BY <1>0, <2>1 DEF OwnServers
  <2>3. conn' \in [Conn -> Connections]
    <3>1. [conn[c] EXCEPT !.pc = "find", !.todo = 1] \in Connections
      BY <1>1 DEF Connections, ConnPc
    <3>2. conn' = [conn EXCEPT ![c] = [conn[c] EXCEPT !.pc = "find", !.todo = 1]]
      BY <1>1, <2>1
    <3> QED  BY <1>1, <3>1, <3>2
  <2>4. server' \in [Server -> Servers]
    BY <1>1, <2>1 DEF Servers
  <2>5. Types'
    BY <1>0, <2>1, <2>3, <2>4 DEF Types, schedVars
  <2>6. /\ \A d \in Conn : conn'[d].server = conn[d].server
        /\ \A d \in Conn : d # c => conn'[d] = conn[d]
        /\ conn'[c].pc = "find" /\ conn'[c].todo = 1
    BY <1>1, <2>1 DEF Connections
  <2>7. /\ \A i \in Server : server'[i].state = server[i].state
        /\ \A i \in Server : i # conn[c].server => server'[i] = server[i]
        /\ server'[conn[c].server].serverId = CURRENTSERVERID
    BY <1>1, <2>1, <2>2 DEF Servers
  <2>8. OwnServers'
    BY <1>0, <2>1, <2>6, OwnershipKept
  <2>9. ASSUME NEW d \in Conn, d # c, Adding(d)
        PROVE  conn[d].server # conn[c].server /\ conn[d].server \in Server
    BY <1>0, <2>2, <2>9, NoServerIsNone DEF OwnServers, Adding
  <2>10. AddingIsSpec'
    <3>1. 1 \in 1 .. OpsPerServer
      BY LifecycleAssumption
    <3>2. ASSUME NEW d \in Conn, d # c, Adding(d)'
          PROVE  /\ Adding(d) /\ conn'[d] = conn[d]
                 /\ server'[conn[d].server] = server[conn[d].server]
      <4>1. Adding(d) /\ conn'[d] = conn[d]
        BY <2>6, <3>2 DEF Adding
      <4> QED  BY <2>7, <2>9, <3>2, <4>1
    <3>3. /\ server'[conn'[c].server].state = "S_APP_SPEC"
          /\ server'[conn'[c].server].serverId \in Server
      BY ZenonT(30), <2>1, <2>2, <2>6, <2>7
    <3> QED  BY <1>0, <2>6, <3>1, <3>2, <3>3, AddingKept
  <2>11. RequestedIsStopped'
    <3>1. serverIdForDelete' = serverIdForDelete
      BY <2>1 DEF schedVars
    <3> QED  BY <1>0, <2>1, <2>7, <3>1, RequestKept
  <2> QED  BY <2>5, <2>8, <2>10, <2>11 DEF LInv
<1>4. CASE FindSlot(c)
  <2>1. /\ UNCHANGED <<schedVars, nextServerId, CURRENTSERVERID, server>>
        /\ conn[c].pc = "find"
    BY <1>4 DEF FindSlot
  <2>2. /\ conn' \in [Conn -> Connections]
        /\ \A d \in Conn : conn'[d].server = conn[d].server /\ conn'[d].todo = conn[d].todo
        /\ \A d \in Conn : d # c => conn'[d] = conn[d]
        /\ conn'[c].pc \in {"ready", "add", "addset"}
    <3> DEFINE id == server[conn[c].server].serverId
    <3>1. CASE Owned(id) \cup Free = {}
      <4>1. conn' = [conn EXCEPT ![c].pc = "ready"]
        BY <1>4, <3>1 DEF FindSlot
      <4> QED  BY ZenonT(30), <1>1, <4>1 DEF Connections, ConnPc
    <3>2. CASE Owned(id) \cup Free # {}
      <4>1. SlotFor(id) \in Nat
        BY <3>2, SlotForIsSlot DEF Slot
      <4>2. PICK pc \in {"add", "addset"} :
                conn' = [conn EXCEPT ![c].slot = SlotFor(id), ![c].pc = pc]
        BY <1>4, <3>2 DEF FindSlot
      <4> HIDE DEF id
      <4> QED  BY ZenonT(30), <1>1, <4>1, <4>2 DEF Connections, ConnPc
    <3> QED  BY <3>1, <3>2
  <2>3. Types'
    BY <1>0, <2>1, <2>2 DEF Types, schedVars
  <2>4. OwnServers'
    BY <1>0, <2>1, <2>2, OwnershipKept
  <2>5. AddingIsSpec'
    BY <1>0, <2>1, <2>2 DEF AddingIsSpec, Adding
  <2>6. RequestedIsStopped'
    BY <1>0, <2>1 DEF RequestedIsStopped, StoppedOne, schedVars
  <2> QED  BY <2>3, <2>4, <2>5, <2>6 DEF LInv
<1>5. CASE WriteSlot(c)
  <2> DEFINE op == <<conn[c].server, conn[c].todo>>
             s  == conn[c].slot
             id == server[conn[c].server].serverId
  <2>1. /\ UNCHANGED <<numOpSet, bStop, brun, serverIdForDelete, loop, lastRun>>
        /\ UNCHANGED <<nextServerId, CURRENTSERVERID, server>>
        /\ conn[c].pc \in {"add", "addset"}
    BY <1>5 DEF WriteSlot
  <2>2. conn[c].server \in Server /\ op \in AllOps /\ id \in Server
    BY <1>0, <2>1 DEF OwnServers, AddingIsSpec, Adding, AllOps, Ops
  <2>3. /\ conn' \in [Conn -> Connections]
        /\ \A d \in Conn : conn'[d].server = conn[d].server /\ conn'[d].todo = conn[d].todo
        /\ \A d \in Conn : d # c => conn'[d] = conn[d]
        /\ conn'[c].pc \in {"resume", "count"}
    <3>1. \/ conn' = [conn EXCEPT ![c].pc = "resume"]
          \/ conn' = [conn EXCEPT ![c].pc = "count", ![c].loaded = numOpSet]
      BY <1>5 DEF WriteSlot
    <3>2. CASE conn' = [conn EXCEPT ![c].pc = "resume"]
      BY ZenonT(30), <1>1, <3>2 DEF Connections, ConnPc
    <3>3. CASE conn' = [conn EXCEPT ![c].pc = "count", ![c].loaded = numOpSet]
      <4>1. [conn[c] EXCEPT !.pc = "count", !.loaded = numOpSet] \in Connections
        BY <1>1 DEF Connections, ConnPc
      <4>2. conn' = [conn EXCEPT ![c] = [conn[c] EXCEPT !.pc = "count", !.loaded = numOpSet]]
        BY <1>1, <3>3
      <4> QED  BY <1>1, <4>1, <4>2 DEF Connections
    <3> QED  BY <3>1, <3>2, <3>3
  <2>4. /\ opset' \in [Slot -> [serverID : Maybe, ops : Seq(AllOps)]]
        /\ \A t \in Slot : Len(opset'[t].ops) <= MAX_OPS
    <3>1. \/ opset' = [opset EXCEPT ![s].ops = Appended(opset[s].ops, op)]
          \/ opset' = [opset EXCEPT ![s].serverID = id,
                                    ![s].ops = <<op>> \o SubSeq(opset[s].ops, 2, Len(opset[s].ops))]
      BY <1>5 DEF WriteSlot, AddToSet, AddSet
    <3>2. CASE s \notin Slot
      <4>1. opset' = opset
        BY <1>1, <3>1, <3>2
      <4> QED  BY <1>0, <4>1 DEF Types
    <3>3. CASE s \in Slot
      <4>1. opset[s].ops \in Seq(AllOps) /\ Len(opset[s].ops) <= MAX_OPS
        BY <1>0, <3>3 DEF Types
      <4>2. /\ Appended(opset[s].ops, op) \in Seq(AllOps)
            /\ Len(Appended(opset[s].ops, op)) <= MAX_OPS
        BY <2>2, <4>1, SchedulerAssumption DEF Appended
      <4>3. PICK rest : rest = SubSeq(opset[s].ops, 2, Len(opset[s].ops))
        OBVIOUS
      <4>4. rest \in Seq(AllOps) /\ Len(rest) + 1 <= MAX_OPS
        BY SMTT(30), <4>1, <4>3, SchedulerAssumption
      <4>5. <<op>> \o rest \in Seq(AllOps) /\ Len(<<op>> \o rest) <= MAX_OPS
        BY <2>2, <4>4
      <4> HIDE DEF op, id
      <4>6. CASE opset' = [opset EXCEPT ![s].ops = Appended(opset[s].ops, op)]
        BY <1>0, <1>1, <3>3, <4>2, <4>6 DEF Types
      <4>7. CASE opset' = [opset EXCEPT ![s].serverID = id, ![s].ops = <<op>> \o rest]
        BY ZenonT(30), <1>0, <1>1, <2>2, <3>3, <4>5, <4>7 DEF Types, Maybe
      <4> QED  BY <3>1, <4>3, <4>6, <4>7
    <3> QED  BY <3>2, <3>3
  <2>5. Types'
    BY <1>0, <2>1, <2>3, <2>4 DEF Types
  <2>6. OwnServers'
    BY <1>0, <2>1, <2>3, OwnershipKept
  <2>7. AddingIsSpec'
    BY <1>0, <2>1, <2>3 DEF AddingIsSpec, Adding
  <2>8. RequestedIsStopped'
    BY <1>0, <2>1 DEF RequestedIsStopped, StoppedOne
  <2> QED  BY <2>5, <2>6, <2>7, <2>8 DEF LInv
<1>6. CASE CountSet(c)
  <2>1. /\ numOpSet' = Counted(conn[c].loaded)
        /\ conn' = [conn EXCEPT ![c].pc = "resume"]
        /\ UNCHANGED <<opset, bStop, brun, serverIdForDelete, loop, lastRun>>
        /\ UNCHANGED <<nextServerId, CURRENTSERVERID, server>>
        /\ conn[c].pc = "count"
    BY <1>6 DEF CountSet
  <2>2. /\ conn' \in [Conn -> Connections]
        /\ \A d \in Conn : conn'[d].server = conn[d].server /\ conn'[d].todo = conn[d].todo
        /\ \A d \in Conn : d # c => conn'[d] = conn[d]
        /\ conn'[c].pc = "resume"
    BY ZenonT(30), <1>1, <2>1 DEF Connections, ConnPc
  <2>3. numOpSet' \in 0 .. UIntRange - 1
    <3>1. conn[c].loaded \in Nat
      BY <1>1 DEF Connections
    <3> QED  BY <2>1, <3>1, SchedulerAssumption DEF Counted
  <2>4. Types'
    BY <1>0, <2>1, <2>2, <2>3 DEF Types
  <2>5. OwnServers'
    BY <1>0, <2>1, <2>2, OwnershipKept
  <2>6. AddingIsSpec'
    BY <1>0, <2>1, <2>2 DEF AddingIsSpec, Adding
  <2>7. RequestedIsStopped'
    BY <1>0, <2>1 DEF RequestedIsStopped, StoppedOne
  <2> QED  BY <2>4, <2>5, <2>6, <2>7 DEF LInv
<1>7. CASE Resume(c)
  <2> DEFINE last == conn[c].todo = OpsPerServer
  <2>1. /\ bStop' = FALSE
        /\ conn' = [conn EXCEPT ![c].pc = IF last THEN "ready" ELSE "find",
                                ![c].todo = conn[c].todo + 1]
        /\ server' = IF last THEN [server EXCEPT ![conn[c].server].state = "S_PLAN_GEN"] ELSE server
        /\ UNCHANGED <<opset, numOpSet, brun, serverIdForDelete, loop, lastRun>>
        /\ UNCHANGED <<nextServerId, CURRENTSERVERID>>
        /\ conn[c].pc = "resume"
    BY <1>7 DEF Resume, resume
  <2>2. /\ conn[c].server \in Server /\ server[conn[c].server].state = "S_APP_SPEC"
        /\ server[conn[c].server].serverId \in Server /\ conn[c].todo \in 1 .. OpsPerServer
    BY <1>0, <2>1 DEF OwnServers, AddingIsSpec, Adding
  <2>3. /\ conn' \in [Conn -> Connections]
        /\ \A d \in Conn : conn'[d].server = conn[d].server
        /\ \A d \in Conn : d # c => conn'[d] = conn[d]
        /\ conn'[c].todo = conn[c].todo + 1
        /\ conn'[c].pc = IF last THEN "ready" ELSE "find"
    <3>1. conn[c].todo + 1 \in Nat
      BY <1>1 DEF Connections
    <3>2. PICK pc \in {"ready", "find"} : pc = IF last THEN "ready" ELSE "find"
      OBVIOUS
    <3>3. conn' = [conn EXCEPT ![c].pc = pc, ![c].todo = conn[c].todo + 1]
      BY <2>1, <3>2
    <3> HIDE DEF last
    <3>4. [conn[c] EXCEPT !.pc = pc, !.todo = conn[c].todo + 1] \in Connections
      BY ZenonT(30), <1>1, <3>1 DEF Connections, ConnPc
    <3>5. conn' = [conn EXCEPT ![c] = [conn[c] EXCEPT !.pc = pc, !.todo = conn[c].todo + 1]]
      BY <1>1, <3>3
    <3> QED  BY <1>1, <3>2, <3>4, <3>5 DEF Connections
  <2>4. /\ server' \in [Server -> Servers]
        /\ \A i \in Server : server'[i].serverId = server[i].serverId
        /\ \A i \in Server : i # conn[c].server => server'[i] = server[i]
        /\ ~last => server' = server
    <3>1. CASE last
      <4>1. server' = [server EXCEPT ![conn[c].server].state = "S_PLAN_GEN"]
        BY <2>1, <3>1
      <4> QED  BY <1>1, <2>2, <3>1, <4>1 DEF Servers, ServerState
    <3>2. CASE ~last
      BY <1>1, <2>1, <3>2
    <3> QED  BY <3>1, <3>2
  <2>5. Types'
    BY <1>0, <2>1, <2>3, <2>4 DEF Types
  <2>6. OwnServers'
    <3>1. \A d \in Conn : conn'[d].pc # "new" => conn[d].pc # "new"
      BY <2>1, <2>3
    <3> QED  BY <1>0, <2>1, <2>3, <3>1, OwnershipKept
  <2>7. AddingIsSpec'
    <3>1. ASSUME NEW d \in Conn, d # c, Adding(d)'
          PROVE  /\ Adding(d) /\ conn'[d] = conn[d]
                 /\ server'[conn[d].server] = server[conn[d].server]
      <4>1. Adding(d) /\ conn'[d] = conn[d]
        BY <2>3, <3>1 DEF Adding
      <4>2. conn[d].server # conn[c].server /\ conn[d].server \in Server
        BY <1>0, <2>2, <3>1, <4>1, NoServerIsNone DEF OwnServers, Adding
      <4> QED  BY <2>4, <4>1, <4>2
    <3>2. ASSUME Adding(c)'
          PROVE  /\ server'[conn'[c].server].state = "S_APP_SPEC"
                 /\ server'[conn'[c].server].serverId \in Server
                 /\ conn'[c].todo \in 1 .. OpsPerServer
      <4>1. ~last
        BY <2>3, <3>2 DEF Adding
      <4>2. conn'[c].todo \in 1 .. OpsPerServer
        BY <2>2, <2>3, <4>1, LifecycleAssumption
      <4> QED  BY <2>2, <2>3, <2>4, <4>1, <4>2
    <3> QED  BY <1>0, <3>1, <3>2, AddingKept
  <2>8. RequestedIsStopped'
    <3>1. \A i \in Server : server[i].state = "S_END" => server'[i] = server[i]
      BY <2>2, <2>4
    <3> QED  BY <1>0, <2>1, <3>1, RequestKept
  <2> QED  BY <2>5, <2>6, <2>7, <2>8 DEF LInv
<1>8. CASE handle_execute(c)
  <2>1. /\ server' = [server EXCEPT ![conn[c].server].thread = "begin"]
        /\ conn' = [conn EXCEPT ![c].started = TRUE]
        /\ UNCHANGED <<schedVars, nextServerId, CURRENTSERVERID>>
    BY <1>8 DEF handle_execute
  <2>2. /\ conn' \in [Conn -> Connections]
        /\ \A d \in Conn : /\ conn'[d].server = conn[d].server /\ conn'[d].todo = conn[d].todo
                           /\ conn'[d].pc = conn[d].pc
    BY <1>1, <2>1 DEF Connections
  <2>3. /\ server' \in [Server -> Servers]
        /\ \A i \in Server : /\ server'[i].serverId = server[i].serverId
                             /\ server'[i].state = server[i].state
    BY ZenonT(30), <1>1, <2>1 DEF Servers, ThreadPc
  <2>4. Types'
    BY <1>0, <2>1, <2>2, <2>3 DEF Types, schedVars
  <2>5. OwnServers'
    BY <1>0, <2>1, <2>2, OwnershipKept
  <2>6. AddingIsSpec'
    BY <1>0, <2>2, <2>3 DEF AddingIsSpec, Adding, OwnServers
  <2>7. RequestedIsStopped'
    <3>1. serverIdForDelete' = serverIdForDelete
      BY <2>1 DEF schedVars
    <3> QED  BY <1>0, <2>3, <3>1, RequestKept
  <2> QED  BY <2>4, <2>5, <2>6, <2>7 DEF LInv
<1>9. CASE handle_reset(c)
  <2> DEFINE j == conn[c].server
  <2>1. /\ conn[c].pc = "ready"
        /\ UNCHANGED <<opset, numOpSet, bStop, brun, loop, lastRun>>
        /\ UNCHANGED <<nextServerId, CURRENTSERVERID>>
        /\ \/ UNCHANGED <<serverIdForDelete, server>>
           \/ /\ server' = [server EXCEPT ![j].state = "S_END"]
              /\ \/ serverIdForDelete' = serverIdForDelete
                 \/ serverIdForDelete' = server[j].serverId
    BY <1>9 DEF handle_reset, stopExecution, requestStop
  <2>2. j \in Server
    BY <1>0, <2>1 DEF OwnServers
  <2>3. /\ conn' \in [Conn -> Connections]
        /\ \A d \in Conn : conn'[d].server = conn[d].server
        /\ \A d \in Conn : d # c => conn'[d] = conn[d]
        /\ conn'[c].pc \in {"join", "delete"}
    <3>1. PICK pc \in {"join", "delete"}, ends \in BOOLEAN :
              conn' = [conn EXCEPT ![c].pc = pc, ![c].ends = ends]
      BY <1>9 DEF handle_reset
    <3>2. [conn[c] EXCEPT !.pc = pc, !.ends = ends] \in Connections
      BY ZenonT(30), <1>1 DEF Connections, ConnPc
    <3>3. conn' = [conn EXCEPT ![c] = [conn[c] EXCEPT !.pc = pc, !.ends = ends]]
      BY <1>1, <3>1
    <3> QED  BY <1>1, <3>2, <3>3 DEF Connections
  <2>4. /\ server' \in [Server -> Servers]
        /\ \A i \in Server : server'[i].serverId = server[i].serverId
        /\ \A i \in Server : i # j => server'[i] = server[i]
        /\ server' = server \/ server'[j].state = "S_END"
    <3>1. server \in [Server -> Servers]
      BY <1>1
    <3>2. CASE server' = server
      BY <3>1, <3>2
    <3>3. CASE server' = [server EXCEPT ![j].state = "S_END"]
      <4> HIDE DEF j
      <4> QED  BY <2>2, <3>1, <3>3 DEF Servers, ServerState
    <3> QED  BY <2>1, <3>2, <3>3
  <2>5. Types'
    <3>1. server[j].serverId \in Maybe
      BY <1>1, <2>2 DEF Servers
    <3>2. serverIdForDelete' \in Maybe
      BY <1>0, <2>1, <3>1 DEF Types
    <3> QED  BY <1>0, <2>1, <2>3, <2>4, <3>2 DEF Types
  <2>6. OwnServers'
    <3>1. \A d \in Conn : conn'[d].pc # "new" => conn[d].pc # "new"
      BY <2>1, <2>3
    <3> QED  BY <1>0, <2>1, <2>3, <3>1, OwnershipKept
  <2>7. AddingIsSpec'
    <3>1. ASSUME NEW d \in Conn, Adding(d)'
          PROVE  /\ Adding(d) /\ conn'[d] = conn[d]
                 /\ server'[conn[d].server] = server[conn[d].server]
      <4>1. d # c /\ Adding(d) /\ conn'[d] = conn[d]
        BY <2>3, <3>1 DEF Adding
      <4>2. conn[d].server # j /\ conn[d].server \in Server
        BY <1>0, <2>2, <4>1, NoServerIsNone DEF OwnServers, Adding
      <4> QED  BY <2>4, <4>1, <4>2
    <3> QED  BY <1>0, <3>1, AddingKept
  <2>8. RequestedIsStopped'
    <3>1. \A i \in Server : server[i].state = "S_END" =>
              server'[i].state = "S_END" /\ server'[i].serverId = server[i].serverId
      BY <2>4
    <3>2. CASE serverIdForDelete' = serverIdForDelete
      BY <1>0, <3>1, <3>2, RequestKept
    <3>3. CASE serverIdForDelete' # serverIdForDelete
      <4>1. serverIdForDelete' = server[j].serverId /\ server' = [server EXCEPT ![j].state = "S_END"]
        BY <2>1, <3>3
      <4>2. server'[j].state = "S_END" /\ server'[j].serverId = serverIdForDelete'
        BY <1>1, <2>2, <2>4, <4>1
      <4> QED  BY <2>2, <4>2 DEF RequestedIsStopped, StoppedOne
    <3> QED  BY <3>2, <3>3
  <2> QED  BY <2>5, <2>6, <2>7, <2>8 DEF LInv
<1>10. CASE Join(c) \/ DeleteServer(c)
  <2>1. /\ UNCHANGED <<schedVars, nextServerId, CURRENTSERVERID>>
        /\ conn[c].pc \in {"join", "delete"}
    BY <1>10 DEF Join, DeleteServer
  <2>2. /\ conn' \in [Conn -> Connections]
        /\ \A d \in Conn : conn'[d].server = conn[d].server
        /\ \A d \in Conn : d # c => conn'[d] = conn[d]
        /\ conn'[c].pc \in {"delete", "ended", "new"}
    <3>1. \/ conn' = [conn EXCEPT ![c].pc = "delete", ![c].started = FALSE]
          \/ \E pc \in {"ended", "new"} : conn' = [conn EXCEPT ![c].pc = pc]
      BY <1>10 DEF Join, DeleteServer
    <3>2. CASE conn' = [conn EXCEPT ![c].pc = "delete", ![c].started = FALSE]
      <4>1. [conn[c] EXCEPT !.pc = "delete", !.started = FALSE] \in Connections
        BY <1>1 DEF Connections, ConnPc
      <4>2. conn' = [conn EXCEPT ![c] = [conn[c] EXCEPT !.pc = "delete", !.started = FALSE]]
        BY <1>1, <3>2
      <4> QED  BY <1>1, <4>1, <4>2 DEF Connections
    <3>3. CASE \E pc \in {"ended", "new"} : conn' = [conn EXCEPT ![c].pc = pc]
      <4>1. PICK pc \in {"ended", "new"} : conn' = [conn EXCEPT ![c].pc = pc]
        BY <3>3
      <4>2. conn \in [Conn -> Connections]
        BY <1>1
      <4> QED  BY <4>1, <4>2 DEF Connections, ConnPc
    <3> QED  BY <3>1, <3>2, <3>3
  <2>3. /\ server' \in [Server -> Servers]
        /\ \A i \in Server : /\ server'[i].serverId = server[i].serverId
                             /\ server'[i].state = server[i].state
    <3>1. server' = server \/ server' = [server EXCEPT ![conn[c].server].alive = FALSE]
      BY <1>10 DEF Join, DeleteServer
    <3>2. server \in [Server -> Servers]
      BY <1>1
    <3>3. CASE server' = server
      BY <3>2, <3>3
    <3>4. CASE server' = [server EXCEPT ![conn[c].server].alive = FALSE]
      <4>1. PICK j : server' = [server EXCEPT ![j].alive = FALSE]
        BY <3>4
      <4>2. CASE j \in Server
        BY <3>2, <4>1, <4>2 DEF Servers
      <4>3. CASE j \notin Server
        BY <3>2, <4>1, <4>3
      <4> QED  BY <4>2, <4>3
    <3> QED  BY <3>1, <3>3, <3>4
  <2>4. Types'
    BY <1>0, <2>1, <2>2, <2>3 DEF Types, schedVars
  <2>5. OwnServers'
    <3>1. \A d \in Conn : conn'[d].pc # "new" => conn[d].pc # "new"
      BY <2>1, <2>2
    <3> QED  BY <1>0, <2>1, <2>2, <3>1, OwnershipKept
  <2>6. AddingIsSpec'
    BY <1>0, <2>2, <2>3 DEF AddingIsSpec, Adding, OwnServers
  <2>7. RequestedIsStopped'
    <3>1. serverIdForDelete' = serverIdForDelete
      BY <2>1 DEF schedVars
    <3> QED  BY <1>0, <2>3, <3>1, RequestKept
  <2> QED  BY <2>4, <2>5, <2>6, <2>7 DEF LInv
<1> QED
  BY <1>2, <1>3, <1>4, <1>5, <1>6, <1>7, <1>8, <1>9, <1>10 DEF Command, Handle

(***************************************************************************)
(* The servers' threads write to their own server, and to its state only   *)
(* when it is past S_APP_SPEC and not yet S_END.                           *)
(***************************************************************************)
LEMMA ThreadStep ==
    ASSUME LInv, NEW i \in Server, Execute(i)
    PROVE  LInv'
<1>1. CASE InScheduler(i) /\ UNCHANGED <<nextServerId, CURRENTSERVERID, conn, server>>
  BY <1>1, SchedulerStep
<1>2. CASE Begin(i) \/ Enter(i) \/ While(i) \/ Returned(i) \/ After(i)
  <2>0. Types /\ OwnServers /\ AddingIsSpec /\ RequestedIsStopped
    BY DEF LInv
  <2>1. server \in [Server -> Servers] /\ loop \in [Server -> Loops]
    BY <2>0 DEF Types
  <2>2. UNCHANGED <<opset, numOpSet, bStop, brun, serverIdForDelete, lastRun,
                    nextServerId, CURRENTSERVERID, conn>>
    BY <1>2 DEF Begin, Enter, While, Returned, After, requestRun, schedVars
  <2>3. loop' \in [Server -> Loops]
    <3>1. \/ loop' = loop
          \/ loop' = [loop EXCEPT ![i] = Outside]
          \/ loop' = [loop EXCEPT ![i].pc = "returned"]
          \/ \E r \in RunTimes : loop' = [loop EXCEPT ![i].pc = "called", ![i].limit = r]
      BY <1>2 DEF Begin, Enter, While, Returned, After, requestRun, schedVars, Goto
    <3>2. CASE loop' = [loop EXCEPT ![i] = Outside]
      BY <2>1, <3>2 DEF Outside, Loops, LoopPc
    <3>3. CASE loop' = [loop EXCEPT ![i].pc = "returned"]
      BY <2>1, <3>3 DEF Loops, LoopPc
    <3>4. CASE \E r \in RunTimes : loop' = [loop EXCEPT ![i].pc = "called", ![i].limit = r]
      <4>1. PICK r \in Nat : loop' = [loop EXCEPT ![i].pc = "called", ![i].limit = r]
        BY <3>4, SchedulerAssumption
      <4>2. [loop[i] EXCEPT !.pc = "called", !.limit = r] \in Loops
        BY <2>1 DEF Loops, LoopPc
      <4>3. loop' = [loop EXCEPT ![i] = [loop[i] EXCEPT !.pc = "called", !.limit = r]]
        BY <2>1, <4>1
      <4> QED  BY <2>1, <4>2, <4>3
    <3> QED  BY <2>1, <3>1, <3>2, <3>3, <3>4
  <2>4. PICK t \in ThreadPc, st \in ServerState :
            /\ server' = [server EXCEPT ![i].thread = t, ![i].state = st]
            /\ \/ st = server[i].state
               \/ server[i].state = "S_PLAN_GEN" /\ st = "S_EXEC"
               \/ server[i].state = "S_EXEC" /\ st = "S_END"
    <3>1. server[i].state \in ServerState
      BY <2>1 DEF Servers
    <3>2. CASE Begin(i) \/ While(i) \/ Returned(i)
      <4>1. PICK t \in ThreadPc : server' = [server EXCEPT ![i].thread = t]
        BY <3>2 DEF Begin, While, Returned, ThreadGoto, ThreadPc
      <4>2. server' = [server EXCEPT ![i].thread = t, ![i].state = server[i].state]
        BY <2>1, <4>1 DEF Servers
      <4> QED  BY <3>1, <4>2
    <3>3. CASE Enter(i)
      BY <3>1, <3>3 DEF Enter, ThreadPc, ServerState
    <3>4. CASE After(i)
      BY <3>1, <3>4 DEF After, ThreadPc, ServerState
    <3> QED  BY <1>2, <3>2, <3>3, <3>4
  <2>5. /\ server' \in [Server -> Servers]
        /\ \A k \in Server : server'[k].serverId = server[k].serverId
        /\ \A k \in Server : k # i => server'[k] = server[k]
        /\ server'[i].state = st
    <3>1. [server[i] EXCEPT !.thread = t, !.state = st] \in Servers
      BY <2>1 DEF Servers
    <3>2. server' = [server EXCEPT ![i] = [server[i] EXCEPT !.thread = t, !.state = st]]
      BY <2>1, <2>4
    <3> QED  BY <2>1, <3>1, <3>2 DEF Servers
  <2>6. Types'
    BY <2>0, <2>2, <2>3, <2>5 DEF Types
  <2>7. OwnServers'
    BY <2>0, <2>2, OwnershipKept
  <2>8. AddingIsSpec'
    <3>1. ASSUME NEW d \in Conn, Adding(d)'
          PROVE  /\ Adding(d) /\ conn'[d] = conn[d]
                 /\ server'[conn[d].server].state = server[conn[d].server].state
                 /\ server'[conn[d].server].serverId = server[conn[d].server].serverId
      <4>1. Adding(d) /\ conn'[d] = conn[d]
        BY <2>2, <3>1 DEF Adding
      <4>2. conn[d].server \in Server /\ server[conn[d].server].state = "S_APP_SPEC"
        BY <2>0, <4>1 DEF OwnServers, AddingIsSpec, Adding
      <4> QED  BY <2>4, <2>5, <4>1, <4>2
    <3> QED  BY <2>0, <3>1, AddingKept
  <2>9. RequestedIsStopped'
    <3>1. \A k \in Server : server[k].state = "S_END" =>
              server'[k].state = "S_END" /\ server'[k].serverId = server[k].serverId
      BY <2>4, <2>5
    <3> QED  BY <2>0, <2>2, <3>1, RequestKept
  <2> QED  BY <2>6, <2>7, <2>8, <2>9 DEF LInv
<1> QED  BY <1>1, <1>2 DEF Execute

LEMMA StepInv == LInv /\ [Next]_vars => LInv'
<1> SUFFICES ASSUME LInv, [Next]_vars PROVE LInv'
  OBVIOUS
<1>1. CASE UNCHANGED vars
  BY <1>1 DEF LInv, Types, OwnServers, AddingIsSpec, Adding, RequestedIsStopped, StoppedOne, vars,
              schedVars
<1>2. CASE \E c \in Conn : Command(c) \/ Handle(c)
  BY <1>2, ConnectionStep
<1>3. CASE \E i \in Server : Execute(i)
  BY <1>3, ThreadStep
<1> QED  BY <1>1, <1>2, <1>3 DEF Next

LEMMA Invariance == Spec => []LInv
<1>1. Init => LInv
  BY InitInv
<1>2. LInv /\ [Next]_vars => LInv'
  BY StepInv
<1> QED  BY <1>1, <1>2, PTL DEF Spec

-----------------------------------------------------------------------------
(***************************************************************************)
(* The state of the servers, connections and the scheduler has its types:  *)
(* no set grows beyond MAX_OPS operators, and numOpSet stays an unsigned   *)
(* number whatever updates it loses.                                       *)
(***************************************************************************)
THEOREM TypeCorrect == Spec => []TypeOK
<1>1. LInv => TypeOK
  <2> SUFFICES ASSUME LInv PROVE TypeOK
    OBVIOUS
  <2>1. Types
    BY DEF LInv
  <2>2. \A s \in Slot : /\ opset[s].serverID \in Maybe
                        /\ opset[s].ops \in Seq(AllOps)
                        /\ Len(opset[s].ops) <= MAX_OPS
    BY <2>1 DEF Types
  <2>3. \A i \in Server : server[i].state \in ServerState
    BY <2>1 DEF Types, Servers
  <2> QED  BY <2>1, <2>2, <2>3 DEF TypeOK, Types, Maybe, AllOps
<1> QED  BY <1>1, Invariance, PTL

(***************************************************************************)
(* Whatever the connections and threads do at the same time, a slot is     *)
(* emptied only when a server of its number was stopped.                   *)
(***************************************************************************)
THEOREM OnlyStoppedDeleted == Spec => DeletedOnRequest
<1> DEFINE Emptied(s) == opset[s].serverID # NoServer /\ opset'[s].serverID = NoServer
           Asked(s) == \E i \in Server : /\ server[i].serverId = opset[s].serverID
                                         /\ server[i].state = "S_END"
<1>1. ASSUME LInv, [Next]_vars, NEW s \in Slot, Emptied(s) PROVE Asked(s)
  <2>0. Types /\ OwnServers /\ AddingIsSpec /\ RequestedIsStopped
    BY <1>1 DEF LInv
  <2>1. opset' # opset
    BY <1>1
  <2>2. CASE \E c \in Conn : Command(c) \/ Handle(c)
    <3>1. PICK c \in Conn : WriteSlot(c)
      BY <2>1, <2>2 DEF Command, Handle, initServer, handle_end_app, FindSlot, CountSet, Resume,
                        handle_execute, handle_reset, Join, DeleteServer, schedVars
    <3>2. server[conn[c].server].serverId \in Server
      BY <2>0, <3>1 DEF WriteSlot, ConnAt, AddingIsSpec, Adding
    <3>3. opset \in [Slot -> [serverID : Maybe, ops : Seq(AllOps)]]
      BY <2>0 DEF Types
    <3>4. opset'[s].serverID \in {opset[s].serverID, server[conn[c].server].serverId}
      <4>1. PICK t, os, id :
                /\ id = server[conn[c].server].serverId
                /\ \/ opset' = [opset EXCEPT ![t].ops = os]
                   \/ opset' = [opset EXCEPT ![t].serverID = id, ![t].ops = os]
        BY ZenonT(30), <3>1 DEF WriteSlot, AddToSet, AddSet, Its
      <4>2. CASE opset' = [opset EXCEPT ![t].ops = os]
        BY <3>3, <4>2
      <4>3. CASE opset' = [opset EXCEPT ![t].serverID = id, ![t].ops = os]
        <5>1. opset' = [opset EXCEPT ![t] = [opset[t] EXCEPT !.serverID = id, !.ops = os]]
          BY <3>3, <4>3
        <5>2. opset'[s] \in {opset[s], [opset[s] EXCEPT !.serverID = id, !.ops = os]}
          BY <3>3, <5>1
        <5> QED  BY <3>3, <4>1, <5>2
      <4> QED  BY <4>1, <4>2, <4>3
    <3> QED  BY <1>1, <3>2, <3>4, NoServerIsNone
  <2>3. CASE \E i \in Server : Execute(i)
    <3>1. PICK i \in Server : DeleteSet(i)
      BY <2>1, <2>3 DEF Execute, InScheduler, Begin, Enter, While, Returned, After, requestRun,
                        EnterRun, Round, Visit, ForgetRequest, CountDeletion, RunOp, NextSlot,
                        schedVars
    <3>2. s = loop[i].o /\ opset[s].serverID = serverIdForDelete
      BY <1>1, <2>0, <3>1 DEF DeleteSet, ToDelete, Types
    <3> QED  BY <1>1, <2>0, <3>2 DEF RequestedIsStopped, StoppedOne
  <2> QED  BY <1>1, <2>1, <2>2, <2>3 DEF Next, vars, schedVars
<1>2. LInv /\ [Next]_vars =>
          [\A s \in Slot : opset[s].serverID # NoServer /\ opset'[s].serverID = NoServer =>
               \E i \in Server : /\ server[i].serverId = opset[s].serverID
                                 /\ server[i].state = "S_END"]_vars
  BY <1>1
<1> QED  BY <1>2, Invariance, PTL DEF Spec, DeletedOnRequest

-----------------------------------------------------------------------------
(***************************************************************************)
(* The threads, whatever the number of connections: a server's thread is   *)
(* at work only between EXECUTE and the join of the connection that has    *)
(* the server, it is in requestRun() only once the server's plan is made,  *)
(* and it visits slots from the first on.                                  *)
(***************************************************************************)
Active == {"begin", "enter", "while", "run", "after"}

Threads ==
    /\ \A i \in Server : server[i].thread \in Active =>
          \E c \in Conn : conn[c].server = i /\ conn[c].started
    /\ \A c \in Conn : conn[c].pc \in {"new", "delete", "ended"} => ~conn[c].started
    /\ \A i \in Server : server[i].thread \in {"enter", "while", "run", "after"} =>
          server[i].state # "S_APP_SPEC"
    /\ \A i \in Server : loop[i].pc # "out" => server[i].thread = "run"
    /\ \A i \in Server : loop[i].pc \in {"set", "op", "forget", "count"} => loop[i].o >= 1

LEMMA InitThreads == Init => Threads
BY DEF Init, SchedulerInit, Threads, Active, NoConn, NotYet, Outside

LEMMA ThreadsKept ==
    ASSUME Threads, loop' = loop,
           \A i \in Server : /\ server'[i].thread = server[i].thread
                             /\ server'[i].state = "S_APP_SPEC" => server[i].state = "S_APP_SPEC",
           \A d \in Conn : /\ conn'[d].server = conn[d].server
                           /\ conn'[d].started = conn[d].started
                           /\ conn'[d].pc \in {"new", "delete", "ended"} =>
                                  conn[d].pc \in {"new", "delete", "ended"} \/ ~conn[d].started
    PROVE  Threads'
BY DEF Threads

LEMMA ConnectionThreads ==
    ASSUME LInv, Threads, NEW c \in Conn, Command(c) \/ Handle(c)
    PROVE  Threads'
<1> USE DEF ConnAt, ConnGoto, Its
<1>0. /\ conn \in [Conn -> Connections] /\ server \in [Server -> Servers]
      /\ OwnServers /\ AddingIsSpec
  BY DEF LInv, Types
<1>1. CASE initServer(c)
  <2>1. /\ conn[c].pc = "new" /\ nextServerId \in Server /\ loop' = loop
        /\ conn' = [conn EXCEPT ![c].pc = "ready", ![c].server = nextServerId]
        /\ server' = [server EXCEPT ![nextServerId].alive = TRUE]
    BY <1>1 DEF initServer, schedVars
  <2>2. \A i \in Server : server'[i].thread = server[i].thread /\ server'[i].state = server[i].state
    BY <1>0, <2>1 DEF Servers
  <2>3. /\ \A d \in Conn : d # c => conn'[d] = conn[d]
        /\ conn'[c].pc = "ready" /\ conn'[c].started = conn[c].started
    BY <1>0, <2>1 DEF Connections
  <2>4. ~conn[c].started
    BY <2>1 DEF Threads
  <2>5. ASSUME NEW i \in Server, server'[i].thread \in Active
        PROVE  \E d \in Conn : conn'[d].server = i /\ conn'[d].started
    <3>1. PICK d \in Conn : conn[d].server = i /\ conn[d].started
      BY <2>2, <2>5 DEF Threads
    <3>2. d # c
      BY <2>4, <3>1
    <3> QED  BY <2>3, <3>1, <3>2
  <2>6. \A d \in Conn : conn'[d].pc \in {"new", "delete", "ended"} => ~conn'[d].started
    BY <2>3 DEF Threads
  <2>7. /\ \A i \in Server : server'[i].thread \in {"enter", "while", "run", "after"} =>
              server'[i].state # "S_APP_SPEC"
        /\ \A i \in Server : loop'[i].pc # "out" => server'[i].thread = "run"
        /\ \A i \in Server : loop'[i].pc \in {"set", "op", "forget", "count"} => loop'[i].o >= 1
    BY <2>1, <2>2 DEF Threads
  <2> QED  BY <2>5, <2>6, <2>7 DEF Threads
<1>2. CASE handle_execute(c)
  <2> DEFINE j == conn[c].server
  <2>1. /\ conn[c].pc = "ready" /\ loop' = loop
        /\ server' = [server EXCEPT ![j].thread = "begin"]
        /\ conn' = [conn EXCEPT ![c].started = TRUE]
        /\ ~conn[c].started
    BY <1>2 DEF handle_execute, schedVars
  <2>2. j \in Server
    BY <1>0, <2>1 DEF OwnServers
  <2>3. /\ \A i \in Server : i # j => server'[i] = server[i]
        /\ server'[j].thread = "begin"
    <3> HIDE DEF j
    <3> QED  BY <1>0, <2>1, <2>2 DEF Servers
  <2>4. /\ \A d \in Conn : d # c => conn'[d] = conn[d]
        /\ conn'[c].server = j /\ conn'[c].started /\ conn'[c].pc = "ready"
    BY <1>0, <2>1 DEF Connections
  <2>5. server[j].thread \notin Active
    BY <1>0, <2>1, <2>2, NoServerIsNone DEF Threads, OwnServers
  <2>6. loop[j].pc = "out"
    BY <2>2, <2>5 DEF Threads, Active
  <2> HIDE DEF j
  <2>7. \A i \in Server : server'[i].thread \in Active =>
            \E d \in Conn : conn'[d].server = i /\ conn'[d].started
    <3>1. ASSUME NEW i \in Server, i # j, server'[i].thread \in Active
          PROVE  \E d \in Conn : conn'[d].server = i /\ conn'[d].started
      <4>1. PICK d \in Conn : conn[d].server = i /\ conn[d].started
        BY <2>3, <3>1 DEF Threads
      <4>2. d # c
        BY <2>1, <4>1
      <4> QED  BY <2>4, <4>1, <4>2
    <3> QED  BY <2>4, <3>1
  <2>8. \A i \in Server : server'[i].thread \in {"enter", "while", "run", "after"} =>
            server'[i].state # "S_APP_SPEC"
    BY <2>3 DEF Threads
  <2>9. \A i \in Server : loop'[i].pc # "out" => server'[i].thread = "run"
    BY <2>1, <2>3, <2>6 DEF Threads
  <2> QED  BY <2>1, <2>4, <2>7, <2>8, <2>9 DEF Threads
<1>3. CASE Join(c)
  <2>1. /\ server[conn[c].server].thread = "done" /\ UNCHANGED <<loop, server>>
        /\ conn' = [conn EXCEPT ![c].pc = "delete", ![c].started = FALSE]
    BY <1>3 DEF Join, schedVars
  <2>2. /\ \A d \in Conn : d # c => conn'[d] = conn[d]
        /\ conn'[c].server = conn[c].server /\ ~conn'[c].started
    BY <1>0, <2>1 DEF Connections
  <2>3. ASSUME NEW i \in Server, server'[i].thread \in Active
        PROVE  \E d \in Conn : conn'[d].server = i /\ conn'[d].started
    <3>1. i # conn[c].server
      BY <2>1, <2>3 DEF Active
    <3>2. PICK d \in Conn : conn[d].server = i /\ conn[d].started
      BY <2>1, <2>3 DEF Threads
    <3> QED  BY <2>2, <3>1, <3>2
  <2>4. \A d \in Conn : conn'[d].pc \in {"new", "delete", "ended"} => ~conn'[d].started
    BY <2>2 DEF Threads
  <2> QED  BY <2>1, <2>3, <2>4 DEF Threads
<1>4. CASE handle_end_app(c)
  <2>1. /\ loop' = loop
        /\ server' = [server EXCEPT ![conn[c].server].serverId = CURRENTSERVERID]
        /\ conn' = [conn EXCEPT ![c].pc = "find", ![c].todo = 1]
    BY <1>4 DEF handle_end_app, schedVars
  <2>2. \A i \in Server : server'[i].thread = server[i].thread /\ server'[i].state = server[i].state
    BY <1>0, <2>1 DEF Servers
  <2>3. \A d \in Conn : /\ conn'[d].server = conn[d].server
                        /\ conn'[d].started = conn[d].started
                        /\ conn'[d].pc \in {"find", conn[d].pc}
    BY <1>0, <2>1 DEF Connections
  <2> QED  BY <2>1, <2>2, <2>3, ThreadsKept
<1>5. CASE FindSlot(c)
  <2>1. loop' = loop /\ server' = server
    BY <1>5 DEF FindSlot, schedVars
  <2>2. PICK pc \in {"ready", "add", "addset"} :
            \/ conn' = [conn EXCEPT ![c].pc = pc]
            \/ \E t : conn' = [conn EXCEPT ![c].slot = t, ![c].pc = pc]
    <3> DEFINE id == server[conn[c].server].serverId
    <3>1. CASE Owned(id) \cup Free = {}
      BY <1>5, <3>1 DEF FindSlot
    <3>2. CASE Owned(id) \cup Free # {}
      <4>1. PICK pc \in {"add", "addset"} : pc = IF Owned(id) # {} THEN "add" ELSE "addset"
        OBVIOUS
      <4>2. conn' = [conn EXCEPT ![c].slot = SlotFor(id), ![c].pc = pc]
        BY <1>5, <3>2, <4>1 DEF FindSlot
      <4> QED  BY <4>2
    <3> QED  BY <3>1, <3>2
  <2>3. \A d \in Conn : /\ conn'[d].server = conn[d].server
                        /\ conn'[d].started = conn[d].started
                        /\ conn'[d].pc \in {pc, conn[d].pc}
    <3>1. CASE conn' = [conn EXCEPT ![c].pc = pc]
      BY <1>0, <3>1 DEF Connections
    <3>2. ASSUME NEW t, conn' = [conn EXCEPT ![c].slot = t, ![c].pc = pc]
          PROVE  \A d \in Conn : /\ conn'[d].server = conn[d].server
                                 /\ conn'[d].started = conn[d].started
                                 /\ conn'[d].pc \in {pc, conn[d].pc}
      BY <1>0, <3>2 DEF Connections
    <3> QED  BY <2>2, <3>1, <3>2
  <2> QED  BY <2>1, <2>3, ThreadsKept
<1>6. CASE WriteSlot(c) \/ CountSet(c)
  <2>1. loop' = loop /\ server' = server
    BY <1>6 DEF WriteSlot, CountSet
  <2>2. PICK pc \in {"resume", "count"} :
            \/ conn' = [conn EXCEPT ![c].pc = pc]
            \/ conn' = [conn EXCEPT ![c].pc = pc, ![c].loaded = numOpSet]
    BY <1>6 DEF WriteSlot, CountSet
  <2>3. \A d \in Conn : /\ conn'[d].server = conn[d].server
                        /\ conn'[d].started = conn[d].started
                        /\ conn'[d].pc \in {pc, conn[d].pc}
    BY <1>0, <2>2 DEF Connections
  <2> QED  BY <2>1, <2>3, ThreadsKept
<1>7. CASE Resume(c)
  <2>1. /\ loop' = loop
        /\ server' \in {server, [server EXCEPT ![conn[c].server].state = "S_PLAN_GEN"]}
    BY <1>7 DEF Resume
  <2>2. PICK pc \in {"ready", "find"} :
            conn' = [conn EXCEPT ![c].pc = pc, ![c].todo = conn[c].todo + 1]
    <3>1. PICK pc \in {"ready", "find"} :
              pc = IF conn[c].todo = OpsPerServer THEN "ready" ELSE "find"
      OBVIOUS
    <3>2. conn' = [conn EXCEPT ![c].pc = pc, ![c].todo = conn[c].todo + 1]
      BY <1>7, <3>1 DEF Resume
    <3> QED  BY <3>2
  <2>3. \A d \in Conn : /\ conn'[d].server = conn[d].server
                        /\ conn'[d].started = conn[d].started
                        /\ conn'[d].pc \in {pc, conn[d].pc}
    BY <1>0, <2>2 DEF Connections
  <2>4. \A i \in Server : /\ server'[i].thread = server[i].thread
                          /\ server'[i].state \in {server[i].state, "S_PLAN_GEN"}
    BY <1>0, <2>1 DEF Servers
  <2> QED  BY <2>1, <2>3, <2>4, ThreadsKept
<1>8. CASE handle_reset(c)
  <2>1. /\ loop' = loop
        /\ server' \in {server, [server EXCEPT ![conn[c].server].state = "S_END"]}
    BY <1>8 DEF handle_reset, stopExecution
  <2>2. PICK ends, pc : /\ conn' = [conn EXCEPT ![c].pc = pc, ![c].ends = ends]
                        /\ pc = IF conn[c].started THEN "join" ELSE "delete"
    BY <1>8 DEF handle_reset
  <2>3. \A d \in Conn : /\ conn'[d].server = conn[d].server
                        /\ conn'[d].started = conn[d].started
                        /\ conn'[d].pc = IF d = c THEN pc ELSE conn[d].pc
    BY <1>0, <2>2 DEF Connections
  <2>4. \A i \in Server : /\ server'[i].thread = server[i].thread
                          /\ server'[i].state \in {server[i].state, "S_END"}
    BY <1>0, <2>1 DEF Servers
  <2>5. \A d \in Conn : conn'[d].pc \in {"new", "delete", "ended"} =>
            conn[d].pc \in {"new", "delete", "ended"} \/ ~conn[d].started
    BY <2>2, <2>3
  <2>6. \A i \in Server : server'[i].state = "S_APP_SPEC" => server[i].state = "S_APP_SPEC"
    BY <2>4
  <2> QED  BY <2>1, <2>3, <2>4, <2>5, <2>6, ThreadsKept
<1>9. CASE DeleteServer(c)
  <2>1. /\ loop' = loop /\ conn[c].pc = "delete"
        /\ server' = [server EXCEPT ![conn[c].server].alive = FALSE]
    BY <1>9 DEF DeleteServer, schedVars
  <2>2. PICK pc \in {"ended", "new"} : conn' = [conn EXCEPT ![c].pc = pc]
    BY <1>9 DEF DeleteServer
  <2>3. \A d \in Conn : /\ conn'[d].server = conn[d].server
                        /\ conn'[d].started = conn[d].started
                        /\ d # c => conn'[d].pc = conn[d].pc
    BY <1>0, <2>2 DEF Connections
  <2>4. \A i \in Server : server'[i].thread = server[i].thread /\ server'[i].state = server[i].state
    BY <1>0, <2>1 DEF Servers
  <2> QED  BY <2>1, <2>3, <2>4, ThreadsKept
<1> QED
  BY <1>1, <1>2, <1>3, <1>4, <1>5, <1>6, <1>7, <1>8, <1>9 DEF Command, Handle

LEMMA SchedulerThreads ==
    ASSUME LInv, Threads, NEW i \in Server, InScheduler(i), UNCHANGED <<conn, server>>
    PROVE  Threads' /\ \A k \in Server : k # i => loop'[k] = loop[k]
<1> USE DEF At, Goto
<1>1. loop \in [Server -> Loops]
  BY DEF LInv, Types
<1>2. loop[i].pc # "out"
  BY DEF InScheduler, EnterRun, Round, Visit, DeleteSet, ForgetRequest, CountDeletion, RunOp,
         NextSlot
<1>3. /\ \A k \in Server : k # i => loop'[k] = loop[k]
      /\ loop'[i].pc \in {"set", "op", "forget", "count"} => loop'[i].o >= 1
  <2>1. CASE EnterRun(i)
    BY <1>1, <2>1 DEF EnterRun, Loops
  <2>2. CASE Round(i)
    BY <1>1, <2>2 DEF Round, Loops
  <2>3. CASE Visit(i)
    <3>1. loop[i].o >= 1
      BY <2>3 DEF Visit, Threads
    <3> QED  BY <1>1, <2>3, <3>1 DEF Visit, Loops
  <2>4. CASE DeleteSet(i)
    <3>1. loop[i].o >= 1
      BY <2>4 DEF DeleteSet, Threads
    <3> QED  BY <1>1, <2>4, <3>1 DEF DeleteSet, Loops
  <2>5. CASE ForgetRequest(i)
    <3>1. loop[i].o >= 1
      BY <2>5 DEF ForgetRequest, Threads
    <3> QED  BY <1>1, <2>5, <3>1 DEF ForgetRequest, Loops
  <2>6. CASE CountDeletion(i)
    <3>1. loop[i].o >= 1
      BY <2>6 DEF CountDeletion, Threads
    <3> QED  BY <1>1, <2>6, <3>1 DEF CountDeletion, Loops
  <2>7. CASE RunOp(i)
    <3>1. loop[i].o >= 1
      BY <2>7 DEF RunOp, Threads
    <3>2. \/ loop' = [loop EXCEPT ![i].k = loop[i].k + 1]
          \/ loop' = [loop EXCEPT ![i].pc = "returned"]
      BY <2>7 DEF RunOp
    <3> QED  BY <1>1, <3>1, <3>2 DEF Loops
  <2>8. CASE NextSlot(i)
    <3>1. loop' = [loop EXCEPT ![i].pc = "set", ![i].o = loop[i].o + 1]
      BY <2>8 DEF NextSlot
    <3>2. loop[i].o \in Nat
      BY <1>1 DEF Loops
    <3> QED  BY <1>1, <3>1, <3>2 DEF Loops
  <2> QED
    BY <2>1, <2>2, <2>3, <2>4, <2>5, <2>6, <2>7, <2>8 DEF InScheduler
<1>4. \A k \in Server : loop'[k].pc # "out" => server[k].thread = "run"
  BY <1>2, <1>3 DEF Threads
<1>5. Threads'
  BY <1>3, <1>4 DEF Threads
<1> QED  BY <1>3, <1>5

LEMMA ThreadThreads ==
    ASSUME LInv, Threads, NEW i \in Server, Execute(i)
    PROVE  Threads'
<1>0. server \in [Server -> Servers] /\ loop \in [Server -> Loops]
  BY DEF LInv, Types
<1>1. CASE InScheduler(i) /\ UNCHANGED <<nextServerId, CURRENTSERVERID, conn, server>>
  BY <1>1, SchedulerThreads
<1>2. CASE Begin(i) \/ Enter(i) \/ While(i) \/ Returned(i) \/ After(i)
  <2>1. conn' = conn /\ server[i].thread \in Active
    BY <1>2 DEF Begin, Enter, While, Returned, After, ThreadAt, Active
  <2>2. /\ \A k \in Server : k # i => server'[k] = server[k] /\ loop'[k] = loop[k]
        /\ server'[i].thread \in {"enter", "while", "run", "after"} =>
               server'[i].state # "S_APP_SPEC"
        /\ loop'[i].pc # "out" => server'[i].thread = "run"
        /\ loop'[i].pc \notin {"set", "op", "forget", "count"}
    <3> USE DEF ThreadAt, ThreadGoto, At, Goto
    <3>1. server[i].thread # "run" => loop[i].pc = "out"
      BY DEF Threads
    <3>2. server[i].thread \in {"enter", "while", "run", "after"} =>
              server[i].state # "S_APP_SPEC"
      BY DEF Threads
    <3>3. CASE Begin(i)
      <4>1. PICK t \in {"enter", "done"} :
                t = IF server[i].state = "S_PLAN_GEN" THEN "enter" ELSE "done"
        OBVIOUS
      <4>2. /\ server[i].thread = "begin" /\ loop' = loop
            /\ server' = [server EXCEPT ![i].thread = t]
        BY <3>3, <4>1 DEF Begin, schedVars
      <4>3. server'[i].thread = t /\ server'[i].state = server[i].state
        BY <1>0, <4>2 DEF Servers
      <4> QED  BY <1>0, <3>1, <4>1, <4>2, <4>3
    <3>4. CASE Enter(i)
      <4>1. /\ server[i].thread = "enter" /\ loop' = loop
            /\ server' = [server EXCEPT ![i].thread = "while",
                              ![i].state = IF server[i].state = "S_PLAN_GEN" THEN "S_EXEC"
                                                                            ELSE server[i].state]
        BY <3>4 DEF Enter, schedVars
      <4>2. server'[i].state # "S_APP_SPEC"
        BY <1>0, <3>2, <4>1 DEF Servers
      <4> QED  BY <1>0, <3>1, <4>1, <4>2
    <3>5. CASE While(i)
      <4>1. CASE server[i].state = "S_EXEC"
        <5>1. server' = [server EXCEPT ![i].thread = "run"] /\ requestRun(i)
          BY <3>5, <4>1 DEF While
        <5>2. \/ \E r : loop' = [loop EXCEPT ![i].pc = "called", ![i].limit = r]
              \/ loop' = [loop EXCEPT ![i].pc = "returned"]
          BY <5>1 DEF requestRun
        <5>3. /\ \A k \in Server : k # i => loop'[k] = loop[k]
              /\ loop'[i].pc \in {"called", "returned"}
          <6>1. ASSUME NEW r, loop' = [loop EXCEPT ![i].pc = "called", ![i].limit = r]
                PROVE  /\ \A k \in Server : k # i => loop'[k] = loop[k]
                       /\ loop'[i].pc = "called"
            BY <1>0, <6>1 DEF Loops
          <6>2. CASE loop' = [loop EXCEPT ![i].pc = "returned"]
            BY <1>0, <6>2 DEF Loops
          <6> QED  BY <5>2, <6>1, <6>2
        <5>4. server'[i].thread = "run" /\ server'[i].state = server[i].state
          BY <1>0, <5>1 DEF Servers
        <5> QED  BY <1>0, <4>1, <5>1, <5>3, <5>4
      <4>2. CASE server[i].state # "S_EXEC"
        <5>1. /\ server[i].thread = "while" /\ loop' = loop
              /\ server' = [server EXCEPT ![i].thread = "done"]
          BY <3>5, <4>2 DEF While, schedVars
        <5>2. server'[i].thread = "done"
          BY <1>0, <5>1 DEF Servers
        <5> QED  BY <1>0, <3>1, <5>1, <5>2
      <4> QED  BY <4>1, <4>2
    <3>6. CASE Returned(i)
      <4>1. /\ server[i].thread = "run" /\ loop' = [loop EXCEPT ![i] = Outside]
            /\ \/ server' = [server EXCEPT ![i].thread = "after"]
               \/ server' = [server EXCEPT ![i].thread = "done"]
        BY <3>6 DEF Returned
      <4>2. server'[i].state = server[i].state
        BY <1>0, <4>1 DEF Servers
      <4>3. loop'[i].pc = "out"
        BY <1>0, <4>1 DEF Outside
      <4> QED  BY <1>0, <3>2, <4>1, <4>2, <4>3
    <3>7. CASE After(i)
      <4>1. /\ server[i].thread = "after" /\ loop' = loop
            /\ server' = [server EXCEPT ![i].thread = "while",
                              ![i].state = IF server[i].state = "S_EXEC" THEN "S_END"
                                                                        ELSE server[i].state]
        BY <3>7 DEF After, schedVars
      <4>2. server'[i].state # "S_APP_SPEC"
        BY <1>0, <3>2, <4>1 DEF Servers
      <4> QED  BY <1>0, <3>1, <4>1, <4>2
    <3> QED  BY <1>2, <3>3, <3>4, <3>5, <3>6, <3>7
  <2>3. ASSUME NEW k \in Server, server'[k].thread \in Active
        PROVE  \E d \in Conn : conn'[d].server = k /\ conn'[d].started
    <3>1. server[k].thread \in Active
      BY <2>1, <2>2, <2>3
    <3> QED  BY <2>1, <3>1 DEF Threads
  <2> QED  BY <2>1, <2>2, <2>3 DEF Threads
<1> QED  BY <1>1, <1>2 DEF Execute

LEMMA StepThreads == LInv /\ Threads /\ [Next]_vars => Threads'
<1> SUFFICES ASSUME LInv, Threads, [Next]_vars PROVE Threads'
  OBVIOUS
<1>1. CASE UNCHANGED vars
  BY <1>1 DEF Threads, vars, schedVars
<1>2. CASE \E c \in Conn : Command(c) \/ Handle(c)
  BY <1>2, ConnectionThreads
<1>3. CASE \E i \in Server : Execute(i)
  BY <1>3, ThreadThreads
<1> QED  BY <1>1, <1>2, <1>3 DEF Next

-----------------------------------------------------------------------------
(***************************************************************************)
(* The count of the sets.  With one command connection at a time whoever   *)
(* writes to a slot and then to the count is alone between the two: the    *)
(* connection adds operators only before its server's thread is in         *)
(* requestRun(), and waits for the thread before it makes another server.  *)
(* With several connections updates do get lost, so the theorems of this   *)
(* part have Alone for a hypothesis.                                       *)
(***************************************************************************)
Alone == \A c, d \in Conn : c = d

Used == Slot \ Free

Counts ==
    /\ \A c \in Conn : conn[c].pc = "addset" => conn[c].slot \in Free
    /\ \A c \in Conn : conn[c].pc = "count" =>
          conn[c].loaded = numOpSet /\ Cardinality(Used) = numOpSet + 1
    /\ \A i \in Server : loop[i].pc \in {"forget", "count"} => numOpSet = Cardinality(Used) + 1
    /\ \A i \in Server : loop[i].pc = "count" => loop[i].loaded = numOpSet
    /\ SetsCounted
    /\ StoppedMeansEmpty

UInv == LInv /\ Threads /\ Counts

LEMMA SmallMod == ASSUME NEW m \in Nat, NEW a \in 0 .. m - 1 PROVE a % m = a
  OBVIOUS

LEMMA UsedFacts ==
    /\ IsFiniteSet(Used)
    /\ Cardinality(Used) \in 0 .. MAXOPSET
    /\ Cardinality(Used) = 0 <=> Slot = Free
<1>1. MAXOPSET \in Nat /\ ~(1 > MAXOPSET) /\ 1 \in Int /\ MAXOPSET \in Int
  BY SchedulerAssumption
<1>2. IsFiniteSet(Slot) /\ Cardinality(Slot) = MAXOPSET
  <2>1. /\ IsFiniteSet(1 .. MAXOPSET)
        /\ Cardinality(1 .. MAXOPSET) = IF 1 > MAXOPSET THEN 0 ELSE MAXOPSET - 1 + 1
    BY <1>1, FS_Interval
  <2> QED  BY <1>1, <2>1 DEF Slot
<1>3. Used \in SUBSET Slot /\ (Used = {} <=> Slot = Free)
  BY DEF Used, Free, Owned
<1>4. IsFiniteSet(Used) /\ Cardinality(Used) <= Cardinality(Slot)
  BY <1>2, <1>3, FS_Subset
<1>5. Cardinality(Used) \in Nat
  BY <1>4, FS_CardinalityType
<1>6. Cardinality(Used) = 0 <=> Used = {}
  BY <1>4, FS_EmptySet
<1> QED  BY <1>1, <1>2, <1>3, <1>4, <1>5, <1>6

(***************************************************************************)
(* One thread at most is in requestRun(), and none while the connection    *)
(* adds operators.                                                         *)
(***************************************************************************)
LEMMA OneAtWork ==
    ASSUME Alone, LInv, Threads
    PROVE  /\ \A c \in Conn : Adding(c) => \A i \in Server : loop[i].pc = "out"
           /\ \A i, k \in Server : loop[i].pc # "out" /\ loop[k].pc # "out" => i = k
<1>1. ASSUME NEW i \in Server, loop[i].pc # "out"
      PROVE  /\ server[i].state # "S_APP_SPEC"
             /\ \A c \in Conn : conn[c].server = i
  BY <1>1 DEF Threads, Active, Alone
<1>2. ASSUME NEW c \in Conn, Adding(c), NEW i \in Server, loop[i].pc # "out" PROVE FALSE
  BY <1>1, <1>2 DEF LInv, AddingIsSpec
<1>3. ASSUME NEW i \in Server, NEW k \in Server, loop[i].pc # "out", loop[k].pc # "out"
      PROVE  i = k
  <2>1. PICK c \in Conn : conn[c].server = i
    BY <1>3 DEF Threads, Active
  <2> QED  BY <1>1, <1>3, <2>1
<1> QED  BY <1>2, <1>3

LEMMA InitCounts == Init => Counts
<1> SUFFICES ASSUME Init PROVE Counts
  OBVIOUS
<1>1. Slot = Free
  BY DEF Init, SchedulerInit, Free, Owned, Empty
<1>2. Cardinality(Used) = 0
  BY <1>1, UsedFacts
<1> QED
  BY <1>1, <1>2 DEF Init, SchedulerInit, Counts, SetsCounted, StoppedMeansEmpty, Counting, At,
                    NoConn, Outside, Used

LEMMA CountsKept ==
    ASSUME Counts, UNCHANGED <<opset, numOpSet, bStop>>,
           \A d \in Conn :
              /\ conn'[d].pc \in {"addset", "count", "resume"} =>
                    /\ conn[d].pc = conn'[d].pc
                    /\ conn[d].slot = conn'[d].slot
                    /\ conn[d].loaded = conn'[d].loaded
              /\ conn[d].pc \in {"count", "resume"} => conn'[d].pc = conn[d].pc,
           \A i \in Server :
              /\ loop'[i].pc \in {"forget", "count"} =>
                    loop[i].pc = loop'[i].pc /\ loop[i].loaded = loop'[i].loaded
              /\ loop[i].pc \in {"forget", "count"} => loop'[i].pc = loop[i].pc
    PROVE  Counts'
<1>1. Free' = Free /\ Used' = Used
  BY DEF Used, Free, Owned, Slot
<1>2. Counting' <=> Counting
  BY DEF Counting, ConnAt, At
<1>3. SetsCounted'
  <2>1. numOpSet' = numOpSet
    OBVIOUS
  <2> QED  BY <1>1, <1>2, <2>1 DEF Counts, SetsCounted, Used
<1>4. StoppedMeansEmpty'
  <2>1. bStop' = bStop /\ Slot' = Slot
    BY DEF Slot
  <2>2. (\A c \in Conn : ~ConnAt(c, "count")' /\ ~ConnAt(c, "resume")') =>
            \A c \in Conn : ~ConnAt(c, "count") /\ ~ConnAt(c, "resume")
    BY DEF ConnAt
  <2> QED  BY <1>1, <2>1, <2>2 DEF Counts, StoppedMeansEmpty
<1> QED  BY <1>1, <1>3, <1>4 DEF Counts

(***************************************************************************)
(* addOperator().                                                          *)
(***************************************************************************)
LEMMA AddingCounts ==
    ASSUME Alone, UInv, NEW c \in Conn,
           FindSlot(c) \/ WriteSlot(c) \/ CountSet(c) \/ Resume(c)
    PROVE  Counts'
<1> USE DEF ConnAt, ConnGoto, Its, At
<1>0. /\ conn \in [Conn -> Connections] /\ server \in [Server -> Servers]
      /\ opset \in [Slot -> [serverID : Maybe, ops : Seq(AllOps)]]
      /\ numOpSet \in 0 .. UIntRange - 1 /\ MAXOPSET \in Nat /\ UIntRange \in Nat
      /\ UIntRange > 2 * MAXOPSET
  BY SchedulerAssumption DEF UInv, LInv, Types
<1>1. Adding(c)
  BY DEF FindSlot, WriteSlot, CountSet, Resume, Adding
<1>2. \A i \in Server : loop[i].pc = "out" /\ loop'[i].pc = "out"
  <2>1. loop' = loop
    BY DEF FindSlot, WriteSlot, CountSet, Resume, schedVars
  <2> QED  BY <1>1, <2>1, OneAtWork DEF UInv
<1>3. \A d \in Conn : d = c
  BY DEF Alone
<1>4. Cardinality(Used) \in 0 .. MAXOPSET /\ IsFiniteSet(Used)
  BY UsedFacts
<1>5. conn[c].pc # "count" => numOpSet = Cardinality(Used)
  BY <1>2, <1>3 DEF UInv, Counts, SetsCounted, Counting, Used
<1>6. CASE FindSlot(c)
  <2> DEFINE id == server[conn[c].server].serverId
  <2>1. UNCHANGED <<opset, numOpSet, bStop>> /\ conn[c].pc = "find"
    BY <1>6 DEF FindSlot, schedVars
  <2>2. Free' = Free /\ Used' = Used
    BY <2>1 DEF Used, Free, Owned, Slot
  <2>3. /\ conn'[c].pc \in {"ready", "add", "addset"}
        /\ conn'[c].pc = "addset" => conn'[c].slot \in Free
    <3>1. CASE Owned(id) \cup Free = {}
      <4>1. conn' = [conn EXCEPT ![c].pc = "ready"]
        BY <1>6, <3>1 DEF FindSlot
      <4> QED  BY <1>0, <4>1 DEF Connections
    <3>2. CASE Owned(id) # {}
      <4>1. conn' = [conn EXCEPT ![c].slot = SlotFor(id), ![c].pc = "add"]
        BY <1>6, <3>2 DEF FindSlot
      <4> HIDE DEF id
      <4> QED  BY <1>0, <4>1 DEF Connections
    <3>3. CASE Owned(id) = {} /\ Free # {}
      <4>1. conn' = [conn EXCEPT ![c].slot = SlotFor(id), ![c].pc = "addset"]
        BY <1>6, <3>3 DEF FindSlot
      <4>2. SlotFor(id) = Min(Free)
        BY <3>3 DEF SlotFor
      <4>3. Free \subseteq Nat
        BY SchedulerAssumption DEF Free, Owned, Slot
      <4>4. SlotFor(id) \in Free
        BY <3>3, <4>2, <4>3, MinIsIn
      <4> HIDE DEF id
      <4>5. conn'[c].slot = SlotFor(id) /\ conn'[c].pc = "addset"
        BY <1>0, <4>1 DEF Connections
      <4> QED  BY <4>4, <4>5
    <3> QED  BY <3>1, <3>2, <3>3
  <2>4. SetsCounted'
    BY <1>5, <2>1, <2>2 DEF SetsCounted, Used
  <2>5. StoppedMeansEmpty'
    <3>1. bStop => Slot = Free
      BY <1>3, <2>1 DEF UInv, Counts, StoppedMeansEmpty
    <3> QED  BY <2>1, <2>2, <3>1 DEF StoppedMeansEmpty, Slot
  <2> QED  BY <1>2, <1>3, <2>2, <2>3, <2>4, <2>5 DEF Counts
<1>7. CASE WriteSlot(c) /\ conn[c].pc = "add"
  <2> DEFINE s == conn[c].slot
  <2>1. /\ UNCHANGED <<numOpSet, bStop>>
        /\ conn' = [conn EXCEPT ![c].pc = "resume"]
        /\ AddToSet(s, <<conn[c].server, conn[c].todo>>)
    BY <1>7 DEF WriteSlot
  <2>2. \A t \in Slot : opset'[t].serverID = opset[t].serverID
    <3>1. PICK os : opset' = [opset EXCEPT ![s].ops = os]
      BY <2>1 DEF AddToSet
    <3> HIDE DEF s
    <3> QED  BY <1>0, <3>1
  <2>3. Free' = Free /\ Used' = Used
    BY <2>2 DEF Used, Free, Owned, Slot
  <2>4. conn'[c].pc = "resume"
    BY <1>0, <2>1 DEF Connections
  <2>5. SetsCounted'
    BY <1>5, <1>7, <2>1, <2>3 DEF SetsCounted, Used
  <2>6. StoppedMeansEmpty'
    BY <2>4 DEF StoppedMeansEmpty
  <2> QED  BY <1>2, <1>3, <2>4, <2>5, <2>6 DEF Counts
<1>8. CASE WriteSlot(c) /\ conn[c].pc = "addset"
  <2> DEFINE s  == conn[c].slot
             id == server[conn[c].server].serverId
  <2>1. /\ UNCHANGED <<numOpSet, bStop>>
        /\ conn' = [conn EXCEPT ![c].pc = "count", ![c].loaded = numOpSet]
        /\ AddSet(s, id, <<conn[c].server, conn[c].todo>>)
    BY <1>8 DEF WriteSlot
  <2>2. s \in Free /\ s \in Slot
    BY <1>8 DEF UInv, Counts, Free, Owned
  <2>3. id \in Server
    BY <1>1 DEF UInv, LInv, AddingIsSpec
  <2>4. \A t \in Slot : opset'[t].serverID = IF t = s THEN id ELSE opset[t].serverID
    <3>1. PICK os : opset' = [opset EXCEPT ![s].serverID = id, ![s].ops = os]
      BY <2>1 DEF AddSet
    <3> HIDE DEF s, id
    <3>2. opset' = [opset EXCEPT ![s] = [opset[s] EXCEPT !.serverID = id, !.ops = os]]
      BY <1>0, <2>2, <3>1
    <3> QED  BY <1>0, <2>2, <3>2
  <2>5. Used' = Used \cup {s} /\ s \notin Used
    <3> HIDE DEF s, id
    <3> QED  BY <2>2, <2>3, <2>4, NoServerIsNone DEF Used, Free, Owned, Slot
  <2>6. Cardinality(Used') = numOpSet + 1
    <3>1. numOpSet = Cardinality(Used)
      BY <1>5, <1>8
    <3> QED  BY <1>4, <2>5, <3>1, FS_AddElement
  <2>7. conn'[c].pc = "count" /\ conn'[c].loaded = numOpSet
    BY <1>0, <2>1 DEF Connections
  <2>8. Counting' /\ StoppedMeansEmpty'
    BY <2>7 DEF Counting, StoppedMeansEmpty
  <2> QED  BY <1>2, <1>3, <2>1, <2>6, <2>7, <2>8 DEF Counts, SetsCounted
<1>9. CASE CountSet(c)
  <2>1. /\ UNCHANGED <<opset, bStop>> /\ conn[c].pc = "count"
        /\ numOpSet' = Counted(conn[c].loaded)
        /\ conn' = [conn EXCEPT ![c].pc = "resume"]
    BY <1>9 DEF CountSet
  <2>2. Free' = Free /\ Used' = Used
    BY <2>1 DEF Used, Free, Owned, Slot
  <2>3. conn[c].loaded = numOpSet /\ Cardinality(Used) = numOpSet + 1
    BY <2>1 DEF UInv, Counts
  <2>4. numOpSet' = Cardinality(Used)
    <3>1. numOpSet + 1 \in 0 .. UIntRange - 1
      BY <1>0, <1>4, <2>3
    <3>2. (numOpSet + 1) % UIntRange = numOpSet + 1
      BY <1>0, <3>1, SmallMod
    <3> QED  BY <2>1, <2>3, <3>2 DEF Counted
  <2>5. conn'[c].pc = "resume"
    BY <1>0, <2>1 DEF Connections
  <2>6. SetsCounted' /\ StoppedMeansEmpty'
    BY <2>2, <2>4, <2>5 DEF SetsCounted, StoppedMeansEmpty, Used
  <2> QED  BY <1>2, <1>3, <2>5, <2>6 DEF Counts
<1>10. CASE Resume(c)
  <2>1. /\ UNCHANGED <<opset, numOpSet>> /\ ~bStop' /\ conn[c].pc = "resume"
    BY <1>10 DEF Resume, resume
  <2>2. conn'[c].pc \in {"ready", "find"}
    <3>1. PICK pc \in {"ready", "find"} :
              pc = IF conn[c].todo = OpsPerServer THEN "ready" ELSE "find"
      OBVIOUS
    <3>2. conn' = [conn EXCEPT ![c].pc = pc, ![c].todo = conn[c].todo + 1]
      BY <1>10, <3>1 DEF Resume
    <3> QED  BY <1>0, <3>2 DEF Connections
  <2>3. Free' = Free /\ Used' = Used
    BY <2>1 DEF Used, Free, Owned, Slot
  <2>4. SetsCounted' /\ StoppedMeansEmpty'
    BY <1>5, <2>1, <2>3 DEF SetsCounted, StoppedMeansEmpty, Used
  <2> QED  BY <1>2, <1>3, <2>2, <2>4 DEF Counts
<1>11. WriteSlot(c) => conn[c].pc \in {"add", "addset"}
  BY DEF WriteSlot
<1> QED  BY <1>6, <1>7, <1>8, <1>9, <1>10, <1>11

(***************************************************************************)
(* The other steps of the connections leave slots and counts alone.        *)
(***************************************************************************)
LEMMA CommandCounts ==
    ASSUME UInv, NEW c \in Conn,
           Command(c) \/ initServer(c) \/ Join(c) \/ DeleteServer(c)
    PROVE  Counts'
<1> USE DEF ConnAt, ConnGoto, Its
<1>0. conn \in [Conn -> Connections]
  BY DEF UInv, LInv, Types
<1>1. UNCHANGED <<opset, numOpSet, bStop, loop>>
  BY DEF Command, initServer, handle_end_app, handle_execute, handle_reset, Join, DeleteServer,
         schedVars
<1>2. /\ conn[c].pc \in {"new", "ready", "join", "delete"}
      /\ conn'[c].pc \in {"ready", "find", "join", "delete", "ended", "new"}
      /\ \A d \in Conn : d # c => conn'[d] = conn[d]
  <2>1. CASE initServer(c)
    BY <1>0, <2>1 DEF initServer, Connections
  <2>2. CASE handle_end_app(c)
    BY <1>0, <2>2 DEF handle_end_app, Connections
  <2>3. CASE handle_execute(c)
    BY <1>0, <2>3 DEF handle_execute, Connections
  <2>4. CASE handle_reset(c)
    <3>1. PICK ends \in BOOLEAN, pc \in {"join", "delete"} :
              conn' = [conn EXCEPT ![c].pc = pc, ![c].ends = ends]
      BY <2>4 DEF handle_reset
    <3>2. conn[c].pc = "ready"
      BY <2>4 DEF handle_reset
    <3> QED  BY <1>0, <3>1, <3>2 DEF Connections
  <2>5. CASE Join(c)
    BY <1>0, <2>5 DEF Join, Connections
  <2>6. CASE DeleteServer(c)
    <3>1. PICK pc \in {"ended", "new"} : conn' = [conn EXCEPT ![c].pc = pc]
      BY <2>6 DEF DeleteServer
    <3>2. conn[c].pc = "delete"
      BY <2>6 DEF DeleteServer
    <3> QED  BY <1>0, <3>1, <3>2 DEF Connections
  <2> QED  BY <2>1, <2>2, <2>3, <2>4, <2>5, <2>6 DEF Command
<1> QED  BY <1>1, <1>2, CountsKept DEF UInv

(***************************************************************************)
(* A thread counts a deletion while nobody else is counting.               *)
(***************************************************************************)
LEMMA DeletionCounts ==
    ASSUME Alone, UInv, NEW i \in Server, UNCHANGED conn,
           DeleteSet(i) \/ ForgetRequest(i) \/ CountDeletion(i)
    PROVE  Counts'
<1> USE DEF At, Goto
<1>0. /\ loop \in [Server -> Loops] /\ MAXOPSET \in Nat /\ UIntRange \in Nat
      /\ opset \in [Slot -> [serverID : Maybe, ops : Seq(AllOps)]]
      /\ numOpSet \in 0 .. UIntRange - 1
  BY SchedulerAssumption DEF UInv, LInv, Types
<1>1. loop[i].pc \in {"set", "forget", "count"}
  BY DEF DeleteSet, ForgetRequest, CountDeletion
<1>2. /\ \A c \in Conn : ~Adding(c)
      /\ \A k \in Server : k # i => loop[k].pc = "out"
  BY <1>1, OneAtWork DEF UInv
<1>3. Cardinality(Used) \in 0 .. MAXOPSET /\ IsFiniteSet(Used)
  BY UsedFacts
<1>4. \A c \in Conn : conn'[c].pc \notin {"addset", "count", "resume"}
  BY <1>2 DEF Adding
<1>5. loop[i].pc = "set" => numOpSet = Cardinality(Used)
  BY <1>2, <1>4 DEF UInv, Counts, SetsCounted, Counting, ConnAt, Used
<1>6. bStop => Slot = Free
  BY <1>4 DEF UInv, Counts, StoppedMeansEmpty, ConnAt
<1>7. CASE DeleteSet(i)
  <2> DEFINE o == loop[i].o
  <2>1. /\ loop[i].pc = "set" /\ InRound(o)
        /\ opset' = [opset EXCEPT ![o] = Empty]
        /\ loop' = [loop EXCEPT ![i].pc = "forget"]
        /\ UNCHANGED <<numOpSet, bStop>>
    BY <1>7 DEF DeleteSet
  <2>2. o \in Slot /\ opset[o].serverID # NoServer
    <3>1. o \in Nat /\ o >= 1
      BY <1>0, <2>1 DEF Loops, UInv, Threads
    <3> QED  BY <1>0, <2>1, <3>1 DEF InRound, Slot
  <2>3. Used' = Used \ {o} /\ o \in Used
    <3>1. \A t \in Slot : opset'[t].serverID = IF t = o THEN NoServer ELSE opset[t].serverID
      <4> HIDE DEF o
      <4> QED  BY <1>0, <2>1, <2>2 DEF Empty
    <3> HIDE DEF o
    <3> QED  BY <2>2, <3>1 DEF Used, Free, Owned, Slot
  <2>4. numOpSet = Cardinality(Used') + 1
    <3>1. Cardinality(Used') = Cardinality(Used) - 1
      BY <1>3, <2>3, FS_RemoveElement
    <3> QED  BY <1>3, <1>5, <2>1, <3>1
  <2>5. /\ loop'[i].pc = "forget"
        /\ \A k \in Server : k # i => loop'[k] = loop[k]
    BY <1>0, <2>1 DEF Loops
  <2>6. Counting' /\ ~bStop'
    BY <1>6, <2>1, <2>3, <2>5 DEF Counting, Used
  <2> QED
    BY <1>2, <1>4, <2>1, <2>4, <2>5, <2>6 DEF Counts, SetsCounted, StoppedMeansEmpty
<1>8. CASE ForgetRequest(i)
  <2>1. /\ loop[i].pc = "forget"
        /\ loop' = [loop EXCEPT ![i].pc = "count", ![i].loaded = numOpSet]
        /\ UNCHANGED <<opset, numOpSet, bStop>>
    BY <1>8 DEF ForgetRequest
  <2>2. Free' = Free /\ Used' = Used
    BY <2>1 DEF Used, Free, Owned, Slot
  <2>3. /\ loop'[i].pc = "count" /\ loop'[i].loaded = numOpSet
        /\ \A k \in Server : k # i => loop'[k] = loop[k]
    BY <1>0, <2>1 DEF Loops
  <2>4. numOpSet = Cardinality(Used) + 1
    BY <2>1 DEF UInv, Counts
  <2>5. Counting' /\ StoppedMeansEmpty'
    BY <1>6, <2>1, <2>2, <2>3 DEF Counting, StoppedMeansEmpty, Slot
  <2> QED
    BY <1>2, <1>4, <2>1, <2>2, <2>3, <2>4, <2>5 DEF Counts, SetsCounted
<1>9. CASE CountDeletion(i)
  <2> DEFINE n == (loop[i].loaded - 1) % UIntRange
  <2>1. /\ loop[i].pc = "count"
        /\ numOpSet' = n
        /\ bStop' = (bStop \/ n = 0)
        /\ loop' = [loop EXCEPT ![i].pc = "op", ![i].k = 1]
        /\ opset' = opset
    BY <1>9 DEF CountDeletion, StopsAt
  <2>2. Free' = Free /\ Used' = Used
    BY <2>1 DEF Used, Free, Owned, Slot
  <2>3. loop[i].loaded = numOpSet /\ numOpSet = Cardinality(Used) + 1
    BY <2>1 DEF UInv, Counts
  <2>4. n = Cardinality(Used)
    <3>1. /\ loop[i].loaded - 1 = Cardinality(Used)
          /\ Cardinality(Used) \in 0 .. UIntRange - 1
      BY <1>0, <1>3, <2>3
    <3> QED  BY <1>0, <3>1, SmallMod
  <2> HIDE DEF n
  <2>5. /\ loop'[i].pc = "op"
        /\ \A k \in Server : k # i => loop'[k] = loop[k]
    BY <1>0, <2>1 DEF Loops
  <2>6. SetsCounted'
    BY <2>1, <2>2, <2>4 DEF SetsCounted, Used
  <2>7. StoppedMeansEmpty'
    <3>1. bStop' => Slot = Free
      BY <1>6, <2>1, <2>4, UsedFacts
    <3> QED  BY <2>2, <3>1 DEF StoppedMeansEmpty, Slot
  <2> QED  BY <1>2, <1>4, <2>5, <2>6, <2>7 DEF Counts
<1> QED  BY <1>7, <1>8, <1>9

LEMMA ThreadCounts ==
    ASSUME Alone, UInv, NEW i \in Server, Execute(i)
    PROVE  Counts'
<1> USE DEF At, Goto
<1>0. loop \in [Server -> Loops]
  BY DEF UInv, LInv, Types
<1>1. CASE conn' = conn /\ (DeleteSet(i) \/ ForgetRequest(i) \/ CountDeletion(i))
  BY <1>1, DeletionCounts
<1>2. CASE EnterRun(i) /\ conn' = conn
  <2>1. loop' = [loop EXCEPT ![i].pc = "round"] /\ loop[i].pc = "called"
        /\ UNCHANGED <<opset, numOpSet, bStop>>
    BY <1>2 DEF EnterRun
  <2>2. loop'[i].pc = "round" /\ \A k \in Server : k # i => loop'[k] = loop[k]
    BY <1>0, <2>1 DEF Loops
  <2> QED  BY <1>2, <2>1, <2>2, CountsKept DEF UInv
<1>3. CASE (Round(i) \/ Visit(i)) /\ conn' = conn
  <2>1. UNCHANGED <<opset, numOpSet, bStop>> /\ loop[i].pc \in {"round", "set"}
    BY <1>3 DEF Round, Visit
  <2>2. /\ loop'[i].pc \in {"returned", "set", "op", "round"}
        /\ \A k \in Server : k # i => loop'[k] = loop[k]
    <3>1. CASE Round(i)
      BY <1>0, <3>1 DEF Round, Loops
    <3>2. CASE Visit(i)
      BY <1>0, <3>2 DEF Visit, Loops
    <3> QED  BY <1>3, <3>1, <3>2
  <2> QED  BY <1>3, <2>1, <2>2, CountsKept DEF UInv
<1>4. CASE (RunOp(i) \/ NextSlot(i)) /\ conn' = conn
  <2>1. UNCHANGED <<opset, numOpSet, bStop>> /\ loop[i].pc = "op"
    BY <1>4 DEF RunOp, NextSlot
  <2>2. \/ loop' = [loop EXCEPT ![i].k = loop[i].k + 1]
        \/ loop' = [loop EXCEPT ![i].pc = "returned"]
        \/ loop' = [loop EXCEPT ![i].pc = "set", ![i].o = loop[i].o + 1]
    BY <1>4 DEF RunOp, NextSlot
  <2>3. /\ loop'[i].pc \in {"returned", "set", "op"}
        /\ \A k \in Server : k # i => loop'[k] = loop[k]
    BY <1>0, <2>1, <2>2 DEF Loops
  <2> QED  BY <1>4, <2>1, <2>3, CountsKept DEF UInv
<1>5. CASE Begin(i) \/ Enter(i) \/ While(i) \/ Returned(i) \/ After(i)
  <2>1. UNCHANGED <<opset, numOpSet, bStop, conn>>
    BY <1>5 DEF Begin, Enter, While, Returned, After, requestRun, schedVars
  <2>2. \/ loop' = loop
        \/ loop[i].pc = "returned" /\ loop' = [loop EXCEPT ![i] = Outside]
        \/ loop[i].pc = "out" /\ loop' = [loop EXCEPT ![i].pc = "returned"]
        \/ loop[i].pc = "out" /\ \E r : loop' = [loop EXCEPT ![i].pc = "called", ![i].limit = r]
    BY <1>5 DEF Begin, Enter, While, Returned, After, requestRun, schedVars
  <2>3. CASE loop' = loop
    BY <2>1, <2>3, CountsKept DEF UInv
  <2>4. CASE loop' # loop
    <3>1. loop[i].pc \in {"returned", "out"}
      BY <2>2, <2>4
    <3>2. /\ loop'[i].pc \in {"out", "returned", "called"}
          /\ \A k \in Server : k # i => loop'[k] = loop[k]
      <4>1. CASE loop' = [loop EXCEPT ![i] = Outside]
        BY <1>0, <4>1 DEF Outside
      <4>2. CASE loop' = [loop EXCEPT ![i].pc = "returned"]
        BY <1>0, <4>2 DEF Loops
      <4>3. ASSUME NEW r, loop' = [loop EXCEPT ![i].pc = "called", ![i].limit = r]
            PROVE  /\ loop'[i].pc = "called"
                   /\ \A k \in Server : k # i => loop'[k] = loop[k]
        BY <1>0, <4>3 DEF Loops
      <4> QED  BY <2>2, <2>4, <4>1, <4>2, <4>3
    <3> QED  BY <2>1, <3>1, <3>2, CountsKept DEF UInv
  <2> QED  BY <2>3, <2>4
<1> QED
  BY <1>1, <1>2, <1>3, <1>4, <1>5 DEF Execute, InScheduler

LEMMA StepCounts == ASSUME Alone PROVE UInv /\ [Next]_vars => UInv'
<1> SUFFICES ASSUME UInv, [Next]_vars PROVE UInv'
  OBVIOUS
<1>1. LInv' /\ Threads'
  BY StepInv, StepThreads DEF UInv
<1>2. CASE UNCHANGED vars
  <2>1. UNCHANGED <<opset, numOpSet, bStop, conn, loop>>
    BY <1>2 DEF vars, schedVars
  <2> QED  BY <1>1, <2>1, CountsKept DEF UInv
<1>3. CASE \E c \in Conn : Command(c) \/ Handle(c)
  <2>1. PICK c \in Conn : Command(c) \/ Handle(c)
    BY <1>3
  <2>2. CASE FindSlot(c) \/ WriteSlot(c) \/ CountSet(c) \/ Resume(c)
    BY <1>1, <2>2, AddingCounts DEF UInv
  <2>3. CASE Command(c) \/ initServer(c) \/ Join(c) \/ DeleteServer(c)
    BY <1>1, <2>3, CommandCounts DEF UInv
  <2> QED  BY <2>1, <2>2, <2>3 DEF Handle
<1>4. CASE \E i \in Server : Execute(i)
  BY <1>1, <1>4, ThreadCounts DEF UInv
<1> QED  BY <1>2, <1>3, <1>4 DEF Next

LEMMA CountsInvariance == ASSUME Alone PROVE Spec => []UInv
<1>1. Init => UInv
  BY InitInv, InitThreads, InitCounts DEF UInv
<1>2. UInv /\ [Next]_vars => UInv'
  BY StepCounts
<1> QED  BY <1>1, <1>2, PTL DEF Spec

(***************************************************************************)
(* With one command connection numOpSet, which run() trusts for the end of *)
(* a round and addOperator() and run() update without a lock, is the       *)
(* number of slots in use, for any number of slots, operators and servers, *)
(* whatever the servers' threads were doing when a server was made,        *)
(* stopped or deleted.                                                     *)
(***************************************************************************)
THEOREM SetsAreCounted == ASSUME Alone PROVE Spec => []SetsCounted
<1>1. UInv => SetsCounted
  BY DEF UInv, Counts
<1> QED  BY <1>1, CountsInvariance, PTL

(***************************************************************************)
(* With one command connection the scheduler stops only when the last set  *)
(* was deleted: a server whose operators are in a slot is never stranded   *)
(* by the deletion of another.                                             *)
(***************************************************************************)
THEOREM StopsWhenEmpty == ASSUME Alone PROVE Spec => []StoppedMeansEmpty
<1>1. UInv => StoppedMeansEmpty
  BY DEF UInv, Counts
<1> QED  BY <1>1, CountsInvariance, PTL

=============================================================================
