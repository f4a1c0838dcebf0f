--------------------------- MODULE PipelineProofs ---------------------------
(***************************************************************************)
(* Theorems about Pipeline, for every plan that the plan manager builds,   *)
(* whatever the operators, their parameters and the size of the queues:    *)
(* no operator goes back on a promise of its output, and none enqueues     *)
(* without space.  First the operators with two inputs.                    *)
(***************************************************************************)
EXTENDS OperatorProofs

-----------------------------------------------------------------------------
(***************************************************************************)
(* The operators with two inputs: what they share (Merge.tla).             *)
(***************************************************************************)
LEMMA MergeFacts ==
  ASSUME IInv, NEW o \in query, Plan[o].kind \in Merging
  PROVE  /\ o \in Op /\ HasOutput(o) /\ Ports(o) = Sides
         /\ query \in Queries /\ FlowOK(query, flow) /\ Promise(o, flow) \in Nat
         /\ DOMAIN op = query
         /\ MergeInv(o, op[o], flow)
         /\ running = o => MergeRuns(o, op[o], flow, slice)
<1>1. o \in Op /\ query \in Queries /\ FlowOK(query, flow) /\ OpInv(o, op[o], flow) /\ DOMAIN op = query
      /\ (running = o => RunInv(o, op[o], flow, slice))
  BY Base
<1>2. HasOutput(o) /\ Ports(o) = Sides
  BY <1>1, KindFacts DEF Merging, Terminal
<1>3. Promise(o, flow) \in Nat
  BY <1>1, <1>2, OutOK, FlowFields DEF Promise
<1>4. CASE Plan[o].kind \in {"union", "except"}
  <2>1. MergeInv(o, op[o], flow)
    BY <1>1, <1>4, OpInvIs
  <2>2. running = o => MergeRuns(o, op[o], flow, slice)
    BY <1>1, <1>4, RunInvIs
  <2> QED BY <1>1, <1>2, <1>3, <2>1, <2>2
<1>5. CASE Plan[o].kind = "join"
  <2>1. MergeInv(o, op[o], flow)
    BY <1>1, <1>5, OpInvIs DEF JoinInv
  <2>2. running = o => MergeRuns(o, op[o], flow, slice)
    BY <1>1, <1>5, RunInvIs
  <2> QED BY <1>1, <1>2, <1>3, <2>1, <2>2
<1>6. CASE Plan[o].kind = "streamjoin"
  <2>1. MergeInv(o, op[o], flow)
    BY <1>1, <1>6, OpInvIs DEF StreamJoinInv
  <2>2. running = o => MergeRuns(o, op[o], flow, slice)
    BY <1>1, <1>6, RunInvIs
  <2> QED BY <1>1, <1>2, <1>3, <2>1, <2>2
<1> QED BY <1>4, <1>5, <1>6 DEF Merging

LEMMA MergeTypes ==
  ASSUME NEW o, NEW s, NEW f, MergeInv(o, s, f)
  PROVE  /\ s.lastTs \in [Sides -> Nat] /\ s.minTs \in [Sides -> Nat]
         /\ \A side \in Sides : s.lastTs[side] \in Nat /\ s.minTs[side] \in Nat
BY DEF MergeInv

LEMMA OtherSide ==
  ASSUME NEW side \in Sides
  PROVE  /\ Other(side) \in Sides /\ Other(side) # side /\ Sides = {side, Other(side)}
BY DEF Sides, Other

(* No input brings an element older than minTs, nor than the promise.      *)
LEMMA MinTsFacts ==
  ASSUME IInv, NEW o \in query, Plan[o].kind \in Merging, running = o
  PROVE  /\ MinTs(o) \in [Sides -> Nat]
         /\ \A side \in Sides :
               /\ MinTs(o)[side] \in Nat
               /\ isEmpty(flow, Input(o, side)) => MinTs(o)[side] = op[o].lastTs[side]
               /\ ~isEmpty(flow, Input(o, side)) =>
                     MinTs(o)[side] = peek(flow, Input(o, side)).timestamp
               /\ Promise(o, flow) <= MinTs(o)[side]
<1>1. /\ o \in Op /\ HasOutput(o) /\ Ports(o) = Sides /\ query \in Queries
      /\ FlowOK(query, flow) /\ Promise(o, flow) \in Nat
      /\ MergeInv(o, op[o], flow) /\ MergeRuns(o, op[o], flow, slice)
  BY MergeFacts
<1>2. ASSUME NEW side \in Sides
      PROVE  /\ MinTs(o)[side] \in Nat
             /\ isEmpty(flow, Input(o, side)) => MinTs(o)[side] = op[o].lastTs[side]
             /\ ~isEmpty(flow, Input(o, side)) => MinTs(o)[side] = peek(flow, Input(o, side)).timestamp
             /\ Promise(o, flow) <= MinTs(o)[side]
  <2>1. op[o].lastTs[side] \in Nat /\ op[o].minTs[side] \in Nat
    BY <1>1, MergeTypes
  <2>2. AtLeast(o, op[o], flow, side, Promise(o, flow))
    BY <1>1 DEF MergeInv
  <2>3. CASE isEmpty(flow, Input(o, side))
    <3>1. MinTs(o)[side] = op[o].minTs[side] /\ op[o].minTs[side] = op[o].lastTs[side]
      BY <1>1, <2>3 DEF MinTs, MergeRuns
    <3>2. Promise(o, flow) <= op[o].lastTs[side]
      BY <2>2, <2>3 DEF AtLeast
    <3> QED BY <2>1, <2>3, <3>1, <3>2
  <2>4. CASE ~isEmpty(flow, Input(o, side))
    <3>1. MinTs(o)[side] = peek(flow, Input(o, side)).timestamp
      BY <2>4 DEF MinTs
    <3>2. Promise(o, flow) <= peek(flow, Input(o, side)).timestamp
      BY <2>2, <2>4 DEF AtLeast
    <3>3. peek(flow, Input(o, side)).timestamp \in Nat
      BY <1>1, <2>4, PeekFacts DEF Input
    <3> QED BY <2>4, <3>1, <3>2, <3>3
  <2> QED BY <2>3, <2>4
<1>3. MinTs(o) = [side \in Sides |-> MinTs(o)[side]]
  BY DEF MinTs
<1>4. MinTs(o) \in [Sides -> Nat]
  BY <1>2, <1>3
<1> QED BY <1>2, <1>4

(* What the operator sends leaves its inputs alone.                        *)
LEMMA MergePut ==
  ASSUME NEW ops \in Queries, NEW o \in ops, HasOutput(o), Ports(o) = Sides, NEW f, NEW g,
         Put(ops, Plan[o].out, f, g)
  PROVE  /\ \A s, side, ts : side \in Sides =>
               (AtLeast(o, s, g, side, ts) <=> AtLeast(o, s, f, side, ts))
         /\ \A s : MergeInv(o, s, f) /\ (\A side \in Sides : AtLeast(o, s, f, side, Promise(o, g)))
                      => MergeInv(o, s, g)
<1>1. \A side \in Sides :
         /\ \A ts : NotBefore(g, Input(o, side), ts) <=> NotBefore(f, Input(o, side), ts)
         /\ isEmpty(g, Input(o, side)) <=> isEmpty(f, Input(o, side))
         /\ peek(g, Input(o, side)) = peek(f, Input(o, side))
  BY PutKeepsInput DEF Input
<1>2. ASSUME NEW s, NEW side \in Sides, NEW ts
      PROVE  AtLeast(o, s, g, side, ts) <=> AtLeast(o, s, f, side, ts)
  BY <1>1 DEF AtLeast
<1>3. ASSUME NEW s, MergeInv(o, s, f), \A side \in Sides : AtLeast(o, s, f, side, Promise(o, g))
      PROVE  MergeInv(o, s, g)
  BY <1>1, <1>2, <1>3 DEF MergeInv
<1> QED BY <1>2, <1>3

(* The order of a run's first step.                                        *)
LEMMA RunsAtFirst ==
  ASSUME NEW ops \in Queries, NEW o \in ops, Ports(o) = Sides, NEW s, NEW r, NEW f, FlowOK(ops, f),
         MergeInv(o, s, f), DOMAIN r = DOMAIN s, r.lastTs = s.lastTs, r.minTs = s.lastTs
  PROVE  MergeInv(o, r, f) /\ MergeRuns(o, r, f, TimeSlice)
<1>1. MergeInv(o, r, f)
  <2>1. \A side \in Sides : AtLeast(o, r, f, side, Promise(o, f))
    BY DEF MergeInv, AtLeast
  <2> QED BY <2>1 DEF MergeInv
<1>2. ASSUME NEW side \in Sides, ~isEmpty(f, Input(o, side))
      PROVE  r.minTs[side] <= peek(f, Input(o, side)).timestamp
  <2>1. NotBefore(f, Input(o, side), s.lastTs[side])
    BY DEF MergeInv
  <2> QED BY <1>2, <2>1, PeekFacts DEF Input
<1>3. ~(TimeSlice < TimeSlice)
  BY SizesAssumption
<1> QED BY <1>1, <1>2, <1>3 DEF MergeRuns

LEMMA MergeBegins ==
  ASSUME IInv, NEW o \in query, Plan[o].kind \in Merging, MergeBegin(o)
  PROVE  /\ flow' = flow /\ running' = o /\ slice' = TimeSlice /\ slice' \in 0 .. TimeSlice
         /\ DOMAIN op' = query /\ \A p \in query \ {o} : op'[p] = op[p]
         /\ Moved(query, o, flow, flow')
         /\ DOMAIN op'[o] = DOMAIN op[o]
         /\ \A x \in DOMAIN op[o] \ {"minTs"} : op'[o][x] = op[o][x]
         /\ MergeInv(o, op'[o], flow) /\ MergeRuns(o, op'[o], flow, TimeSlice)
<1>1. /\ Ports(o) = Sides /\ query \in Queries /\ FlowOK(query, flow)
      /\ MergeInv(o, op[o], flow) /\ DOMAIN op = query
  BY MergeFacts
<1>2. Begin(o) /\ flow' = flow /\ op' = [op EXCEPT ![o].minTs = op[o].lastTs]
  BY DEF MergeBegin
<1>3. running' = o /\ slice' = TimeSlice /\ slice' \in 0 .. TimeSlice
  BY <1>2, Control
<1>4. /\ DOMAIN op' = query /\ \A p \in query \ {o} : op'[p] = op[p]
      /\ DOMAIN op'[o] = DOMAIN op[o]
      /\ \A x \in DOMAIN op[o] \ {"minTs"} : op'[o][x] = op[o][x]
  BY <1>1, <1>2
<1>5. DOMAIN op[o] = DOMAIN InitialState(Plan[o].kind)
  BY <1>1 DEF MergeInv
<1>6. "minTs" \in DOMAIN op[o] /\ "lastTs" \in DOMAIN op[o]
  BY <1>5 DEF InitialState, Merging, UnionInit, ExceptInit, BinaryJoinInit, BinStreamJoinInit
<1>7. op'[o].minTs = op[o].lastTs /\ op'[o].lastTs = op[o].lastTs
  BY <1>1, <1>2, <1>4, <1>6
<1>8. MergeInv(o, op'[o], flow) /\ MergeRuns(o, op'[o], flow, TimeSlice)
  <2>1. PICK r : r = op'[o]
    OBVIOUS
  <2>2. MergeInv(o, r, flow) /\ MergeRuns(o, r, flow, TimeSlice)
    BY <1>1, <1>4, <1>7, <2>1, RunsAtFirst
  <2> QED BY <2>1, <2>2
<1>9. Moved(query, o, flow, flow')
  BY <1>1, <1>2, NothingMoves
<1> QED BY <1>2, <1>3, <1>4, <1>8, <1>9

(***************************************************************************)
(* An element e is read of a side that may bring nothing older than the    *)
(* other one; what is sent on is not newer than e.                         *)
(***************************************************************************)
InTurn(o, side) ==
    ~isEmpty(flow, Input(o, side)) /\ MinTs(o)[side] <= MinTs(o)[Other(side)]

LEMMA MergeReads ==
  ASSUME IInv, NEW o \in query, Plan[o].kind \in Merging, running = o,
         NEW side \in Sides, InTurn(o, side), NEW ts, ts = peek(flow, Input(o, side)).timestamp,
         NEW g, Put(query, Plan[o].out, dequeue(flow, Input(o, side)), g), Promise(o, g) <= ts,
         NEW r, DOMAIN r = DOMAIN op[o], r.lastTs = [op[o].lastTs EXCEPT ![side] = ts]
  PROVE  /\ Moved(query, o, flow, g)
         /\ \A port \in Sides : AtLeast(o, r, g, port, ts)
         /\ r.minTs \in {MinTs(o), Zero} => MergeInv(o, r, g)
         /\ \A left : r.minTs = MinTs(o) => MergeRuns(o, r, g, left)
<1> DEFINE i == Input(o, side)
           h == dequeue(flow, i)
<1>1. /\ o \in Op /\ HasOutput(o) /\ Ports(o) = Sides /\ query \in Queries
      /\ FlowOK(query, flow) /\ Promise(o, flow) \in Nat /\ MergeInv(o, op[o], flow)
  BY MergeFacts
<1>2. ~isEmpty(flow, i) /\ i = Plan[o][side] /\ side \in Ports(o) /\ MinTs(o)[side] <= MinTs(o)[Other(side)]
  BY <1>1 DEF InTurn, Input
<1>3. /\ FlowOK(query, h) /\ Promise(o, h) = Promise(o, flow) /\ ts \in Nat
      /\ Moved(query, o, flow, g) /\ FlowOK(query, g) /\ Promise(o, g) \in Nat
      /\ NotBefore(g, i, ts)
  BY <1>1, <1>2, Taking
<1>4. /\ Read(query, o, flow, h)
      /\ \A port \in Sides \ {side} : Pending(h, Input(o, port)) = Pending(flow, Input(o, port))
  BY <1>1, <1>2, DequeueReads DEF Input
<1>5. \A port \in Sides : Pending(g, Input(o, port)) = Pending(h, Input(o, port))
  BY <1>1, PutKeepsInput DEF Input
<1>6. /\ Other(side) \in Sides /\ Other(side) # side
      /\ \A port \in Sides : port = side \/ port = Other(side)
  BY OtherSide
<1>7. Pending(g, Input(o, Other(side))) = Pending(flow, Input(o, Other(side)))
  BY <1>4, <1>5, <1>6
<1>8. /\ isEmpty(g, Input(o, Other(side))) <=> isEmpty(flow, Input(o, Other(side)))
      /\ peek(g, Input(o, Other(side))) = peek(flow, Input(o, Other(side)))
  BY <1>7 DEF isEmpty, peek
<1>9. /\ op[o].lastTs \in [Sides -> Nat] /\ op[o].lastTs[Other(side)] \in Nat
      /\ r.lastTs[side] = ts /\ r.lastTs[Other(side)] = op[o].lastTs[Other(side)]
      /\ r.lastTs \in [Sides -> Nat]
  BY <1>1, <1>3, <1>6, MergeTypes
<1>10. /\ MinTs(o) \in [Sides -> Nat] /\ MinTs(o)[side] = ts /\ MinTs(o)[Other(side)] \in Nat
       /\ isEmpty(flow, Input(o, Other(side))) => MinTs(o)[Other(side)] = op[o].lastTs[Other(side)]
       /\ ~isEmpty(flow, Input(o, Other(side))) =>
             MinTs(o)[Other(side)] = peek(flow, Input(o, Other(side))).timestamp
       /\ Promise(o, flow) <= ts
  BY <1>2, <1>6, MinTsFacts
<1>11. ts <= MinTs(o)[Other(side)]
  BY <1>2, <1>10
<1> HIDE DEF h
<1>12. ~isEmpty(g, i) => ts <= peek(g, i).timestamp /\ peek(g, i).timestamp \in Nat
  BY <1>1, <1>2, <1>3, PeekFacts
<1>13. AtLeast(o, r, g, side, ts)
  BY <1>3, <1>9, <1>12 DEF AtLeast
<1>14. AtLeast(o, r, g, Other(side), ts)
  <2>1. CASE isEmpty(g, Input(o, Other(side)))
    <3>1. ts <= r.lastTs[Other(side)]
      BY <2>1, <1>8, <1>9, <1>10, <1>11
    <3> QED BY <2>1, <3>1 DEF AtLeast
  <2>2. CASE ~isEmpty(g, Input(o, Other(side)))
    <3>1. ts <= peek(g, Input(o, Other(side))).timestamp
      BY <2>2, <1>8, <1>10, <1>11
    <3> QED BY <2>2, <3>1 DEF AtLeast
  <2> QED BY <2>1, <2>2
<1>15. \A port \in Sides : AtLeast(o, r, g, port, ts)
  BY <1>6, <1>13, <1>14
<1>16. ASSUME r.minTs \in {MinTs(o), Zero}
       PROVE  MergeInv(o, r, g)
  <2>1. r.minTs \in [Sides -> Nat]
    BY <1>10, <1>16 DEF Zero
  <2>2. NotBefore(g, Input(o, side), r.lastTs[side])
    BY <1>3, <1>9
  <2>3. NotBefore(g, Input(o, Other(side)), r.lastTs[Other(side)])
    <3>1. NotBefore(flow, Input(o, Other(side)), op[o].lastTs[Other(side)])
      BY <1>1, <1>6 DEF MergeInv
    <3>2. NotBefore(h, Input(o, Other(side)), op[o].lastTs[Other(side)])
      BY <1>4, <1>6, <3>1 DEF NotBefore, Read
    <3>3. NotBefore(g, Input(o, Other(side)), op[o].lastTs[Other(side)])
      BY <1>1, <1>6, <3>2, PutKeepsInput DEF h, Input
    <3> QED BY <1>9, <3>3
  <2>4. ASSUME NEW port \in Sides
        PROVE  AtLeast(o, r, g, port, Promise(o, g))
    <3>1. AtLeast(o, r, g, port, ts)
      BY <1>15
    <3>2. r.lastTs[port] \in Nat
      BY <1>9
    <3>3. ~isEmpty(g, Input(o, port)) => peek(g, Input(o, port)).timestamp \in Nat
      BY <1>1, <1>3, PeekFacts DEF Input
    <3> QED BY <1>3, <3>1, <3>2, <3>3 DEF AtLeast
  <2>5. DOMAIN r = DOMAIN InitialState(Plan[o].kind)
    BY <1>1 DEF MergeInv
  <2>6. \A port \in Sides : NotBefore(g, Input(o, port), r.lastTs[port])
    BY <1>6, <2>2, <2>3
  <2> QED BY <1>9, <2>1, <2>4, <2>5, <2>6 DEF MergeInv
<1>17. ASSUME NEW left, r.minTs = MinTs(o)
       PROVE  MergeRuns(o, r, g, left)
  <2>1. /\ isEmpty(g, i) => r.minTs[side] = r.lastTs[side]
        /\ ~isEmpty(g, i) => r.minTs[side] <= peek(g, i).timestamp
        /\ Promise(o, g) <= r.minTs[side]
    BY <1>9, <1>10, <1>12, <1>17
  <2>2. /\ isEmpty(g, Input(o, Other(side))) => r.minTs[Other(side)] = r.lastTs[Other(side)]
        /\ ~isEmpty(g, Input(o, Other(side))) =>
              r.minTs[Other(side)] <= peek(g, Input(o, Other(side))).timestamp
        /\ Promise(o, g) <= r.minTs[Other(side)]
    BY <1>3, <1>8, <1>9, <1>10, <1>11, <1>17
  <2> QED BY <1>6, <2>1, <2>2 DEF MergeRuns
<1> QED BY <1>3, <1>15, <1>16, <1>17

(* The heartbeat at the end.                                               *)
LEMMA MergeEnds ==
  ASSUME IInv, NEW o \in query, Plan[o].kind \in Merging, running = o, MergeReturn(o)
  PROVE  /\ running' \in {Idle, Failed} /\ running' # o /\ slice' \in 0 .. TimeSlice
         /\ DOMAIN op' = query /\ \A p \in query \ {o} : op'[p] = op[p]
         /\ Moved(query, o, flow, flow')
         /\ DOMAIN op'[o] = DOMAIN op[o]
         /\ \A x \in DOMAIN op[o] \ {"minTs", "lastOutputTs"} : op'[o][x] = op[o][x]
         /\ MergeInv(o, op'[o], flow')
<1> DEFINE min == IF slice > 0 THEN MinTs(o) ELSE op[o].minTs
           ts  == IF min["left"] < min["right"] THEN min["left"] ELSE min["right"]
           s   == [op[o] EXCEPT !.minTs = Zero]
<1>1. /\ o \in Op /\ HasOutput(o) /\ Ports(o) = Sides /\ query \in Queries
      /\ FlowOK(query, flow) /\ Promise(o, flow) \in Nat /\ MergeInv(o, op[o], flow)
      /\ MergeRuns(o, op[o], flow, slice) /\ DOMAIN op = query
  BY MergeFacts
<1>2. slice \in 0 .. TimeSlice /\ TimeSlice \in Nat \ {0}
  BY Base
<1>3. ASSUME NEW side \in Sides
      PROVE  /\ min[side] \in Nat
             /\ Promise(o, flow) <= min[side]
             /\ isEmpty(flow, Input(o, side)) => min[side] = op[o].lastTs[side]
             /\ ~isEmpty(flow, Input(o, side)) => min[side] <= peek(flow, Input(o, side)).timestamp
  <2>1. CASE slice > 0
    <3>1. ~isEmpty(flow, Input(o, side)) => peek(flow, Input(o, side)).timestamp \in Nat
      BY <1>1, PeekFacts DEF Input
    <3> QED BY <2>1, <3>1, MinTsFacts
  <2>2. CASE ~(slice > 0)
    <3>1. slice < TimeSlice
      BY <1>2, <2>2
    <3>2. op[o].minTs[side] \in Nat
      BY <1>1, MergeTypes
    <3> QED BY <1>1, <2>2, <3>1, <3>2 DEF MergeRuns
  <2> QED BY <2>1, <2>2
<1>4. /\ Return
      /\ IF HeartbeatDue(o, ts)
         THEN /\ flow' = enqueue(flow, Plan[o].out, Heartbeat(ts))
              /\ op' = [op EXCEPT ![o] = [s EXCEPT !.lastOutputTs = ts]]
         ELSE UNCHANGED flow /\ op' = [op EXCEPT ![o] = s]
  BY DEF MergeReturn
<1> HIDE DEF min
<1>5. /\ ts \in Nat /\ Promise(o, flow) <= ts
      /\ \A side \in Sides : ts <= min[side]
  BY <1>3 DEF Sides
<1>6. ASSUME NEW side \in Sides
      PROVE  AtLeast(o, op[o], flow, side, ts)
  <2>1. ~isEmpty(flow, Input(o, side)) => peek(flow, Input(o, side)).timestamp \in Nat
    BY <1>1, PeekFacts DEF Input
  <2>2. op[o].lastTs[side] \in Nat
    BY <1>1, MergeTypes
  <2> QED BY <1>3, <1>5, <2>1, <2>2 DEF AtLeast
<1> HIDE DEF ts
<1>7. flow' = IF HeartbeatDue(o, ts) THEN enqueue(flow, Plan[o].out, Heartbeat(ts)) ELSE flow
  BY <1>4
<1>8. /\ Put(query, Plan[o].out, flow, flow') /\ Moved(query, o, flow, flow')
      /\ Promise(o, flow') \in Nat /\ Promise(o, flow') <= ts
  BY <1>1, <1>5, <1>7, EndPuts
<1>9. op' = [op EXCEPT ![o] = [s EXCEPT !.lastOutputTs = ts]] \/ op' = [op EXCEPT ![o] = s]
  BY <1>4
<1>10. DOMAIN op[o] = DOMAIN InitialState(Plan[o].kind)
  BY <1>1 DEF MergeInv
<1>11. "minTs" \in DOMAIN op[o] /\ "lastTs" \in DOMAIN op[o] /\ "lastOutputTs" \in DOMAIN op[o]
  BY <1>10 DEF InitialState, Merging, UnionInit, ExceptInit, BinaryJoinInit, BinStreamJoinInit
<1>12. /\ DOMAIN op' = query /\ \A p \in query \ {o} : op'[p] = op[p]
       /\ DOMAIN op'[o] = DOMAIN op[o]
       /\ \A x \in DOMAIN op[o] \ {"minTs", "lastOutputTs"} : op'[o][x] = op[o][x]
       /\ op'[o].minTs = Zero
  BY <1>1, <1>9, <1>11
<1>13. op'[o].lastTs = op[o].lastTs
  BY <1>11, <1>12
<1>14. PICK r : r = op'[o]
  OBVIOUS
<1>15. MergeInv(o, r, flow)
  <2>1. r.minTs \in [Sides -> Nat]
    BY <1>12, <1>14 DEF Zero
  <2>2. r.lastTs = op[o].lastTs /\ DOMAIN r = DOMAIN op[o]
    BY <1>12, <1>13, <1>14
  <2>3. \A side \in Sides : AtLeast(o, r, flow, side, Promise(o, flow))
    BY <1>1, <2>2 DEF AtLeast, MergeInv
  <2> QED BY <1>1, <2>1, <2>2, <2>3 DEF MergeInv
<1>16. ASSUME NEW side \in Sides
       PROVE  AtLeast(o, r, flow, side, Promise(o, flow'))
  <2>1. AtLeast(o, op[o], flow, side, ts)
    BY <1>6
  <2>2. op[o].lastTs[side] \in Nat /\ r.lastTs = op[o].lastTs
    BY <1>1, <1>13, <1>14, MergeTypes
  <2>3. ~isEmpty(flow, Input(o, side)) => peek(flow, Input(o, side)).timestamp \in Nat
    BY <1>1, PeekFacts DEF Input
  <2> QED BY <1>5, <1>8, <2>1, <2>2, <2>3 DEF AtLeast
<1>17. MergeInv(o, r, flow')
  BY <1>1, <1>8, <1>15, <1>16, MergePut
<1>18. running' \in {Idle, Failed} /\ running' # o /\ slice' \in 0 .. TimeSlice
  BY <1>4, Control
<1> QED BY <1>8, <1>12, <1>14, <1>17, <1>18

(***************************************************************************)
(* union and except.                                                       *)
(***************************************************************************)
Uniting == {"union", "except"}

LEMMA MergeKept ==
  ASSUME IInv, NEW o \in query, Plan[o].kind \in Uniting, Moved(query, o, flow, flow'),
         DOMAIN op' = query, \A p \in query \ {o} : op'[p] = op[p],
         MergeInv(o, op'[o], flow'), running' \in {o, Idle, Failed},
         running' = o => MergeRuns(o, op'[o], flow', slice'), slice' \in 0 .. TimeSlice
  PROVE  StepOf(o)
<1>1. OpInv(o, op'[o], flow') /\ (running' = o => RunInv(o, op'[o], flow', slice'))
  BY OpInvIs, RunInvIs DEF Uniting
<1> QED BY <1>1, NoFeeds DEF StepOf, Uniting

LEMMA UnitingMerges ==
  ASSUME NEW o, Plan[o].kind \in Uniting
  PROVE  Plan[o].kind \in Merging
BY DEF Uniting, Merging

LEMMA UnitingBegins ==
  ASSUME IInv, NEW o \in query, Plan[o].kind \in Uniting, MergeBegin(o)
  PROVE  StepOf(o)
BY UnitingMerges, MergeBegins, MergeKept

LEMMA UnitingEnds ==
  ASSUME IInv, NEW o \in query, Plan[o].kind \in Uniting, NEW stuck, MayEnd(o, stuck), MergeReturn(o)
  PROVE  StepOf(o)
<1>1. running = o
  BY DEF MayEnd
<1> QED BY <1>1, UnitingMerges, MergeEnds, MergeKept

(* The side that is read is in turn.                                       *)
LEMMA ChosenInTurn ==
  ASSUME IInv, NEW o \in query, Plan[o].kind \in Merging, running = o, ~NothingReady(o)
  PROVE  Chosen(o) \in Sides /\ InTurn(o, Chosen(o))
<1>1. CASE Ready(o, "left")
  <2>1. Chosen(o) = "left"
    BY <1>1 DEF Chosen
  <2> QED BY <1>1, <2>1 DEF Ready, InTurn, Sides
<1>2. CASE ~Ready(o, "left")
  <2>1. Chosen(o) = "right"
    BY <1>2 DEF Chosen
  <2>2. Ready(o, "right")
    BY <1>2 DEF NothingReady, Sides
  <2> QED BY <2>1, <2>2 DEF Ready, InTurn, Sides
<1> QED BY <1>1, <1>2

LEMMA UnitingReads ==
  ASSUME IInv, NEW o \in query, Plan[o].kind \in Uniting, MayIterate(o), Loop,
         NEW side \in Sides, InTurn(o, side), NEW ts, ts = peek(flow, Input(o, side)).timestamp,
         Sends(query, o, dequeue(flow, Input(o, side)), flow', ts),
         DOMAIN op' = query, \A p \in query \ {o} : op'[p] = op[p],
         DOMAIN op'[o] = DOMAIN op[o], op'[o].lastTs = [op[o].lastTs EXCEPT ![side] = ts],
         op'[o].minTs = MinTs(o)
  PROVE  StepOf(o)
<1>1. running = o /\ Plan[o].kind \in Merging
  BY UnitingMerges DEF MayIterate
<1>2. running' = o /\ slice' \in 0 .. TimeSlice
  BY Control
<1>3. Put(query, Plan[o].out, dequeue(flow, Input(o, side)), flow') /\ Promise(o, flow') <= ts
  BY DEF Sends
<1>4. PICK r : r = op'[o]
  OBVIOUS
<1>5. /\ Moved(query, o, flow, flow') /\ MergeInv(o, r, flow')
      /\ \A left : MergeRuns(o, r, flow', left)
  <2>1. DOMAIN r = DOMAIN op[o] /\ r.lastTs = [op[o].lastTs EXCEPT ![side] = ts] /\ r.minTs = MinTs(o)
    BY <1>4
  <2> QED BY <1>1, <1>3, <2>1, MergeReads
<1> QED BY <1>2, <1>4, <1>5, MergeKept

(* What there is to say of an element that was read.                       *)
LEMMA ReadFacts ==
  ASSUME IInv, NEW o \in query, Plan[o].kind \in Merging, running = o,
         NEW side \in Sides, InTurn(o, side), NEW e, e = peek(flow, Input(o, side))
  PROVE  LET h == dequeue(flow, Input(o, side))
         IN  /\ FlowOK(query, h) /\ e.kind \in KindOf /\ e.timestamp \in Nat
             /\ isFull(h, Plan[o].out) <=> isFull(flow, Plan[o].out)
             /\ Promise(o, h) <= e.timestamp /\ Promise(o, h) \in Nat
<1>1. /\ o \in Op /\ HasOutput(o) /\ Ports(o) = Sides /\ query \in Queries
      /\ FlowOK(query, flow) /\ Promise(o, flow) \in Nat /\ MergeInv(o, op[o], flow)
  BY MergeFacts
<1>2. ~isEmpty(flow, Input(o, side)) /\ Input(o, side) = Plan[o][side] /\ side \in Ports(o)
  BY <1>1 DEF InTurn, Input
<1>3. Promise(o, flow) <= e.timestamp
  BY <1>2, MinTsFacts
<1> QED BY <1>1, <1>2, <1>3, Taking

LEMMA NotedFacts ==
  ASSUME IInv, NEW o \in query, Plan[o].kind \in Merging, NEW side \in Sides, NEW e
  PROVE  /\ DOMAIN Noted(o, side, e) = DOMAIN op[o]
         /\ {"minTs", "lastTs", "lastOutputTs"} \subseteq DOMAIN op[o]
         /\ Noted(o, side, e).lastTs = [op[o].lastTs EXCEPT ![side] = e.timestamp]
         /\ Noted(o, side, e).minTs = MinTs(o)
         /\ \A x \in DOMAIN op[o] \ {"minTs", "lastTs"} : Noted(o, side, e)[x] = op[o][x]
<1>1. MergeInv(o, op[o], flow)
  BY MergeFacts
<1>2. DOMAIN op[o] = DOMAIN InitialState(Plan[o].kind)
  BY <1>1 DEF MergeInv
<1>3. {"minTs", "lastTs", "lastOutputTs"} \subseteq DOMAIN op[o]
  BY <1>2 DEF InitialState, Merging, UnionInit, ExceptInit, BinaryJoinInit, BinStreamJoinInit
<1> QED BY <1>3 DEF Noted

LEMMA ReleaseSame ==
  ASSUME NEW ops, NEW f, NEW e, FlowOK(ops, f)
  PROVE  SameQueues(f, Release(f, e))
BY SameOfCounts DEF Release

(***************************************************************************)
(* union: what it sends carries the element's timestamp.                   *)
(***************************************************************************)
LEMMA UnionHandles ==
  ASSUME IInv, NEW o \in query, Plan[o].kind = "union", HasOutput(o), NEW f, FlowOK(query, f),
         ~isFull(f, Plan[o].out), NEW side, NEW e, e.kind \in KindOf, e.timestamp \in Nat,
         Promise(o, f) <= e.timestamp
  PROVE  /\ DOMAIN Handle(o, side, e, f) = {"flow", "outSyn"}
         /\ Sends(query, o, f, Handle(o, side, e, f).flow, e.timestamp)
         /\ FlowOK(query, Handle(o, side, e, f).flow)
<1>0. query \in Queries
  BY Base
<1>1. CASE e.kind = PLUS
  <2> DEFINE t == OutTuple(o, side, e.tuple)
             n == newTuple(f, t)
             g == enqueue(n, Plan[o].out, Element(PLUS, t, e.timestamp))
  <2>1. Handle(o, side, e, f) = HandlePlus(o, side, e, f)
    BY <1>1 DEF Handle, PLUS, MINUS, HEARTBEAT
  <2>2. SameQueues(f, n) /\ FlowOK(query, n)
    BY SameOfCounts, SameIsOK
  <2>3. Element(PLUS, t, e.timestamp).kind \in KindOf /\ Element(PLUS, t, e.timestamp).timestamp = e.timestamp
    BY DEF Element, KindOf
  <2>4. ~isFull(n, Plan[o].out) /\ Promise(o, n) = Promise(o, f)
    BY <2>2, SameOutput
  <2>5. Sends(query, o, n, g, e.timestamp) /\ FlowOK(query, g)
    <3> HIDE DEF n
    <3> QED BY <1>0, <2>2, <2>3, <2>4, SendsOne
  <2>6. Sends(query, o, f, g, e.timestamp) /\ FlowOK(query, g)
    <3> HIDE DEF n, g
    <3> QED BY <1>0, <2>2, <2>5, SameSends
  <2>7. SameQueues(g, addRef(g, t, 1))
    <3> HIDE DEF g, t
    <3> QED BY <2>6, SameOfCounts
  <2>8. Sends(query, o, f, addRef(g, t, 1), e.timestamp) /\ FlowOK(query, addRef(g, t, 1))
    <3> HIDE DEF g, t
    <3> QED BY <1>0, <2>6, <2>7, SendsSame
  <2>9. /\ DOMAIN HandlePlus(o, side, e, f) = {"flow", "outSyn"}
        /\ HandlePlus(o, side, e, f).flow \in {g, addRef(g, t, 1)}
    <3> HIDE DEF g, t
    <3> QED BY DEF HandlePlus, g, n, t
  <2> QED BY <2>1, <2>6, <2>8, <2>9
<1>2. CASE e.kind = MINUS
  <2> DEFINE t == Head(WithLineage(o, e.tuple)).out
  <2>1. Handle(o, side, e, f) = HandleMinus(o, e, f)
    BY <1>2 DEF Handle, PLUS, MINUS, HEARTBEAT
  <2>2. /\ DOMAIN HandleMinus(o, e, f) = {"flow", "outSyn"}
        /\ HandleMinus(o, e, f).flow = enqueue(f, Plan[o].out, Element(MINUS, t, e.timestamp))
    BY DEF HandleMinus
  <2> HIDE DEF t
  <2>3. Element(MINUS, t, e.timestamp).kind \in KindOf /\ Element(MINUS, t, e.timestamp).timestamp = e.timestamp
    BY DEF Element, KindOf
  <2> QED BY <1>0, <2>1, <2>2, <2>3, SendsOne
<1>3. CASE e.kind = HEARTBEAT
  <2>1. Handle(o, side, e, f) = [flow |-> f, outSyn |-> op[o].outSyn]
    BY <1>3 DEF Handle, PLUS, MINUS, HEARTBEAT
  <2>2. SameQueues(f, f)
    BY SameOfCounts
  <2> QED BY <1>0, <2>1, <2>2, SendsNothing
<1> QED BY <1>1, <1>2, <1>3 DEF KindOf

LEMMA UnionStep ==
  ASSUME IInv, NEW o \in query, Plan[o].kind = "union",
         UnionBegin(o) \/ UnionIterate(o) \/ UnionEnd(o)
  PROVE  StepOf(o)
<1>1. Plan[o].kind \in Uniting /\ Plan[o].kind \in Merging
  BY UnitingMerges DEF Uniting
<1>2. CASE UnionBegin(o)
  BY <1>1, <1>2, UnitingBegins DEF UnionBegin
<1>3. CASE UnionEnd(o)
  BY <1>1, <1>3, UnitingEnds DEF UnionEnd
<1>4. CASE UnionIterate(o)
  <2> DEFINE side == Chosen(o)
             e    == peek(flow, Input(o, side))
             d    == dequeue(flow, Input(o, side))
             h    == Handle(o, side, e, d)
  <2>1. /\ MayIterate(o) /\ ~UnionStuck(o)
        /\ IF NoSuchTuple(o, e)
           THEN ReturnError /\ UNCHANGED <<flow, op>>
           ELSE /\ Loop
                /\ flow' = Release(h.flow, e)
                /\ op' = [op EXCEPT ![o] = [Noted(o, side, e) EXCEPT !.outSyn = h.outSyn]]
    BY <1>4 DEF UnionIterate
  <2>2. running = o /\ ~isFull(flow, Plan[o].out) /\ ~NothingReady(o)
    BY <2>1 DEF MayIterate, UnionStuck
  <2>3. side \in Sides /\ InTurn(o, side)
    BY <1>1, <2>2, ChosenInTurn
  <2>4. /\ HasOutput(o) /\ query \in Queries /\ DOMAIN op = query
    BY <1>1, MergeFacts
  <2>5. CASE NoSuchTuple(o, e)
    <3>1. ReturnError /\ UNCHANGED <<flow, op>>
      BY <2>1, <2>5
    <3>2. running' \in {o, Idle, Failed} /\ slice' \in 0 .. TimeSlice /\ running' # o
      BY <3>1, Control
    <3> QED BY <3>1, <3>2, NothingDone
  <2>6. CASE ~NoSuchTuple(o, e)
    <3> HIDE DEF side, e
    <3>1. /\ FlowOK(query, d) /\ e.kind \in KindOf /\ e.timestamp \in Nat
          /\ ~isFull(d, Plan[o].out) /\ Promise(o, d) <= e.timestamp
      BY <1>1, <2>2, <2>3, ReadFacts DEF e
    <3> HIDE DEF d
    <3>2. Sends(query, o, d, h.flow, e.timestamp) /\ FlowOK(query, h.flow)
      BY <2>4, <3>1, UnionHandles
    <3> HIDE DEF h
    <3>3. SameQueues(h.flow, Release(h.flow, e))
      BY <3>2, ReleaseSame
    <3>4. Sends(query, o, d, flow', e.timestamp)
      BY <2>1, <2>4, <2>6, <3>1, <3>2, <3>3, SendsSame
    <3>5. /\ DOMAIN op' = query /\ \A p \in query \ {o} : op'[p] = op[p]
          /\ op'[o] = [Noted(o, side, e) EXCEPT !.outSyn = h.outSyn]
      BY <2>1, <2>4, <2>6
    <3>6. /\ DOMAIN op'[o] = DOMAIN op[o]
          /\ op'[o].lastTs = [op[o].lastTs EXCEPT ![side] = e.timestamp]
          /\ op'[o].minTs = MinTs(o)
      <4> DEFINE s == Noted(o, side, e)
      <4>1. /\ DOMAIN s = DOMAIN op[o] /\ {"minTs", "lastTs", "lastOutputTs"} \subseteq DOMAIN op[o]
            /\ s.lastTs = [op[o].lastTs EXCEPT ![side] = e.timestamp] /\ s.minTs = MinTs(o)
        BY <1>1, <2>3, NotedFacts
      <4> HIDE DEF s
      <4>2. op'[o] = [s EXCEPT !.outSyn = h.outSyn]
        BY <3>5 DEF s
      <4> QED BY <4>1, <4>2
    <3>7. Loop
      BY <2>1, <2>6
    <3> QED BY <1>1, <2>1, <2>3, <3>4, <3>5, <3>6, <3>7, UnitingReads DEF d, e
  <2> QED BY <2>5, <2>6
<1> QED BY <1>2, <1>3, <1>4

(***************************************************************************)
(* except: the counts change, the times stay as they were noted.           *)
(***************************************************************************)
Counting(s, r) ==
    /\ DOMAIN r = DOMAIN s
    /\ {"minTs", "lastTs", "lastOutputTs", "count", "outSyn"} \subseteq DOMAIN s
    /\ r.lastTs = s.lastTs /\ r.minTs = s.minTs

LEMMA SetCountKeeps ==
  ASSUME NEW ops, NEW o, NEW s, NEW f, FlowOK(ops, f), Counting(s, s), NEW v, NEW n
  PROVE  /\ SameQueues(f, SetCount(o, s, f, v, n).flow) /\ FlowOK(ops, SetCount(o, s, f, v, n).flow)
         /\ Counting(s, SetCount(o, s, f, v, n).op)
<1> DEFINE x == SetCount(o, s, f, v, n)
<1>1. CASE n # 0 /\ v \in DOMAIN s.count
  <2>1. x = [flow |-> f, op |-> [s EXCEPT !.count[v] = n]]
    BY <1>1 DEF SetCount
  <2>2. SameQueues(f, f)
    BY SameOfCounts
  <2> QED BY <2>1, <2>2 DEF Counting
<1>2. CASE n # 0 /\ v \notin DOMAIN s.count
  <2> DEFINE g == newTuple(f, CountTuple(o, v))
             c == [u \in DOMAIN s.count \cup {v} |-> IF u = v THEN n ELSE s.count[u]]
  <2>1. x = [flow |-> g, op |-> [s EXCEPT !.count = c]]
    BY <1>2 DEF SetCount
  <2>2. SameQueues(f, g)
    BY SameOfCounts
  <2> HIDE DEF g, c
  <2>3. SameQueues(f, x.flow) /\ FlowOK(ops, x.flow)
    BY <2>1, <2>2, SameIsOK
  <2> QED BY <2>1, <2>3 DEF Counting
<1>3. CASE n = 0
  <2> DEFINE g == decrRef(f, CountTuple(o, v))
             c == [u \in DOMAIN s.count \ {v} |-> s.count[u]]
  <2>1. x = [flow |-> g, op |-> [s EXCEPT !.count = c]]
    BY <1>3 DEF SetCount
  <2>2. SameQueues(f, g)
    BY SameOfCounts
  <2> HIDE DEF g, c
  <2>3. SameQueues(f, x.flow) /\ FlowOK(ops, x.flow)
    BY <2>1, <2>2, SameIsOK
  <2> QED BY <2>1, <2>3 DEF Counting
<1> QED BY <1>1, <1>2, <1>3

(* One more or one less: at most one element is sent, at its time.         *)
OneCounted(o, f, s, x, ts) ==
    Sends(query, o, f, x.flow, ts) /\ FlowOK(query, x.flow) /\ Counting(s, x.op)

LEMMA MoreSends ==
  ASSUME NEW o \in query, query \in Queries, HasOutput(o), NEW s, Counting(s, s), NEW f, FlowOK(query, f),
         ~isFull(f, Plan[o].out), NEW v, NEW ts \in Nat, Promise(o, f) <= ts
  PROVE  OneCounted(o, f, s, More(o, s, f, v, ts), ts)
<1> DEFINE n == Counted(s, v) + 1
           x == SetCount(o, s, f, v, n)
           t == ExceptTuple(o, v, Len(Equals(o, s, v)) + 1)
           h == newTuple(x.flow, t)
           g == enqueue(h, Plan[o].out, Element(PLUS, t, ts))
<1>1. More(o, s, f, v, ts) = IF n > 0
                             THEN [flow |-> addRef(g, t, 1),
                                   op   |-> [x.op EXCEPT !.outSyn = <<t>> \o @, !.lastOutputTs = ts]]
                             ELSE x
  BY DEF More
<1>2. SameQueues(f, x.flow) /\ FlowOK(query, x.flow) /\ Counting(s, x.op)
  BY SetCountKeeps
<1> HIDE DEF x, t, n
<1>3. SameQueues(x.flow, h) /\ FlowOK(query, h)
  BY <1>2, SameOfCounts, SameIsOK
<1>4. SameQueues(f, h)
  BY <1>2, <1>3, SameSame
<1>5. ~isFull(h, Plan[o].out) /\ Promise(o, h) = Promise(o, f)
  BY <1>4, SameOutput
<1>6. Element(PLUS, t, ts).kind \in KindOf /\ Element(PLUS, t, ts).timestamp = ts
  BY DEF Element, KindOf
<1> HIDE DEF h
<1>7. Sends(query, o, h, g, ts) /\ FlowOK(query, g)
  BY <1>3, <1>5, <1>6, SendsOne
<1> HIDE DEF g
<1>8. SameQueues(g, addRef(g, t, 1))
  BY <1>7, SameOfCounts
<1>9. Sends(query, o, f, g, ts)
  BY <1>4, <1>7, SameSends
<1>10. Sends(query, o, f, addRef(g, t, 1), ts) /\ FlowOK(query, addRef(g, t, 1))
  BY <1>8, <1>9, SendsSame
<1>11. CASE n > 0
  <2> DEFINE r == [x.op EXCEPT !.outSyn = <<t>> \o @, !.lastOutputTs = ts]
  <2>1. More(o, s, f, v, ts) = [flow |-> addRef(g, t, 1), op |-> r]
    BY <1>1, <1>11
  <2>2. Counting(s, r)
    BY <1>2 DEF Counting
  <2> HIDE DEF r
  <2> QED BY <1>10, <2>1, <2>2 DEF OneCounted
<1>12. CASE ~(n > 0)
  <2>1. More(o, s, f, v, ts) = x
    BY <1>1, <1>12
  <2>2. Sends(query, o, f, x.flow, ts)
    BY <1>2, SendsNothing
  <2> QED BY <1>2, <2>1, <2>2 DEF OneCounted
<1> QED BY <1>11, <1>12

LEMMA LessSends ==
  ASSUME NEW o \in query, query \in Queries, HasOutput(o), NEW s, Counting(s, s), NEW f, FlowOK(query, f),
         ~isFull(f, Plan[o].out), NEW v, NEW ts \in Nat, Promise(o, f) <= ts
  PROVE  OneCounted(o, f, s, Less(o, s, f, v, ts), ts)
<1> DEFINE n == Counted(s, v) - 1
           x == SetCount(o, s, f, v, n)
           t == Head(Equals(o, s, v))
           e == Element(MINUS, t, ts)
           g == enqueue(x.flow, Plan[o].out, e)
           r == [x.op EXCEPT !.outSyn = SelectSeq(@, LAMBDA u : u # t), !.lastOutputTs = ts]
<1>1. Less(o, s, f, v, ts) = IF n >= 0 THEN [flow |-> g, op |-> r] ELSE x
  BY DEF Less
<1>2. SameQueues(f, x.flow) /\ FlowOK(query, x.flow) /\ Counting(s, x.op)
  BY SetCountKeeps
<1>3. Counting(s, r)
  <2> DEFINE os == SelectSeq(x.op.outSyn, LAMBDA u : u # t)
  <2>1. r = [x.op EXCEPT !.outSyn = os, !.lastOutputTs = ts]
    OBVIOUS
  <2> HIDE DEF x, t, n, r, os
  <2> QED BY <1>2, <2>1 DEF Counting
<1>4. e.kind \in KindOf /\ e.timestamp = ts
  BY DEF Element, KindOf
<1> HIDE DEF x, t, n, r, e
<1>5. ~isFull(x.flow, Plan[o].out) /\ Promise(o, x.flow) = Promise(o, f)
  BY <1>2, SameOutput
<1>6. Sends(query, o, x.flow, g, ts) /\ FlowOK(query, g)
  BY <1>2, <1>4, <1>5, SendsOne
<1> HIDE DEF g
<1>7. Sends(query, o, f, g, ts)
  BY <1>2, <1>6, SameSends
<1>8. Sends(query, o, f, x.flow, ts)
  BY <1>2, SendsNothing
<1>9. CASE n >= 0
  <2>1. Less(o, s, f, v, ts) = [flow |-> g, op |-> r]
    BY <1>1, <1>9
  <2> QED BY <1>3, <1>6, <1>7, <2>1 DEF OneCounted
<1>10. CASE ~(n >= 0)
  <2>1. Less(o, s, f, v, ts) = x
    BY <1>1, <1>10
  <2> QED BY <1>2, <1>8, <2>1 DEF OneCounted
<1> QED BY <1>9, <1>10

LEMMA ExceptHandles ==
  ASSUME IInv, NEW o \in query, Plan[o].kind = "except", NEW f, FlowOK(query, f),
         ~isFull(f, Plan[o].out), NEW side \in Sides, NEW e, e.kind \in KindOf, e.timestamp \in Nat,
         Promise(o, f) <= e.timestamp
  PROVE  OneCounted(o, f, Noted(o, side, e), ExceptHandle(o, side, e, f), e.timestamp)
<1> DEFINE s == Noted(o, side, e)
           v == Plan[o].value[e.tuple]
           x == ExceptHandle(o, side, e, f)
           z == [flow |-> f, op |-> s]
<1>0. SUFFICES OneCounted(o, f, s, x, e.timestamp)
  OBVIOUS
<1>1. query \in Queries /\ HasOutput(o) /\ Plan[o].kind \in Merging /\ MergeInv(o, op[o], flow)
  BY MergeFacts DEF Merging
<1>2. DOMAIN op[o] = DOMAIN ExceptInit
  BY <1>1 DEF MergeInv, InitialState
<1>3. DOMAIN s = DOMAIN op[o]
  BY <1>1, NotedFacts
<1>4. Counting(s, s)
  BY <1>2, <1>3 DEF Counting, ExceptInit
<1>5. CASE e.kind = HEARTBEAT
  <2>1. x = z
    BY <1>5 DEF ExceptHandle, PLUS, MINUS, HEARTBEAT
  <2>2. SameQueues(f, f)
    BY SameOfCounts
  <2>3. Sends(query, o, f, f, e.timestamp)
    BY <1>1, <2>2, SendsNothing
  <2> HIDE DEF s, x
  <2> QED BY <1>4, <2>1, <2>3 DEF OneCounted
<1>6. CASE (side = "left" /\ e.kind = PLUS) \/ (side = "right" /\ e.kind = MINUS)
  <2>0. /\ <<side, e.kind>> \in {<<"left", PLUS>>, <<"right", MINUS>>}
        /\ <<side, e.kind>> \notin {<<"left", MINUS>>, <<"right", PLUS>>}
        /\ e.kind # HEARTBEAT
    BY <1>6 DEF PLUS, MINUS, HEARTBEAT
  <2>1. x = More(o, s, f, v, e.timestamp)
    BY <2>0 DEF ExceptHandle
  <2> HIDE DEF s, v, x
  <2> QED BY <1>1, <1>4, <2>1, MoreSends
<1>7. CASE (side = "left" /\ e.kind = MINUS) \/ (side = "right" /\ e.kind = PLUS)
  <2>0. /\ <<side, e.kind>> \in {<<"left", MINUS>>, <<"right", PLUS>>}
        /\ <<side, e.kind>> \notin {<<"left", PLUS>>, <<"right", MINUS>>}
        /\ e.kind # HEARTBEAT
    BY <1>7 DEF PLUS, MINUS, HEARTBEAT
  <2>1. x = Less(o, s, f, v, e.timestamp)
    BY <2>0 DEF ExceptHandle
  <2> HIDE DEF s, v, x
  <2> QED BY <1>1, <1>4, <2>1, LessSends
<1> QED BY <1>5, <1>6, <1>7 DEF KindOf, Sides, PLUS, MINUS, HEARTBEAT

LEMMA ExceptStep ==
  ASSUME IInv, NEW o \in query, Plan[o].kind = "except",
         ExceptBegin(o) \/ ExceptIterate(o) \/ ExceptEnd(o)
  PROVE  StepOf(o)
<1>1. Plan[o].kind \in Uniting /\ Plan[o].kind \in Merging
  BY UnitingMerges DEF Uniting
<1>2. CASE ExceptBegin(o)
  BY <1>1, <1>2, UnitingBegins DEF ExceptBegin
<1>3. CASE ExceptEnd(o)
  BY <1>1, <1>3, UnitingEnds DEF ExceptEnd
<1>4. CASE ExceptIterate(o)
  <2> DEFINE side == Chosen(o)
             e    == peek(flow, Input(o, side))
             d    == dequeue(flow, Input(o, side))
             x    == ExceptHandle(o, side, e, d)
             s    == Noted(o, side, e)
  <2>1. /\ MayIterate(o) /\ ~ExceptStuck(o) /\ Loop
        /\ flow' = Release(x.flow, e)
        /\ op' = [op EXCEPT ![o] = x.op]
    BY <1>4 DEF ExceptIterate
  <2>2. running = o /\ ~isFull(flow, Plan[o].out) /\ ~NothingReady(o)
    BY <2>1 DEF MayIterate, ExceptStuck
  <2>3. side \in Sides /\ InTurn(o, side)
    BY <1>1, <2>2, ChosenInTurn
  <2>4. /\ HasOutput(o) /\ query \in Queries /\ DOMAIN op = query
    BY <1>1, MergeFacts
  <2> HIDE DEF side, e
  <2>5. /\ FlowOK(query, d) /\ e.kind \in KindOf /\ e.timestamp \in Nat
        /\ ~isFull(d, Plan[o].out) /\ Promise(o, d) <= e.timestamp
    BY <1>1, <2>2, <2>3, ReadFacts DEF e
  <2> HIDE DEF d
  <2>6. OneCounted(o, d, s, x, e.timestamp)
    BY <2>3, <2>5, ExceptHandles
  <2>7. /\ DOMAIN s = DOMAIN op[o] /\ s.lastTs = [op[o].lastTs EXCEPT ![side] = e.timestamp]
        /\ s.minTs = MinTs(o)
    BY <1>1, <2>3, NotedFacts
  <2> HIDE DEF x, s
  <2>8. SameQueues(x.flow, Release(x.flow, e))
    BY <2>6, ReleaseSame DEF OneCounted
  <2>9. Sends(query, o, d, flow', e.timestamp)
    BY <2>1, <2>4, <2>5, <2>6, <2>8, SendsSame DEF OneCounted
  <2>10. /\ DOMAIN op' = query /\ \A p \in query \ {o} : op'[p] = op[p]
         /\ op'[o] = x.op
    BY <2>1, <2>4
  <2>11. /\ DOMAIN op'[o] = DOMAIN op[o]
         /\ op'[o].lastTs = [op[o].lastTs EXCEPT ![side] = e.timestamp]
         /\ op'[o].minTs = MinTs(o)
    BY <2>6, <2>7, <2>10 DEF OneCounted, Counting
  <2> QED BY <1>1, <2>1, <2>3, <2>9, <2>10, <2>11, UnitingReads DEF d, e
<1> QED BY <1>2, <1>3, <1>4

(***************************************************************************)
(* join: what a scan sends, and where it leaves the operator.              *)
(***************************************************************************)
JoinOp(s, r) ==
    /\ DOMAIN r = DOMAIN BinaryJoinInit
    /\ r.lastTs = s.lastTs /\ r.minTs = s.minTs
    /\ r.synopsis \in [Sides -> {r.synopsis[side] : side \in Sides}]
    /\ \A side \in Sides : IsSeq(r.synopsis[side])

Scanning(o, f, s, x, ts) ==
    /\ DOMAIN x = {"flow", "op"}
    /\ Sends(query, o, f, x.flow, ts) /\ FlowOK(query, x.flow)
    /\ JoinOp(s, x.op)

ScanMade(o, f, s, x, side, e) ==
    /\ Scanning(o, f, s, x, e.timestamp)
    /\ x.op.bStalled \in BOOLEAN
    /\ IsSeq(x.op.rest)
    /\ x.op.bStalled => x.op.stallSide = side /\ x.op.stallElement = e

LEMMA InsertAllSends ==
  ASSUME NEW o \in query, query \in Queries, HasOutput(o), NEW f, FlowOK(query, f), NEW ts \in Nat,
         Promise(o, f) <= ts, NEW n \in Nat, n <= Space(f, Plan[o].out),
         NEW us, us = [i \in 1 .. n |-> us[i]]
  PROVE  /\ Sends(query, o, f, insertAll(f, Plan[o].out, us, ts), ts)
         /\ FlowOK(query, insertAll(f, Plan[o].out, us, ts))
<1>1. Plan[o].out \in Outs(query) /\ Reader(Plan[o].out) # {}
  BY OutOK
<1>2. IsSeq(us) /\ Len(us) = n
  BY FunctionIsSeq
<1>3. /\ Put(query, Plan[o].out, f, insertAll(f, Plan[o].out, us, ts))
      /\ insertAll(f, Plan[o].out, us, ts).promise[Plan[o].out] <= ts
  BY <1>1, <1>2, InsertAllPuts DEF Promise
<1> QED BY <1>3 DEF Sends, Promise, Put

LEMMA DeleteAllSends ==
  ASSUME NEW o \in query, query \in Queries, HasOutput(o), NEW f, FlowOK(query, f), NEW ts \in Nat,
         Promise(o, f) <= ts, NEW n \in Nat, n <= Space(f, Plan[o].out),
         NEW us, us = [i \in 1 .. n |-> us[i]]
  PROVE  /\ Sends(query, o, f, DeleteAll(o, f, us, ts), ts)
         /\ FlowOK(query, DeleteAll(o, f, us, ts))
<1> DEFINE es == [i \in DOMAIN us |-> Element(MINUS, us[i], ts)]
           g  == DeleteAll(o, f, us, ts)
<1>1. Plan[o].out \in Outs(query) /\ Reader(Plan[o].out) # {}
  BY OutOK
<1>2. DOMAIN us = 1 .. n
  OBVIOUS
<1>3. es = [i \in 1 .. n |-> es[i]]
  BY <1>2
<1>4. \A i \in 1 .. n : es[i].kind \in KindOf /\ es[i].timestamp = ts
  BY <1>2 DEF Element, KindOf
<1>5. g = enqueueAll(f, Plan[o].out, es)
  BY DEF DeleteAll
<1> HIDE DEF es, g
<1>6. IsSeq(es) /\ Len(es) = n
  BY <1>3, FunctionIsSeq
<1>7. f.promise[Plan[o].out] <= ts
  BY DEF Promise
<1>8. Later(es, f.promise[Plan[o].out])
  BY <1>4, <1>6, <1>7 DEF Later
<1>9. /\ Put(query, Plan[o].out, f, g)
      /\ es = <<>> => g.promise[Plan[o].out] = f.promise[Plan[o].out]
      /\ es # <<>> => g.promise[Plan[o].out] = es[Len(es)].timestamp
  BY <1>1, <1>5, <1>6, <1>8, EnqueueAllPuts
<1>10. es # <<>> => es[Len(es)].timestamp = ts
  <2>1. ASSUME es # <<>>
        PROVE  n # 0
    BY <2>1, <1>3
  <2> QED BY <1>4, <1>6, <2>1
<1>11. Promise(o, g) <= ts
  BY <1>7, <1>9, <1>10 DEF Promise
<1> QED BY <1>9, <1>11 DEF Sends, Put, g

LEMMA JoinScans ==
  ASSUME NEW o \in query, query \in Queries, HasOutput(o), NEW f, FlowOK(query, f), NEW s, NEW x,
         NEW e, e.kind \in {PLUS, MINUS}, e.timestamp \in Nat, Promise(o, f) <= e.timestamp,
         DOMAIN x = {"flow", "op"}, SameQueues(f, x.flow), JoinOp(s, x.op),
         NEW n \in Nat, n <= Space(x.flow, Plan[o].out), NEW lineages,
         lineages = [i \in 1 .. n |-> lineages[i]]
  PROVE  Scanning(o, f, s, Join(o, x, e, lineages), e.timestamp)
<1> DEFINE ts == e.timestamp
           y == Join(o, x, e, lineages)
           made == AllJoined(o, lineages)
<1>1. FlowOK(query, x.flow) /\ Promise(o, x.flow) <= ts
  BY SameIsOK, SameOutput
<1>2. made = [i \in 1 .. n |-> made[i]]
  <2>1. DOMAIN lineages = 1 .. n
    OBVIOUS
  <2> QED BY <2>1 DEF AllJoined
<1>3. SUFFICES Scanning(o, f, s, y, ts)
  OBVIOUS
<1>4. CASE e.kind = PLUS
  <2> DEFINE g == insertAll(x.flow, Plan[o].out, made, ts)
             js == Reverse(Records(o, lineages)) \o x.op.joinSynopsis
             r  == [x.op EXCEPT !.joinSynopsis = js]
  <2>1. y = IF Plan[o].joinSynopsis
            THEN [flow |-> addRefs(g, made, 1), op |-> r]
            ELSE [flow |-> g, op |-> x.op]
    BY <1>4 DEF Join, JoinPlus, PLUS, MINUS
  <2>2. JoinOp(s, r)
    <3> HIDE DEF js
    <3> QED BY DEF JoinOp, BinaryJoinInit
  <2> HIDE DEF made, r, y
  <2>3. Sends(query, o, x.flow, g, ts) /\ FlowOK(query, g)
    BY <1>1, <1>2, InsertAllSends
  <2> HIDE DEF g
  <2>4. Sends(query, o, f, g, ts)
    BY <1>1, <2>3, SameSends
  <2>5. SameQueues(g, addRefs(g, made, 1))
    BY <2>3, SameOfCounts
  <2>6. Sends(query, o, f, addRefs(g, made, 1), ts) /\ FlowOK(query, addRefs(g, made, 1))
    BY <2>4, <2>5, SendsSame
  <2>7. CASE Plan[o].joinSynopsis
    <3>1. y = [flow |-> addRefs(g, made, 1), op |-> r]
      BY <2>1, <2>7
    <3> QED BY <2>2, <2>6, <3>1 DEF Scanning
  <2>8. CASE ~Plan[o].joinSynopsis
    <3>1. y = [flow |-> g, op |-> x.op]
      BY <2>1, <2>8
    <3> QED BY <2>3, <2>4, <3>1 DEF Scanning
  <2> QED BY <2>7, <2>8
<1>5. CASE e.kind = MINUS /\ Plan[o].joinSynopsis
  <2> DEFINE gone == [i \in DOMAIN lineages |-> Head(Recorded(x.op, lineages[i]))]
             us   == [i \in DOMAIN gone |-> gone[i].out]
             js   == SelectSeq(x.op.joinSynopsis, LAMBDA j : j \notin ToSet(gone))
             r    == [x.op EXCEPT !.joinSynopsis = js]
             g    == DeleteAll(o, x.flow, us, ts)
  <2>1. y = [flow |-> g, op |-> r]
    <3>1. y = JoinMinusOf(o, x, gone, ts)
      BY <1>5 DEF Join, PLUS, MINUS
    <3> QED BY <3>1 DEF JoinMinusOf
  <2>2. JoinOp(s, r)
    <3> HIDE DEF js
    <3> QED BY DEF JoinOp, BinaryJoinInit
  <2>3. us = [i \in 1 .. n |-> us[i]]
    <3>1. DOMAIN lineages = 1 .. n
      OBVIOUS
    <3> QED BY <3>1
  <2> HIDE DEF us, r, y
  <2>4. Sends(query, o, x.flow, g, ts) /\ FlowOK(query, g)
    BY <1>1, <2>3, DeleteAllSends
  <2> HIDE DEF g
  <2>5. Sends(query, o, f, g, ts)
    BY <1>1, <2>4, SameSends
  <2> QED BY <2>1, <2>2, <2>4, <2>5 DEF Scanning
<1>6. CASE e.kind = MINUS /\ ~Plan[o].joinSynopsis
  <2> DEFINE h == newTuples(x.flow, made)
             g == DeleteAll(o, h, made, ts)
  <2>1. y = [flow |-> g, op |-> x.op]
    BY <1>6 DEF Join, JoinMinusNew, PLUS, MINUS
  <2>2. SameQueues(x.flow, h) /\ FlowOK(query, h)
    BY <1>1, SameOfCounts, SameIsOK
  <2> HIDE DEF made, h, y
  <2>3. n <= Space(h, Plan[o].out) /\ Promise(o, h) <= ts
    BY <1>1, <2>2, SameOutput
  <2>4. Sends(query, o, h, g, ts) /\ FlowOK(query, g)
    BY <1>2, <2>2, <2>3, DeleteAllSends
  <2> HIDE DEF g
  <2>5. SameQueues(f, h)
    BY <2>2, SameSame
  <2>6. Sends(query, o, f, g, ts)
    BY <2>4, <2>5, SameSends
  <2> QED BY <2>1, <2>4, <2>6 DEF Scanning
<1> QED BY <1>4, <1>5, <1>6

LEMMA StallKept ==
  ASSUME NEW o, NEW f, NEW s, NEW x, NEW side, NEW e, NEW rest, NEW full \in BOOLEAN,
         Scanning(o, f, s, x, e.timestamp), IsSeq(rest)
  PROVE  ScanMade(o, f, s, StallIf(full, x, side, e, rest), side, e)
<1> DEFINE y == StallIf(full, x, side, e, rest)
           a == IF full THEN side ELSE "left"
           b == IF full THEN e ELSE Heartbeat(0)
           c == IF full THEN rest ELSE <<>>
           r == [x.op EXCEPT !.bStalled = full, !.stallSide = a, !.stallElement = b, !.rest = c]
<1>0. SUFFICES ScanMade(o, f, s, y, side, e)
  OBVIOUS
<1>1. IsSeq(c)
  BY EmptyIsSeq
<1>2. full => a = side /\ b = e
  OBVIOUS
<1>3. y = [x EXCEPT !.op = r]
  BY DEF StallIf
<1> HIDE DEF a, b, c
<1>4. /\ DOMAIN r = DOMAIN x.op
      /\ \A k \in DOMAIN x.op \ {"bStalled", "stallSide", "stallElement", "rest"} : r[k] = x.op[k]
  OBVIOUS
<1>5. DOMAIN x.op = DOMAIN BinaryJoinInit
  BY DEF Scanning, JoinOp
<1>6. r.bStalled = full /\ r.stallSide = a /\ r.stallElement = b /\ r.rest = c
  BY <1>5 DEF BinaryJoinInit
<1>7. r.lastTs = x.op.lastTs /\ r.minTs = x.op.minTs /\ r.synopsis = x.op.synopsis
  BY <1>4, <1>5 DEF BinaryJoinInit
<1>8. JoinOp(s, r)
  BY <1>4, <1>7 DEF Scanning, JoinOp
<1> HIDE DEF y, r
<1>9. DOMAIN y = {"flow", "op"} /\ y.flow = x.flow /\ y.op = r
  BY <1>3 DEF Scanning
<1>10. Scanning(o, f, s, y, e.timestamp)
  BY <1>8, <1>9 DEF Scanning
<1> QED BY <1>1, <1>2, <1>6, <1>9, <1>10 DEF ScanMade

LEMMA NotingKept ==
  ASSUME NEW o, NEW f, NEW s, NEW x, NEW n, NEW ts, Scanning(o, f, s, x, ts)
  PROVE  Scanning(o, f, s, Noting(x, n, ts), ts)
<1>1. CASE n = 0
  BY <1>1 DEF Noting
<1>2. CASE n # 0
  <2> DEFINE r == [x.op EXCEPT !.lastOutputTs = ts]
  <2>1. Noting(x, n, ts) = [x EXCEPT !.op = r]
    BY <1>2 DEF Noting
  <2>2. JoinOp(s, r)
    BY DEF Scanning, JoinOp, BinaryJoinInit
  <2> HIDE DEF r
  <2> QED BY <2>1, <2>2 DEF Scanning
<1> QED BY <1>1, <1>2

LEMMA SendJoinsScans ==
  ASSUME NEW o \in query, query \in Queries, HasOutput(o), NEW f, FlowOK(query, f), NEW s, NEW x,
         NEW e, e.kind \in {PLUS, MINUS}, e.timestamp \in Nat, Promise(o, f) <= e.timestamp,
         DOMAIN x = {"flow", "op"}, SameQueues(f, x.flow), JoinOp(s, x.op),
         NEW side, NEW partners, IsSeq(partners)
  PROVE  ScanMade(o, f, s, SendJoins(o, x, side, e, partners), side, e)
<1> DEFINE n == Min({Len(partners), Space(x.flow, Plan[o].out)})
           lineages == [i \in 1 .. n |-> Lineage(side, e.tuple, partners[i])]
           j == Join(o, x, e, lineages)
           y == Noting(j, n, e.timestamp)
           rest == SubSeq(partners, n + 1, Len(partners))
           full == ScanStall(y.flow, Plan[o].out, rest)
<1>1. FlowOK(query, x.flow) /\ Plan[o].out \in Outs(query) /\ Reader(Plan[o].out) # {}
  BY SameIsOK, OutOK
<1>2. Space(x.flow, Plan[o].out) \in Nat /\ Len(partners) \in Nat
  BY <1>1, SpaceFacts, SeqFacts, SizesAssumption
<1>3. n \in Nat /\ n <= Space(x.flow, Plan[o].out)
  BY <1>2, MinOfTwo
<1>4. SendJoins(o, x, side, e, partners) = StallIf(full, y, side, e, rest)
  BY DEF SendJoins, JoinSome, StallOrNot
<1>5. IsSeq(rest)
  BY <1>3, RestIsSeq
<1>6. full \in BOOLEAN
  BY DEF ScanStall, isFull
<1> HIDE DEF n
<1>7. lineages = [i \in 1 .. n |-> lineages[i]]
  OBVIOUS
<1> HIDE DEF lineages
<1>8. Scanning(o, f, s, j, e.timestamp)
  BY <1>3, <1>7, JoinScans
<1> HIDE DEF j
<1>9. Scanning(o, f, s, y, e.timestamp)
  BY <1>8, NotingKept
<1> HIDE DEF y, rest, full
<1> QED BY <1>4, <1>5, <1>6, <1>9, StallKept

LEMMA LetGoKept ==
  ASSUME NEW o \in query, query \in Queries, HasOutput(o), NEW f, FlowOK(query, f), NEW s, NEW x,
         NEW side, NEW e, ScanMade(o, f, s, x, side, e)
  PROVE  ScanMade(o, f, s, LetGo(x, e), side, e)
<1>1. CASE LetGo(x, e) = x
  BY <1>1
<1>2. CASE LetGo(x, e) # x
  <2> DEFINE g == decrRef(x.flow, e.tuple)
             y == LetGo(x, e)
  <2>1. y = [x EXCEPT !.flow = g]
    BY <1>2 DEF LetGo
  <2>2. FlowOK(query, x.flow) /\ Sends(query, o, f, x.flow, e.timestamp) /\ DOMAIN x = {"flow", "op"}
    BY DEF ScanMade, Scanning
  <2>3. SameQueues(x.flow, g)
    BY <2>2, SameOfCounts
  <2> HIDE DEF g, y
  <2>4. Sends(query, o, f, g, e.timestamp) /\ FlowOK(query, g)
    BY <2>2, <2>3, SendsSame
  <2>5. DOMAIN y = {"flow", "op"} /\ y.flow = g /\ y.op = x.op
    BY <2>1, <2>2
  <2>6. ScanMade(o, f, s, y, side, e)
    BY <2>4, <2>5 DEF ScanMade, Scanning
  <2> QED BY <2>6 DEF y
<1> QED BY <1>1, <1>2

(* The synopses stay sequences.                                            *)
LEMMA UpdateKeeps ==
  ASSUME NEW s, JoinOp(s, s), NEW side \in Sides, NEW e, e.kind \in {PLUS, MINUS}
  PROVE  JoinOp(s, UpdateSynopsis(s, side, e))
<1> DEFINE u == CASE e.kind = PLUS      -> <<e.tuple>> \o s.synopsis[side]
                  [] e.kind = MINUS     -> AllBut(s.synopsis[side], e.tuple)
                  [] e.kind = HEARTBEAT -> s.synopsis[side]
           v == [s.synopsis EXCEPT ![side] = u]
           r == UpdateSynopsis(s, side, e)
<1>0. SUFFICES JoinOp(s, r)
  OBVIOUS
<1>1. IsSeq(s.synopsis[side])
  BY DEF JoinOp
<1>2. IsSeq(u)
  <2>1. CASE e.kind = PLUS
    <3>1. u = <<e.tuple>> \o s.synopsis[side]
      BY <2>1 DEF PLUS, MINUS, HEARTBEAT
    <3> QED BY <1>1, <3>1, LeadIsSeq
  <2>2. CASE e.kind = MINUS
    <3>1. u = AllBut(s.synopsis[side], e.tuple)
      BY <2>2 DEF PLUS, MINUS, HEARTBEAT
    <3> QED BY <1>1, <3>1, AllButIsSeq
  <2> QED BY <2>1, <2>2
<1>3. r = [s EXCEPT !.synopsis = v]
  BY DEF UpdateSynopsis
<1> HIDE DEF u, r
<1>4. DOMAIN s.synopsis = Sides
  BY DEF JoinOp
<1>5. DOMAIN v = Sides /\ \A port \in Sides : IsSeq(v[port])
  BY <1>2, <1>4 DEF JoinOp
<1>6. v \in [Sides -> {v[port] : port \in Sides}]
  BY <1>4
<1> HIDE DEF v
<1>7. DOMAIN s = DOMAIN BinaryJoinInit
  BY DEF JoinOp
<1>8. /\ DOMAIN r = DOMAIN s /\ r.synopsis = v /\ r.lastTs = s.lastTs /\ r.minTs = s.minTs
  BY <1>3, <1>7 DEF BinaryJoinInit
<1> QED BY <1>5, <1>6, <1>7, <1>8 DEF JoinOp

LEMMA PartnersIsSeq ==
  ASSUME NEW o, NEW s, JoinOp(s, s), NEW side \in Sides, NEW t
  PROVE  IsSeq(Partners(o, s, side, t))
<1> DEFINE others == s.synopsis[Other(side)]
           P == {i \in DOMAIN others : Lineage(side, t, others[i]) \in Plan[o].joins}
<1>1. Other(side) \in Sides
  BY OtherSide
<1>2. IsSeq(others) /\ P \in SUBSET DOMAIN others
  BY <1>1 DEF JoinOp
<1>3. Partners(o, s, side, t) = At(others, P)
  BY DEF Partners
<1> HIDE DEF others, P
<1> QED BY <1>2, <1>3, AtIsSeq

LEMMA ProcessScans ==
  ASSUME NEW o \in query, query \in Queries, HasOutput(o), NEW f, FlowOK(query, f), NEW s,
         JoinOp(s, s), NEW side \in Sides, NEW e, e.kind \in {PLUS, MINUS},
         e.timestamp \in Nat, Promise(o, f) <= e.timestamp
  PROVE  ScanMade(o, f, s, Process(o, s, side, e, f), side, e)
<1> DEFINE g == IF e.kind = MINUS THEN decrRef(f, e.tuple) ELSE f
           x == [flow |-> g, op |-> UpdateSynopsis(s, side, e)]
           partners == Partners(o, s, side, e.tuple)
           y == SendJoins(o, x, side, e, partners)
<1>1. Process(o, s, side, e, f) = LetGo(y, e)
  BY DEF Process, IsData, PLUS, MINUS, HEARTBEAT
<1>2. SameQueues(f, g)
  BY SameOfCounts
<1>3. JoinOp(s, x.op)
  BY UpdateKeeps
<1>4. IsSeq(partners)
  BY PartnersIsSeq
<1>5. DOMAIN x = {"flow", "op"} /\ SameQueues(f, x.flow)
  BY <1>2
<1> HIDE DEF g, x, partners
<1>6. ScanMade(o, f, s, y, side, e)
  BY <1>3, <1>4, <1>5, SendJoinsScans
<1> HIDE DEF y
<1> QED BY <1>1, <1>6, LetGoKept

(***************************************************************************)
(* join: the runs.                                                         *)
(***************************************************************************)
LEMMA JoinFacts ==
  ASSUME IInv, NEW o \in query, Plan[o].kind = "join"
  PROVE  /\ Plan[o].kind \in Merging /\ JoinInv(o, op[o], flow)
         /\ JoinOp(op[o], op[o])
         /\ running = o => ~op[o].bStalled
<1>1. JoinInv(o, op[o], flow) /\ (running = o => RunInv(o, op[o], flow, slice))
  BY Base, OpInvIs
<1>2. DOMAIN op[o] = DOMAIN BinaryJoinInit
  BY <1>1 DEF JoinInv, MergeInv, InitialState
<1>3. JoinOp(op[o], op[o])
  BY <1>1, <1>2 DEF JoinInv, JoinOp
<1> QED BY <1>1, <1>3, RunInvIs DEF Merging

LEMMA JoinKept ==
  ASSUME IInv, NEW o \in query, Plan[o].kind = "join", Moved(query, o, flow, flow'),
         DOMAIN op' = query, \A p \in query \ {o} : op'[p] = op[p],
         JoinInv(o, op'[o], flow'), running' \in {o, Idle, Failed},
         running' = o => ~op'[o].bStalled /\ MergeRuns(o, op'[o], flow', slice'),
         slice' \in 0 .. TimeSlice
  PROVE  StepOf(o)
<1>1. OpInv(o, op'[o], flow') /\ (running' = o => RunInv(o, op'[o], flow', slice'))
  BY OpInvIs, RunInvIs
<1> QED BY <1>1, NoFeeds DEF StepOf

(* Only the times changed.                                                 *)
LEMMA JoinSame ==
  ASSUME NEW o, NEW s, NEW r, NEW f, NEW g, JoinInv(o, s, f), ~s.bStalled,
         DOMAIN r = DOMAIN s, DOMAIN s = DOMAIN BinaryJoinInit,
         \A x \in DOMAIN s \ {"minTs", "lastOutputTs"} : r[x] = s[x], MergeInv(o, r, g)
  PROVE  JoinInv(o, r, g) /\ ~r.bStalled
<1>1. r.bStalled = s.bStalled /\ r.synopsis = s.synopsis /\ r.rest = s.rest
  BY DEF BinaryJoinInit
<1> QED BY <1>1 DEF JoinInv

(* What a scan left, once the heartbeat times are set again.               *)
Timed(s, x, side, e, m, z) ==
    /\ z.flow = x.flow /\ DOMAIN z.op = DOMAIN BinaryJoinInit
    /\ z.op.minTs = IF x.op.bStalled THEN Zero ELSE m
    /\ z.op.lastTs = s.lastTs
    /\ z.op.bStalled = x.op.bStalled /\ z.op.bStalled \in BOOLEAN
    /\ z.op.synopsis \in [Sides -> {z.op.synopsis[port] : port \in Sides}]
    /\ \A port \in Sides : IsSeq(z.op.synopsis[port])
    /\ IsSeq(z.op.rest)
    /\ z.op.bStalled => z.op.stallSide = side /\ z.op.stallElement = e

LEMMA MinTsSet ==
  ASSUME NEW o, NEW f, NEW s, NEW x, NEW side, NEW e, ScanMade(o, f, s, x, side, e), NEW m, NEW z,
         z = [x EXCEPT !.op.minTs = IF x.op.bStalled THEN Zero ELSE m]
  PROVE  Timed(s, x, side, e, m, z)
<1> DEFINE n == IF x.op.bStalled THEN Zero ELSE m
           r == [x.op EXCEPT !.minTs = n]
<1>1. DOMAIN x = {"flow", "op"} /\ DOMAIN x.op = DOMAIN BinaryJoinInit
  BY DEF ScanMade, Scanning, JoinOp
<1>2. z.flow = x.flow /\ z.op = r
  BY <1>1
<1> HIDE DEF n
<1>3. /\ DOMAIN r = DOMAIN BinaryJoinInit /\ r.minTs = n
      /\ r.lastTs = x.op.lastTs /\ r.bStalled = x.op.bStalled /\ r.synopsis = x.op.synopsis
      /\ r.rest = x.op.rest /\ r.stallSide = x.op.stallSide /\ r.stallElement = x.op.stallElement
  BY <1>1 DEF BinaryJoinInit
<1> HIDE DEF r
<1> QED BY <1>2, <1>3 DEF n, ScanMade, Scanning, JoinOp, Timed

LEMMA JoinBegins ==
  ASSUME IInv, NEW o \in query, Plan[o].kind = "join", BinaryJoinBegin(o)
  PROVE  StepOf(o)
<1> DEFINE s == op[o]
           e == s.stallElement
<1>1. /\ Plan[o].kind \in Merging /\ JoinInv(o, s, flow) /\ JoinOp(s, s)
      /\ HasOutput(o) /\ Ports(o) = Sides /\ query \in Queries /\ FlowOK(query, flow)
      /\ DOMAIN op = query /\ MergeInv(o, s, flow)
  BY JoinFacts, MergeFacts
<1>2. CASE ~s.bStalled
  <2>1. MergeBegin(o)
    BY <1>2 DEF BinaryJoinBegin
  <2>2. /\ flow' = flow /\ running' = o /\ slice' = TimeSlice /\ slice' \in 0 .. TimeSlice
        /\ DOMAIN op' = query /\ \A p \in query \ {o} : op'[p] = op[p]
        /\ Moved(query, o, flow, flow') /\ DOMAIN op'[o] = DOMAIN op[o]
        /\ \A x \in DOMAIN op[o] \ {"minTs"} : op'[o][x] = op[o][x]
        /\ MergeInv(o, op'[o], flow) /\ MergeRuns(o, op'[o], flow, TimeSlice)
    BY <1>1, <2>1, MergeBegins
  <2>3. PICK r : r = op'[o]
    OBVIOUS
  <2>4. JoinInv(o, r, flow) /\ ~r.bStalled
    <3>1. DOMAIN s = DOMAIN BinaryJoinInit
      BY <1>1 DEF JoinOp
    <3> QED BY <1>1, <1>2, <2>2, <2>3, <3>1, JoinSame
  <2> QED BY <2>2, <2>3, <2>4, JoinKept
<1>3. CASE s.bStalled /\ Unrecorded(o, s.stallSide, e, s.rest)
  <2>1. ReturnError /\ UNCHANGED <<flow, op>>
    BY <1>3 DEF BinaryJoinBegin
  <2> QED BY <2>1, Control, NothingDone
<1>4. CASE s.bStalled /\ ~Unrecorded(o, s.stallSide, e, s.rest)
  <2> DEFINE x == [flow |-> flow, op |-> s]
             y == SendJoins(o, x, s.stallSide, e, s.rest)
             w == LetGo(y, e)
             z == MinTsReset(w)
  <2>1. Became(o, z) /\ IF z.op.bStalled THEN Return ELSE Begin(o)
    BY <1>4 DEF BinaryJoinBegin, BeginUnlessStalled, ClearJoinStall
  <2>2. /\ e.kind \in {PLUS, MINUS} /\ e.timestamp \in Nat /\ Promise(o, flow) <= e.timestamp
        /\ s.stallSide \in Sides /\ IsSeq(s.rest)
        /\ \A side \in Sides : AtLeast(o, s, flow, side, e.timestamp)
    BY <1>1, <1>4 DEF JoinInv
  <2>3. DOMAIN x = {"flow", "op"} /\ SameQueues(flow, x.flow) /\ JoinOp(s, x.op)
    BY <1>1, SameOfCounts
  <2> HIDE DEF x, e
  <2>4. ScanMade(o, flow, s, y, s.stallSide, e)
    BY <1>1, <2>2, <2>3, SendJoinsScans
  <2> HIDE DEF y
  <2>5. ScanMade(o, flow, s, w, s.stallSide, e)
    BY <1>1, <2>4, LetGoKept
  <2> HIDE DEF w
  <2>6. z = [w EXCEPT !.op.minTs = IF w.op.bStalled THEN Zero ELSE w.op.lastTs]
    BY DEF MinTsReset
  <2> HIDE DEF z, s
  <2>7. w.op.lastTs = s.lastTs
    BY <2>5 DEF ScanMade, Scanning, JoinOp
  <2>7a. Timed(s, w, s.stallSide, e, w.op.lastTs, z)
    BY <2>5, <2>6, MinTsSet
  <2>8. /\ z.flow = w.flow /\ DOMAIN z.op = DOMAIN BinaryJoinInit
        /\ z.op.minTs = IF w.op.bStalled THEN Zero ELSE w.op.lastTs
        /\ z.op.lastTs = s.lastTs
        /\ z.op.bStalled = w.op.bStalled /\ z.op.bStalled \in BOOLEAN
        /\ z.op.synopsis \in [Sides -> {z.op.synopsis[port] : port \in Sides}]
        /\ \A port \in Sides : IsSeq(z.op.synopsis[port])
        /\ IsSeq(z.op.rest)
        /\ z.op.bStalled => z.op.stallSide = s.stallSide /\ z.op.stallElement = e
    BY <2>7a DEF Timed
  <2>9. Put(query, Plan[o].out, flow, z.flow) /\ Promise(o, z.flow) <= e.timestamp
        /\ FlowOK(query, z.flow)
    BY <2>5, <2>8 DEF ScanMade, Scanning, Sends
  <2>10. Promise(o, z.flow) \in Nat
    BY <1>1, <2>9, OutOK, FlowFields DEF Promise
  <2>11. \A side \in Sides : AtLeast(o, s, z.flow, side, e.timestamp)
    BY <1>1, <2>2, <2>9, MergePut
  <2>12. \A side \in Sides : AtLeast(o, s, flow, side, Promise(o, z.flow))
    <3>1. TAKE side \in Sides
    <3>2. s.lastTs[side] \in Nat
      BY <1>1, MergeTypes
    <3>3. ~isEmpty(flow, Input(o, side)) => peek(flow, Input(o, side)).timestamp \in Nat
      BY <1>1, PeekFacts DEF Input
    <3> QED BY <2>2, <2>9, <2>10, <3>2, <3>3 DEF AtLeast
  <2>13. MergeInv(o, s, z.flow)
    BY <1>1, <2>9, <2>12, MergePut
  <2>14. z.op.minTs \in [Sides -> Nat]
    BY <1>1, <2>7, <2>8, MergeTypes DEF Zero
  <2>15. DOMAIN z.op = DOMAIN s
    BY <1>1, <2>8 DEF JoinOp
  <2>16. \A side \in Sides : \A ts :
           AtLeast(o, s, z.flow, side, ts) => AtLeast(o, z.op, z.flow, side, ts)
    BY <2>8 DEF AtLeast
  <2>17. MergeInv(o, z.op, z.flow)
    BY <2>8, <2>13, <2>14, <2>15, <2>16 DEF MergeInv
  <2>18. JoinInv(o, z.op, z.flow)
    BY <2>2, <2>8, <2>9, <2>11, <2>16, <2>17 DEF JoinInv
  <2>19. ~z.op.bStalled => MergeRuns(o, z.op, z.flow, TimeSlice)
    <3>1. SUFFICES ASSUME ~z.op.bStalled PROVE MergeRuns(o, z.op, z.flow, TimeSlice)
      OBVIOUS
    <3>2. z.op.minTs = s.lastTs
      BY <2>7, <2>8, <3>1
    <3> QED BY <1>1, <2>8, <2>9, <2>13, <2>15, <3>2, RunsAtFirst
  <2>20. /\ flow' = z.flow /\ op'[o] = z.op
         /\ DOMAIN op' = query /\ \A p \in query \ {o} : op'[p] = op[p]
    BY <1>1, <2>1 DEF Became
  <2>21. Moved(query, o, flow, flow')
    BY <1>1, <2>9, <2>20, ReadNothing, MovedBy
  <2>22. /\ running' \in {o, Idle, Failed} /\ slice' \in 0 .. TimeSlice
         /\ running' = o => ~z.op.bStalled /\ slice' = TimeSlice
    BY <2>1, Control
  <2>23. PICK t : t = z.op
    OBVIOUS
  <2>24. op'[o] = t /\ JoinInv(o, t, flow')
         /\ (running' = o => ~t.bStalled /\ MergeRuns(o, t, flow', slice'))
    BY <2>18, <2>19, <2>20, <2>22, <2>23
  <2> QED BY <2>20, <2>21, <2>22, <2>24, JoinKept
<1> QED BY <1>2, <1>3, <1>4

LEMMA JoinIterates ==
  ASSUME IInv, NEW o \in query, Plan[o].kind = "join", BinaryJoinIterate(o)
  PROVE  StepOf(o)
<1> DEFINE side == Chosen(o)
           e    == peek(flow, Input(o, side))
           d    == dequeue(flow, Input(o, side))
           s    == Noted(o, side, e)
           y    == Process(o, s, side, e, d)
           z    == MinTsKept(y)
<1>1. /\ Plan[o].kind \in Merging /\ JoinInv(o, op[o], flow) /\ JoinOp(op[o], op[o])
      /\ HasOutput(o) /\ Ports(o) = Sides /\ query \in Queries /\ FlowOK(query, flow)
      /\ DOMAIN op = query
  BY JoinFacts, MergeFacts
<1>2. /\ MayIterate(o) /\ ~NothingReady(o) /\ running = o /\ ~op[o].bStalled
      /\ BinaryJoinIterateWith(o, side, e)
  BY JoinFacts DEF BinaryJoinIterate, MayIterate
<1>3. side \in Sides /\ InTurn(o, side)
  BY <1>1, <1>2, ChosenInTurn
<1>4. CASE ReturnError /\ UNCHANGED <<flow, op>>
  BY <1>4, Control, NothingDone
<1>5. CASE ~(ReturnError /\ UNCHANGED <<flow, op>>)
  <2>1. LoopUnlessStalled(o, z)
    BY <1>2, <1>5 DEF BinaryJoinIterateWith
  <2>2. Became(o, z) /\ IF z.op.bStalled THEN Return ELSE Loop
    BY <2>1 DEF LoopUnlessStalled
  <2> HIDE DEF side, e
  <2>3. /\ FlowOK(query, d) /\ e.kind \in KindOf /\ e.timestamp \in Nat
        /\ Promise(o, d) <= e.timestamp
    BY <1>1, <1>2, <1>3, ReadFacts DEF e
  <2> HIDE DEF d
  <2>4. /\ DOMAIN s = DOMAIN op[o] /\ s.lastTs = [op[o].lastTs EXCEPT ![side] = e.timestamp]
        /\ s.minTs = MinTs(o)
        /\ \A x \in DOMAIN op[o] \ {"minTs", "lastTs"} : s[x] = op[o][x]
    BY <1>1, <1>3, NotedFacts
  <2> HIDE DEF s
  <2>5. DOMAIN s = DOMAIN BinaryJoinInit
    BY <1>1, <2>4 DEF JoinOp
  <2>6. s.synopsis = op[o].synopsis /\ s.bStalled = op[o].bStalled /\ s.rest = op[o].rest
    BY <2>4, <2>5 DEF BinaryJoinInit
  <2>7. JoinOp(s, s)
    BY <1>1, <2>5, <2>6 DEF JoinOp
  <2>8. ~s.bStalled /\ s.bStalled \in BOOLEAN /\ IsSeq(s.rest)
    BY <1>1, <1>2, <2>6 DEF JoinInv
  <2>9. ScanMade(o, d, s, y, side, e) /\ (y.op.bStalled => e.kind \in {PLUS, MINUS})
    <3>1. CASE IsData(e)
      <4>1. e.kind \in {PLUS, MINUS}
        BY <2>3, <3>1 DEF IsData, KindOf
      <4> QED BY <1>1, <1>3, <2>3, <2>7, <4>1, ProcessScans
    <3>2. CASE ~IsData(e)
      <4>1. y = [flow |-> d, op |-> s]
        BY <3>2 DEF Process
      <4>2. SameQueues(d, d)
        BY <2>3, SameOfCounts
      <4>3. Sends(query, o, d, d, e.timestamp)
        BY <1>1, <2>3, <4>2, SendsNothing
      <4> HIDE DEF y
      <4> QED BY <2>3, <2>7, <2>8, <4>1, <4>3 DEF ScanMade, Scanning
    <3> QED BY <3>1, <3>2
  <2> HIDE DEF y
  <2>10. z = [y EXCEPT !.op.minTs = IF y.op.bStalled THEN Zero ELSE y.op.minTs]
    BY DEF MinTsKept
  <2>11. y.op.minTs = MinTs(o)
    BY <2>4, <2>9 DEF ScanMade, Scanning, JoinOp
  <2> HIDE DEF z
  <2>12. Timed(s, y, side, e, y.op.minTs, z)
    BY <2>9, <2>10, MinTsSet
  <2>13. /\ z.flow = y.flow /\ DOMAIN z.op = DOMAIN BinaryJoinInit
         /\ z.op.minTs = IF y.op.bStalled THEN Zero ELSE MinTs(o)
         /\ z.op.lastTs = s.lastTs
         /\ z.op.bStalled = y.op.bStalled /\ z.op.bStalled \in BOOLEAN
         /\ z.op.synopsis \in [Sides -> {z.op.synopsis[port] : port \in Sides}]
         /\ \A port \in Sides : IsSeq(z.op.synopsis[port])
         /\ IsSeq(z.op.rest)
         /\ z.op.bStalled => z.op.stallSide = side /\ z.op.stallElement = e
    BY <2>11, <2>12 DEF Timed
  <2>14. Put(query, Plan[o].out, d, z.flow) /\ Promise(o, z.flow) <= e.timestamp
    BY <2>9, <2>13 DEF ScanMade, Scanning, Sends
  <2>15. PICK r : r = z.op
    OBVIOUS
  <2>16. DOMAIN r = DOMAIN op[o] /\ r.lastTs = [op[o].lastTs EXCEPT ![side] = e.timestamp]
    BY <2>4, <2>5, <2>13, <2>15
  <2>17. /\ Moved(query, o, flow, z.flow)
         /\ \A port \in Sides : AtLeast(o, r, z.flow, port, e.timestamp)
         /\ r.minTs \in {MinTs(o), Zero} => MergeInv(o, r, z.flow)
         /\ \A left : r.minTs = MinTs(o) => MergeRuns(o, r, z.flow, left)
    BY <1>1, <1>2, <1>3, <2>14, <2>16, MergeReads DEF d, e
  <2>18. MergeInv(o, r, z.flow)
    BY <2>13, <2>15, <2>17
  <2>19. JoinInv(o, r, z.flow)
    BY <1>3, <2>3, <2>9, <2>13, <2>14, <2>15, <2>17, <2>18 DEF JoinInv
  <2>20. /\ flow' = z.flow /\ op'[o] = r
         /\ DOMAIN op' = query /\ \A p \in query \ {o} : op'[p] = op[p]
    BY <1>1, <2>2, <2>15 DEF Became
  <2>21. /\ running' \in {o, Idle, Failed} /\ slice' \in 0 .. TimeSlice
         /\ running' = o => ~z.op.bStalled
    BY <1>2, <2>2, Control
  <2>22. running' = o => ~r.bStalled /\ MergeRuns(o, r, z.flow, slice')
    BY <2>13, <2>15, <2>17, <2>21
  <2>23. JoinInv(o, op'[o], flow') /\ Moved(query, o, flow, flow')
         /\ (running' = o => ~op'[o].bStalled /\ MergeRuns(o, op'[o], flow', slice'))
    BY <2>17, <2>19, <2>20, <2>22
  <2> QED BY <2>20, <2>21, <2>23, JoinKept
<1> QED BY <1>4, <1>5

LEMMA JoinStep ==
  ASSUME IInv, NEW o \in query, Plan[o].kind = "join",
         BinaryJoinBegin(o) \/ BinaryJoinIterate(o) \/ BinaryJoinEnd(o)
  PROVE  StepOf(o)
<1>1. CASE BinaryJoinEnd(o)
  <2>1. running = o /\ MergeReturn(o)
    BY <1>1 DEF BinaryJoinEnd, MayEnd
  <2>2. /\ Plan[o].kind \in Merging /\ JoinInv(o, op[o], flow) /\ ~op[o].bStalled
        /\ DOMAIN op[o] = DOMAIN BinaryJoinInit
    BY <2>1, JoinFacts DEF JoinOp
  <2>3. /\ running' \in {Idle, Failed} /\ running' # o /\ slice' \in 0 .. TimeSlice
        /\ DOMAIN op' = query /\ \A p \in query \ {o} : op'[p] = op[p]
        /\ Moved(query, o, flow, flow') /\ DOMAIN op'[o] = DOMAIN op[o]
        /\ \A x \in DOMAIN op[o] \ {"minTs", "lastOutputTs"} : op'[o][x] = op[o][x]
        /\ MergeInv(o, op'[o], flow')
    BY <2>1, <2>2, MergeEnds
  <2>4. PICK r, g : r = op'[o] /\ g = flow'
    OBVIOUS
  <2>5. JoinInv(o, r, g)
    BY <2>2, <2>3, <2>4, JoinSame
  <2> QED BY <2>3, <2>4, <2>5, JoinKept
<1> QED BY <1>1, JoinBegins, JoinIterates

(***************************************************************************)
(* streamjoin: only an element of the stream makes output.                 *)
(***************************************************************************)
StreamOp(s, r) ==
    /\ DOMAIN r = DOMAIN BinStreamJoinInit
    /\ r.lastTs = s.lastTs /\ r.minTs = s.minTs
    /\ r.bStalled \in BOOLEAN
    /\ IsSeq(r.innerSynopsis) /\ IsSeq(r.rest)

Streamed(o, f, s, x, ts) ==
    /\ DOMAIN x = {"flow", "op"}
    /\ Sends(query, o, f, x.flow, ts) /\ FlowOK(query, x.flow)
    /\ StreamOp(s, x.op)

LEMMA StreamScans ==
  ASSUME NEW o \in query, query \in Queries, HasOutput(o), NEW f, FlowOK(query, f), NEW s,
         StreamOp(s, s), NEW t, NEW ts \in Nat, Promise(o, f) <= ts, NEW partners, IsSeq(partners)
  PROVE  Streamed(o, f, s, LetStreamTupleGo(StreamJoinScan(o, s, f, t, ts, partners), t), ts)
<1> DEFINE n == Min({Len(partners), Space(f, Plan[o].out)})
           us == [i \in 1 .. n |-> Joined(o, <<t, partners[i]>>)]
           g == insertAll(f, Plan[o].out, us, ts)
           rest == SubSeq(partners, n + 1, Len(partners))
           full == isFull(g, Plan[o].out)
           last == IF n = 0 THEN s.lastOutputTs ELSE ts
           a == IF full THEN t ELSE <<>>
           b == IF full THEN rest ELSE <<>>
           p == [s EXCEPT !.lastOutputTs = last]
           r == [p EXCEPT !.bStalled = full, !.stallTuple = a, !.rest = b]
           x == StreamJoinScan(o, s, f, t, ts, partners)
           h == decrRef(g, t)
           y == LetStreamTupleGo(x, t)
<1>0. SUFFICES Streamed(o, f, s, y, ts)
  OBVIOUS
<1>1. Plan[o].out \in Outs(query) /\ Reader(Plan[o].out) # {}
  BY OutOK
<1>2. Space(f, Plan[o].out) \in Nat /\ Len(partners) \in Nat
  BY <1>1, SpaceFacts, SeqFacts, SizesAssumption
<1>3. n \in Nat /\ n <= Space(f, Plan[o].out)
  BY <1>2, MinOfTwo
<1>4. x = [flow |-> g, op |-> r]
  BY DEF StreamJoinScan, StreamJoinSome, StreamJoinStallOrNot, StreamJoinStallIf
<1>5. IsSeq(b)
  BY <1>3, RestIsSeq, EmptyIsSeq
<1>6. full \in BOOLEAN
  BY DEF isFull
<1> HIDE DEF n
<1>7. us = [i \in 1 .. n |-> us[i]]
  OBVIOUS
<1> HIDE DEF us
<1>8. Sends(query, o, f, g, ts) /\ FlowOK(query, g)
  BY <1>3, <1>7, InsertAllSends
<1> HIDE DEF g
<1>9. SameQueues(g, h)
  BY <1>8, SameOfCounts
<1>10. Sends(query, o, f, h, ts) /\ FlowOK(query, h)
  BY <1>8, <1>9, SendsSame
<1> HIDE DEF h, full, last, a, b, x
<1>11. DOMAIN s = DOMAIN BinStreamJoinInit
  BY DEF StreamOp
<1>12. /\ DOMAIN p = DOMAIN s /\ p.lastTs = s.lastTs /\ p.minTs = s.minTs
       /\ p.innerSynopsis = s.innerSynopsis
  BY <1>11 DEF BinStreamJoinInit
<1> HIDE DEF p
<1>13. /\ DOMAIN r = DOMAIN p /\ r.lastTs = p.lastTs /\ r.minTs = p.minTs
       /\ r.innerSynopsis = p.innerSynopsis /\ r.bStalled = full /\ r.rest = b
  BY <1>11, <1>12 DEF BinStreamJoinInit
<1> HIDE DEF r
<1>14. StreamOp(s, r)
  BY <1>5, <1>6, <1>12, <1>13 DEF StreamOp
<1>15. y \in {[flow |-> g, op |-> r], [flow |-> h, op |-> r]}
  BY <1>4 DEF LetStreamTupleGo, h
<1> HIDE DEF y
<1> QED BY <1>8, <1>10, <1>14, <1>15 DEF Streamed

LEMMA InnerScans ==
  ASSUME NEW o \in query, query \in Queries, HasOutput(o), NEW f, FlowOK(query, f), NEW s,
         StreamOp(s, s), NEW e, Promise(o, f) <= e.timestamp
  PROVE  Streamed(o, f, s, ProcessInner(s, e, f), e.timestamp)
<1> DEFINE x == ProcessInner(s, e, f)
           g == addRef(f, e.tuple, 1)
           h == decrRef(f, e.tuple)
           i == <<e.tuple>> \o s.innerSynopsis
           j == AllBut(s.innerSynopsis, e.tuple)
<1>0. SUFFICES Streamed(o, f, s, x, e.timestamp)
  OBVIOUS
<1>1. SameQueues(f, g) /\ SameQueues(f, h) /\ FlowOK(query, g) /\ FlowOK(query, h)
  BY SameOfCounts, SameIsOK
<1>2. IsSeq(i) /\ IsSeq(j)
  BY LeadIsSeq, AllButIsSeq DEF StreamOp
<1>3. x = IF e.kind = PLUS
          THEN [flow |-> decrRef(g, e.tuple), op |-> [s EXCEPT !.innerSynopsis = i]]
          ELSE [flow |-> decrRef(h, e.tuple), op |-> [s EXCEPT !.innerSynopsis = j]]
  BY DEF ProcessInner
<1> HIDE DEF g, h, i, j, x
<1>4. SameQueues(g, decrRef(g, e.tuple)) /\ SameQueues(h, decrRef(h, e.tuple))
  BY <1>1, SameOfCounts
<1>5. SameQueues(f, decrRef(g, e.tuple)) /\ SameQueues(f, decrRef(h, e.tuple))
  BY <1>1, <1>4, SameSame
<1>6. /\ Sends(query, o, f, decrRef(g, e.tuple), e.timestamp) /\ FlowOK(query, decrRef(g, e.tuple))
      /\ Sends(query, o, f, decrRef(h, e.tuple), e.timestamp) /\ FlowOK(query, decrRef(h, e.tuple))
  BY <1>5, SendsNothing
<1>7. StreamOp(s, [s EXCEPT !.innerSynopsis = i]) /\ StreamOp(s, [s EXCEPT !.innerSynopsis = j])
  BY <1>2 DEF StreamOp, BinStreamJoinInit
<1>8. CASE e.kind = PLUS
  BY <1>3, <1>6, <1>7, <1>8 DEF Streamed
<1>9. CASE e.kind # PLUS
  BY <1>3, <1>6, <1>7, <1>9 DEF Streamed
<1> QED BY <1>8, <1>9

LEMMA StreamJoinProcesses ==
  ASSUME NEW o \in query, query \in Queries, HasOutput(o), NEW f, FlowOK(query, f), NEW s,
         StreamOp(s, s), ~s.bStalled, NEW side \in Sides, NEW e, e.kind \in KindOf,
         e.timestamp \in Nat, Promise(o, f) <= e.timestamp
  PROVE  /\ Streamed(o, f, s, StreamJoinProcess(o, s, side, e, f), e.timestamp)
         /\ StreamJoinProcess(o, s, side, e, f).op.bStalled => side = "left"
<1> DEFINE x == StreamJoinProcess(o, s, side, e, f)
<1>0. SUFFICES Streamed(o, f, s, x, e.timestamp) /\ (x.op.bStalled => side = "left")
  OBVIOUS
<1>1. CASE ~IsData(e)
  <2>1. x = [flow |-> f, op |-> s]
    BY <1>1 DEF StreamJoinProcess
  <2>2. Sends(query, o, f, f, e.timestamp)
    BY SameOfCounts, SendsNothing
  <2> HIDE DEF x
  <2> QED BY <2>1, <2>2 DEF Streamed
<1>2. CASE IsData(e) /\ side = "left"
  <2> DEFINE partners == JoinsWith(o, s, e.tuple)
             P == {i \in DOMAIN s.innerSynopsis : <<e.tuple, s.innerSynopsis[i]>> \in Plan[o].joins}
  <2>1. partners = At(s.innerSynopsis, P) /\ P \in SUBSET DOMAIN s.innerSynopsis
    BY DEF JoinsWith
  <2> HIDE DEF P
  <2>2. IsSeq(partners)
    BY <2>1, AtIsSeq DEF StreamOp
  <2>3. x = LetStreamTupleGo(StreamJoinScan(o, s, f, e.tuple, e.timestamp, partners), e.tuple)
    BY <1>2 DEF StreamJoinProcess, ProcessOuter, Sides
  <2> HIDE DEF partners, x
  <2>4. Streamed(o, f, s, x, e.timestamp)
    BY <2>2, <2>3, StreamScans
  <2> QED BY <1>2, <2>4
<1>3. CASE IsData(e) /\ side = "right"
  <2>1. x = ProcessInner(s, e, f)
    BY <1>3 DEF StreamJoinProcess
  <2>2. x.op.bStalled = s.bStalled
    BY <2>1 DEF ProcessInner, StreamOp, BinStreamJoinInit
  <2> HIDE DEF x
  <2>3. Streamed(o, f, s, x, e.timestamp)
    BY <2>1, InnerScans
  <2> QED BY <2>2, <2>3
<1> QED BY <1>1, <1>2, <1>3 DEF Sides

LEMMA StreamJoinFacts ==
  ASSUME IInv, NEW o \in query, Plan[o].kind = "streamjoin"
  PROVE  /\ Plan[o].kind \in Merging /\ StreamJoinInv(o, op[o], flow)
         /\ StreamOp(op[o], op[o])
         /\ running = o => ~op[o].bStalled
<1>1. StreamJoinInv(o, op[o], flow) /\ (running = o => RunInv(o, op[o], flow, slice))
  BY Base, OpInvIs
<1>2. DOMAIN op[o] = DOMAIN BinStreamJoinInit
  BY <1>1 DEF StreamJoinInv, MergeInv, InitialState
<1>3. StreamOp(op[o], op[o])
  BY <1>1, <1>2 DEF StreamJoinInv, StreamOp
<1> QED BY <1>1, <1>3, RunInvIs DEF Merging

LEMMA StreamJoinKept ==
  ASSUME IInv, NEW o \in query, Plan[o].kind = "streamjoin", Moved(query, o, flow, flow'),
         DOMAIN op' = query, \A p \in query \ {o} : op'[p] = op[p],
         StreamJoinInv(o, op'[o], flow'), running' \in {o, Idle, Failed},
         running' = o => ~op'[o].bStalled /\ MergeRuns(o, op'[o], flow', slice'),
         slice' \in 0 .. TimeSlice
  PROVE  StepOf(o)
<1>1. OpInv(o, op'[o], flow') /\ (running' = o => RunInv(o, op'[o], flow', slice'))
  BY OpInvIs, RunInvIs
<1> QED BY <1>1, NoFeeds DEF StepOf

LEMMA StreamJoinSame ==
  ASSUME NEW o, NEW s, NEW r, NEW f, NEW g, StreamJoinInv(o, s, f), ~s.bStalled,
         DOMAIN r = DOMAIN s, DOMAIN s = DOMAIN BinStreamJoinInit,
         \A x \in DOMAIN s \ {"minTs", "lastOutputTs"} : r[x] = s[x], MergeInv(o, r, g)
  PROVE  StreamJoinInv(o, r, g) /\ ~r.bStalled
<1>1. r.bStalled = s.bStalled /\ r.innerSynopsis = s.innerSynopsis /\ r.rest = s.rest
  BY DEF BinStreamJoinInit
<1> QED BY <1>1 DEF StreamJoinInv

StreamTimed(s, x, m, z) ==
    /\ z.flow = x.flow
    /\ z.op.minTs = IF x.op.bStalled THEN Zero ELSE m
    /\ z.op.bStalled = x.op.bStalled
    /\ DOMAIN z.op = DOMAIN BinStreamJoinInit /\ z.op.lastTs = s.lastTs
    /\ z.op.bStalled \in BOOLEAN /\ IsSeq(z.op.innerSynopsis) /\ IsSeq(z.op.rest)

LEMMA StreamMinTsSet ==
  ASSUME NEW o, NEW f, NEW s, NEW x, NEW ts, Streamed(o, f, s, x, ts), NEW m, NEW z,
         z = [x EXCEPT !.op.minTs = IF x.op.bStalled THEN Zero ELSE m]
  PROVE  StreamTimed(s, x, m, z)
<1> DEFINE n == IF x.op.bStalled THEN Zero ELSE m
           r == [x.op EXCEPT !.minTs = n]
<1>1. DOMAIN x = {"flow", "op"} /\ DOMAIN x.op = DOMAIN BinStreamJoinInit
  BY DEF Streamed, StreamOp
<1>2. z.flow = x.flow /\ z.op = r
  BY <1>1
<1> HIDE DEF n
<1>3. /\ DOMAIN r = DOMAIN BinStreamJoinInit /\ r.minTs = n
      /\ r.lastTs = x.op.lastTs /\ r.bStalled = x.op.bStalled
      /\ r.innerSynopsis = x.op.innerSynopsis /\ r.rest = x.op.rest
  BY <1>1 DEF BinStreamJoinInit
<1> HIDE DEF r
<1> QED BY <1>2, <1>3 DEF n, Streamed, StreamOp, StreamTimed

LEMMA StreamJoinBegins ==
  ASSUME IInv, NEW o \in query, Plan[o].kind = "streamjoin", BinStreamJoinBegin(o)
  PROVE  StepOf(o)
<1> DEFINE s == op[o]
           ts == s.lastTs["left"]
<1>1. /\ Plan[o].kind \in Merging /\ StreamJoinInv(o, s, flow) /\ StreamOp(s, s)
      /\ HasOutput(o) /\ Ports(o) = Sides /\ query \in Queries /\ FlowOK(query, flow)
      /\ DOMAIN op = query /\ MergeInv(o, s, flow)
  BY StreamJoinFacts, MergeFacts
<1>2. CASE ~s.bStalled
  <2>1. MergeBegin(o)
    BY <1>2 DEF BinStreamJoinBegin
  <2>2. /\ flow' = flow /\ running' = o /\ slice' = TimeSlice /\ slice' \in 0 .. TimeSlice
        /\ DOMAIN op' = query /\ \A p \in query \ {o} : op'[p] = op[p]
        /\ Moved(query, o, flow, flow') /\ DOMAIN op'[o] = DOMAIN op[o]
        /\ \A x \in DOMAIN op[o] \ {"minTs"} : op'[o][x] = op[o][x]
        /\ MergeInv(o, op'[o], flow) /\ MergeRuns(o, op'[o], flow, TimeSlice)
    BY <1>1, <2>1, MergeBegins
  <2>3. PICK r : r = op'[o]
    OBVIOUS
  <2>4. StreamJoinInv(o, r, flow) /\ ~r.bStalled
    <3>1. DOMAIN s = DOMAIN BinStreamJoinInit
      BY <1>1 DEF StreamOp
    <3> QED BY <1>1, <1>2, <2>2, <2>3, <3>1, StreamJoinSame
  <2> QED BY <2>2, <2>3, <2>4, StreamJoinKept
<1>3. CASE s.bStalled
  <2> DEFINE w == ClearStreamJoinStall(o, s)
             z == MinTsReset(w)
  <2>1. Became(o, z) /\ IF z.op.bStalled THEN Return ELSE Begin(o)
    BY <1>3 DEF BinStreamJoinBegin, BeginUnlessStalled
  <2>2. /\ ts \in Nat /\ Promise(o, flow) <= ts /\ IsSeq(s.rest)
        /\ \A side \in Sides : AtLeast(o, s, flow, side, ts)
    BY <1>1, <1>3, MergeTypes DEF StreamJoinInv, Sides
  <2>3. w = LetStreamTupleGo(StreamJoinScan(o, s, flow, s.stallTuple, ts, s.rest), s.stallTuple)
    BY DEF ClearStreamJoinStall
  <2> HIDE DEF ts, w
  <2>4. Streamed(o, flow, s, w, ts)
    BY <1>1, <2>2, <2>3, StreamScans
  <2>5. z = [w EXCEPT !.op.minTs = IF w.op.bStalled THEN Zero ELSE w.op.lastTs]
    BY DEF MinTsReset
  <2> HIDE DEF z, s
  <2>6. w.op.lastTs = s.lastTs
    BY <2>4 DEF Streamed, StreamOp
  <2>7. StreamTimed(s, w, w.op.lastTs, z)
    BY <2>4, <2>5, StreamMinTsSet
  <2>8. /\ z.flow = w.flow
        /\ z.op.minTs = IF w.op.bStalled THEN Zero ELSE w.op.lastTs
        /\ z.op.bStalled = w.op.bStalled
        /\ DOMAIN z.op = DOMAIN BinStreamJoinInit /\ z.op.lastTs = s.lastTs
        /\ z.op.bStalled \in BOOLEAN /\ IsSeq(z.op.innerSynopsis) /\ IsSeq(z.op.rest)
    BY <2>7 DEF StreamTimed
  <2>9. Put(query, Plan[o].out, flow, z.flow) /\ Promise(o, z.flow) <= ts /\ FlowOK(query, z.flow)
    BY <2>4, <2>8 DEF Streamed, Sends
  <2>10. Promise(o, z.flow) \in Nat
    BY <1>1, <2>9, OutOK, FlowFields DEF Promise
  <2>11. \A side \in Sides : AtLeast(o, s, z.flow, side, ts)
    BY <1>1, <2>2, <2>9, MergePut
  <2>12. \A side \in Sides : AtLeast(o, s, flow, side, Promise(o, z.flow))
    <3>1. TAKE side \in Sides
    <3>2. s.lastTs[side] \in Nat
      BY <1>1, MergeTypes
    <3>3. ~isEmpty(flow, Input(o, side)) => peek(flow, Input(o, side)).timestamp \in Nat
      BY <1>1, PeekFacts DEF Input
    <3> QED BY <2>2, <2>9, <2>10, <3>2, <3>3 DEF AtLeast
  <2>13. MergeInv(o, s, z.flow)
    BY <1>1, <2>9, <2>12, MergePut
  <2>14. z.op.minTs \in [Sides -> Nat]
    BY <1>1, <2>6, <2>8, MergeTypes DEF Zero
  <2>15. DOMAIN z.op = DOMAIN s
    BY <1>1, <2>8 DEF StreamOp
  <2>16. \A side \in Sides : \A t :
           AtLeast(o, s, z.flow, side, t) => AtLeast(o, z.op, z.flow, side, t)
    BY <2>8 DEF AtLeast
  <2>17. MergeInv(o, z.op, z.flow)
    BY <2>8, <2>13, <2>14, <2>15, <2>16 DEF MergeInv
  <2>18. StreamJoinInv(o, z.op, z.flow)
    BY <2>8, <2>9, <2>11, <2>16, <2>17 DEF StreamJoinInv, ts
  <2>19. ~z.op.bStalled => MergeRuns(o, z.op, z.flow, TimeSlice)
    <3>1. SUFFICES ASSUME ~z.op.bStalled PROVE MergeRuns(o, z.op, z.flow, TimeSlice)
      OBVIOUS
    <3>2. z.op.minTs = s.lastTs
      BY <2>6, <2>8, <3>1
    <3> QED BY <1>1, <2>8, <2>9, <2>13, <2>15, <3>2, RunsAtFirst
  <2>20. /\ flow' = z.flow /\ op'[o] = z.op
         /\ DOMAIN op' = query /\ \A p \in query \ {o} : op'[p] = op[p]
    BY <1>1, <2>1 DEF Became
  <2>21. Moved(query, o, flow, flow')
    BY <1>1, <2>9, <2>20, ReadNothing, MovedBy
  <2>22. /\ running' \in {o, Idle, Failed} /\ slice' \in 0 .. TimeSlice
         /\ running' = o => ~z.op.bStalled /\ slice' = TimeSlice
    BY <2>1, Control
  <2>23. PICK t : t = z.op
    OBVIOUS
  <2>24. op'[o] = t /\ StreamJoinInv(o, t, flow')
         /\ (running' = o => ~t.bStalled /\ MergeRuns(o, t, flow', slice'))
    BY <2>18, <2>19, <2>20, <2>22, <2>23
  <2> QED BY <2>20, <2>21, <2>22, <2>24, StreamJoinKept
<1> QED BY <1>2, <1>3

LEMMA StreamJoinIterates ==
  ASSUME IInv, NEW o \in query, Plan[o].kind = "streamjoin", BinStreamJoinIterate(o)
  PROVE  StepOf(o)
<1> DEFINE side == StreamJoinSide(o)
           e    == peek(flow, Input(o, side))
           d    == dequeue(flow, Input(o, side))
           s    == Noted(o, side, e)
           y    == StreamJoinProcess(o, s, side, e, d)
           z    == MinTsKept(y)
<1>1. /\ Plan[o].kind \in Merging /\ StreamJoinInv(o, op[o], flow) /\ StreamOp(op[o], op[o])
      /\ HasOutput(o) /\ Ports(o) = Sides /\ query \in Queries /\ FlowOK(query, flow)
      /\ DOMAIN op = query
  BY StreamJoinFacts, MergeFacts
<1>2. /\ MayIterate(o) /\ ~StreamJoinStuck(o) /\ running = o /\ ~op[o].bStalled
      /\ Became(o, z) /\ IF z.op.bStalled THEN Return ELSE Loop
  BY StreamJoinFacts DEF BinStreamJoinIterate, MayIterate, LoopUnlessStalled
<1>3. side \in Sides /\ InTurn(o, side)
  <2>1. MinTs(o)["left"] \in Nat /\ MinTs(o)["right"] \in Nat
    BY <1>1, <1>2, MinTsFacts DEF Sides
  <2>2. ~isEmpty(flow, Input(o, side))
    BY <1>2 DEF StreamJoinStuck
  <2>3. /\ OuterFirst(o) => side = "left" /\ MinTs(o)["left"] <= MinTs(o)["right"]
        /\ ~OuterFirst(o) => side = "right" /\ MinTs(o)["right"] <= MinTs(o)["left"]
    BY <2>1 DEF StreamJoinSide, OuterFirst
  <2> HIDE DEF side
  <2> QED BY <2>2, <2>3 DEF InTurn, Other, Sides
<1> HIDE DEF side, e
<1>4. /\ FlowOK(query, d) /\ e.kind \in KindOf /\ e.timestamp \in Nat
      /\ Promise(o, d) <= e.timestamp
  BY <1>1, <1>2, <1>3, ReadFacts DEF e
<1> HIDE DEF d
<1>5. /\ DOMAIN s = DOMAIN op[o] /\ s.lastTs = [op[o].lastTs EXCEPT ![side] = e.timestamp]
      /\ s.minTs = MinTs(o)
      /\ \A x \in DOMAIN op[o] \ {"minTs", "lastTs"} : s[x] = op[o][x]
  BY <1>1, <1>3, NotedFacts
<1> HIDE DEF s
<1>6. DOMAIN s = DOMAIN BinStreamJoinInit
  BY <1>1, <1>5 DEF StreamOp
<1>7. s.innerSynopsis = op[o].innerSynopsis /\ s.bStalled = op[o].bStalled /\ s.rest = op[o].rest
  BY <1>5, <1>6 DEF BinStreamJoinInit
<1>8. StreamOp(s, s) /\ ~s.bStalled
  BY <1>1, <1>2, <1>6, <1>7 DEF StreamOp
<1>9. Streamed(o, d, s, y, e.timestamp) /\ (y.op.bStalled => side = "left")
  BY <1>1, <1>3, <1>4, <1>8, StreamJoinProcesses
<1> HIDE DEF y
<1>10. z = [y EXCEPT !.op.minTs = IF y.op.bStalled THEN Zero ELSE y.op.minTs]
  BY DEF MinTsKept
<1>11. y.op.minTs = MinTs(o)
  BY <1>5, <1>9 DEF Streamed, StreamOp
<1> HIDE DEF z
<1>12. StreamTimed(s, y, y.op.minTs, z)
  BY <1>9, <1>10, StreamMinTsSet
<1>13. /\ z.flow = y.flow
       /\ z.op.minTs = IF y.op.bStalled THEN Zero ELSE MinTs(o)
       /\ z.op.bStalled = y.op.bStalled
       /\ DOMAIN z.op = DOMAIN BinStreamJoinInit /\ z.op.lastTs = s.lastTs
       /\ z.op.bStalled \in BOOLEAN /\ IsSeq(z.op.innerSynopsis) /\ IsSeq(z.op.rest)
  BY <1>11, <1>12 DEF StreamTimed
<1>14. Put(query, Plan[o].out, d, z.flow) /\ Promise(o, z.flow) <= e.timestamp
  BY <1>9, <1>13 DEF Streamed, Sends
<1>15. PICK r : r = z.op
  OBVIOUS
<1>16. DOMAIN r = DOMAIN op[o] /\ r.lastTs = [op[o].lastTs EXCEPT ![side] = e.timestamp]
  BY <1>5, <1>6, <1>13, <1>15
<1>17. /\ Moved(query, o, flow, z.flow)
       /\ \A port \in Sides : AtLeast(o, r, z.flow, port, e.timestamp)
       /\ r.minTs \in {MinTs(o), Zero} => MergeInv(o, r, z.flow)
       /\ \A left : r.minTs = MinTs(o) => MergeRuns(o, r, z.flow, left)
  BY <1>1, <1>2, <1>3, <1>14, <1>16, MergeReads DEF d, e
<1>18. MergeInv(o, r, z.flow)
  BY <1>13, <1>15, <1>17
<1>19. side = "left" => r.lastTs["left"] = e.timestamp
  <2>1. DOMAIN op[o].lastTs = Sides
    BY <1>1, MergeFacts, MergeTypes
  <2> QED BY <1>3, <1>16, <2>1
<1>20. StreamJoinInv(o, r, z.flow)
  BY <1>9, <1>13, <1>14, <1>15, <1>17, <1>18, <1>19 DEF StreamJoinInv
<1>21. /\ flow' = z.flow /\ op'[o] = r
       /\ DOMAIN op' = query /\ \A p \in query \ {o} : op'[p] = op[p]
  BY <1>1, <1>2, <1>15 DEF Became
<1>22. /\ running' \in {o, Idle, Failed} /\ slice' \in 0 .. TimeSlice
       /\ running' = o => ~z.op.bStalled
  BY <1>2, Control
<1>23. running' = o => ~r.bStalled /\ MergeRuns(o, r, z.flow, slice')
  BY <1>13, <1>15, <1>17, <1>22
<1>24. StreamJoinInv(o, op'[o], flow') /\ Moved(query, o, flow, flow')
       /\ (running' = o => ~op'[o].bStalled /\ MergeRuns(o, op'[o], flow', slice'))
  BY <1>17, <1>20, <1>21, <1>23
<1> QED BY <1>21, <1>22, <1>24, StreamJoinKept

LEMMA StreamJoinStep ==
  ASSUME IInv, NEW o \in query, Plan[o].kind = "streamjoin",
         BinStreamJoinBegin(o) \/ BinStreamJoinIterate(o) \/ BinStreamJoinEnd(o)
  PROVE  StepOf(o)
<1>1. CASE BinStreamJoinEnd(o)
  <2>1. running = o /\ MergeReturn(o)
    BY <1>1 DEF BinStreamJoinEnd, MayEnd
  <2>2. /\ Plan[o].kind \in Merging /\ StreamJoinInv(o, op[o], flow) /\ ~op[o].bStalled
        /\ DOMAIN op[o] = DOMAIN BinStreamJoinInit
    BY <2>1, StreamJoinFacts DEF StreamOp
  <2>3. /\ running' \in {Idle, Failed} /\ running' # o /\ slice' \in 0 .. TimeSlice
        /\ DOMAIN op' = query /\ \A p \in query \ {o} : op'[p] = op[p]
        /\ Moved(query, o, flow, flow') /\ DOMAIN op'[o] = DOMAIN op[o]
        /\ \A x \in DOMAIN op[o] \ {"minTs", "lastOutputTs"} : op'[o][x] = op[o][x]
        /\ MergeInv(o, op'[o], flow')
    BY <2>1, <2>2, MergeEnds
  <2>4. PICK r, g : r = op'[o] /\ g = flow'
    OBVIOUS
  <2>5. StreamJoinInv(o, r, g)
    BY <2>2, <2>3, <2>4, StreamJoinSame
  <2> QED BY <2>3, <2>4, <2>5, StreamJoinKept
<1> QED BY <1>1, StreamJoinBegins, StreamJoinIterates

-----------------------------------------------------------------------------
(***************************************************************************)
(* Every step of the system is the step of an operator.                    *)
(***************************************************************************)
LEMMA KindIs ==
  ASSUME NEW k \in Kind, NEW o, o \in Are(k)
  PROVE  Plan[o].kind = k
BY DEF Are, Kinds

LEMMA CalledStep ==
  ASSUME IInv, NEW o \in query, Called(o)
  PROVE  StepOf(o)
<1>1. CASE o \in Are("source") /\ StreamSourceBegin(o)
  BY <1>1, KindIs, SourceStep DEF Kind
<1>2. CASE o \in Are("relsource") /\ RelSourceBegin(o)
  BY <1>2, KindIs, RelSourceStep DEF Kind
<1>3. CASE o \in Are("select") /\ SelectBegin(o)
  BY <1>3, KindIs, SelectStep DEF Kind
<1>4. CASE o \in Are("project") /\ ProjectBegin(o)
  BY <1>4, KindIs, ProjectStep DEF Kind
<1>5. CASE o \in Are("union") /\ UnionBegin(o)
  BY <1>5, KindIs, UnionStep DEF Kind
<1>6. CASE o \in Are("range") /\ RangeWindowBegin(o)
  BY <1>6, KindIs, RangeWindowStep DEF Kind
<1>7. CASE o \in Are("row") /\ RowWindowBegin(o)
  BY <1>7, KindIs, RowWindowStep DEF Kind
<1>8. CASE o \in Are("partn") /\ PartnWindowBegin(o)
  BY <1>8, KindIs, PartnWindowStep DEF Kind
<1>9. CASE o \in Are("join") /\ BinaryJoinBegin(o)
  BY <1>9, KindIs, JoinStep DEF Kind
<1>10. CASE o \in Are("streamjoin") /\ BinStreamJoinBegin(o)
  BY <1>10, KindIs, StreamJoinStep DEF Kind
<1>11. CASE o \in Are("distinct") /\ DistinctBegin(o)
  BY <1>11, KindIs, DistinctStep DEF Kind
<1>12. CASE o \in Are("except") /\ ExceptBegin(o)
  BY <1>12, KindIs, ExceptStep DEF Kind
<1>13. CASE o \in Are("group") /\ GroupAggrBegin(o)
  BY <1>13, KindIs, GroupAggrStep DEF Kind
<1>14. CASE o \in Are("istream") /\ IstreamBegin(o)
  BY <1>14, KindIs, IstreamStep DEF Kind
<1>15. CASE o \in Are("dstream") /\ DstreamBegin(o)
  BY <1>15, KindIs, DstreamStep DEF Kind
<1>16. CASE o \in Are("rstream") /\ RstreamBegin(o)
  BY <1>16, KindIs, RstreamStep DEF Kind
<1>17. CASE o \in Are("output") /\ OutputBegin(o)
  BY <1>17, KindIs, OutputStep DEF Kind
<1>18. CASE o \in Are("sink") /\ SinkBegin(o)
  BY <1>18, KindIs, SinkStep DEF Kind
<1> QED BY <1>1, <1>2, <1>3, <1>4, <1>5, <1>6, <1>7, <1>8, <1>9, <1>10, <1>11, <1>12, <1>13,
           <1>14, <1>15, <1>16, <1>17, <1>18 DEF Called

LEMMA WorkStep ==
  ASSUME IInv, NEW o \in query, Work(o)
  PROVE  StepOf(o)
<1>1. CASE o \in Are("source") /\ (StreamSourceIterate(o) \/ StreamSourceEnd(o))
  BY <1>1, KindIs, SourceStep DEF Kind
<1>2. CASE o \in Are("relsource") /\ (RelSourceIterate(o) \/ RelSourceEnd(o))
  BY <1>2, KindIs, RelSourceStep DEF Kind
<1>3. CASE o \in Are("select") /\ (SelectIterate(o) \/ SelectEnd(o))
  BY <1>3, KindIs, SelectStep DEF Kind
<1>4. CASE o \in Are("project") /\ (ProjectIterate(o) \/ ProjectEnd(o))
  BY <1>4, KindIs, ProjectStep DEF Kind
<1>5. CASE o \in Are("union") /\ (UnionIterate(o) \/ UnionEnd(o))
  BY <1>5, KindIs, UnionStep DEF Kind
<1>6. CASE o \in Are("range") /\ (RangeWindowIterate(o) \/ RangeWindowEnd(o))
  BY <1>6, KindIs, RangeWindowStep DEF Kind
<1>7. CASE o \in Are("row") /\ (RowWindowIterate(o) \/ RowWindowEnd(o))
  BY <1>7, KindIs, RowWindowStep DEF Kind
<1>8. CASE o \in Are("partn") /\ (PartnWindowIterate(o) \/ PartnWindowEnd(o))
  BY <1>8, KindIs, PartnWindowStep DEF Kind
<1>9. CASE o \in Are("join") /\ (BinaryJoinIterate(o) \/ BinaryJoinEnd(o))
  BY <1>9, KindIs, JoinStep DEF Kind
<1>10. CASE o \in Are("streamjoin") /\ (BinStreamJoinIterate(o) \/ BinStreamJoinEnd(o))
  BY <1>10, KindIs, StreamJoinStep DEF Kind
<1>11. CASE o \in Are("distinct") /\ (DistinctIterate(o) \/ DistinctEnd(o))
  BY <1>11, KindIs, DistinctStep DEF Kind
<1>12. CASE o \in Are("except") /\ (ExceptIterate(o) \/ ExceptEnd(o))
  BY <1>12, KindIs, ExceptStep DEF Kind
<1>13. CASE o \in Are("group") /\ (GroupAggrIterate(o) \/ GroupAggrEnd(o))
  BY <1>13, KindIs, GroupAggrStep DEF Kind
<1>14. CASE o \in Are("istream") /\ (IstreamIterate(o) \/ IstreamEnd(o))
  BY <1>14, KindIs, IstreamStep DEF Kind
<1>15. CASE o \in Are("dstream") /\ (DstreamIterate(o) \/ DstreamEnd(o))
  BY <1>15, KindIs, DstreamStep DEF Kind
<1>16. CASE o \in Are("rstream") /\ (RstreamIterate(o) \/ RstreamEnd(o))
  BY <1>16, KindIs, RstreamStep DEF Kind
<1>17. CASE o \in Are("output") /\ (OutputIterate(o) \/ OutputEnd(o))
  BY <1>17, KindIs, OutputStep DEF Kind
<1>18. CASE o \in Are("sink") /\ (SinkIterate(o) \/ SinkEnd(o))
  BY <1>18, KindIs, SinkStep DEF Kind
<1> QED BY <1>1, <1>2, <1>3, <1>4, <1>5, <1>6, <1>7, <1>8, <1>9, <1>10, <1>11, <1>12, <1>13,
           <1>14, <1>15, <1>16, <1>17, <1>18 DEF Work

LEMMA NextKeeps ==
  ASSUME IInv, Next
  PROVE  IInv' /\ \A q \in Outs(query) : flow.promise[q] <= flow'.promise[q]
<1>1. PICK o \in query : (Turn(o) \/ (Work(o) /\ UNCHANGED turn)) /\ query' = query
  BY DEF Next
<1>2. StepOf(o)
  BY <1>1, CalledStep, WorkStep DEF Turn
<1> QED BY <1>1, <1>2, StepKeeps

LEMMA StutterKeeps ==
  ASSUME IInv, UNCHANGED vars
  PROVE  IInv' /\ \A q \in Outs(query) : flow.promise[q] <= flow'.promise[q]
<1>1. /\ flow' = flow /\ op' = op /\ query' = query /\ running' = running /\ slice' = slice
  BY DEF vars
<1>2. IInv'
  BY <1>1 DEF IInv, Types, Feeds
<1>3. FlowOK(query, flow)
  BY DEF IInv, Types
<1>4. \A q \in Outs(query) : flow.promise[q] \in Nat
  BY <1>3, FlowFields
<1> QED BY <1>1, <1>2, <1>4

(***************************************************************************)
(* The initial states.                                                     *)
(***************************************************************************)
LEMMA NothingPending ==
  ASSUME NEW ops \in Queries
  PROVE  /\ FlowOK(ops, InitFlow(ops))
         /\ \A o \in ops : HasOutput(o) => Promise(o, InitFlow(ops)) = 0
         /\ \A o \in ops : \A side \in Ports(o) :
               /\ Pending(InitFlow(ops), Plan[o][side]) = <<>>
               /\ isEmpty(InitFlow(ops), Plan[o][side])
               /\ NotBefore(InitFlow(ops), Plan[o][side], 0)
<1> DEFINE f == InitFlow(ops)
<1>1. /\ DOMAIN f = {"queue", "refs", "history", "promise"}
      /\ f.queue = [q \in Outs(ops) |-> [r \in Reader(q) |-> <<>>]]
      /\ f.promise = [q \in Outs(ops) |-> 0]
  BY DEF InitFlow
<1> HIDE DEF f
<1>2. InOrder(<<>>, 0)
  BY EmptyIsSeq, SizesAssumption DEF InOrder
<1>3. FlowOK(ops, f)
  BY <1>1, <1>2 DEF FlowOK
<1>4. \A o \in ops : HasOutput(o) => Promise(o, f) = 0
  BY <1>1, OutOK DEF Promise
<1>5. ASSUME NEW o \in ops, NEW side \in Ports(o)
      PROVE  /\ Pending(f, Plan[o][side]) = <<>>
             /\ isEmpty(f, Plan[o][side])
             /\ NotBefore(f, Plan[o][side], 0)
  <2>1. /\ Plan[o][side][1] \in Outs(ops) /\ Plan[o][side][2] \in Reader(Plan[o][side][1])
    BY PortOK
  <2>2. Pending(f, Plan[o][side]) = <<>>
    BY <1>1, <2>1 DEF Pending
  <2>3. 1 .. Len(Pending(f, Plan[o][side])) = {}
    BY <2>2, EmptyIsSeq
  <2> QED BY <1>1, <2>1, <2>2, <2>3 DEF isEmpty, NotBefore
<1> QED BY <1>3, <1>4, <1>5 DEF f

LEMMA InitOp ==
  ASSUME NEW ops \in Queries, NEW o \in ops
  PROVE  OpInv(o, InitialState(Plan[o].kind), InitFlow(ops))
<1> DEFINE f == InitFlow(ops)
           s == InitialState(Plan[o].kind)
<1>1. /\ FlowOK(ops, f)
      /\ HasOutput(o) => Promise(o, f) = 0
      /\ \A side \in Ports(o) : isEmpty(f, Plan[o][side]) /\ NotBefore(f, Plan[o][side], 0)
  BY NothingPending
<1> HIDE DEF f
<1>2. o \in Op /\ Plan[o].kind \in Kind
  BY QueuesAssumption, KindFacts
<1>3. CASE Plan[o].kind \in Originating
  <2>1. HasOutput(o)
    BY <1>2, <1>3, KindFacts DEF Originating, Terminal
  <2>2. s.lastInputTs = 0 /\ s.next = 1
    BY <1>3 DEF InitialState, Originating, StreamSourceInit, RelSourceInit
  <2>3. Plan[o].kind = "source" => 1 \in 1 .. Len(Plan[o].tuples) + 1
    BY <1>2, WindowsAssumption
  <2>4. OriginInv(o, s, f)
    BY <1>1, <2>1, <2>2, <2>3 DEF OriginInv
  <2> QED BY <1>3, <2>4, OpInvIs DEF f
<1>4. CASE Plan[o].kind \in {"select", "project", "distinct", "group", "partn", "row", "range", "rstream"}
  <2>1. HasOutput(o) /\ Ports(o) = {"in"}
    BY <1>2, <1>4, KindFacts DEF Originating, Terminal, Merging
  <2>2. s.lastInputTs = 0
    BY <1>4 DEF InitialState, SelectInit, ProjectInit, DistinctInit, GroupAggrInit, PartnWindowInit,
                RowWindowInit, RangeWindowInit, RstreamInit
  <2>3. FilterInv(o, s, f)
    BY <1>1, <2>1, <2>2 DEF FilterInv, Reads
  <2>4. CASE Plan[o].kind \in {"select", "project", "distinct"}
    BY <2>3, <2>4, OpInvIs DEF f
  <2>5. CASE Plan[o].kind \in {"group", "partn", "row", "range"}
    <3>1. s.bStalled = FALSE
      BY <2>5 DEF InitialState, GroupAggrInit, PartnWindowInit, RowWindowInit, RangeWindowInit
    <3>2. PairInv(o, s, f)
      BY <2>3, <3>1 DEF PairInv
    <3>3. CASE Plan[o].kind \in {"group", "partn", "row"}
      BY <3>2, <3>3, OpInvIs DEF f
    <3>4. CASE Plan[o].kind = "range"
      <4>1. s = RangeWindowInit
        BY <3>4 DEF InitialState
      <4>2. DOMAIN s.window = {"lastIns", "lastDel", "stamp"} /\ s.window.lastIns = 0 /\ s.window.lastDel = 0
        BY <4>1 DEF RangeWindowInit, WindowInit
      <4>3. Len(Allocated(o)) \in Nat
        BY <1>2, <3>4, WindowsAssumption DEF Allocated
      <4>4. WindowInv(o, s, Promise(o, f))
        BY <4>1, <4>2, <4>3 DEF WindowInv
      <4>5. Unexpired(o, s)
        BY <4>2 DEF Unexpired
      <4> QED BY <3>2, <3>4, <4>4, <4>5, OpInvIs DEF RangeInv, f
    <3> QED BY <2>5, <3>3, <3>4
  <2>6. CASE Plan[o].kind = "rstream"
    <3>1. s.bStalled = FALSE /\ s.synopsis = <<>> /\ s.rest = <<>>
      BY <2>6 DEF InitialState, RstreamInit
    <3>2. RstreamInv(o, s, f)
      BY <2>3, <3>1, EmptyIsSeq DEF RstreamInv
    <3> QED BY <2>6, <3>2, OpInvIs DEF f
  <2> QED BY <1>4, <2>4, <2>5, <2>6
<1>5. CASE Plan[o].kind \in {"istream", "dstream"}
  <2>1. HasOutput(o) /\ Ports(o) = {"in"}
    BY <1>2, <1>5, KindFacts DEF Originating, Terminal, Merging
  <2>2. s = IstreamInit
    BY <1>5 DEF InitialState
  <2>3. s.lastInputTs = 0 /\ s.curTs = 0 /\ s.bStalled = FALSE /\ s.synopsis = <<>>
    BY <2>2 DEF IstreamInit
  <2> HIDE DEF s
  <2>4. Reads(o, s, f)
    BY <1>1, <2>1, <2>3 DEF Reads
  <2>5. ChangesInv(o, s, f)
    <3>1. DOMAIN s = DOMAIN IstreamInit /\ s.bStalled \in BOOLEAN
      BY <2>2, <2>3
    <3> QED BY <1>1, <2>1, <2>3, <2>4, <3>1, NoCounts DEF ChangesInv
  <2> QED BY <1>5, <2>5, OpInvIs DEF f, s
<1>6. CASE Plan[o].kind \in Merging
  <2>1. HasOutput(o) /\ Ports(o) = Sides
    BY <1>2, <1>6, KindFacts DEF Merging, Terminal
  <2>2. s.lastTs = Zero /\ s.minTs = Zero
    BY <1>6 DEF InitialState, Merging, UnionInit, ExceptInit, BinaryJoinInit, BinStreamJoinInit
  <2>3. Zero \in [Sides -> Nat] /\ \A side \in Sides : Zero[side] = 0
    BY DEF Zero
  <2>4. MergeInv(o, s, f)
    BY <1>1, <2>1, <2>2, <2>3 DEF MergeInv, AtLeast, Input
  <2>5. CASE Plan[o].kind \in {"union", "except"}
    BY <2>4, <2>5, OpInvIs DEF f
  <2>6. CASE Plan[o].kind = "join"
    <3>1. s.bStalled = FALSE /\ s.synopsis = [side \in Sides |-> <<>>] /\ s.rest = <<>>
      BY <2>6 DEF InitialState, BinaryJoinInit
    <3>2. JoinInv(o, s, f)
      BY <2>4, <3>1, EmptyIsSeq DEF JoinInv
    <3> QED BY <2>6, <3>2, OpInvIs DEF f
  <2>7. CASE Plan[o].kind = "streamjoin"
    <3>1. s.bStalled = FALSE /\ s.innerSynopsis = <<>> /\ s.rest = <<>>
      BY <2>7 DEF InitialState, BinStreamJoinInit
    <3>2. StreamJoinInv(o, s, f)
      BY <2>4, <3>1, EmptyIsSeq DEF StreamJoinInv
    <3> QED BY <2>7, <3>2, OpInvIs DEF f
  <2> QED BY <1>6, <2>5, <2>6, <2>7 DEF Merging
<1>7. CASE Plan[o].kind \in Terminal
  BY <1>7, OpInvIs DEF f
<1> QED BY <1>2, <1>3, <1>4, <1>5, <1>6, <1>7 DEF Kind, Originating, Merging, Terminal

LEMMA InitInv ==
  ASSUME Init
  PROVE  IInv
<1>1. /\ query \in Queries /\ flow = InitFlow(query) /\ running = Idle /\ slice = 0
      /\ op = [o \in query |-> InitialState(Plan[o].kind)]
  BY DEF Init
<1>2. query \subseteq Op
  BY <1>1, QueuesAssumption
<1>3. Types
  BY <1>1, NothingPending, SizesAssumption DEF Types
<1>4. ASSUME NEW w \in query, Plan[w].kind = "range"
      PROVE  FeedInv(w, op[w], op[Plan[w].store], flow)
  <2>1. /\ Plan[w].store \in query /\ Plan[Plan[w].store].kind = "source" /\ Ports(w) = {"in"}
    BY <1>1, <1>4, StoreIsSource
  <2>2. op[w] = RangeWindowInit /\ op[Plan[w].store] = StreamSourceInit
    BY <1>1, <1>4, <2>1 DEF InitialState
  <2>3. op[w].window.lastIns = 0 /\ op[Plan[w].store].next = 1
    BY <2>2 DEF RangeWindowInit, WindowInit, StreamSourceInit
  <2>4. Pending(flow, Plan[w].in) = <<>>
    BY <1>1, <2>1, NothingPending
  <2>5. 1 .. Len(Pending(flow, Plan[w].in)) = {}
    BY <2>4, EmptyIsSeq
  <2>6. op[w].window.lastIns + 1 .. op[Plan[w].store].next - 1 = {}
    BY <2>3
  <2> QED BY <2>3, <2>5, <2>6 DEF FeedInv
<1>5. \A o \in query : OpInv(o, op[o], flow)
  BY <1>1, InitOp
<1>6. running \notin query
  BY <1>1, <1>2, OperatorsAssumption
<1> QED BY <1>3, <1>4, <1>5, <1>6 DEF IInv, Feeds

-----------------------------------------------------------------------------
(***************************************************************************)
(* The invariant of every plan of every query, whatever the capacity of    *)
(* the queues, the time slice and the order of the operators.              *)
(***************************************************************************)
THEOREM Invariance == Spec => []IInv
<1>1. Init => IInv
  BY InitInv
<1>2. IInv /\ [Next]_vars => IInv'
  BY NextKeeps, StutterKeeps
<1> QED BY <1>1, <1>2, PTL DEF Spec

(***************************************************************************)
(* What an operator has sent, a heartbeat included, is a promise to those  *)
(* that read its queue: nothing older follows, though a run() may end at   *)
(* any iteration, stall on a full queue in the middle of an element's      *)
(* output, and send a heartbeat from what it saw of its inputs.            *)
(***************************************************************************)
THEOREM PromisesAreKept == Spec => PromisesKept
<1>1. IInv /\ [Next]_vars => [\A q \in Queue : flow.promise[q] <= flow'.promise[q]]_vars
  <2>1. SUFFICES ASSUME IInv, [Next]_vars
                 PROVE  \A q \in Queue : flow.promise[q] <= flow'.promise[q]
    OBVIOUS
  <2>2. Queue = Outs(query)
    BY <2>1 DEF IInv, Types, FlowOK, Queue
  <2> QED BY <2>1, <2>2, NextKeeps, StutterKeeps
<1> QED BY <1>1, Invariance, PTL DEF Spec, PromisesKept

(***************************************************************************)
(* Every copy of a queue holds at most its capacity - nobody enqueues      *)
(* without space, even when one element read makes many to be sent - and   *)
(* its reader sees timestamps that never go back.                          *)
(***************************************************************************)
WithinCapacity ==
    \A q \in Queue : \A r \in Reader(q) :
        LET s == flow.queue[q][r]
        IN  /\ Len(s) <= MaxElements
            /\ \A i, j \in 1 .. Len(s) : i <= j => s[i].timestamp <= s[j].timestamp

THEOREM QueuesWithinCapacity == Spec => []WithinCapacity
<1>1. IInv => WithinCapacity
  <2>1. SUFFICES ASSUME IInv PROVE WithinCapacity
    OBVIOUS
  <2>2. FlowOK(query, flow) /\ Queue = Outs(query)
    BY <2>1 DEF IInv, Types, FlowOK, Queue
  <2> QED BY <2>1, <2>2 DEF FlowOK, InOrder, WithinCapacity
<1> QED BY <1>1, Invariance, PTL

=============================================================================
