------------------------------ MODULE Pipeline ------------------------------
(***************************************************************************)
(* A query plan at work: the operators of Plan, each on its queues, run    *)
(* one at a time for at most a time slice (execution/operators/operator.h, *)
(* and the loop of execution/scheduler/round_robin.cc).                    *)
(*                                                                         *)
(* The scheduler goes round the operators in the order of the plan.  Here  *)
(* the next operator is any one, which covers every order, and each is     *)
(* scheduled again and again, which is what going round guarantees.        *)
(***************************************************************************)
EXTENDS Sources, SelectProject, SetOperators, Windows, Joins,
        GroupAggr, RelToStream, Output

(***************************************************************************)
(* What the plan manager builds (metadata/plan_queue.cc, plan_inst.cc): a  *)
(* queue has one writer; what is read of it is input of one operator, and  *)
(* somebody reads it (a sink if nobody else); the writers of an operator's *)
(* inputs are registered with it.  A time window is over a source, whose   *)
(* store its synopsis shares, and the tuples of a source are all new ones. *)
(***************************************************************************)
Originating == {"source", "relsource"}
Merging     == {"union", "join", "streamjoin", "except"}
Terminal    == {"output", "sink"}

Ports(o)    == DOMAIN Plan[o] \cap {"in", "left", "right"}
HasOutput(o) == "out" \in DOMAIN Plan[o]

ASSUME OperatorsAssumption ==
    /\ IsFiniteSet(Op)
    /\ Idle \notin Op /\ Failed \notin Op /\ Idle # Failed
    /\ \A o \in Op :
          /\ Plan[o].kind \in Kind
          /\ HasOutput(o) <=> Plan[o].kind \notin Terminal
          /\ Ports(o) = CASE Plan[o].kind \in Originating -> {}
                          [] Plan[o].kind \in Merging     -> Sides
                          [] OTHER                        -> {"in"}

ASSUME QueuesAssumption ==
    /\ \A o \in Op : HasOutput(o) =>
          /\ Reader(Plan[o].out) # {}
          /\ \A p \in Op : HasOutput(p) /\ Plan[p].out = Plan[o].out => p = o
          /\ \A side \in Ports(o) : Plan[o][side][1] # Plan[o].out
    /\ \A o, p \in Op : \A side \in Ports(o), port \in Ports(p) :
          Plan[o][side][1] = Plan[p][port][1] /\ Plan[o][side][2] = Plan[p][port][2]
              => o = p /\ side = port
    /\ \A ops \in Queries :
          ops \subseteq Op /\ \A o \in ops : \A i \in Inputs(o) : i[1] \in Outs(ops)

ASSUME WindowsAssumption ==
    /\ \A o \in Op : Plan[o].kind \in Originating => Plan[o].timestamps \subseteq Nat
    /\ \A o \in Op : Plan[o].kind = "source" =>
          /\ Len(Plan[o].tuples) \in Nat
          /\ \A m, n \in 1 .. Len(Plan[o].tuples) : Plan[o].tuples[m] = Plan[o].tuples[n] => m = n
    /\ \A o \in Op : Plan[o].kind = "range" =>
          /\ Plan[o].windowSize \in Nat
          /\ Plan[o].store \in Op /\ Plan[Plan[o].store].kind = "source"
          /\ Plan[Plan[o].store].out = Plan[o].in[1]

InitialState(k) ==
    CASE k = "source"     -> StreamSourceInit
      [] k = "relsource"  -> RelSourceInit
      [] k = "select"     -> SelectInit
      [] k = "project"    -> ProjectInit
      [] k = "union"      -> UnionInit
      [] k = "range"      -> RangeWindowInit
      [] k = "row"        -> RowWindowInit
      [] k = "partn"      -> PartnWindowInit
      [] k = "join"       -> BinaryJoinInit
      [] k = "streamjoin" -> BinStreamJoinInit
      [] k = "distinct"   -> DistinctInit
      [] k = "except"     -> ExceptInit
      [] k = "group"      -> GroupAggrInit
      [] k \in {"istream", "dstream"} -> IstreamInit
      [] k = "rstream"    -> RstreamInit
      [] k = "output"     -> OutputInit
      [] k = "sink"       -> SinkInit

Init ==
    /\ query \in Queries
    /\ flow = InitFlow(query)
    /\ op = [o \in query |-> InitialState(Plan[o].kind)]
    /\ running = Idle
    /\ slice = 0
    /\ turn = Idle

Called(o) ==
    \/ o \in Are("source")     /\ StreamSourceBegin(o)
    \/ o \in Are("relsource")  /\ RelSourceBegin(o)
    \/ o \in Are("select")     /\ SelectBegin(o)
    \/ o \in Are("project")    /\ ProjectBegin(o)
    \/ o \in Are("union")      /\ UnionBegin(o)
    \/ o \in Are("range")      /\ RangeWindowBegin(o)
    \/ o \in Are("row")        /\ RowWindowBegin(o)
    \/ o \in Are("partn")      /\ PartnWindowBegin(o)
    \/ o \in Are("join")       /\ BinaryJoinBegin(o)
    \/ o \in Are("streamjoin") /\ BinStreamJoinBegin(o)
    \/ o \in Are("distinct")   /\ DistinctBegin(o)
    \/ o \in Are("except")     /\ ExceptBegin(o)
    \/ o \in Are("group")      /\ GroupAggrBegin(o)
    \/ o \in Are("istream")    /\ IstreamBegin(o)
    \/ o \in Are("dstream")    /\ DstreamBegin(o)
    \/ o \in Are("rstream")    /\ RstreamBegin(o)
    \/ o \in Are("output")     /\ OutputBegin(o)
    \/ o \in Are("sink")       /\ SinkBegin(o)

Turn(o) == Called(o) /\ turn' = o

Work(o) ==
    \/ o \in Are("source")     /\ (StreamSourceIterate(o) \/ StreamSourceEnd(o))
    \/ o \in Are("relsource")  /\ (RelSourceIterate(o) \/ RelSourceEnd(o))
    \/ o \in Are("select")     /\ (SelectIterate(o) \/ SelectEnd(o))
    \/ o \in Are("project")    /\ (ProjectIterate(o) \/ ProjectEnd(o))
    \/ o \in Are("union")      /\ (UnionIterate(o) \/ UnionEnd(o))
    \/ o \in Are("range")      /\ (RangeWindowIterate(o) \/ RangeWindowEnd(o))
    \/ o \in Are("row")        /\ (RowWindowIterate(o) \/ RowWindowEnd(o))
    \/ o \in Are("partn")      /\ (PartnWindowIterate(o) \/ PartnWindowEnd(o))
    \/ o \in Are("join")       /\ (BinaryJoinIterate(o) \/ BinaryJoinEnd(o))
    \/ o \in Are("streamjoin") /\ (BinStreamJoinIterate(o) \/ BinStreamJoinEnd(o))
    \/ o \in Are("distinct")   /\ (DistinctIterate(o) \/ DistinctEnd(o))
    \/ o \in Are("except")     /\ (ExceptIterate(o) \/ ExceptEnd(o))
    \/ o \in Are("group")      /\ (GroupAggrIterate(o) \/ GroupAggrEnd(o))
    \/ o \in Are("istream")    /\ (IstreamIterate(o) \/ IstreamEnd(o))
    \/ o \in Are("dstream")    /\ (DstreamIterate(o) \/ DstreamEnd(o))
    \/ o \in Are("rstream")    /\ (RstreamIterate(o) \/ RstreamEnd(o))
    \/ o \in Are("output")     /\ (OutputIterate(o) \/ OutputEnd(o))
    \/ o \in Are("sink")       /\ (SinkIterate(o) \/ SinkEnd(o))

Next ==
    \E o \in query :
        /\ Turn(o) \/ (Work(o) /\ UNCHANGED turn)
        /\ UNCHANGED query

Spec == Init /\ [][Next]_vars

(***************************************************************************)
(* A run() has at most TimeSlice iterations, and the scheduler goes round: *)
(* as long as no run() has failed it comes to every operator again and     *)
(* again (and so every run() ends, for there are several operators).       *)
(***************************************************************************)
Fairness == \A o \in Op : []<>(turn = o \/ o \notin query \/ running = Failed)

FairSpec == Spec /\ Fairness

-----------------------------------------------------------------------------
(***************************************************************************)
(* The types of the variables; a queue never holds more than its capacity, *)
(* so no operator enqueues without space.                                  *)
(***************************************************************************)
TypeOK ==
    /\ query \in Queries
    /\ running \in query \cup {Idle, Failed}
    /\ slice \in 0 .. TimeSlice
    /\ turn \in query \cup {Idle}
    /\ \A q \in Queue : \A r \in Reader(q) :
          /\ Len(flow.queue[q][r]) <= MaxElements
          /\ \A i \in DOMAIN flow.queue[q][r] :
                /\ flow.queue[q][r][i].kind \in {PLUS, MINUS, HEARTBEAT}
                /\ flow.queue[q][r][i].timestamp \in Nat
    /\ \A t \in DOMAIN flow.refs : flow.refs[t] \in Nat
    /\ \A q \in Queue : flow.promise[q] \in Nat
    /\ \A o \in query : DOMAIN InitialState(Plan[o].kind) = DOMAIN op[o]

(***************************************************************************)
(* Timestamps never go back on a queue: an element, a heartbeat included,  *)
(* is a promise to the reader that nothing older follows.                  *)
(***************************************************************************)
PromisesKept ==
    [][\A q \in Queue : flow.promise[q] <= flow'.promise[q]]_vars

(***************************************************************************)
(* How often the first n data elements of a queue insert (k = PLUS) or     *)
(* delete (k = MINUS) a tuple.                                             *)
(***************************************************************************)
Said(q, n, k, t) ==
    Cardinality({i \in 1 .. n : LET e == flow.history[q][i]
                                IN  e.kind = k /\ e.tuple = t})

TuplesOf(q) == {flow.history[q][i].tuple : i \in DOMAIN flow.history[q]}

(***************************************************************************)
(* Every deletion is of a tuple that was inserted and not deleted since,   *)
(* on every queue and at every point of its history.                       *)
(***************************************************************************)
MinusAfterPlus ==
    \A q \in Queue : \A n \in DOMAIN flow.history[q] : \A t \in TuplesOf(q) :
        Said(q, n, PLUS, t) - Said(q, n, MINUS, t) \in {0, 1}

(***************************************************************************)
(* What the tuples' stores must count: the copies of an element that wait  *)
(* in queues, and what the operators keep - windows, synopses, and the     *)
(* element a stalled operator has still to deal with.                      *)
(***************************************************************************)
Waiting(t) ==
    {w \in UNION {{<<q, r, i>> : r \in Reader(q), i \in 1 .. MaxElements} : q \in Queue} :
        /\ w[3] \in DOMAIN flow.queue[w[1]][w[2]]
        /\ LET e == flow.queue[w[1]][w[2]][w[3]] IN IsData(e) /\ e.tuple = t}

Keeps(o) ==
    CASE o \in Are("relsource")  -> RelSourceKeeps(o)
      [] o \in Are("project")    -> ProjectKeeps(o)
      [] o \in Are("union")      -> UnionKeeps(o)
      [] o \in Are("range") \cup Are("row") -> WindowKeeps(o)
      [] o \in Are("partn")      -> PartnWindowKeeps(o)
      [] o \in Are("join")       -> BinaryJoinKeeps(o)
      [] o \in Are("streamjoin") -> BinStreamJoinKeeps(o)
      [] o \in Are("distinct")   -> DistinctKeeps(o)
      [] o \in Are("except")     -> ExceptKeeps(o)
      [] o \in Are("group")      -> GroupAggrKeeps(o)
      [] o \in Are("istream") \cup Are("dstream") -> IstreamKeeps(o)
      [] o \in Are("rstream")    -> RstreamKeeps(o)
      [] OTHER                   -> <<>>

Kept(t) ==
    UNION {{<<o, i>> : i \in {j \in DOMAIN Keeps(o) : Keeps(o)[j] = t}} : o \in query}

(***************************************************************************)
(* Between two runs every tuple is counted exactly as often as it is held: *)
(* none is recycled too early, none is leaked.                             *)
(***************************************************************************)
RefsCounted ==
    running = Idle =>
        \A t \in DOMAIN flow.refs :
            flow.refs[t] = Cardinality(Waiting(t)) + Cardinality(Kept(t))

(***************************************************************************)
(* No run() fails but for the source or the client: what an operator looks *)
(* up in a synopsis to delete it is always there.                          *)
(***************************************************************************)
OnlyOutsidersFail ==
    running = Failed =>
        \/ \E o \in query \cap (Are("source") \cup Are("relsource")) : Plan[o].errors
        \/ \E o \in query \cap Are("output") : Plan[o].disconnects

-----------------------------------------------------------------------------
(***************************************************************************)
(* The meaning of a plan.  Instant(q, T) is the stream or relation that    *)
(* queue q carries, as of time T; it is settled once q promised something  *)
(* later.  Meaning(o, T) is what o's output has to be by then, as a        *)
(* function of its inputs at T.                                            *)
(***************************************************************************)
UpTo(q, T) == SelectSeq(flow.history[q], LAMBDA e : e.timestamp <= T)

Instant(q, T) ==
    LET n == Len(UpTo(q, T))
    IN  {t \in TuplesOf(q) : Said(q, n, PLUS, t) > Said(q, n, MINUS, t)}

Since(q, T, W) ==
    {t \in TuplesOf(q) : \E i \in DOMAIN flow.history[q] :
        LET e == flow.history[q][i]
        IN  e.tuple = t /\ e.timestamp <= T /\ T < e.timestamp + W}

Latest(q, T, N) ==
    LET s == UpTo(q, T) IN {s[i].tuple : i \in {j \in DOMAIN s : Len(s) - j < N}}

(* The data elements of a stream, and the tuples of a relation that have   *)
(* some contents, as operator o sees them.                                 *)
Elements(q, T) == ToSet(UpTo(q, T))
Having(o, q, T, v) == {t \in (IF T < 0 THEN {} ELSE Instant(q, T)) : Plan[o].value[t] = v}
Contents(o) == {Plan[o].value[t] : t \in DOMAIN Plan[o].value}

(* How many more tuples of contents v a relation has at T than at U.       *)
Excess(o, q, T, U, v) ==
    Cardinality(Having(o, q, T, v)) - Cardinality(Having(o, q, U, v))

ChangesUpTo(o, T, excess(_, _)) ==
    UNION {{Change(o, v, U, n) : n \in 1 .. excess(U, v)} : U \in 0 .. T, v \in Contents(o)}

Meaning(o, T) ==
    LET in    == Plan[o].in[1]
        left  == Plan[o].left[1]
        right == Plan[o].right[1]
    IN
    CASE o \in Are("select")  -> Instant(in, T) \cap Plan[o].satisfy
      [] o \in Are("project") -> {Projected(o, t) : t \in Instant(in, T)}
      [] o \in Are("union")   -> {OutTuple(o, "left", t) : t \in Instant(left, T)}
                                 \cup {OutTuple(o, "right", t) : t \in Instant(right, T)}
      [] o \in Are("range")   -> Since(in, T, Plan[o].windowSize)
      [] o \in Are("row")     -> Latest(in, T, Plan[o].windowSize)
      [] o \in Are("partn")   ->
            UNION {LET s == SelectSeq(UpTo(in, T), LAMBDA e : Plan[o].value[e.tuple] = v)
                   IN  {CopyOf(o, s[i].tuple) :
                            i \in {j \in DOMAIN s : Len(s) - j < Plan[o].windowSize}} :
                   v \in Contents(o)}
      [] o \in Are("join")    ->
            {Joined(o, p) : p \in {r \in Plan[o].joins : /\ r[1] \in Instant(left, T)
                                                       /\ r[2] \in Instant(right, T)}}
      [] o \in Are("streamjoin") ->
            UNION {{Joined(o, p) : p \in {r \in Plan[o].joins :
                                            /\ r[1] = e.tuple
                                            /\ r[2] \in Instant(right, e.timestamp)}} :
                   e \in Elements(left, T)}
      [] o \in Are("distinct") ->
            {DistinctTuple(o, Plan[o].value[t]) : t \in Instant(in, T)}
      [] o \in Are("except")  ->
            UNION {{ExceptTuple(o, v, n) :
                        n \in 1 .. Cardinality(Having(o, left, T, v))
                                   - Cardinality(Having(o, right, T, v))} : v \in Contents(o)}
      [] o \in Are("group")   ->
            {Aggregate(o, v, Having(o, in, T, v)) :
                v \in {Plan[o].value[t] : t \in Instant(in, T)}}
      [] o \in Are("istream") -> ChangesUpTo(o, T, LAMBDA U, v : Excess(o, in, U, U - 1, v))
      [] o \in Are("dstream") -> ChangesUpTo(o, T, LAMBDA U, v : Excess(o, in, U - 1, U, v))
      [] o \in Are("rstream") ->
            UNION {{Copy(o, U, t) : t \in Instant(in, U)} : U \in 0 .. T}

(***************************************************************************)
(* Once an operator's output has promised to be past T, it is at T what    *)
(* the operator means, whatever the operators' order, the stalls and the   *)
(* heartbeats were: the continuous query is answered as of every instant.  *)
(***************************************************************************)
MeansWhatItSays ==
    \A o \in query \ (Are("source") \cup Are("relsource") \cup Are("output") \cup Are("sink")) :
        \A T \in 0 .. flow.promise[Plan[o].out] - 1 :
            Instant(Plan[o].out, T) = Meaning(o, T)

(***************************************************************************)
(* "If the count of a synTuple is k, we produce k elements on the output"  *)
(* (execution/operators/dstream.cc:252): every element a Dstream sends is  *)
(* one of the copies that are due of a tuple deleted at that instant.      *)
(***************************************************************************)
CopiesAsCounted ==
    \A o \in query \cap Are("dstream") :
        \A e \in ToSet(flow.history[Plan[o].out]) : e.tuple \in Meaning(o, e.timestamp)

-----------------------------------------------------------------------------
(***************************************************************************)
(* The tuple of a source that a tuple stems from.                          *)
(***************************************************************************)
Root(t) == t[Len(t)]
Sent(o, k, name) ==
    \E i \in DOMAIN op[o].sent : op[o].sent[i].kind = k /\ Root(op[o].sent[i].tuple) = name

Accepted(o, name) == \E i \in 1 .. op[o].next - 1 : Plan[o].tuples[i] = name
Wanted(name) ==
    LET filters == query \cap Are("select")
    IN  filters # {} => \E o \in filters : <<name>> \in Plan[o].satisfy

Sources == query \cap Are("source")
Outputs == query \cap Are("output")
Silent  == \E s \in Sources : ~Plan[s].heartbeats

(***************************************************************************)
(* Every tuple a source accepted that a filter wants is sent to the client *)
(* in the end, unless an error ends run(); the other branch of a union,    *)
(* which has nothing, only its heartbeats, must not hold it up for ever.   *)
(* It does when a source sends none.  (What was sent stays sent, so that   *)
(* "in the end" is "again and again".)                                     *)
(***************************************************************************)
Delivered ==
    []<>(running = Failed \/ Silent \/
         \A s \in Sources, o \in Outputs : \A name \in ToSet(Plan[s].tuples) :
             Wanted(name) /\ Accepted(s, name) => Sent(o, PLUS, name))

(***************************************************************************)
(* A tuple that has left the window by the source's time is deleted at the *)
(* client in the end, although nothing else but heartbeats may come.       *)
(***************************************************************************)
Stamp(s, name) ==
    LET h == flow.history[Plan[s].out]
    IN  h[CHOOSE i \in DOMAIN h : h[i].tuple = <<name>>].timestamp

ExpiryDelivered ==
    []<>(Silent \/
         \A w \in query \cap Are("range"), o \in Outputs :
            \A s \in {r \in Sources : Plan[r].out = Plan[w].in[1]} :
                \A name \in ToSet(Plan[s].tuples) :
                    Accepted(s, name) /\ Stamp(s, name) + Plan[w].windowSize <= op[s].lastInputTs
                        => Sent(o, MINUS, name))

(***************************************************************************)
(* Once all sources are past an instant, the answer as of that instant is  *)
(* complete and known to be: every queue that a sink reads promises to be  *)
(* past it in the end, with the stalls and the empty inputs in between.    *)
(* (A dstream sends no heartbeats and may have nothing to send.)           *)
(***************************************************************************)
Past(o, T) == flow.promise[Plan[o].out] > T

Answered ==
    []<>(running = Failed \/
         \A T \in 0 .. 2 :
            (\A o \in query \cap (Are("source") \cup Are("relsource")) : Past(o, T))
                => \A o \in query \ (Are("sink") \cup Are("output") \cup Are("dstream")) : Past(o, T))

=============================================================================
