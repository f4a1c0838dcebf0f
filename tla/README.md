# Verification of the STREAM data stream management system

STREAM answers continuous CQL queries over streams and relations. This directory
models `src/stream-0.6.3` (the newest copy in the repository), checks the models
with TLC and proves facts about them with TLAPS. Paths below are relative to
`src/stream-0.6.3`; default builds compile `ASSERT` out (it needs `_DM_`), so a
model never relies on one.

## 1. The system and its parts

A *server* translates a set of queries into a plan of physical operators. The
operators are wired by queues; tuples live in stores that count references; one
round-robin scheduler calls `run(timeSlice)` on the operators. Under the network
server each command connection owns one server after another, each server has a
thread, each stream and each output has a connection with a thread of its own, and
all servers of the process share one scheduler.

| Part | State it keeps | Operations | Talks to | What is hard | What makes it correct |
|---|---|---|---|---|---|
| Shared queue, `execution/queues/shared_queue_*.cc` | ring of pages, write position, a read position and a counter per reader, the slowest reader | enqueue, dequeue, peek, isFull, isEmpty | operators, the store's reference counts | page boundaries, rebasing unsigned counters inside a loop that elects the slowest reader | each reader gets each element once, in order; no slot is reused early; references match readers |
| Simple queue, `simple_queue.cc` | the same with one reader | the same | two operators | page boundaries | FIFO of bounded capacity |
| Stream source | last timestamp, high-water mark | run | the table source, which may fail or misorder | errors half-way through a run, heartbeats for a silent source | timestamps on its queue never go back |
| Select, Project, Union, Output | last timestamps, output synopsis, minimum timestamps | run | queues, stores, client | full outputs, heartbeats instead of data, lineage lookup, a client that leaves | output means what the operator means; references released once |
| Range and row windows, `range_win.cc`, `row_win.cc`, window synopsis | the window's two positions in the store, stalled element | run, clearStall, expireTuples | queue, store | one input sends many elements, stalls between them | each MINUS follows its PLUS; expiry happens by time alone |
| Relation source, joins, grouping, Distinct, Except, Istream, Dstream, Rstream, partitioned window | synopses, indexes, stalled scans | run | as above | stalls in the middle of a scan, an index that grows meanwhile, netting within an instant | output means what the operator means |
| Tuple stores, `execution/stores`, memory manager | pages, free lists, the bits of the stubs, a count per tuple or per page | newTuple, addRef, decrRef, insert and delete per stub, scans | operators, synopses | a cell or a page is recycled when its last reference goes | no live tuple is recycled, nothing leaks, a scan returns what is there |
| Hash index, `execution/indexes/hash_index.cc` | a tree of layers of buckets, lists of entries | insertTuple, deleteTuple, getScan, doubling | the stores and synopses | the doubling splits lists and adds layers | a scan finds each tuple that was inserted under an equal key |
| Evaluators, `execution/internals`, instantiated by `metadata/inst_*.cc` and `tuple_layout.cc` | none of their own: roles bound to tuples, columns fixed at START | eval | every operator, every store, every index | each function works out columns of tuples that another one laid out | instructions touch the attributes the operator is about, and no others |
| Scheduler, `round_robin.cc` | slots of operators per server, their count, stop flag, `brun`, a pending deletion | addOperator, requestRun, run, requestStop, stop, resume | all connections and server threads, without a lock | everything is a race | sets are counted, deleted only on request, served |
| Server and command connection, `server_impl.cc`, `command_conn.cc` | server state, thread id, global CURRENTSERVERID | END APP, EXECUTE, RESET, TERMINATE, monitors | scheduler, network manager | stop against start, join against run() | started servers run, resets complete |
| Network buffers, `net_server/src/queue.cc, in_conn.cc, out_conn.cc` | rings, flags, condition variables | put, get, run, end, writechar | connection, engine and command threads | unlocked fast paths, lost wake-ups, a reader that has ended | FIFO without loss; nobody waits for ever |
| Logical plans, `querygen/*_plan_gen.cc` | a tree | the naive plan and its transformations | the plan manager | every rewriting must keep the meaning, whatever ran before | the tree means the query |
| Query plans, `metadata/plan_*.cc, gen_phy_plan.cc` | operators in use, free operators, synopses, stores, queues, tables | registerQuery, START: transformations, synopses, stores, queues | the instantiation | a graph with links both ways, edited in place and shared between queries | the graph stays a graph, the outputs keep their meaning, everybody gets a queue and a store |
| Sharing analysis, `server_impl.cc:950-1738` | earlier queries | comparison and rewriting | query manager | containment of predicates | the shared result is the new query's |
| Parser, semantic interpreter, `sem_interp.cc, query.cc` | trees, one pool of expressions | translation | server, sharing analysis | the pool is used again for each query, copies point into it | the plan sees the columns asked for |
| Monitors, clients, visualiser, 0.6.2 copy | counters, sockets, GUI | - | - | - | - |

`PROJECT.json` lists the same parts with their status and, under `hazards`, the
lines where they can go wrong.

## 2. Modules

    BroadcastQueue              what a queue with several readers promises
      ^ SharedQueue             implements it: the paged ring of shared_queue_writer.cc
        SharedQueueProofs       theorems
    BoundedFifo                 what a queue between two threads promises
      ^ NetQueue                implements it: net_server/src/queue.cc, access by access
        NetQueueProofs          theorems

    Dataflow                    queues as FIFOs, elements, reference counts, begin/end of run()
      Sources                   of a stream, of a relation
      SelectProject  Output     filter, projection; output and sink
      Merge                     the order in which two inputs are read
        SetOperators            Union, Except and Distinct
        Joins                   BinaryJoin and BinStreamJoin
      Windows                   the window synopsis, RangeWindow and RowWindow
      GroupAggr                 with the window per partition
      RelToStream               Istream, Dstream, Rstream
    Pipeline                    the operators of a plan under the scheduler; properties
      PipelineInvariant         the inductive invariant
        OperatorProofs          lemmas about queues and steps; the operators with one input or none keep it
          PipelineProofs        the operators with two inputs keep it; theorems
    MCPipeline                  plans for TLC

    MemoryManager               pages, and the record of all memory the stores pass on
      SimpleStore  WinStore
      LinkedStore -> RelStore -> LinStore (with HashIndex)
                     PwinStore
    Stores                      each kind of store under the operators that use it; properties
      StoresProofs              theorems about the stores of streams and windows
        RelationProofs          theorems about the stores of relations

    LogicalPlan                 SELECT clause and naive plan of a query, its transformations
      PhysicalPlan              operators with links both ways, their transformations
        PlanStores              synopses, stores, queues
          Instantiation         layouts of tuples, the operators' instructions and what they do
        Sharing                 the pool of expressions, sharingAnalysis() and its outcomes
    QueryPlan                   registration and START as one process; properties
    MCQueryPlan                 queries for TLC

    Scheduler                   round_robin.cc, at the grain of its races
    Lifecycle                   connections and server threads around it
      LifecycleProofs           theorems

    InputConnection  OutputConnection    in_conn.cc, out_conn.cc with their threads
    Network                     clients, connections, engine and commands
      NetworkProofs             theorems

Definitions keep the names of the code (`enqueue`, `ExpireTuples`, `requestRun`).
Operators with a suffix marked *deviation* are plausible bugs, next to the
definition they would break; no specification uses them. They document what each
property is sensitive to.

### SharedQueue
`slots`, `nextEnqueue`, `nextDequeue`, `totalEnqueued`, `totalDequeued` and
`slowestReader` are the members of `SharedQueueWriter`. A pointer is the rank of
its slot in the ring of pages together with its place in the page, and `INCR` is
the macro of the same name. `refs`, `inHand` and `held` account for the tuples'
references on both sides, because `enqueue()` adds them. `dequeue()` by the slowest
reader subtracts that reader's counter from all and hands the role to the last
reader found level; any other reader only advances.

### Dataflow and the operators
An operator's `run()` is `Begin`, then one action per iteration of its loop, then
either the code after the loop (`End`, which sends the heartbeat) or a return
inside it. Each iteration keeps the order of the code's calls by threading the
record `flow` through them: `dequeue`, `newTuple`, `enqueue`, `addRef`, `decrRef`.
What a step came to is a record of `flow` and the operator's members that passes from one
helper to the next as a parameter; an operator that stalls does what is common to all
that stall (`BeginUnlessStalled`, `LoopUnlessStalled`).
Queues are FIFOs per reader of capacity `MaxElements` - what section 3 shows of the
shared queue. `Plan` plays the part of `plan_inst.cc`: operator kinds, queues,
readers, parameters. Predicates, projections and level tests are sets or functions
in the plan. A tuple is the sequence of the operators it passed through, ending
in the source's name for it, so lineage is visible in it. The operators over relations
look at more of a tuple than its name: `value` in the plan gives its contents, and two
tuples with the same contents are duplicates of each other. An aggregate is the set of
the tuples it was computed from, so a recomputation and an incremental update agree when
their sets do. A scan that stalls keeps what is left of it (`rest`); where the code
deletes as it scans (Istream) what is left is the synopsis itself. Which output tuple a
deletion refers to is a matter of lineage in the union and the join, and of the newest
equal tuple in Except and in the relation source, for that is where a scan begins.
`query` is the part of the plan that is registered: one configuration has several queries
side by side, of which each behaviour runs one. `history` and `promise` are for the
properties only. `turn` is the operator the scheduler called last.

The sources choose each timestamp from a set; with `errors` they may also fail, or
deliver a timestamp that goes back, which `stream_source.cc:141` turns into the end
of `run()`. An output with `disconnects` may fail in `putNext()`.

### The stores
`memory` is one record: the pages the memory manager has left, and what each store
keeps on its own. The stores' methods are functions from a memory to a memory (with the
cell or the scan they return), so that a step of `Stores` is one call of an operator with
everything it calls below. A behaviour starts with one *kind* of store and the operators
that use it in the engine:

* `simple`: one queue of tuples that are released in any order (a count per tuple);
* `win`: a shared window store, a count per page, with three stubs that insert and expire
  in their own time;
* `rel`: a relation store with a bit per stub and a list through the tuples in use;
* `lin`: the same, with tuples found again by their lineage through the hash index;
* `pwin`: partitions of `NumRows` rows with the tuples that fell out of them; at least one row, for with none
  the newest tuple of a partition's header is one that has expired, and `insertTuple_p` links the next tuple behind it;
* `own`: a relation store that its operator alone uses, for what has changed since the last instant (Istream and
  Dstream); its scan deletes what it returns.

`HashIndex` is the tree of layers: a bucket number is read `numBitsPerLayer` at a time, and
the three ways to double (in the layer, a full layer's sibling, a new layer on top) are
those of `hash_index.cc`. Its pages are not taken from the memory manager of the model:
running out of them goes wrong in the code (section 5). `PwinStore` keeps the partitions'
headers on one page; the code chains further pages in front of it, and after that
`getHeader` continues where a new page's free list was never joined to the old one's, which
only costs space.

### Plans
`LogicalPlan` begins with what the interpreter makes of a SELECT clause: it appends one attribute, an
INT that stands for the element's level, numbered as the column after as many as there are. For `SELECT *`
that is a column the last table does not have; for a list of *k* attributes it is column *k* + 1 of the
first table, whatever that is, or no column. So every result has one column more than is asked for (the
output writes the level of the element over it, `output.cc:201`), a query over another's result
reads a table with that column, and a projection has nothing to do only for a list of all columns of one table
but the last. An attribute that no input has is `UNSET`, as `transformAttr()` returns it in a variable it never
assigned: in an instruction it reads from anywhere, and START may also go astray where it is
followed (`InstantiateUnset`, phase `undefined`).

From there `LogicalPlan` builds the naive plan of the query - a cross product of the tables with their
windows, selections, projection or grouping, the relation-to-stream operator - and applies
`log_plan_gen.cc`'s transformations one after another. `PhysicalPlan` is the array of
operators, with the links to inputs and outputs that every transformation must keep in step, and
`PlanStores` hangs synopses, stores and queues on it. `QueryPlan` is the process: queries
are registered (translated, compared with earlier ones, generated), then START goes through
its phases, one action each. *Meaning* is a normal form that no transformation may change:
for an operator, the set of the leaves under it with their windows, the set of
comparisons that must hold, the sequence of columns it yields, how it groups, and its
relation-to-stream operator; unions and differences are trees of these. `View` is the result
of the first query under a name; a query over it must mean what it means with the first one
put in its place.

What is asked for includes the level's column: it must be what the naive plan reads there, a column of the
table, of the group, or the one value that was never set. `TuplesAsMeant` leaves its value open
where it is read from a column that is no INT, or that was never set, and asks that it destroy nothing else.

`Sharing` gives `none`, `complete` or `subsume`, or leaves the flag of a failed analysis
behind (`flagged`), as `sharingAnalysis()` does. A partial sharing goes on to read pointers
that were never assigned, so the process ends there (phase `undefined`) and nothing is
claimed afterwards. What it compares is not always the earlier query: the interpreter takes its
expressions from one `pool` that it begins anew for each query, and the copy kept of a query (`Query::operator=`)
has pointers there for the right sides of its predicates and for its SELECT list. `Seen` is a query with
what these places hold now. So the SELECT lists of two queries with as many predicates and as many columns are always
the same to the analysis, and right sides are at the same place of the list.

`Instantiation` is what START ends with. `addAttr` places an attribute behind the others, rounded
up to a multiple of its type's size, and a column counts in such units; `getColumns` does this for
the attributes of an operator, `TupleAttrs` gives those of a tuple as its store allocates it, with
the store's own attributes at the end. `inst_op` gives each operator its instructions, tests and
indexes, function by function as the `inst_*.cc` do. `eval` and `holds` carry them out on memory that
remembers where and as what each value was written, and in which writing over a part of a value
destroys it. `ClaimsOf` says for each kind of operator what its instructions have to come to, in
three forms - what ends up in a tuple (`Puts`), what an index and a filter compare (`Matches`),
whether tests hold (`Tells`) - and `Right` checks each: it fills tuples of the stores the operator
reads with values of their own, lets the instructions run, and compares. A join makes every comparison
of the WHERE for a new tuple from either side, an index hashes on both sides what its key compares, a grouping's
aggregates are those of the rows that are there after insertions and deletions, counts go up and
down and meet zero where they should, and nothing behind the operator's attributes is touched.

### Scheduler and Lifecycle
`opset[s]` is a slot: a server number and its operators, read up to the first null.
The object sits in zero pages when it is made, so the operators begin empty.
`addOperator` is three steps - find a slot, write to it, count it - with `resume`
after them, and the deletion inside `run()` is empty the set, forget the request,
subtract from the count; both counts load and store in different steps, as
`numOpSet++` does without a lock. `loop[i]` is where thread `i` is in `requestRun()`.
`requestRun()` has no return statement: `Returned` takes any result. `numOps` is
left out (nothing depends on it below the limit of all sets together), and so is
`queryLevel`, which the round robin ignores. `RunTimes` are the values RUN_TIME may
have, 0 for no limit. `numOpSet` is unsigned and wraps at `UIntRange`.

`conn[c]` is a connection's thread (`NoConn` to `ended`) and `server[i]` a `ServerImpl`
with its thread. A command is an action whose guard says when a client may send
it; END APP adds one operator after another. A client sends EXECUTE once to a
server. Registration of tables and queries, and monitors, come before or beside
this and are not modelled; a server therefore starts in `S_APP_SPEC`.

### NetQueue and Network
`NetQueue` has a step for every access to shared memory outside the lock and for every
stretch inside it: the unlocked tests of `full` and `empty`, the lock, the wait, the signal
after the unlock. Memory is taken as sequentially consistent, and a wait ends by a signal
only: `cond_wait` stands under an `if` in the code, so a spurious wake-up would overwrite a
slot, and the model says nothing of platforms that have them.

`Network` composes five threads: an input connection that reads its client's lines, the
engine, which takes tuples from it and puts each into the output connection (the query
is the identity, since the pipeline is checked elsewhere), the output connection's thread that
drains its ring, and the command connection with RESET and TERMINATE. Connections are
destroyed by commands; a step that touches a destroyed one is the crash
`InputOutlivesEngine` excludes. A line is malformed when it is longer than the buffer or `constructTuple()`
refuses it, and `read()` may fail whenever it is called (`ReadFails`). In each of these cases
`run()` returns at once, without the wait for `end()` that comes at its end, so that the connection is gone while the
engine may be looking at it. `InputOutlivesEngine` and the properties of the answers excuse just these (section 5).

## 3. What is checked

| Run | Instance | Shows |
|---|---|---|
| `shared_queue` | 3 readers, 2 pages of 2 elements, 2 tuples and a heartbeat | types, `SlowestLagsMost`, `CountersBounded`, `RefsCounted`, and `ImplementsBroadcast`: the ring refines the broadcast queue |
| `queries` | twelve queries over sources of 1 to 4 tuples, queues of 1 | capacity, references, `MinusAfterPlus`, `MeansWhatItSays`, `OnlyOutsidersFail`, `PromisesKept`, `Delivered`, `ExpiryDelivered`, `Answered`, with sources and clients that fail |
| `level_window` | a row window with a level filter | `MinusAfterPlus` violated, see section 5 |
| `net_queue` | 3 slots, 2 objects | types, `SidesOwnSlots`, `NoLostSignal`, `ImplementsFifo` (refinement), `WaitersGoOn` |
| `network` | a queue of 1, 2 lines of one character, a ring of 3 | `DeliveredInOrder`, `InputOutlivesEngine`, `WrittenIsDelivered`, `TuplesAnswered`, `CommandEnds` |
| `stores` | six kinds of store, 3 pages of 2 tuples, 4 to 7 tuples | `NothingLost`, `NothingLeaked`, `OldestFirst`, `LineageFound`, `ScansComplete` |
| `deletions` | a Dstream over two equal tuples | `CopiesAsCounted` violated, see section 5 |
| `partition_scan` | the partitioned store alone | `PartitionScans` violated, see section 5 |
| `plan` | two streams and a relation, each of a number, a name of another length and two numbers, and the first query's result; one query, then another over its result or equal to it | `WellWired`, `AnswersKept`, `StubsSeeAll`, `QueuesConnect`, `TuplesAsMeant` |
| `sharing` | two queries that look alike | `AnswersKept` violated, see section 5 |
| `one_connection` | three servers in turn, 3 operators for sets of 2, RUN_TIME 0 or 2, operators may fail | types, `SetsCounted`, `StoppedMeansEmpty`, `FirstExecutes`, `ResetAloneCompletes`, `DeletedOnRequest` |
| `second_server` | two servers in turn | `Executes` violated, see section 5 |

*The central property of the pipeline* is `MeansWhatItSays`. An element or a
heartbeat with timestamp T on a queue promises that nothing older follows. Once
an operator's output has promised to be past T, the contents of that output at T
must be the operator's meaning applied to the contents of its inputs at T -
whatever the order of calls, stalls and heartbeats were. It is stated per operator,
so a whole plan is right when each of its operators is. `Answered` is its other half: once
all sources of a query are past an instant every operator's output comes past it, so the
answer is not only right when it is settled but does get settled. `OnlyOutsidersFail` says
that no operator ends the scheduler because it cannot find what it has to delete.

*The central property of the plans* is `AnswersKept`: after each registration and each
phase of START every output still computes what its query asks for. `StubsSeeAll` is what
the stores' counting of references rests on: a tuple of a relation store is free when every
stub has inserted and deleted it, so no filter may stand between two stubs of one store.
`TuplesAsMeant` joins the two ends: an operator's columns come from the attributes it sees, the
tuple's from the store that allocates it, and several transformations may have changed either.

*Stores and pipeline.* The pipeline counts references per tuple; the stores show that a
cell is recycled only after its last user (`NothingLost`) and that nothing stays behind
(`NothingLeaked`), for the pattern of calls that the operators of the pipeline make.

*Bounds.* Two pages of two elements have every kind of step of the shared queue's ring (inside a
page, over a boundary, around the ring); three readers are needed for a tie
between readers other than the one that reads. Queues of one slot make
every operator stall wherever it can. A time slice of 2 ends runs in the middle
of a queue. Three tuples make a window expire two at once with one left; two tuples on
one side and one on the other make a join's scan find two partners, of which the
queue takes one at a time; two equal tuples and a third make counts go to two and
back to none; a partition of one row with two tuples per partition makes each second
one expel the first. In the network queue three slots give full, empty and neither; in `Network` a queue of one blocks the input's thread, and a ring of three
characters has a full buffer in the middle of a line. Three pages of two tuples make
windows and free lists go over page boundaries and make pages return; the index begins with
a fan of four and doubles at one sixth (one entry per bucket at most), so that five tuples
take it through all three ways to double. In `plan` two tables in a FROM clause with a
window, a selection or a comparison between them exercise each transformation; MAX_OPS 24
is enough for two queries. The queries have a level that is never set (`*`, groups), one that is a number, one that is
a name, and one that leaves the projection nothing to do. Names of 3, 6 and 9 bytes between numbers of 4 put the
third column somewhere else in each table, with a gap before it in two of them, and make a difference take its scratch tuple. In the lifecycle, three servers and three slots give a
deleted set with one before and one behind it, and three operators for sets of two reach
the limit of a set. All of these are constants of the configurations.

*Fairness.* In the pipeline the next operator to be called is any one, which covers
every order in which a plan can be registered. Liveness assumes what going round
gives: every operator's turn comes again and again unless a `run()` failed
(`Fairness` in `Pipeline`); a `run()` is finite because its slice is, so nothing more is
assumed of it. In the lifecycle every connection handler and every server thread
keeps going (weak fairness, an operating system thread); clients owe no command. In
`NetQueue` a thread inside a method keeps going, and a thread that asks for the mutex again
and again gets it (strong fairness); nobody is obliged to call a method. In `Network` the
threads of the server keep going and the clients owe nothing; the liveness properties
excuse a client that has left or never connected.

*Deadlock* is not checked where the system may really stop: in `queries` (and `level_window`) after
a source's or a client's error; in `network` when both clients are done; in
`stores` when the memory or the tuples are used up; in the plan's runs when START is
done or a sharing is partial; in the lifecycle when the clients are done. It is checked in
`shared_queue` and `net_queue`.

## 4. What is proved

`SharedQueueProofs` proves, for any number of readers, pages, elements of a page and
any set of tuples (`SizesAssumption`: the three sizes are positive;
`HeartbeatAssumption`: a heartbeat is no tuple):

* `TypeCorrect`, `SlowestIsSlowest`, `CountersStayBounded`. None of the three is
  inductive. That counters never become negative on rebasing needs that the
  slowest reader lags most; that this survives the hand-over needs that counters
  are at most one at the slowest reader; and that positions stay in the ring needs
  that a pointer's place in its page agrees with its address. The invariant is
  their conjunction `IInv` = `TypeOK`, `PositionsAligned`, `SlowestLagsMost`,
  `CountersBounded`.
* `Refinement`: every step of the ring is a step of `BroadcastQueue` or leaves it
  alone. It adds `CountersMeasureRing`: a reader's distance to the writer, modulo the
  size of the ring, is what the counters say. Enqueueing then writes a slot no
  reader has left to read (`ModDistinct`), and dequeueing shifts exactly one
  reader's stretch.

* `ReferencesCounted`: the count of a tuple's references is the number of those who have
  still to let it go. The count alone is not inductive: `enqueue()` adds references for a
  tuple it takes to be nobody's, and `decrRef()` gives one back on the faith that its
  reader has no other. The invariant `CInv` adds `OwnedOnce`: no reader awaits a tuple
  twice, or awaits what it holds, or what has yet to be enqueued. That a tuple with no reference
  is nowhere, so that the store may hand it out again, follows from the two together
  (`FreeIsNowhere`).

`NetQueueProofs` proves, for any number of slots (`NumObjsAssumption`: at least one; full is
told from empty by a flag) and any objects (`NoObjectAssumption`: an empty slot is no object):

* `TypeCorrect` and `SlotsOwned`: whoever has passed the unlocked test for a slot still owns it when
  it comes to use it. `SignalsKept`: a side that sleeps on a condition that has come true has a signal
  on its way. The invariant is `IInv` = `TypeOK`, `LockHeld` (who is inside the lock is
  who holds it), `FlagsSayWhoWaits`, `EmptyMeansLevel` (the ring's positions meet only when
  it is empty), `SidesOwnSlots`, `NoLostSignal`, `WrittenIsObject`: a lost signal can only be
  excluded together with what each side has seen under the lock, and the ownership of a
  slot with the flags that were tested without it.
* `FifoRefinement`: the ring with its two threads is `BoundedFifo`, each method taking effect in
  one step.

`LifecycleProofs` proves, for any number of connections, servers, slots and operators
(`SchedulerAssumption`, `LifecycleAssumption`):

* `TypeCorrect`: with every update of the unlocked counter that may be lost, a set never has more than
  MAX_OPS operators, and the counter stays a word.
* `OnlyStoppedDeleted`: a slot is emptied only when a server of its number was stopped, in every
  interleaving of connections and server threads, even when servers share a number. TLC checks
  it with one connection (`one_connection`); that several connections do not interfere is what the theorem
  adds. The invariant `LInv` has beside the types that a server belongs to one
  connection (`OwnServers`), that nobody else changes a server's state while its operators are added
  (`AddingIsSpec`), and that a pending deletion comes from a server that has ended
  (`RequestedIsStopped`).

* `SetsAreCounted` and `StopsWhenEmpty`, for one command connection at a time (`Alone`): `numOpSet` is the
  number of sets in use whenever nobody is between a slot and the count, and `run()` returns
  from a RESET only when no set is left. `UInv` adds who is where: a server's thread is at work only
  between EXECUTE and the join of its connection (`Threads`, proved for any number of
  connections), so the connection and the thread are never both between a write to a slot and
  the count that goes with it (`Counts`). The hypothesis cannot go: two connections lose updates of
  the counter, which no lock protects (section 5).

`NetworkProofs` proves, for a ring and a queue of every size, any number of lines and
whatever the client sends (`BufSizeAssumption`: the ring has room for two characters;
`LinesAssumption`, `CharAssumption`: an answer is made of characters):

* `DeliveryInOrder`: what the output connection has sent is a prefix of the answers, in their order. Each
  side of the ring reads the other's position without a lock, and may find it at BUF_SIZE
  before it is set back to 0. `RingInv` measures the ring from what the thread has freed (`Base`) and
  what it found when it measured (`Measured`), takes a position of BUF_SIZE for one of 0, and
  says which characters are between the two; `LineGoesOut` adds how much of the line that is being
  put or sent is there already.
* `InputConnectionStays`: the connection's object is there as long as the engine may look at it, unless
  the schema or a line was refused or reading from the client failed. `InputInv`: what is left in the socket is the end of what
  was sent (`SocketHoldsRest`), the thread goes on only while the lines are good (`LinesGood`), the queue
  holds lines in their order and skips none that is to be answered (`QueueInOrder`).

`PipelineProofs` proves, for every set of plans, for every capacity of the queues, any time slice, and
the operators called in any order:

* `PromisesAreKept`: no operator goes back on what it has sent, heartbeats included.
* `QueuesWithinCapacity`: nobody enqueues without space, and every reader of a queue finds
  timestamps that never go back.

The plans are those the plan manager builds: `OperatorsAssumption` (an operator has the inputs and
the output that its kind has), `QueuesAssumption` (`plan_queue.cc`: one writer per queue, each reader of it is one
input of one operator, an operator's inputs are written by operators of the same plan) and
`WindowsAssumption` (`plan_syn.cc`, `plan_store.cc`: timestamps are naturals, a source makes each tuple once, a time
window shares the store of the source that it reads). TLC evaluates the three on the plans of the runs.

Timestamps are monotone on a queue because its writer knows how far its inputs have come, and each kind
of operator knows it from other variables (`OpInv`). A filter has sent nothing younger than `lastInputTs`
(`FilterInv`); a stalled pair is of the instant last read (`PairInv`); the streams of insertions and deletions are at
`curTs`, behind `lastInputTs` only while they are stalled (`ChangesInv`); the stream of a relation is at the instant it sends next,
which a stalled element is beyond (`RstreamInv`); a merge has for each side the head of its queue, or the timestamp
last read when that is empty (`MergeInv`), and while it runs `minTs` is no more than that (`MergeRuns`), though the other
operators go on enqueueing when it does not run; a stalled join has its stalled element below both
(`JoinInv`, `StreamJoinInv`). The time window is the hard one: it sends a deletion at the
timestamp of the insertion plus the window's size, so that what it has promised must not be later than the expiry of any tuple in
it (`WindowInv`), and the tuples in it are those of the store, which is the source's: the *n*-th
insertion of the window must be of the *n*-th tuple of the source. `Feeds` therefore relates three
components, the window, what waits in the queue between the two, and the source.

The proof is by operator. `StepOf(o)` says what has to be shown of a step of `o`: its own invariant holds
afterwards, its output only grew by elements not older than its promise, its inputs only shrank
(`Moved`), and what it feeds is fed. `StepKeeps` is the frame argument: then every other operator's invariant survives, for
what an operator says of its inputs is monotone in them (`OpInvSurvives`, `FeedsSurvive`). The operators that send many elements for one
thread the record of flow and state through their calls, and so do the lemmas: *Sends*, *Puts*
and *Keeps* are what a call does, and compose. The scans are recursive functions (`SendInstants`, `SendAll`, the copies of a change):
that the function exists, and that each of its values keeps what it must, is shown by its
least counterexample (`LeastOf`), for the induction theorems of the library are out of the provers' reach.

`StoresProofs` proves, for every number of pages, of tuples to a page (`TuplesPerPageAssumption`: more than one) and every
bound of the queues, with the operators run in any order, up to and with the call that finds no memory left, for the
two stores that a stream can have, `simple` under two readers and `win` under two windows and an operator behind one of them:

* `StreamsLoseNothing` (`NothingLost`), `StreamsLeakNothing` (`NothingLeaked`), and of the window store `WindowsKeepOrder`
  (`OldestFirst`) and `WindowScansComplete` (`ScansComplete`), each from `StreamInvariance`.

A page is given back by whoever drops its last reference, and which that is depends on all operators. The invariant
`StreamIndInv` says what the count of each page *is*. It numbers the tuples in the order they are made and names what the
code does not keep: which page is the *k*-th of the store (`pg`), the first that is in use (`lo`), and how far each
operator has come, which for a reader is one number, `q`, and for a stub of a window two, the tuples it has inserted,
`i`, and deleted, `d`. Everything else follows from these numbers. A tuple is at the slot of its number (`StreamMemory`),
a queue holds the tuples from its reader's number on (`Pluses`; for what a window passes on, `PassedOn`, an interleaving of
insertions and deletions in which no tuple is deleted before it is inserted), a stub's synopsis is the stretch from
`d` to `i` (`WinHas`), its pointers are the two ends of it (`WinPointers`), and a scan stands between them (`WinScan`). The
count of a page is the number of its tuples that each operator has still to let go of, with the page that is
being filled or the stubs not beyond it on top (`SimpleCount`, `WinCount`). So a count comes to zero
exactly when the last operator has left the page, and that is always the first page in use (`WinLowest`), which is why the
pages form a queue although anybody may give one back.
The lemmas are about one call each (a tuple made on a page or on a new one, a reference more or less,
a stub that inserts or deletes, the page that a stub leaves), and those about actions compose them.

`RelationProofs` proves the same, for every number of pages, of tuples to a page and every bound of the queues, of the two
ways in which a relation is kept: `rel`, where the operator and the two readers behind it each have a stub, and `own`, where
the operator alone keeps the tuples and deletes what its scan returns.

* `RelationsLoseNothing` (`NothingLost`), `RelationsLeakNothing` (`NothingLeaked`) and `RelationScansComplete`
  (`ScansComplete`), each from `RelationInvariance`.

Any tuple may be the next to go, so nothing here is a stretch of numbers. The invariant `RelIndInv` says that the memory is two
linked lists and that everything in its cells is a function of the queues and the synopses:

* *The lists* (`RelMemory`). The tuples that somebody has or will have are linked through `next` and `prev` with the
  newest first (`InList`: of two members with none between them, `Adjacent`, each is the other's neighbour, and 0 and one more than
  the number of tuples made stand for the ends). The free cells are a stack `G[k]`, ..., `G[1]` linked through `next` (`FreeList`). Each place of
  a page in use is in exactly one of the two (`Apart`), which is `NothingLeaked`; and a tuple in the first list has its
  number in its cell (`Cells`), which is `NothingLost`.
* *The cells*. A tuple's references are one of the operator's while it has the tuple, one for each reader's PLUS until the reader has let it
  go, and one for the MINUS that follows (`RefsOf`). A reader has still to insert what is on its queue as a PLUS (`InsOf`), and still to delete that and
  what it has (`DelOf`).
* *The queues* (`RelQueues`). Each tuple is at most once to come and once to go, in that order, and what a reader has with what is
  to come and without what is to go is what the operator has (`RelQueue`): this is why a reader never deletes what it
  has not inserted, and why the last bit and the last reference of a tuple are dropped by the same call.
* *The scan* (`RelScan`). It stands at a tuple *y* the scanner still has, or at the end, and what it has still to return is what the
  scanner has from *y* downwards. The proof is about `getNext` running over the tuples the scanner does not
  have; that it halts (`Chain`) is shown by its least counterexample, as is that `FreeCells` finds all *k* free cells.

Of the invariant's three witnesses, *G*, *k* and *y*, nothing is in the code but what the links say. They are the ghosts of the proof; a
call that deletes a tuple closes the gap between its neighbours and pushes its cell on *G*, and one that makes a tuple pops one or takes a page.

### What stays with TLC

* Liveness and `ENABLED`: TLAPS 1.4.5 reaches neither, and with them `Delivered`,
  `ExpiryDelivered`, `Answered`, and the ends of the network and of the scheduler.
* `MeansWhatItSays`: the meaning of a plan is defined recursively over its operators, and that an operator's output is
  its meaning is an induction over the history of its inputs, tuple by tuple, for each kind.
* `RefsCounted`, `MinusAfterPlus` and `OnlyOutsidersFail` of the pipeline: they count who holds a tuple in all synopses
  and queues at once, and rest on which tuple a lineage or a value finds. The invariant that carries them has to say of every
  synopsis what was read and not deleted; `IInv` says only when. The part of `TypeOK` that is about the queues is
  `QueuesWithinCapacity`; the types of the synopses' entries are not in `IInv`.
* The stores of lineages and of partitioned windows, and with them `LineageFound`, and the other properties of `Stores` for
  these two kinds (and `OldestFirst` for the latter): the index is a tree of layers that grows, and a partition's rows and those that fell out of them are one list
  per partition. What a bucket holds is a recursive matter, and an invariant has to name each as a sequence beside the memory.
* The plans: `LogicalPlan` and `PhysicalPlan` are recursive trees, and tlapm has no SMT backend for a module that
  reaches a RECURSIVE operator.

## 5. Where the code and its documentation disagree

Checked by runs:

* `level_window`: when the level filter of a row window rejects a tuple,
  `deleteUnqualifiedTuple_w()` advances `lastDel` past a tuple `lastIns` never
  passed. The window then deletes a tuple it never sent.
* `second_server`: `brun` is set by the first `run()` and never cleared, so after the
  first server has ended no later one runs an operator.
* `partition_scan`: `PwinStoreIterator::getNext` begins behind the first tuple of a partition, at the end of the
  tuples that fell out of it, and a scan left in the middle of a partition follows into the list of
  those: it does not return what the stub has.
* `deletions`: `Dstream::clearStall()` subtracts one from the count of the deletion it stalled
  at for each copy it sends (`dstream.cc:340`), where `produceOutput()` adds one (line 274):
  once the output has filled up between two copies, it sends copies for ever. In `queries` the
  Dstream reads tuples of different contents.
* `sharing`: `sharingAnalysis()` never compares the relation-to-stream operator, so the
  Istream, Dstream or Rstream of a query is taken for the query itself and gets its answer.

Met while modelling, without a run of their own. Where the models leave a case out for one of these,
the module says so.

Windows and operators:

* a time window of size 0 (`[Range 0]`) expires a tuple right after it stored it, so MINUS
  goes out before PLUS;
* a Dstream sends no heartbeats, although `istream.cc:229` says why one is needed; a union
  or a join above it may wait for an instant that is over (`Answered` leaves it out);
* `win_syn_impl.cc` has the same `deleteUnqualifiedTuple_w` as the row window, with the same effect;
* a tuple with a single attribute is always taken for a heartbeat by the network's input.

Plans:

* an operator that feeds both inputs of another: `getInputIndex` (`plan_queue.cc:33-44`) and
  the stubs (`plan_store.cc:259-271`) find the first input only, so the second has no
  queue, although `examples/cql-queries:82` is such a query and `phy_op.h` speaks of an input
  queue for each input;
* a union of two windows over one stream stores two tuples of one lineage;
* `t_rstreamNow` and `t_streamCross` (`log_plan_gen.cc:145-222`) look through a DISTINCT or a
  GROUP_AGGR and drop the window under it; `MCQueryPlan` keeps these queries out (`Kept`);
* `new_op` (`gen_phy_plan.cc:1528-1530`) follows the null behind the last free operator;
* `genSubsumeSharePhysicalPlan` reads `p_childPlans` before anything is assigned to it: any
  partial sharing is undefined; `subsumeShareFlag` stays set after an analysis that failed;
* the SELECT list of an earlier query is a list of pointers into the interpreter's pool (`query.cc:42-46`), which the
  next query overwrites (`sem_interp.cc:94`, called at 1084); the right sides of predicates between columns likewise
  (`query.cc:83-84`). A query with the predicates of an earlier one and another SELECT list of the same length is
  therefore taken for it and gets its answer; the second queries of `plan` do not contain such pairs, nor
  queries that are refused, which overwrite the pool as well;
* the level appended to a SELECT list (`sem_interp.cc:938-950`, `1014-1028`) refers to a column that has nothing to do with it:
  for `*`, and mostly above a grouping, to none, so that `transformAttr` (`gen_phy_plan.cc:1366-1390`)
  returns an attribute that was never set; for a list to whichever column of the first table has its number, a name being copied as
  an INT. The output overwrites its value, but a DISTINCT, an Istream or a Dstream compares tuples by it as well (in
  `AnswersKept` what was never set has one value), and a query over the result reads it;
* the analysis compares variables by position and FLOAT constants with `!=`, and does not look at the
  order of FROM, nor whether it is UNION or EXCEPT;
* the sharing of a union's or difference's query never counts its copies; `addIntAggrsDistinct`
  writes through another member of the operator's union;
* a union's LIN_STORE never sets `numLineage`; the shortcut through a query source may
  for a moment exceed MAX_OUT_BRANCHING;
* operators of query sources are freed at START while `queryOutOps` keeps their numbers.

Instantiation:

* `inst_aggr.cc:initInIndex` adds the scan's hash instructions to `updateHash`, so that the input
  index of a grouped MAX or MIN over a relation is scanned with a constant;
* `inst_rel_source.cc:196` builds the scan's hash for UPDATE_ROLE, where the scan binds
  another role;
* `inst_except.cc:59` counts in a global that is never reset: the second EXCEPT of a process has
  wrong columns;
* `inst_join.cc:414-441` keeps one of several equalities on one attribute of a side, so the
  two directions of a join test different predicates;
* `getSimpleOutEval` (`inst_join.cc:749`, `inst_str_join.cc:554`) places the right side's
  columns behind the *internal* attributes of the left child (the COUNT or SUM that was
  added to a grouping);
* `inst_join.cc:322-326`: a join of two streams whose output a window keeps has a WIN_STORE in the
  plan (`plan_store.cc:473-502`, and the assertion at `inst_join.cc:310-314` says so), but
  `inst_join` makes a simple store of it, which `link_winstore_syn` then takes for a window store;
  `inst_str_join.cc:256-264` does it right;
* COUNT is computed as an INT, but `getOutputType` (`common/aggr.cc`) gives it the type of the first
  attribute of the first table: a FLOAT then holds the bits of an INT, and for a name the
  attribute's length is never set (`gen_phy_plan.cc:868-885`);
* the interpreter lets MAX, SUM and AVG of a name through (`sem_interp.cc:430-456`), for which there are no
  instructions;
* `inst_str_join.cc:200` reads the projections of the other kind of join, which lie in the same place;
* `FLT_UMN` (`aeval.h:185-195`) tests and stores as `FLT_UMX` does: the MIN of a FLOAT
  column is its maximum.

Stores and index:

* `insertTuple` (`hash_index.cc:306`) ignores that doubling failed, and `getNewEntry`
  follows a null when pages run out; the models give the index enough of them;
* `PwinStore` gives its second page of headers a free list that is never joined to the first one's.

Server and network:

* RESET hangs: `run()` returns to a RESET only when no set is left at all. A server stopped
  before its thread reached `S_EXEC` asks for no deletion and leaves its set behind; the
  next RESET, of the same connection even, waits for ever. `ResetAloneCompletes` is the
  part that holds;
* END APP takes the server's number from the global `CURRENTSERVERID`, so two
  connections can give two servers one number and one set;
* two threads can both find `brun` false and run the same operators; `numOpSet` can lose
  an update;
* the loop over the slots ends at the first empty one, so a set behind a deleted one
  is not served again;
* operators beyond the limit of a set are dropped while END APP succeeds (`Appended`);
* an input connection whose client sends a line too long or malformed (`in_conn.cc:374-376`, `123-127`), or from which
  reading fails (`388-392`), returns from `run()` without waiting for `end()` (`108-112`), and `gen_conn.cc:213-215` destroys it
  while the engine may still read from it;
* RESET does not end an input connection's thread that waits for a slot to write to, and
  TERMINATE does not end input connections at all.

## 6. Not modelled

* *Parser, semantic interpreter*: a sequential translation of text to trees, partly generated
  (`parse.cc`, `scan.cc`). Of the interpreter `LogicalPlan` has the SELECT clause, `Sharing` the pool of
  expressions, the numbers of tables and the windows, `QueryPlan` what it refuses (`Valid`).
* *Monitors, timers, the system stream, XML output*: they observe and do not feed back, save that
  registering a monitor interrupts a server (`server_impl.cc:721`).
* *Clients, visualiser*: behind sockets; nothing in the server depends on more than the lines
  they send.
* *The 0.6.2 copy*: an older state of the same files.
* *Simple queue's pages*: one reader of the same ring.
* *Partial sharing*: undefined as soon as it is found (section 5).
* *Memory exhaustion under the index*: undefined (section 5).
* *Levels*: the level that an element carries and a join or a group computes for its output
  (`bin_join.cc:433`, `group_aggr.cc:297`) is data no property tells apart. The column that stands for it in a
  SELECT list is modelled (section 2, Plans).
* *Of the instructions*: constants, arithmetic and comparisons other than equality in expressions, the type
  BYTE, the limits on instructions, attributes and indexes. A run of `plan` has one
  equality per attribute, one difference per process, no MIN of a FLOAT, no MAX or MIN by groups
  over a relation and no grouping on the left of a join, for those are among the defects of section 5
  (`Countable` and the queries of `MCQueryPlan` leave them out); a union's `numLineage`, which is never set, is 0.
  Of the objects that instantiation creates only what they compute is modelled here; how they work is in
  the pipeline's and the stores' modules.

## 7. Where to go on

Everything planned is modelled. The proofs that would come next: `OnlyOutsidersFail` (that a merge
with a synopsis finds what it is told to delete) and `MinusAfterPlus` of the filters and of the row window, which need for each synopsis which of the
elements read are still in it; the properties of `Stores` for a lineage store, whose list of tuples is the relation's and whose index needs a ghost for what
each bucket holds. A model of
`SimpleQueue` as a second implementation of `BroadcastQueue` would share the first one's proof.
