---------------------------- MODULE MCPipeline ----------------------------
(***************************************************************************)
(* Query plans for the model checker.                                      *)
(***************************************************************************)
EXTENDS Pipeline

(* All operators of the plan belong to one query.                          *)
One == {Op}

Source(out, names, times) ==
    [kind |-> "source", out |-> out, tuples |-> names, timestamps |-> times,
     heartbeats |-> TRUE, errors |-> FALSE]

Client(q) == [kind |-> "output", in |-> <<q, 1>>, disconnects |-> FALSE]

(* A stream, two filters on the one queue it has, and their union.         *)
Diamond ==
    [src |-> [Source("s", <<"a", "b", "c">>, 0 .. 2) EXCEPT !.errors = TRUE],
     low |-> [kind |-> "select", in |-> <<"s", 1>>, out |-> "l", satisfy |-> {<<"b">>, <<"c">>}],
     hi  |-> [kind |-> "select", in |-> <<"s", 2>>, out |-> "h", satisfy |-> {<<"a">>, <<"b">>}],
     uni |-> [kind |-> "union", left |-> <<"l", 1>>, right |-> <<"h", 1>>, out |-> "u",
              relation |-> FALSE],
     dst |-> [Client("u") EXCEPT !.disconnects = TRUE]]

(* A stream, its window of two time units, a projection of the window.     *)
RangeQuery ==
    [wsrc |-> Source("ws", <<"a", "b", "c">>, 0 .. 3),
     win  |-> [kind |-> "range", in |-> <<"ws", 1>>, out |-> "w", windowSize |-> 2,
               store |-> "wsrc"],
     pro  |-> [kind |-> "project", in |-> <<"w", 1>>, out |-> "p", relation |-> TRUE],
     wdst |-> Client("p")]

(* Two streams, a window of each, and the union of the windows.            *)
TwoWindows ==
    [ts   |-> Source("ts", <<"a">>, 0 .. 1),
     us   |-> [Source("us", <<"x", "y", "z">>, 0 .. 1) EXCEPT !.heartbeats = FALSE],
     tw   |-> [kind |-> "range", in |-> <<"ts", 1>>, out |-> "tw", windowSize |-> 1,
               store |-> "ts"],
     uw   |-> [kind |-> "row", in |-> <<"us", 1>>, out |-> "uw", windowSize |-> 1,
               store |-> "us", qualify |-> {<<"x">>, <<"y">>, <<"z">>}],
     both |-> [kind |-> "union", left |-> <<"tw", 1>>, right |-> <<"uw", 1>>, out |-> "tu",
               relation |-> TRUE],
     tdst |-> Client("tu")]

(* A stream and its window of the last tuple, which is for two levels.     *)
Levels ==
    [src |-> Source("s", <<"a", "b", "c">>, 0 .. 1),
     win |-> [kind |-> "row", in |-> <<"s", 1>>, out |-> "w", windowSize |-> 1,
              store |-> "src", qualify |-> {<<"a">>, <<"c">>}],
     dst |-> Client("w")]

-----------------------------------------------------------------------------
(***************************************************************************)
(* Queries over relations, one of which is registered at a time.  The      *)
(* first letter of a tuple's name is its contents.                         *)
(***************************************************************************)
Value == [t \in {<<"a1">>, <<"a2">>, <<"b1">>, <<"b2">>} |->
            IF t \in {<<"a1">>, <<"a2">>} THEN "a" ELSE "b"]

Relation(out, names, times) ==
    [kind |-> "relsource", out |-> out, tuples |-> names, timestamps |-> times,
     value |-> Value, heartbeats |-> FALSE, errors |-> FALSE]

Sink(q) == [kind |-> "sink", in |-> <<q, 1>>]

Pairs(left, right) == {<<<<l>>, <<r>>>> : l \in left, r \in right}

JoinQuery ==
    [j1l |-> Relation("j1l", <<"a1", "b1">>, 0 .. 1),
     j1r |-> Relation("j1r", <<"a2">>, 0 .. 1),
     j1  |-> [kind |-> "join", left |-> <<"j1l", 1>>, right |-> <<"j1r", 1>>, out |-> "j1",
              joinSynopsis |-> TRUE, joins |-> Pairs({"a1", "b1"}, {"a2"})],
     j1s |-> Sink("j1")]

FreshJoinQuery ==
    [j2l |-> Relation("j2l", <<"a1">>, 0 .. 1),
     j2r |-> Relation("j2r", <<"a2", "b2">>, 0 .. 1),
     j2  |-> [kind |-> "join", left |-> <<"j2l", 1>>, right |-> <<"j2r", 1>>, out |-> "j2",
              joinSynopsis |-> FALSE, joins |-> Pairs({"a1"}, {"a2", "b2"})],
     j2s |-> Sink("j2")]

StreamJoinQuery ==
    [sjl |-> Source("sjl", <<"a1", "b1">>, 0 .. 2),
     sjr |-> Relation("sjr", <<"a2">>, 0 .. 2),
     sj  |-> [kind |-> "streamjoin", left |-> <<"sjl", 1>>, right |-> <<"sjr", 1>>, out |-> "sj",
              joins |-> Pairs({"a1", "b1"}, {"a2"})],
     sjs |-> Sink("sj")]

DistinctQuery ==
    [dr  |-> [Relation("dr", <<"a1", "a2", "b1">>, 0 .. 2) EXCEPT !.errors = TRUE],
     di  |-> [kind |-> "distinct", in |-> <<"dr", 1>>, out |-> "di", value |-> Value],
     ds  |-> Sink("di")]

ExceptQuery ==
    [el  |-> Relation("el", <<"a1", "a2">>, 0 .. 1),
     er  |-> Relation("er", <<"a1">>, 0 .. 1),
     ex  |-> [kind |-> "except", left |-> <<"el", 1>>, right |-> <<"er", 1>>, out |-> "ex",
              value |-> Value],
     es  |-> Sink("ex")]

GroupQuery ==
    [gr  |-> Relation("gr", <<"a1", "a2", "b1">>, 0 .. 1),
     gi  |-> [kind |-> "group", in |-> <<"gr", 1>>, out |-> "gi", value |-> Value,
              inputSynopsis |-> TRUE, extremal |-> {<<"a2">>}],
     gs  |-> Sink("gi")]

PartitionQuery ==
    [ps  |-> Source("ps", <<"a1", "b1", "a2", "b2">>, 0 .. 2),
     pw  |-> [kind |-> "partn", in |-> <<"ps", 1>>, out |-> "pw", value |-> Value,
              windowSize |-> 1],
     pd  |-> Sink("pw")]

Itself == [t \in DOMAIN Value |-> t]

(* The Dstream takes tuples of different contents here: of equal ones see DeletionsQuery. *)
StreamsQuery ==
    [xr  |-> [Relation("xr", <<"a1", "a2">>, 0 .. 2) EXCEPT !.heartbeats = TRUE],
     xi  |-> [kind |-> "istream", in |-> <<"xr", 1>>, out |-> "xi", value |-> Value],
     xd  |-> [kind |-> "dstream", in |-> <<"xr", 2>>, out |-> "xd", value |-> Itself],
     xis |-> Sink("xi"),
     xds |-> Sink("xd")]

(* The deletions of equal tuples in one instant, with space for one element. *)
DeletionsQuery ==
    [xl  |-> [Relation("xl", <<"a1", "a2">>, 0 .. 2) EXCEPT !.heartbeats = TRUE],
     dls |-> [kind |-> "dstream", in |-> <<"xl", 1>>, out |-> "dls", value |-> Value],
     dln |-> Sink("dls")]

Deletions == {DOMAIN DeletionsQuery}

RstreamQuery ==
    [rr  |-> Relation("rr", <<"a1", "b1">>, 0 .. 3),
     rs  |-> [kind |-> "rstream", in |-> <<"rr", 1>>, out |-> "rs"],
     rd  |-> Sink("rs")]

-----------------------------------------------------------------------------
(* One query is registered at a time. *)
AllPlans ==
    Diamond @@ RangeQuery @@ TwoWindows @@ JoinQuery @@ FreshJoinQuery @@ StreamJoinQuery
        @@ DistinctQuery @@ ExceptQuery @@ GroupQuery @@ PartitionQuery @@ StreamsQuery
        @@ RstreamQuery @@ DeletionsQuery

EachQuery ==
    {DOMAIN q : q \in {Diamond, RangeQuery, TwoWindows, JoinQuery, FreshJoinQuery,
                       StreamJoinQuery, DistinctQuery, ExceptQuery, GroupQuery,
                       PartitionQuery, StreamsQuery, RstreamQuery}}

=============================================================================
