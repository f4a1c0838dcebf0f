------------------------------- MODULE Stores -------------------------------
(***************************************************************************)
(* A store and the operators that use it.  Every tuple in the engine lives *)
(* in the store of the operator that made it; the queues and the synopses  *)
(* of other operators hold pointers to it and references that keep it.     *)
(*                                                                         *)
(*   "simple"  a stream, read by operators 2 and 3;                        *)
(*   "win"     a stream with two windows, 1 and 2; the first is read by    *)
(*             operator 3, which keeps what the window shows;              *)
(*   "rel"     a relation of operator 1, kept by operators 2 and 3;        *)
(*   "lin"     a relation of operator 1, which finds its tuples by their   *)
(*             lineage, kept by operator 2;                                *)
(*   "pwin"    a partitioned window, 1, kept by operators 2 and 3;         *)
(*   "own"     a relation that operator 1 keeps for itself.                *)
(*                                                                         *)
(* An operator that keeps a relation may stop in the middle of a scan of   *)
(* it, and the others run on; it reads nothing meanwhile.                  *)
(***************************************************************************)
EXTENDS MemoryManager

CONSTANTS MaxTuples,   \* bound: the stores to look at -> tuples made
          QueueSize,   \* elements a queue holds
          NumRows,     \* rows of a partition of the window
          Key,         \* partitions
          Hash,        \* lineages -> their hash values in the index
          numBitsPerLayer, Threshold

(* The stubs are those of the operators above; a window of no rows is left *)
(* out, for the code fails there (README.md).                              *)
ASSUME StubAssumption == Stub = {1, 2, 3}
ASSUME NumRowsAssumption == NumRows \in Nat \ {0}
ASSUME KindAssumption ==
    DOMAIN MaxTuples \subseteq {"simple", "win", "rel", "lin", "pwin", "own"}

Simple == INSTANCE SimpleStore
Win    == INSTANCE WinStore
Rel    == INSTANCE RelStore
Lin    == INSTANCE LinStore
Pwin   == INSTANCE PwinStore
Links  == INSTANCE LinkedStore   \* what the last three have in common

VARIABLES kind,
          store,       \* the memory, and what the store keeps outside of it
          place,       \* tuple -> where it is; tuples are numbered as they are made
          key,         \* tuple -> its partition, or its lineage
          queue,       \* reader -> elements it has still to read
          has,         \* stub -> tuples it has inserted and not deleted
          scanning,    \* stubs with a scan under way
          left         \* stub -> tuples its scan has still to return

vars == <<kind, store, place, key, queue, has, scanning, left>>

Plus(t)  == [sign |-> "+", tuple |-> t]
Minus(t) == [sign |-> "-", tuple |-> t]

-----------------------------------------------------------------------------
(* The store's methods, by its kind *)

Linked == {"rel", "lin", "own"}
Listed == Linked \cup {"pwin"}

initialize(k, m) ==
    CASE k = "simple" -> Simple!initialize(m)
      [] k = "win"    -> Win!initialize(m)
      [] k = "rel"    -> Rel!initialize(m, {1, 2, 3})
      [] k = "lin"    -> Lin!initialize_l(m, {1, 2})
      [] k = "own"    -> Rel!initialize(m, {1})
      [] k = "pwin"   -> Pwin!initialize(m)

NewPlace(m) ==
    CASE kind = "simple"    -> Simple!NewPlace(m)
      [] kind = "win"       -> Win!NewPlace(m)
      [] kind \in Listed    -> Links!NewPlace(m)

newTuple(m, id) ==
    CASE kind = "simple"    -> Simple!newTuple(m, id)
      [] kind = "win"       -> Win!newTuple(m, id)
      [] kind \in Linked    -> Rel!newTuple(m, id)
      [] kind = "pwin"      -> Pwin!newTuple(m, id)

addRef(m, t, n) ==
    CASE kind = "simple"    -> Simple!addRef(m, t, n)
      [] kind = "win"       -> Win!addRef(m, t, n)
      [] kind \in Listed    -> Links!addRef(m, t, n)

decrRef(m, t) ==
    CASE kind = "simple"    -> Simple!decrRef(m, t)
      [] kind = "win"       -> Win!decrRef(m, t)
      [] kind \in Listed    -> Links!decrRef(m, t)

insertTuple_r(m, t, s) ==
    CASE kind = "win"       -> Win!insertTuple_r(m, s)
      [] kind \in Listed    -> Links!insertTuple_r(m, t, s)

deleteTuple_r(m, t, s) ==
    CASE kind = "win"       -> Win!deleteTuple_r(m, s)
      [] kind \in Linked    -> Rel!deleteTuple_r(m, t, s)
      [] kind = "pwin"      -> Pwin!deleteTuple_r(m, t, s)

getScan_r(m, s) ==
    CASE kind = "win"       -> Win!getScan_r(m, s)
      [] kind \in Linked    -> Rel!getScan_r(m, s)
      [] kind = "pwin"      -> Pwin!getScan_r(m, s)

HasNext(m, s) ==
    CASE kind = "win"       -> Win!HasNext(m, s)
      [] kind \in Linked    -> Rel!HasNext(m, s)
      [] kind = "pwin"      -> Pwin!HasNext(m, s)

NextTuple(m, s) ==
    CASE kind = "win"       -> Win!NextTuple(m, s)
      [] kind \in Linked    -> Rel!NextTuple(m, s)
      [] kind = "pwin"      -> Pwin!NextTuple(m, s)

getNext(m, s) ==
    CASE kind = "win"       -> Win!getNext(m, s)
      [] kind \in Linked    -> Rel!getNext(m, s)
      [] kind = "pwin"      -> Pwin!getNext(m, s)

-----------------------------------------------------------------------------
(* Who reads the elements of whom; source 0 is the operator that makes the *)
(* tuples of a stream.                                                     *)

Reads(k) ==
    CASE k = "simple" -> {<<2, 0>>, <<3, 0>>}
      [] k = "win"    -> {<<1, 0>>, <<2, 0>>, <<3, 1>>}
      [] k \in {"rel", "pwin"} -> {<<2, 1>>, <<3, 1>>}
      [] k = "lin"    -> {<<2, 1>>}
      [] k = "own"    -> {}

ReadersOf(o) == {r \in Stub : <<r, o>> \in Reads(kind)}
Keepers ==
    CASE kind = "simple" -> {}
      [] kind = "win"    -> {3}
      [] kind \in {"rel", "pwin"} -> {2, 3}
      [] kind = "lin"    -> {2}
      [] kind = "own"    -> {1}

(* One of those that keep the relation scans it; the others may be ahead   *)
(* of it or behind.                                                        *)
Scanner == CHOOSE s \in Keepers : TRUE

(* Space in the queues behind operator o.                *)
Space(o) == \A r \in ReadersOf(o) : Len(queue[r]) < QueueSize

(* An element of operator o comes with one reference to its tuple; the     *)
(* queue adds those for its other readers, and what nobody keeps is let go *)
(* of at once.                                                             *)
Given(m, o, t) ==
    IF ReadersOf(o) = {} THEN decrRef(m, t) ELSE addRef(m, t, Cardinality(ReadersOf(o)) - 1)

Sent(q, o, e) == [r \in Stub |-> IF r \in ReadersOf(o) THEN Append(q[r], e) ELSE q[r]]

Init ==
    /\ kind \in DOMAIN MaxTuples
    /\ store = initialize(kind, InitialMemory)
    /\ place = <<>>
    /\ key = <<>>
    /\ queue = [r \in Stub |-> <<>>]
    /\ has = [s \in Stub |-> {}]
    /\ scanning = {}
    /\ left = [s \in Stub |-> {}]

New == Len(place) + 1

(* A tuple is made, in memory m; or memory is out, and the run of the      *)
(* engine ends.                                                            *)
Made(m, k) ==
    /\ New <= MaxTuples[kind]
    /\ store' = m
    /\ IF m.outOfMemory THEN UNCHANGED <<place, key>>
       ELSE place' = Append(place, NewPlace(store)) /\ key' = Append(key, k)

Running(m) == ~m.outOfMemory

AnyKey == CHOOSE k \in Key : TRUE   \* where partitions do not matter

(* The operator of a stream. *)
MakeStreamTuple ==
    /\ kind \in {"simple", "win"} /\ Space(0)
    /\ LET made == newTuple(store, New)
           m    == IF Running(made) THEN Given(made, 0, NewPlace(store)) ELSE made
       IN  /\ Made(m, AnyKey)
           /\ queue' = IF Running(m) THEN Sent(queue, 0, Plus(New)) ELSE queue
    /\ UNCHANGED <<kind, has, scanning, left>>

(* The operator of a relation: it keeps the tuple in a synopsis, so that   *)
(* it finds it when it is to be deleted, with a reference for the MINUS.   *)
MakeRelationTuple ==
    /\ kind = "rel" /\ Space(1)
    /\ LET t    == NewPlace(store)
           made == newTuple(store, New)
           m    == IF Running(made)
                   THEN Given(addRef(insertTuple_r(made, t, 1), t, 1), 1, t) ELSE made
       IN  /\ Made(m, AnyKey)
           /\ IF Running(m)
              THEN /\ queue' = Sent(queue, 1, Plus(New))
                   /\ has' = [has EXCEPT ![1] = @ \cup {New}]
              ELSE UNCHANGED <<queue, has>>
    /\ UNCHANGED <<kind, scanning, left>>

DeleteRelationTuple(id) ==
    /\ kind = "rel" /\ id \in has[1] /\ Space(1)
    /\ store' = Given(deleteTuple_r(store, place[id], 1), 1, place[id])
    /\ queue' = Sent(queue, 1, Minus(id))
    /\ has' = [has EXCEPT ![1] = @ \ {id}]
    /\ UNCHANGED <<kind, place, key, scanning, left>>

(* A union or a join: what it makes of an input it deletes with the input, *)
(* and finds by its lineage.  It takes for granted that it is there.       *)
Lineages == DOMAIN Hash
MadeOf(lineage) == {id \in has[1] : key[id] = lineage}

MakeLineageTuple(lineage) ==
    /\ kind = "lin" /\ Space(1) /\ MadeOf(lineage) = {}
    /\ LET t    == NewPlace(store)
           made == newTuple(store, New)
           m    == IF Running(made)
                   THEN Given(addRef(Lin!insertTuple_l(made, t, lineage, 1), t, 1), 1, t) ELSE made
       IN  /\ Made(m, lineage)
           /\ IF Running(m)
              THEN /\ queue' = Sent(queue, 1, Plus(New))
                   /\ has' = [has EXCEPT ![1] = @ \cup {New}]
              ELSE UNCHANGED <<queue, has>>
    /\ UNCHANGED <<kind, scanning, left>>

DeleteLineageTuple(lineage) ==
    /\ kind = "lin" /\ Space(1) /\ MadeOf(lineage) # {}
    /\ LET t == Lin!getTuple_l(store, lineage)
       IN  /\ t # NoTuple
           /\ store' = Given(Lin!deleteTuple_l(store, t, 1), 1, t)
           /\ queue' = Sent(queue, 1, Minus(IdOf(store, t)))
           /\ has' = [has EXCEPT ![1] = @ \ {IdOf(store, t)}]
    /\ UNCHANGED <<kind, place, key, scanning, left>>

(* The partitioned window: a row too many in the partition of a tuple      *)
(* expires its oldest one.  The MINUS that finds no space is stalled, and  *)
(* here the last of its queue.                                             *)
MakePartitionTuple ==
    /\ kind = "pwin" /\ Space(1)
    /\ \E k \in Key :
         LET t        == NewPlace(store)
             made     == newTuple(store, New)
             inserted == Given(addRef(Pwin!insertTuple_p(made, t, k, 1), t, 1), 1, t)
             old      == Pwin!getOldestTuple_p(inserted, k)
             oldest   == IdOf(inserted, old)
             full     == Pwin!getPartnSize_p(inserted, k) = NumRows + 1
             m        == IF ~full THEN inserted
                         ELSE Given(Pwin!deleteOldestTuple_p(inserted, k, 1), 1, old)
         IN  IF ~Running(made) THEN Made(made, k) /\ UNCHANGED <<queue, has>>
             ELSE /\ Made(m, k)
                  /\ queue' = IF full THEN Sent(Sent(queue, 1, Plus(New)), 1, Minus(oldest))
                                      ELSE Sent(queue, 1, Plus(New))
                  /\ has' = [has EXCEPT ![1] = (@ \cup {New}) \ (IF full THEN {oldest} ELSE {})]
    /\ UNCHANGED <<kind, scanning, left>>

(* The operator that keeps its tuples for itself. *)
MakeOwnTuple ==
    /\ kind = "own" /\ scanning = {}
    /\ LET made == newTuple(store, New)
           m    == IF Running(made) THEN insertTuple_r(made, NewPlace(store), 1) ELSE made
       IN  /\ Made(m, AnyKey)
           /\ has' = IF Running(m) THEN [has EXCEPT ![1] = @ \cup {New}] ELSE has
    /\ UNCHANGED <<kind, queue, scanning, left>>

Dropped(m, id) == decrRef(deleteTuple_r(m, place[id], 1), place[id])

DeleteOwnTuple(id) ==
    /\ kind = "own" /\ scanning = {} /\ id \in has[1]
    /\ store' = Dropped(store, id)
    /\ has' = [has EXCEPT ![1] = @ \ {id}]
    /\ UNCHANGED <<kind, place, key, queue, scanning, left>>

-----------------------------------------------------------------------------
(* Operator r reads an element *)

Reading(r) ==
    /\ queue[r] # <<>> /\ r \notin scanning
    /\ queue' = [queue EXCEPT ![r] = Tail(@)]

ReadStreamTuple(r) ==
    /\ kind = "simple" /\ Reading(r)
    /\ store' = decrRef(store, place[Head(queue[r]).tuple])
    /\ UNCHANGED <<kind, place, key, has, scanning, left>>

(* A window keeps the tuple with a reference of its own, and sends it on.  *)
ReadIntoWindow(w) ==
    /\ kind = "win" /\ w \in {1, 2} /\ Space(w)
    /\ queue[w] # <<>>
    /\ LET id == Head(queue[w]).tuple
           t  == place[id]
       IN  /\ store' = Given(addRef(Win!insertTuple_w(store, w), t, 1), w, t)
           /\ queue' = Sent([queue EXCEPT ![w] = Tail(@)], w, Plus(id))
           /\ has' = [has EXCEPT ![w] = @ \cup {id}]
    /\ UNCHANGED <<kind, place, key, scanning, left>>

(* A window deletes its oldest tuple, whenever that is due. *)
Expire(w) ==
    /\ kind = "win" /\ w \in {1, 2} /\ Space(w) /\ ~Win!isEmpty_w(store, w)
    /\ LET t  == Win!getOldestTuple_w(store, w)
           id == IdOf(store, t)
       IN  /\ store' = Given(Win!deleteOldestTuple_w(store, w), w, t)
           /\ queue' = Sent(queue, w, Minus(id))
           /\ has' = [has EXCEPT ![w] = @ \ {id}]
    /\ UNCHANGED <<kind, place, key, scanning, left>>

(* A relation is kept with the reference of the PLUS; with the MINUS both  *)
(* references go.                                                          *)
ReadIntoRelation(r) ==
    /\ r \in Keepers /\ Reading(r)
    /\ LET e == Head(queue[r])
           t == place[e.tuple]
       IN  IF e.sign = "+"
           THEN /\ store' = insertTuple_r(store, t, r)
                /\ has' = [has EXCEPT ![r] = @ \cup {e.tuple}]
           ELSE /\ store' = decrRef(decrRef(deleteTuple_r(store, t, r), t), t)
                /\ has' = [has EXCEPT ![r] = @ \ {e.tuple}]
    /\ UNCHANGED <<kind, place, key, scanning, left>>

-----------------------------------------------------------------------------
(* Scans *)

StartScan(s) ==
    /\ Keepers # {} /\ kind # "lin" /\ s = Scanner /\ s \notin scanning
    /\ store' = getScan_r(store, s)
    /\ scanning' = scanning \cup {s}
    /\ left' = [left EXCEPT ![s] = has[s]]
    /\ UNCHANGED <<kind, place, key, queue, has>>

(* The next tuple; an operator on its own relation may delete it. *)
NextOfScan(s) ==
    /\ s \in scanning /\ HasNext(store, s)
    /\ LET id    == IdOf(store, NextTuple(store, s))
           after == getNext(store, s)
       IN  /\ left' = [left EXCEPT ![s] = @ \ {id}]
           /\ \/ store' = after /\ UNCHANGED has
              \/ /\ kind = "own"
                 /\ store' = Dropped(after, id)
                 /\ has' = [has EXCEPT ![1] = @ \ {id}]
    /\ UNCHANGED <<kind, place, key, queue, scanning>>

EndScan(s) ==
    /\ s \in scanning /\ ~HasNext(store, s)
    /\ scanning' = scanning \ {s}
    /\ left' = [left EXCEPT ![s] = {}]
    /\ UNCHANGED <<kind, store, place, key, queue, has>>

Next ==
    /\ Running(store)
    /\ \/ MakeStreamTuple \/ MakeRelationTuple \/ MakePartitionTuple \/ MakeOwnTuple
       \/ \E lineage \in Lineages : MakeLineageTuple(lineage) \/ DeleteLineageTuple(lineage)
       \/ \E id \in 1 .. Len(place) : DeleteRelationTuple(id) \/ DeleteOwnTuple(id)
       \/ \E s \in Stub :
            \/ ReadStreamTuple(s) \/ ReadIntoWindow(s) \/ Expire(s) \/ ReadIntoRelation(s)
            \/ StartScan(s) \/ NextOfScan(s) \/ EndScan(s)

Spec == Init /\ [][Next]_vars

-----------------------------------------------------------------------------
(***************************************************************************)
(* Properties                                                              *)
(***************************************************************************)

(* The tuples somebody may still look at. *)
InUse ==
    UNION {has[s] \cup {queue[s][i].tuple : i \in 1 .. Len(queue[s])} : s \in Stub}

PlacesInUse == {place[id] : id \in InUse}
EmptyPages  == {store.emptyPageList[i] : i \in 1 .. Len(store.emptyPageList)}
FreeCells   == Links!FreeCells(store)

(* A tuple that an operator may still look at is where it was made, and    *)
(* its place is not free: no count came to zero too early, and no list of  *)
(* free places ran into one of tuples.                                     *)
NothingLost ==
    /\ \A id \in InUse : IdOf(store, place[id]) = id /\ PageOf(place[id]) \notin EmptyPages
    /\ kind \in Listed => FreeCells \cap PlacesInUse = {}

(* What nobody may look at any more is used again: a page goes back when   *)
(* nothing on it is in use, or else its places are in the list of free     *)
(* ones.                                                                   *)
NothingLeaked ==
    Running(store) =>
        CASE kind \in {"simple", "win"} ->
               \A p \in Page \ EmptyPages :
                  \/ p = store.curPage
                  \/ \E t \in PlacesInUse : PageOf(t) = p
                  \/ kind = "win" /\ \E s \in Stub : PageOf(store.lastDelTuple[s]) = p
          [] kind \in Listed ->
               \A p \in Page \ EmptyPages : \A i \in Pos :
                  \/ <<p, i>> \in PlacesInUse \cup FreeCells
                  \/ kind = "pwin" /\ p = store.h_pages

(* The tuple a window calls its oldest is the one it has had longest, over *)
(* all pages, and a window is empty when it has none; so is that of each   *)
(* partition, and the size of the partition is that of what it holds.      *)
Oldest(S) == CHOOSE id \in S : \A other \in S : id <= other
InPartition(k) == {id \in has[1] : key[id] = k}
OldestFirst ==
    /\ kind = "win" => \A w \in {1, 2} :
         IF has[w] = {} THEN Win!isEmpty_w(store, w)
         ELSE IdOf(store, Win!getOldestTuple_w(store, w)) = Oldest(has[w])
    /\ kind = "pwin" => \A k \in Key : InPartition(k) # {} =>
         /\ IdOf(store, Pwin!getOldestTuple_p(store, k)) = Oldest(InPartition(k))
         /\ Pwin!getPartnSize_p(store, k) = Cardinality(InPartition(k))

(* The index finds, for each lineage, the tuple made of it if the operator *)
(* still has that and nothing else, over every doubling of the buckets and *)
(* with cells used again; and it counts the buckets that are not empty,    *)
(* which is what the doubling goes by.                                     *)
LineageFound ==
    kind = "lin" =>
        /\ \A lineage \in Lineages :
              LET found == Lin!Scan(store, lineage)
              IN  /\ {IdOf(store, found[i]) : i \in DOMAIN found} = MadeOf(lineage)
                  /\ Len(found) <= 1
        /\ store.linIndex.numNonEmptyBuckets = Lin!Index!NonEmpty(store.linIndex)

(* A scan returns what its stub had when it began, each tuple once, though *)
(* the operator stops in between and others make, delete and free tuples.  *)
ScanIsRight(s) ==
    IF HasNext(store, s) THEN IdOf(store, NextTuple(store, s)) \in left[s] ELSE left[s] = {}

ScansComplete == kind # "pwin" => \A s \in scanning : ScanIsRight(s)

(* rel_store.h, 29: "Scan the *entire* contents of stubId".  The same for  *)
(* the store of a partitioned window.                                      *)
PartitionScans == kind = "pwin" => \A s \in scanning : ScanIsRight(s)

-----------------------------------------------------------------------------
(***************************************************************************)
(* Bounds for the model checker: enough tuples that a page which was given *)
(* back is filled again, and that memory runs out under a stream.          *)
(***************************************************************************)
AllStores       == [simple |-> 7, win |-> 6, rel |-> 5, lin |-> 4, pwin |-> 5, own |-> 6]
PartitionedOnly == [pwin |-> 4]

(***************************************************************************)
(* Hash values that the index tells apart by the bits that one doubling or *)
(* another adds; three buckets in use bring about all three doublings: a   *)
(* root above a leaf, a wider root, a root above inner nodes.              *)
(***************************************************************************)
Hashes == <<0, 4, 12, 16>>
OneSixth == <<1, 6>>

=============================================================================
