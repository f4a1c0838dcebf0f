----------------------------- MODULE HashIndex -----------------------------
(***************************************************************************)
(* The hash index (hash_index.cc): buckets of entries, below a tree whose  *)
(* inner nodes and leaves have Fan children each.  The low bits of a hash  *)
(* value choose the child of the leaf, the high ones that of the root.     *)
(* When too many buckets are not empty their number is doubled: one more   *)
(* bit of each hash value counts, and each bucket is split by it.          *)
(*                                                                         *)
(* Nodes are values: an inner node is a function to its children, a leaf   *)
(* one to its buckets.  An entry is the tuple it points to, and hash is    *)
(* what updateHashEval makes of the columns that each tuple has now.       *)
(***************************************************************************)
EXTENDS Integers, Sequences, SequencesExt, FiniteSets

CONSTANTS numBitsPerLayer,
          Threshold          \* a fraction, <<numerator, denominator>>

Fan   == 2 ^ numBitsPerLayer
Child == 0 .. Fan - 1
Blank == [c \in Child |-> <<>>]

initialize ==
    [root |-> Blank, numLayers |-> 1, numBits |-> numBitsPerLayer,
     ROOT_MASK |-> Fan - 1, numNonEmptyBuckets |-> 0]

numBuckets(ix) == 2 ^ ix.numBits

(* x & mask, for a mask of low bits *)
Masked(x, mask) == (x % (mask + 1))

pathToBucket(ix, hash) ==
    [l \in 1 .. ix.numLayers |->
        Masked(hash \div (Fan ^ (ix.numLayers - l)), IF l = 1 THEN ix.ROOT_MASK ELSE Fan - 1)]

(* The node where the first l steps of a path lead. *)
NodeAt(node, path, l) == FoldLeft(LAMBDA n, c : n[c], node, SubSeq(path, 1, l))

getBucket(ix, hash) == NodeAt(ix.root, pathToBucket(ix, hash), ix.numLayers)

(* The tree with another bucket at the end of a path. *)
AtPath(node, path, bucket) ==
    LET below[l \in 0 .. Len(path)] ==
            IF l = Len(path) THEN bucket
            ELSE [NodeAt(node, path, l) EXCEPT ![path[l + 1]] = below[l + 1]]
    IN  below[0]

WithBucket(ix, hash, bucket) ==
    [ix EXCEPT !.root = AtPath(@, pathToBucket(ix, hash), bucket)]

NonEmpty(ix) == Cardinality({h \in 0 .. numBuckets(ix) - 1 : getBucket(ix, h) # <<>>})

-----------------------------------------------------------------------------
(* Split by the bit below the new one.                                     *)
rehashBucket_BitBelow(bucket, newBit, moved, hash) ==
    SelectSeq(bucket, LAMBDA t : (((hash[t] \div (newBit \div 2)) % 2) = 1) = moved)

(* The entries that the new bit moves to a new bucket, and those that it   *)
(* leaves in the old one.                                                  *)
rehashBucket(bucket, newBit, moved, hash) ==
    SelectSeq(bucket, LAMBDA t : (((hash[t] \div newBit) % 2) = 1) = moved)

(* A node with height layers of nodes below it, rebuilt from its leaves.   *)
rehashBucketIndexNode(node, height, newBit, moved, hash) ==
    LET rebuilt[h \in 0 .. height] ==
            [path \in [1 .. height - h -> Child] |-> [c \in Child |->
                IF h > 0 THEN rebuilt[h - 1][Append(path, c)]
                ELSE rehashBucket(NodeAt(node, path, height)[c], newBit, moved, hash)]]
    IN  rebuilt[height][<<>>]

(* A full root gets a root above it and a sibling beside it; another one   *)
(* gets a sibling for each of its children.                                *)
doubleNumBuckets(ix, hash) ==
    LET numChildrenOfRoot == 2 ^ (ix.numBits % numBitsPerLayer)
        Half(node, height, moved) == rehashBucketIndexNode(node, height, 2 ^ ix.numBits, moved, hash)
        doubled ==
            IF numChildrenOfRoot = 1
            THEN [ix EXCEPT !.root = [Blank EXCEPT ![0] = Half(ix.root, ix.numLayers - 1, FALSE),
                                                   ![1] = Half(ix.root, ix.numLayers - 1, TRUE)],
                            !.ROOT_MASK = 1, !.numLayers = @ + 1, !.numBits = @ + 1]
            ELSE [ix EXCEPT !.root = [c \in Child |->
                               IF c < numChildrenOfRoot THEN Half(ix.root[c], ix.numLayers - 2, FALSE)
                               ELSE IF c < 2 * numChildrenOfRoot
                               THEN Half(ix.root[c - numChildrenOfRoot], ix.numLayers - 2, TRUE)
                               ELSE <<>>],
                            !.ROOT_MASK = 2 * @ + 1, !.numBits = @ + 1]
    IN  [doubled EXCEPT !.numNonEmptyBuckets = NonEmpty(doubled)]

insertTuple(ix, t, hash) ==
    LET bucket   == getBucket(ix, hash[t])
        inserted == [WithBucket(ix, hash[t], <<t>> \o bucket) EXCEPT
                        !.numNonEmptyBuckets = @ + IF bucket = <<>> THEN 1 ELSE 0]
    IN  IF inserted.numNonEmptyBuckets * Threshold[2] > Threshold[1] * numBuckets(inserted)
        THEN doubleNumBuckets(inserted, hash) ELSE inserted

(* The count of the buckets in use is left as it was, and corrected.       *)
deleteTuple_Uncounted(ix, t, hash) ==
    WithBucket(ix, hash[t], RemoveFirst(getBucket(ix, hash[t]), t))

(* A tuple that is not found is an error, and changes nothing. *)
deleteTuple(ix, t, hash) ==
    LET bucket == getBucket(ix, hash[t])
        rest   == RemoveFirst(bucket, t)
    IN  [WithBucket(ix, hash[t], rest) EXCEPT
            !.numNonEmptyBuckets = @ - IF bucket # <<>> /\ rest = <<>> THEN 1 ELSE 0]

(* The tuples that a scan for one key returns: alike are those with it. *)
getScan(ix, key, alike) == SelectSeq(getBucket(ix, key), LAMBDA t : t \in alike)

=============================================================================
