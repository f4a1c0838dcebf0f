------------------------------ MODULE LinStore ------------------------------
(***************************************************************************)
(* The store of an operator that has to find the tuple it once made of     *)
(* certain input tuples (lin_store_impl.cc, below lin_syn_impl.cc): the    *)
(* store of relations with a column for the lineage and an index on it.    *)
(* The operator's own synopsis is stub 1.                                  *)
(***************************************************************************)
EXTENDS RelStore

CONSTANTS Hash,             \* lineage -> its hash value
          numBitsPerLayer, Threshold

Index == INSTANCE HashIndex

initialize_l(m, stubs) == WithFields(initialize(m, stubs), [linIndex |-> Index!initialize])

(* The hash values of the lineages that the tuples have now. *)
HashOf(m) == [t \in Page \X Pos |-> IF CellOf(m, t).lin = Nothing THEN 0 ELSE Hash[CellOf(m, t).lin]]

insertTuple_l(m, t, lineage, s) ==
    LET marked == MARK_INSERT(m, t, s)
        stored == WithCell(marked, t, [CellOf(marked, t) EXCEPT !.lin = lineage])
    IN  [stored EXCEPT !.linIndex = Index!insertTuple(@, t, HashOf(stored))]

deleteTuple_l(m, t, s) ==
    LET marked  == MARK_DELETE(m, t, s)
        deleted == [marked EXCEPT !.linIndex = Index!deleteTuple(@, t, HashOf(m))]
    IN  IF UNUSED(CellOf(deleted, t)) THEN Unlink(deleted, t) ELSE deleted

Scan(m, lineage) ==
    Index!getScan(m.linIndex, Hash[lineage], {t \in Page \X Pos : CellOf(m, t).lin = lineage})

getTuple_l(m, lineage) ==
    IF Scan(m, lineage) = <<>> THEN NoTuple ELSE Head(Scan(m, lineage))

=============================================================================
