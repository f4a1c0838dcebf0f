--------------------------- MODULE MemoryManager ---------------------------
(***************************************************************************)
(* The memory of the engine: memory_mgr.cc hands out pages, and the stores *)
(* lay their tuples out in them.  One thread runs all operators, so a call *)
(* of a store is a function from the memory before it to the memory after  *)
(* it; a handler makes several calls in one step.                          *)
(*                                                                         *)
(* A page is what any of the stores keeps in it: a count and a pointer for *)
(* the whole page, and a cell for each tuple, with its columns for the     *)
(* stores.  A tuple is the place of its cell, as it is in the code.        *)
(***************************************************************************)
EXTENDS Integers, Sequences, FiniteSets, TLC

CONSTANTS NumPages,        \* numPages
          TuplesPerPage,   \* numTuplesPerPage
          Stub             \* the synopses a store serves

(* With one tuple to a page the window store walks off its first page,     *)
(* which the dummy tuple fills.                                            *)
ASSUME NumPagesAssumption == NumPages \in Nat \ {0}
ASSUME TuplesPerPageAssumption == TuplesPerPage \in Nat /\ TuplesPerPage > 1

Page == 1 .. NumPages
Pos  == 0 .. TuplesPerPage - 1

NoTuple == <<0, 0>>   \* the null pointer
Nothing == 0          \* what a cell holds that was never written

(* USAGE: the stubs that have still to insert and those that have still to *)
(* delete the tuple; lin is the lineage, in a store that keeps it.         *)
BlankCell == [id |-> Nothing, ref |-> 0, next |-> NoTuple, prev |-> NoTuple, lin |-> Nothing,
              toInsert |-> {}, toDelete |-> {}]
BlankPage == [count |-> 0, next |-> 0, cell |-> [i \in Pos |-> BlankCell]]

(* All pages are empty; outOfMemory is the return code that ends the run   *)
(* of the engine.                                                          *)
InitialMemory ==
    [emptyPageList |-> [p \in Page |-> p],
     page          |-> [p \in Page |-> BlankPage],
     outOfMemory   |-> FALSE]

(* A store is the memory and fields of its own.                            *)
WithFields(m, r) == [f \in DOMAIN r \cup DOMAIN m |-> IF f \in DOMAIN r THEN r[f] ELSE m[f]]

NewPage(m) == Head(m.emptyPageList)

(* Handing out the first page without taking it off the list, and with it. *)
allocatePage_Kept(m) == IF m.emptyPageList = <<>> THEN [m EXCEPT !.outOfMemory = TRUE] ELSE m

allocatePage(m) ==
    IF m.emptyPageList = <<>> THEN [m EXCEPT !.outOfMemory = TRUE]
                              ELSE [m EXCEPT !.emptyPageList = Tail(@)]

(* The link of the list overwrites the beginning of the page; what is left *)
(* there means nothing to anybody.                                         *)
deallocatePage(m, p) == [m EXCEPT !.emptyPageList = <<p>> \o @, !.page[p] = BlankPage]

-----------------------------------------------------------------------------
(* getPage(), and the cells *)

PageOf(t)  == t[1]
CellOf(m, t) == m.page[t[1]].cell[t[2]]
IdOf(m, t) == CellOf(m, t).id

(* The memory with cell c at t. *)
WithCell(m, t, c) == [m EXCEPT !.page[t[1]].cell[t[2]] = c]

(* The place behind t in its page. *)
NextPlace(t) == <<t[1], t[2] + 1>>
FirstPlace(p) == <<p, 0>>
LastInPage(t) == t[2] = TuplesPerPage - 1

=============================================================================
