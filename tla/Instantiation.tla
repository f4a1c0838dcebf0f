--------------------------- MODULE Instantiation ---------------------------
(***************************************************************************)
(* How the plan manager lays the tuples of an operator out and gives the   *)
(* operator its instructions (metadata/inst_*.cc, tuple_layout.cc), and    *)
(* what the instructions do (execution/internals/aeval.h, beval.h,         *)
(* heval.h).                                                               *)
(*                                                                         *)
(* Instructions know tuples by roles, which operators bind to tuples, and  *)
(* attributes by columns: the place in the tuple counted in units of the   *)
(* attribute's type.  Each function works the columns out for itself, from *)
(* the attributes of an operator; the store that allocates the tuples      *)
(* appends attributes of its own, and operators with a private store a     *)
(* count.                                                                  *)
(*   instruction  [op, kind, a, b, d]: d becomes a op b                    *)
(*   test         [op, kind, a, b]                                         *)
(*   index        [update, scan, keyEqual]: what is hashed of a tuple that *)
(*                is kept, what of one that looks for it, and when the two *)
(*                belong together                                          *)
(* A column is [role, col]; of the role "const" it is the constant itself. *)
(* How many attributes, instructions and indexes there may be is left out. *)
(***************************************************************************)
EXTENDS PlanStores

PTR       == [kind |-> "PTR", len |-> 8]
TIMESTAMP == [kind |-> "TIMESTAMP", len |-> 4]

Unit(kind) == CASE kind = "CHAR" -> 1 [] kind = "PTR" -> 8 [] OTHER -> 4

NoAttrs == [cols |-> <<>>, numBytes |-> 0]

(* The size of what comes before is not rounded up to the type's unit. *)
addAttr_Packed(layout, type) ==
    LET unit == Unit(type.kind)
        col  == layout.numBytes \div unit
    IN  [cols |-> Append(layout.cols, col), numBytes |-> col * unit + type.len]

addAttr(layout, type) ==
    LET unit == Unit(type.kind)
        col  == (layout.numBytes + unit - 1) \div unit
    IN  [cols |-> Append(layout.cols, col), numBytes |-> col * unit + type.len]

getColumns(types) ==
    LET layout[n \in 0..Len(types)] == IF n = 0 THEN NoAttrs ELSE addAttr(layout[n - 1], types[n])
    IN  layout[Len(types)].cols

(***************************************************************************)
(* The attributes of the tuples of a store, its own last.  A LIN_STORE has *)
(* one for each input of its operator; for a union their number is never   *)
(* set, it is 0 here, which fresh memory holds.  A join has a simple store *)
(* where the plan has a WIN_STORE.                                         *)
(***************************************************************************)
Lineage(p, s) ==
    LET own == p.ops[p.stores[s].own]
    IN  IF own.kind = "union" THEN <<>> ELSE [i \in DOMAIN own.inputs |-> INT]

inst_rel_store       == <<INT, PTR, PTR, INT>>
inst_lin_store(p, s) == inst_rel_store \o Lineage(p, s)
inst_pwin_store      == <<INT, PTR, INT>>
inst_win_store       == <<TIMESTAMP>>

StoreAttrs(p, s) ==
    LET kind == p.stores[s].kind
        own  == p.ops[p.stores[s].own]
    IN  CASE kind = "REL_STORE"       -> inst_rel_store
          [] kind = "LIN_STORE"       -> inst_lin_store(p, s)
          [] kind = "PARTN_WIN_STORE" -> inst_pwin_store
          [] kind = "WIN_STORE" /\ own.kind \notin Joins -> inst_win_store
          [] OTHER                    -> <<>>

DataAttrs(p, s) ==
    LET own == p.ops[p.stores[s].own]
        counted == own.store # s
    IN  IF own.kind = "partn" THEN p.ops[own.inputs[1]].attrTypes
        ELSE own.attrTypes \o IF counted THEN <<INT>> ELSE <<>>

TupleAttrs(p, s) == DataAttrs(p, s) \o StoreAttrs(p, s)

(* the private store of an operator that counts *)
CountStore(p, o) == CHOOSE s \in DOMAIN p.stores : p.stores[s].own = o /\ s # p.ops[o].store

-----------------------------------------------------------------------------
Cell(role, col) == [role |-> role, col |-> col]
Const(n)        == Cell("const", n)

Instr(op, kind, a, b, d) == [op |-> op, kind |-> kind, a |-> a, b |-> b, d |-> d]
CPY(kind, a, d)          == Instr("CPY", kind, a, a, d)
Test(op, kind, a, b)     == [op |-> op, kind |-> kind, a |-> a, b |-> b]

Copies(types, from, fromCols, to, toCols) ==
    [c \in DOMAIN types |-> CPY(types[c].kind, Cell(from, fromCols[c]), Cell(to, toCols[c]))]

Equal(types, one, oneCols, other, otherCols) ==
    [c \in DOMAIN types |-> Test("EQ", types[c].kind, Cell(one, oneCols[c]), Cell(other, otherCols[c]))]

Cells(role, cols) == [c \in DOMAIN cols |-> Cell(role, cols[c])]

(* tuples with columns kept are looked for with columns cols of role *)
Index(types, kept, role, cols) ==
    [types |-> types, update |-> Cells("update", kept), scan |-> Cells(role, cols),
     keyEqual |-> Equal(types, "scan", kept, role, cols)]

NoIndex == Index(<<>>, <<>>, "none", <<>>)

(* the instructions for what looks are added to those for what is kept *)
ScanHashLost(idx) == [idx EXCEPT !.update = @ \o idx.scan, !.scan = <<>>]

ColsAt(cols, positions) == [i \in DOMAIN positions |-> cols[positions[i]]]
Pos(attrs) == [i \in DOMAIN attrs |-> attrs[i].pos]

InputTypes(p, o, i) == p.ops[p.ops[o].inputs[i]].attrTypes
InputCols(p, o, i)  == getColumns(InputTypes(p, o, i))

(* attribute a of o's inputs, of which input i has the role roles[i] *)
inst_expr(p, o, roles, a) == Cell(roles[a.input], InputCols(p, o, a.input)[a.pos])

(* An attribute is copied as what the expression is, not as what it is in   *)
(* the input; one that was never set is read from anywhere.                 *)
inst_expr_dest(p, o, roles, a, kind, col) ==
    CPY(kind, IF a = UNSET THEN Cell("anywhere", 0) ELSE inst_expr(p, o, roles, a), Cell("output", col))

inst_bexpr(p, o, roles, pred) ==
    [i \in DOMAIN pred |-> Test("EQ", InputTypes(p, o, pred[i][1].input)[pred[i][1].pos].kind,
                                inst_expr(p, o, roles, pred[i][1]), inst_expr(p, o, roles, pred[i][2]))]

-----------------------------------------------------------------------------
inst_select(p, o) == [pred |-> inst_bexpr(p, o, <<"input">>, p.ops[o].pred)]

Projected(p, o, roles) ==
    LET op == p.ops[o]
        cols == getColumns(op.attrTypes)
    IN  [c \in DOMAIN op.projs |-> inst_expr_dest(p, o, roles, op.projs[c], op.attrTypes[c].kind, cols[c])]

inst_project(p, o) == [out |-> Projected(p, o, <<"input">>)]

(***************************************************************************)
(* Joins: an index for the equalities of the two sides, a filter for the   *)
(* other comparisons.  The list is taken apart from its head.              *)
(***************************************************************************)
Across(pair) == pair[1].input # pair[2].input

splitPred(pred) ==
    LET LeftFirst(pair) == IF pair[1].input = 2 THEN <<pair[2], pair[1]>> ELSE pair
        eq == Reverse(SelectSeq(pred, Across))
    IN  [eq |-> [i \in DOMAIN eq |-> LeftFirst(eq[i])],
         ne |-> Reverse(SelectSeq(pred, LAMBDA pair : ~Across(pair)))]

(* The kept side's attributes in their order; of several equalities for one *)
(* of them the last of the list.                                            *)
JoinIndex(p, o, eq, kept, other, role) ==
    LET at == SetToSortSeq({eq[i][kept].pos : i \in DOMAIN eq}, <)
        joinPos == [i \in DOMAIN at |->
                       eq[SelectLastInSeq(eq, LAMBDA pair : pair[kept].pos = at[i])][other].pos]
    IN  Index(ColsAt(InputTypes(p, o, kept), at), ColsAt(InputCols(p, o, kept), at),
              role, ColsAt(InputCols(p, o, other), joinPos))

initOuterIndex(p, o, eq) == JoinIndex(p, o, eq, 1, 2, "inner")
initInnerIndex(p, o, eq) == JoinIndex(p, o, eq, 2, 1, "outer")

(* The columns of the right side are placed after as many as the left side *)
(* has now, not after as many as the join knows of.                        *)
getSimpleOutEval(p, o) ==
    LET op == p.ops[o]
        outer == op.numOuterAttrs
        numLeftCols == Len(InputTypes(p, o, 1))
        cols == getColumns(op.attrTypes)
        left  == SubSeq(op.attrTypes, 1, outer)
        right == SubSeq(op.attrTypes, numLeftCols + 1, numLeftCols + Len(op.attrTypes) - outer)
    IN  Copies(left, "outer", InputCols(p, o, 1), "output", cols) \o
        Copies(right, "inner", InputCols(p, o, 2), "output", SubSeq(cols, numLeftCols + 1, Len(cols)))

JoinOut(p, o) ==
    IF p.ops[o].kind \in {"join_project", "str_join_project"} THEN Projected(p, o, <<"outer", "inner">>)
    ELSE getSimpleOutEval(p, o)

inst_join(p, o) ==
    LET pred == splitPred(p.ops[o].pred)
    IN  [out |-> JoinOut(p, o),
         outIdx |-> initOuterIndex(p, o, pred.eq),
         inIdx  |-> initInnerIndex(p, o, pred.eq),
         neEval_out |-> inst_bexpr(p, o, <<"fi_scan", "inner">>, pred.ne),
         neEval_in  |-> inst_bexpr(p, o, <<"outer", "fi_scan">>, pred.ne)]

inst_str_join(p, o) ==
    LET pred == splitPred(p.ops[o].pred)
    IN  [out |-> JoinOut(p, o),
         inIdx |-> initInnerIndex(p, o, pred.eq),
         neEval_in |-> inst_bexpr(p, o, <<"outer", "fi_scan">>, pred.ne)]

-----------------------------------------------------------------------------
(***************************************************************************)
(* Grouping.  An average is worked out last, from a SUM of the attribute   *)
(* and a COUNT among the aggregates, which addIntAggrs has seen to.        *)
(***************************************************************************)
AggrOp == [SUM |-> "ADD", MAX |-> "UMX", MIN |-> "UMN"]
NotAVG == {"COUNT", "SUM", "MAX", "MIN"}

inputSynReq(p, o) == ~InputIsStream(p, o) /\ existsAggr(p, o, LAMBDA a : a.fn \in {"MAX", "MIN"})

getCountPos(aggrs) == SelectInSeq(aggrs, LAMBDA b : b.fn = "COUNT")
getSumPos(aggrs)   == [a \in DOMAIN aggrs |->
                         SelectInSeq(aggrs, LAMBDA b : b.fn = "SUM" /\ b.attr = aggrs[a].attr)]

(* The grouping attributes and the aggregates, and where they are.         *)
initGroupAggrInfo(p, o) ==
    LET op == p.ops[o]
        aggrs == op.aggrs
        G == Len(op.groupAttrs)
        input(a) == aggrs[a].attr.pos
        outCols  == getColumns(op.attrTypes)
        Out(role) == [a \in DOMAIN aggrs |-> Cell(role, outCols[G + a])]
    IN  [types |-> SubSeq(op.attrTypes, 1, G), cols |-> SubSeq(outCols, 1, G),
         inCols  |-> ColsAt(InputCols(p, o, 1), Pos(op.groupAttrs)),
         fn      |-> [a \in DOMAIN aggrs |-> aggrs[a].fn],
         kind    |-> [a \in DOMAIN aggrs |-> InputTypes(p, o, 1)[input(a)].kind],
         outKind |-> [a \in DOMAIN aggrs |-> op.attrTypes[G + a].kind],
         in  |-> [a \in DOMAIN aggrs |-> Cell("input", InputCols(p, o, 1)[input(a)])],
         old |-> Out("old"), new |-> Out("new"),
         count |-> getCountPos(aggrs), sum |-> getSumPos(aggrs)]

ForAggrs(g, fns, Step(_)) ==
    LET as == SelectSeq([a \in DOMAIN g.fn |-> a], LAMBDA a : g.fn[a] \in fns)
    IN  [i \in DOMAIN as |-> Step(as[i])]

Group(g) == Copies(g.types, "input", g.inCols, "new", g.cols)
Averages(g) == ForAggrs(g, {"AVG"}, LAMBDA a : Instr("AVG", g.kind[a], g.new[g.sum[a]], g.new[g.count], g.new[a]))

(* the new tuple of a group, from the old one and a row that comes *)
getPlusEval(g) ==
    LET Plus(a) == IF g.fn[a] = "COUNT" THEN Instr("ADD", "INT", g.old[a], Const(1), g.new[a])
                   ELSE Instr(AggrOp[g.fn[a]], g.kind[a], g.old[a], g.in[a], g.new[a])
    IN  Group(g) \o ForAggrs(g, NotAVG, Plus) \o Averages(g)

(* the same in place, as the rows of a group are read again *)
getUpdateEval(g) ==
    LET Update(a) == IF g.fn[a] = "COUNT" THEN Instr("ADD", "INT", g.new[a], Const(1), g.new[a])
                     ELSE Instr(AggrOp[g.fn[a]], g.kind[a], g.in[a], g.new[a], g.new[a])
    IN  ForAggrs(g, NotAVG, Update) \o Averages(g)

(* of the first row of a group *)
getAggrInitEval(g) ==
    LET InitOf(a) == CASE g.fn[a] = "COUNT" -> CPY("INT", Const(1), g.new[a])
                       [] g.fn[a] = "AVG"   -> Instr("AVG", g.kind[a], g.in[a], Const(1), g.new[a])
                       [] OTHER             -> CPY(g.kind[a], g.in[a], g.new[a])
    IN  Group(g) \o ForAggrs(g, NotAVG \cup {"AVG"}, InitOf)

(* from the old one and a row that goes, if it was no MAX or MIN *)
getMinusEval(g) ==
    LET Minus(a) == CASE g.fn[a] = "COUNT" -> Instr("SUB", "INT", g.old[a], Const(1), g.new[a])
                      [] g.fn[a] = "SUM"   -> Instr("SUB", g.kind[a], g.old[a], g.in[a], g.new[a])
                      [] OTHER             -> CPY(g.outKind[a], g.old[a], g.new[a])
    IN  Group(g) \o ForAggrs(g, NotAVG, Minus) \o Averages(g)

getScanNotReqEval(g) == ForAggrs(g, {"MAX", "MIN"}, LAMBDA a : Test("NE", g.kind[a], g.old[a], g.in[a]))

getEmptyGroupEval(g) ==
    IF g.count = 0 THEN <<>> ELSE <<Test("EQ", "INT", g.old[g.count], Const(1))>>

initOutIndex(g) == Index(g.types, g.cols, "input", g.inCols)
initInIndex(g)  == ScanHashLost(Index(g.types, g.inCols, "input", g.inCols))

inst_aggr(p, o, g) ==
    [plus |-> getPlusEval(g), update |-> getUpdateEval(g), init |-> getAggrInitEval(g),
     minus |-> getMinusEval(g), scanNotReq |-> getScanNotReqEval(g), emptyGroup |-> getEmptyGroupEval(g),
     outIdx |-> initOutIndex(g), inIdx |-> IF inputSynReq(p, o) THEN initInIndex(g) ELSE NoIndex]

-----------------------------------------------------------------------------
(***************************************************************************)
(* Operators that count their tuples.                                      *)
(***************************************************************************)

DistinctIndex(p, o) ==
    LET n == Len(p.ops[o].attrTypes) - IF InputIsStream(p, o) THEN 0 ELSE 1
        cols == SubSeq(getColumns(p.ops[o].attrTypes), 1, n)
    IN  Index(SubSeq(p.ops[o].attrTypes, 1, n), cols, "input", cols)

inst_distinct(p, o) ==
    LET types == p.ops[o].attrTypes
        cols  == getColumns(types)
        count == Cell("syn", Last(cols))
        Data(n) == Copies(SubSeq(types, 1, n), "input", cols, "syn", cols)
    IN  [index |-> DistinctIndex(p, o)] @@
        IF InputIsStream(p, o) THEN [init |-> Data(Len(types))]
        ELSE [init  |-> Append(Data(Len(types) - 1), CPY("INT", Const(1), count)),
              plus  |-> <<Instr("ADD", "INT", count, Const(1), count)>>,
              minus |-> <<Instr("SUB", "INT", count, Const(1), count)>>,
              empty |-> <<Test("EQ", "INT", count, Const(1))>>]

initCountIndex(p, o) ==
    LET cols == getColumns(p.ops[o].attrTypes)
    IN  Index(p.ops[o].attrTypes, cols, "input", cols)

(* what Istream and Dstream count, and which counts are due *)
CountingEvals(p, o, op) ==
    LET types == p.ops[o].attrTypes
        cols  == getColumns(types)
        count == Cell("syn", Last(getColumns(Append(types, INT))))
    IN  [init |-> Append(Copies(types, "input", cols, "syn", cols), CPY("INT", Const(0), count)),
         incr |-> <<Instr("ADD", "INT", count, Const(1), count)>>,
         decr |-> <<Instr("SUB", "INT", count, Const(1), count)>>,
         due  |-> <<Test(op, "INT", count, Const(0))>>,
         zero |-> <<Test("EQ", "INT", count, Const(0))>>,
         out  |-> Copies(types, "syn", cols, "output", cols)]

inst_istream(p, o) == CountingEvals(p, o, "GT") @@ [index |-> initCountIndex(p, o)]
inst_dstream(p, o) == CountingEvals(p, o, "LT") @@ [index |-> initCountIndex(p, o)]

(***************************************************************************)
(* Difference: a column that is not the same on both sides, which comes of *)
(* CHARs of other lengths before it, goes through a scratch tuple.  The    *)
(* number of those that are the same is counted in a global that starts at *)
(* 0: the difference here is the first one of the process.                 *)
(***************************************************************************)
numIdenticalCols(p, o) ==
    LET out == getColumns(p.ops[o].attrTypes)
        Differ(c) == out[c] # InputCols(p, o, 1)[c] \/ out[c] # InputCols(p, o, 2)[c]
        first == SelectInSeq([c \in DOMAIN out |-> c], Differ)
    IN  IF first = 0 THEN Len(out) ELSE first - 1

(* the other columns, the scratch tuple's, and what is copied between them *)
computeDataLayout(types, n) ==
    LET other == SubSeq(types, n + 1, Len(types))
    IN  [types |-> types, n |-> n, cols |-> getColumns(types), other |-> other,
         scratch |-> getColumns(other)]

OtherCols(l, cols) == SubSeq(cols, l.n + 1, Len(cols))

getcplsEval(p, o, l) == Copies(l.other, "input", OtherCols(l, InputCols(p, o, 1)), "scratch", l.scratch)
getcprsEval(p, o, l) == Copies(l.other, "right", OtherCols(l, InputCols(p, o, 2)), "scratch", l.scratch)

getExceptInitEval(l) ==
    Copies(SubSeq(l.types, 1, l.n), "input", l.cols, "count", l.cols) \o
    Copies(l.other, "scratch", l.scratch, "count", OtherCols(l, l.cols))

initCountIdx(l) ==
    LET scan == Cells("input", SubSeq(l.cols, 1, l.n)) \o Cells("scratch", l.scratch)
    IN  [types |-> l.types, update |-> Cells("update", l.cols), scan |-> scan,
         keyEqual |-> [c \in DOMAIN l.types |->
             Test("EQ", l.types[c].kind, scan[c], Cell("scan", l.cols[c]))]]

initOutIdx(l) == Index(l.types, l.cols, "count", l.cols)

inst_except(p, o, l) ==
    [cpls |-> getcplsEval(p, o, l), cprs |-> getcprsEval(p, o, l), init |-> getExceptInitEval(l),
     out  |-> Copies(l.types, "count", l.cols, "output", l.cols),
     countIdx |-> initCountIdx(l), outIdx |-> initOutIdx(l)]

-----------------------------------------------------------------------------
inst_rstream(p, o) ==
    LET types == p.ops[o].attrTypes
    IN  [copy |-> Copies(types, "input", getColumns(types), "output", getColumns(types))]

inst_union(p, o) ==
    LET types == p.ops[o].attrTypes
        From(role, i) == Copies(types, role, InputCols(p, o, i), "output", getColumns(types))
    IN  [leftOut |-> From("left", 1), rightOut |-> From("right", 2)]

(* A partition has a header, found by the attributes of the partition. *)
HeaderAttrs(p, o) == TypesAt(p.ops[o].partnAttrs, InputTypes(p, o, 1)) \o <<PTR, PTR, INT>>

inst_pwin(p, o) ==
    LET op == p.ops[o]
        types == TypesAt(op.partnAttrs, InputTypes(p, o, 1))
        cols  == getColumns(op.attrTypes)
        hdrCols == SubSeq(getColumns(HeaderAttrs(p, o)), 1, Len(types))
        dataCols == ColsAt(InputCols(p, o, 1), Pos(op.partnAttrs))
    IN  [copy   |-> Copies(op.attrTypes, "input", cols, "copy", cols),
         header |-> Copies(types, "data", dataCols, "header", hdrCols),
         hdrIdx |-> Index(types, hdrCols, "data", dataCols)]

(* what a source writes, and what an output reads *)
inst_columns(p, o) == [cols |-> getColumns(p.ops[o].attrTypes)]

RelSourceIndex(types, cols) == [Index(types, cols, "input", cols) EXCEPT !.scan = Cells("update", cols)]

inst_rel_source(p, o) ==
    LET cols == getColumns(p.ops[o].attrTypes)
    IN  [cols |-> cols, index |-> RelSourceIndex(p.ops[o].attrTypes, cols)]

inst_op(p, o) ==
    LET kind == p.ops[o].kind
    IN  CASE kind = "select"                 -> inst_select(p, o)
          [] kind = "project"                -> inst_project(p, o)
          [] kind \in Joins                  -> inst_join(p, o)
          [] kind \in StrJoins               -> inst_str_join(p, o)
          [] kind = "group"                  -> inst_aggr(p, o, initGroupAggrInfo(p, o))
          [] kind = "distinct"               -> inst_distinct(p, o)
          [] kind = "partn"                  -> inst_pwin(p, o)
          [] kind = "istream"                -> inst_istream(p, o)
          [] kind = "dstream"                -> inst_dstream(p, o)
          [] kind = "rstream"                -> inst_rstream(p, o)
          [] kind = "union"                  -> inst_union(p, o)
          [] kind = "except"                 -> inst_except(p, o, computeDataLayout(p.ops[o].attrTypes, numIdenticalCols(p, o)))
          [] kind = "reln_source"            -> inst_rel_source(p, o)
          [] kind \in {"stream_source", "output"} -> inst_columns(p, o)
          [] OTHER                           -> <<>>

-----------------------------------------------------------------------------
(***************************************************************************)
(* What instructions do.  Memory is what has been written into the tuples  *)
(* that the roles are bound to, each value where and as what it was        *)
(* written; writing over a part of a value destroys it.  A float holds     *)
(* hundredths where it is an average.  A name is copied with its length.   *)
(***************************************************************************)
DESTROYED == -99999
Held(mem, cell, kind) == {e \in mem : e.role = cell.role /\ e.at = cell.col * Unit(kind) /\ e.kind = kind}

Peek(mem, cell, kind) ==
    IF cell.role = "const" THEN cell.col
    ELSE LET held == Held(mem, cell, kind)
         IN  IF held = {} THEN DESTROYED ELSE (CHOOSE e \in held : TRUE).val

Poke(mem, cell, kind, len, val) ==
    LET at == cell.col * Unit(kind)
        Spared(e) == e.role # cell.role \/ e.at + e.len <= at \/ at + len <= e.at
    IN  {e \in mem : Spared(e)} \cup {[role |-> cell.role, at |-> at, kind |-> kind, len |-> len, val |-> val]}

Length(mem, instr) ==
    LET held == Held(mem, instr.a, "CHAR")
    IN  IF instr.kind # "CHAR" THEN 4 ELSE IF held = {} THEN 0 ELSE (CHOOSE e \in held : TRUE).len

Larger(x, y)  == IF x < y THEN y ELSE x
Smaller(x, y) == IF x > y THEN y ELSE x

(* The smaller of two floats is the larger. *)
Result(op, kind, x, y) ==
    CASE op = "CPY" -> x
      [] op = "ADD" -> x + y
      [] op = "SUB" -> x - y
      [] op = "UMX" -> Larger(x, y)
      [] op = "UMN" -> IF kind = "FLOAT" THEN Larger(x, y) ELSE Smaller(x, y)
      [] op = "AVG" -> (100 * x) \div y

exec(mem, i) ==
    LET average == i.op = "AVG"
    IN  Poke(mem, i.d, IF average THEN "FLOAT" ELSE i.kind, Length(mem, i),
             Result(i.op, i.kind, Peek(mem, i.a, i.kind), Peek(mem, i.b, IF average THEN "INT" ELSE i.kind)))

eval(mem, code) ==
    LET after[n \in 0..Len(code)] == IF n = 0 THEN mem ELSE exec(after[n - 1], code[n])
    IN  after[Len(code)]

Holds(op, x, y) ==
    CASE op = "EQ" -> x = y [] op = "NE" -> x # y [] op = "GT" -> x > y [] op = "LT" -> x < y

holds(mem, tests) ==
    \A i \in DOMAIN tests :
        LET t == tests[i]
        IN  Holds(t.op, Peek(mem, t.a, t.kind), Peek(mem, t.b, t.kind))

-----------------------------------------------------------------------------
(***************************************************************************)
(* What an operator's instructions should do, whatever the columns are.    *)
(*                                                                         *)
(* A role is bound to a tuple that the store which allocates it has laid   *)
(* out: its attributes are written one after the other, so that those that *)
(* overlap destroy each other.  Attribute c of input i holds 1000 i + c; a *)
(* tuple yet to be made holds -c, and must still do so behind what is put  *)
(* there.                                                                  *)
(***************************************************************************)
Filled(vals, types) == [c \in DOMAIN types |-> IF c \in DOMAIN vals THEN vals[c] ELSE -c]

Bind(role, types, vals) == [role |-> role, types |-> types, vals |-> Filled(vals, types)]
Fresh(role, types)      == Bind(role, types, <<>>)

Attribute(i, c) == 1000 * i + c
Attributes(i, n) == [c \in 1..n |-> Attribute(i, c)]
Value(a)   == Attribute(a.input, a.pos)
Values(as) == [i \in DOMAIN as |-> Value(as[i])]

(* a tuple with the attributes of input i *)
Of(i, role, types) == Bind(role, types, Attributes(i, Len(types)))

Tuple(role, types, vals, cols) ==
    LET written[n \in 0..Len(types)] ==
            IF n = 0 THEN {}
            ELSE Poke(written[n - 1], Cell(role, cols[n]), types[n].kind, types[n].len, vals[n])
    IN  written[Len(types)]

Memory(binds) ==
    UNION {Tuple(b.role, b.types, b.vals, getColumns(b.types)) : b \in ToSet(binds)}

Contents(mem, role, types, cols) == [c \in DOMAIN types |-> Peek(mem, Cell(role, cols[c]), types[c].kind)]

(* what is compared with what *)
Compared(mem, tests) ==
    {{Peek(mem, tests[i].a, tests[i].kind), Peek(mem, tests[i].b, tests[i].kind)} : i \in DOMAIN tests}

(***************************************************************************)
(* Three things that instructions are for.                                 *)
(*   puts   the tuple of role ends with vals, and is else as it was, after *)
(*          steps that each bind roles and run code; if the tests in when  *)
(*          hold at first.  A value nobody asked for may be anything.      *)
(*   matches an index hashes and compares the same attributes of a tuple it *)
(*          keeps and of one that looks for it, and these and those that   *)
(*          the filter compares are pairs                                  *)
(*   tells  tests hold or not, as truth says                               *)
(***************************************************************************)
Puts(binds, code, role, types, vals) ==
    [steps |-> <<[binds |-> binds, code |-> code]>>, when |-> <<>>, role |-> role, types |-> types, vals |-> vals]
Matches(binds, idx, filter, pairs) == [binds |-> binds, idx |-> idx, filter |-> filter, pairs |-> pairs]
Tells(binds, tests, truth)       == [binds |-> binds, tests |-> tests, truth |-> truth]

Rebound(mem, binds) == {e \in mem : \A i \in DOMAIN binds : binds[i].role # e.role} \cup Memory(binds)

AfterSteps(steps) ==
    LET after[n \in 0..Len(steps)] ==
            IF n = 0 THEN {} ELSE eval(Rebound(after[n - 1], steps[n].binds), steps[n].code)
    IN  after[Len(steps)]

NOT_ASKED == -88888

PutsRight(c) ==
    holds(Memory(c.steps[1].binds), c.when) =>
        LET got  == Contents(AfterSteps(c.steps), c.role, c.types, getColumns(c.types))
            want == Filled(c.vals, c.types)
        IN  \A i \in DOMAIN want : want[i] \in {got[i], NOT_ASKED}

Hashed(mem, idx) ==
    [i \in DOMAIN idx.types |-> {Peek(mem, idx.update[i], idx.types[i].kind), Peek(mem, idx.scan[i], idx.types[i].kind)}]

IndexRight(mem, idx, filter, pairs) ==
    /\ Len(idx.update) = Len(idx.types) /\ Len(idx.scan) = Len(idx.types)
    /\ ToSet(Hashed(mem, idx)) = Compared(mem, idx.keyEqual)
    /\ Compared(mem, idx.keyEqual) \cup Compared(mem, filter) = pairs

MatchesRight(c) == IndexRight(Memory(c.binds), c.idx, c.filter, c.pairs)
TellsRight(c) == holds(Memory(c.binds), c.tests) <=> c.truth

Claims(puts, matches, tells) == [puts |-> puts, matches |-> matches, tells |-> tells]
Same(i, j, n) == {{Attribute(i, c), Attribute(j, c)} : c \in 1..n}

-----------------------------------------------------------------------------
(***************************************************************************)
(* What operator op is to do with inst: in are the types of the tuples of  *)
(* its inputs, out of those of its store, count of those it counts.        *)
(***************************************************************************)
AskedOf(pred) == {{Value(pred[i][1]), Value(pred[i][2])} : i \in DOMAIN pred}

SelectClaims(op, in, inst) ==
    Claims(<<>>, <<Matches(<<Of(1, "input", in[1])>>, NoIndex, inst.pred, AskedOf(op.pred))>>, <<>>)

(* The last attribute, the level, is anything if it was never set or if its *)
(* column is no INT.                                                        *)
LevelRead(op, in) ==
    LET a == Last(op.projs)
    IN  a # UNSET /\ in[a.input][a.pos].kind = Last(op.attrTypes).kind

ValuesProjected(op, in) ==
    Append(Values(Front(op.projs)), IF LevelRead(op, in) THEN Value(Last(op.projs)) ELSE NOT_ASKED)

ProjectClaims(op, in, out, inst) ==
    Claims(<<Puts(<<Of(1, "input", in[1]), Fresh("output", out)>>, inst.out, "output", out,
                  ValuesProjected(op, in))>>,
           <<>>, <<>>)

(* Every comparison of the WHERE is made, by the index or by the filter, of *)
(* the attributes it names, whichever side the new tuple comes from.        *)
JoinClaims(op, in, out, inst) ==
    LET both == <<Of(1, "outer", in[1]), Of(2, "inner", in[2])>>
        vals == IF op.kind \in {"join_project", "str_join_project"} THEN ValuesProjected(op, in)
                ELSE Attributes(1, op.numOuterAttrs) \o Attributes(2, Len(op.attrTypes) - op.numOuterAttrs)
        Kept(i, idx, filter) ==
            Matches(both \o <<Of(i, "update", in[i]), Of(i, "scan", in[i]), Of(i, "fi_scan", in[i])>>,
                  idx, filter, AskedOf(op.pred))
    IN  Claims(<<Puts(Append(both, Fresh("output", out)), inst.out, "output", out, vals)>>,
               <<Kept(2, inst.inIdx, inst.neEval_in)>> \o
                   IF op.kind \in Joins THEN <<Kept(1, inst.outIdx, inst.neEval_out)>> ELSE <<>>,
               <<>>)

(* A group of rows, and what the query asks of it. *)
AggregateOf(fn, vals) ==
    CASE fn = "COUNT" -> Len(vals)
      [] fn = "SUM"   -> FoldLeft(+, 0, vals)
      [] fn = "AVG"   -> (100 * FoldLeft(+, 0, vals)) \div Len(vals)
      [] fn = "MAX"   -> Max(ToSet(vals))
      [] fn = "MIN"   -> Min(ToSet(vals))

(***************************************************************************)
(* A group of three rows, made and added to, and taken from, by working    *)
(* out what is left if that will do and by reading the rows again: what    *)
(* the instructions leave is what the query asks of the rows that are      *)
(* there.  The last row goes only when the group is seen to be empty then. *)
(***************************************************************************)
RowValue(op, r, c) ==
    IF c \in ToSet(Pos(op.groupAttrs)) THEN Attribute(1, c) ELSE <<20, 50, 30>>[r] + c

ResultOf(op, rows) ==
    Values(op.groupAttrs) \o
    [a \in DOMAIN op.aggrs |->
        AggregateOf(op.aggrs[a].fn, [i \in DOMAIN rows |-> RowValue(op, rows[i], op.aggrs[a].attr.pos)])]

GroupClaims(op, minus, in, out, inst) ==
    LET Row(r)    == Bind("input", in[1], [c \in DOMAIN in[1] |-> RowValue(op, r, c)])
        Old(rows) == Bind("old", out, ResultOf(op, rows))
        new       == Fresh("new", out)
        all       == <<1, 2, 3>>
        Without(r) == RemoveAt(all, r)
        Read(rows) == <<[binds |-> <<Row(rows[1]), new>>, code |-> inst.init]>> \o
                      [i \in DOMAIN Tail(rows) |-> [binds |-> <<Row(Tail(rows)[i])>>, code |-> inst.update]]
        Leaves(steps, when, rows) ==
            [steps |-> steps, when |-> when, role |-> "new", types |-> out, vals |-> ResultOf(op, rows)]
        Once(binds, code) == <<[binds |-> binds, code |-> code]>>
    IN  Claims([r \in 1..3 |-> Leaves(Read(SubSeq(all, 1, r)), <<>>, SubSeq(all, 1, r))] \o
               [r \in 1..2 |-> Leaves(Once(<<Row(r + 1), Old(<<1>>), new>>, inst.plus), <<>>, <<1, r + 1>>)] \o
               IF minus
               THEN [r \in 1..3 |-> Leaves(Once(<<Row(r), Old(all), new>>, inst.minus), inst.scanNotReq, Without(r))]
                    \o [r \in 1..3 |-> Leaves(Read(Without(r)), <<>>, Without(r))]
               ELSE <<>>,
               <<Matches(<<Of(1, "input", in[1]), Bind("update", out, Values(op.groupAttrs)),
                         Bind("scan", out, Values(op.groupAttrs))>>,
                       inst.outIdx, <<>>, {{Value(op.groupAttrs[i])} : i \in DOMAIN op.groupAttrs})>>,
               IF minus THEN [r \in 1..2 |-> Tells(<<Old(SubSeq(all, 1, r))>>, inst.emptyGroup, r = 1)]
               ELSE <<>>)

(* of the tuples that are kept once, as many as there are are counted *)
DistinctClaims(op, minus, in, out, inst) ==
    LET n == Len(op.attrTypes) - IF minus THEN 1 ELSE 0
        Counted(k) == Attributes(1, n) \o IF minus THEN <<k>> ELSE <<>>
        Kept(k) == <<Bind("syn", out, Counted(k))>>
        input == Of(1, "input", in[1])
    IN  Claims(<<Puts(<<input, Fresh("syn", out)>>, inst.init, "syn", out, Counted(1))>> \o
                   IF minus THEN <<Puts(Kept(1), inst.plus, "syn", out, Counted(2)),
                                   Puts(Kept(2), inst.minus, "syn", out, Counted(1))>> ELSE <<>>,
               <<Matches(<<input, Of(3, "update", out), Of(3, "scan", out)>>, inst.index, <<>>, Same(1, 3, n))>>,
               IF minus THEN [k \in 1..2 |-> Tells(Kept(k), inst.empty, k = 1)] ELSE <<>>)

(* what an Istream or Dstream counts at an instant, and what it puts out *)
XstreamClaims(op, in, out, count, inst) ==
    LET n == Len(op.attrTypes)
        Counted(k) == Append(Attributes(1, n), k)
        Kept(k) == <<Bind("syn", count, Counted(k))>>
        input == Of(1, "input", in[1])
        ks == <<-1, 0, 1>>
        Due(k) == IF op.kind = "istream" THEN k > 0 ELSE k < 0
    IN  Claims(<<Puts(<<input, Fresh("syn", count)>>, inst.init, "syn", count, Counted(0)),
                 Puts(Append(Kept(0), Fresh("output", out)), inst.out, "output", out, Attributes(1, n))>> \o
                   [i \in 1..3 |-> Puts(Kept(ks[i]), inst.incr, "syn", count, Counted(ks[i] + 1))] \o
                   [i \in 1..3 |-> Puts(Kept(ks[i]), inst.decr, "syn", count, Counted(ks[i] - 1))],
               <<Matches(<<input, Of(3, "update", count), Of(3, "scan", count)>>, inst.index, <<>>, Same(1, 3, n))>>,
               [i \in 1..3 |-> Tells(Kept(ks[i]), inst.due, Due(ks[i]))] \o
                   [i \in 1..3 |-> Tells(Kept(ks[i]), inst.zero, ks[i] = 0)])

(***************************************************************************)
(* A tuple of either side finds the same count, and makes the same one:    *)
(* what they share is read from the tuple, the rest from the scratch tuple *)
(* that it was copied to.                                                  *)
(***************************************************************************)
ExceptClaims(op, in, out, count, inst) ==
    LET n == Len(op.attrTypes)
        l == computeDataLayout(op.attrTypes, n - Len(inst.cpls))
        Sides(i) == <<Of(i, "input", in[i])>> \o IF i = 2 THEN <<Of(2, "right", in[2])>> ELSE <<>>
        Copied(i) == IF i = 1 THEN inst.cpls ELSE inst.cprs
        Scratch(i) == Bind("scratch", l.other, SubSeq(Attributes(i, n), l.n + 1, n))
    IN  Claims([i \in 1..2 |-> Puts(Append(Sides(i), Fresh("scratch", l.other)), Copied(i), "scratch", l.other,
                                    Scratch(i).vals)] \o
               [i \in 1..2 |-> Puts(Sides(i) \o <<Scratch(i), Fresh("count", count)>>, inst.init, "count", count,
                                    Attributes(i, n))] \o
               <<Puts(<<Of(3, "count", count), Fresh("output", out)>>, inst.out, "output", out, Attributes(3, n))>>,
               [i \in 1..2 |-> Matches(Sides(i) \o <<Scratch(i), Of(3, "update", count), Of(3, "scan", count)>>,
                                     inst.countIdx, <<>>, Same(i, 3, n))] \o
               <<Matches(<<Of(3, "count", count), Of(4, "update", out), Of(4, "scan", out)>>,
                       inst.outIdx, <<>>, Same(3, 4, n))>>,
               <<>>)

UnionClaims(op, in, out, inst) ==
    LET From(i, role, code) == Puts(<<Of(i, role, in[i]), Fresh("output", out)>>, code, "output", out,
                                    Attributes(i, Len(op.attrTypes)))
    IN  Claims(<<From(1, "left", inst.leftOut), From(2, "right", inst.rightOut)>>, <<>>, <<>>)

(* a row is copied to another place, or one place to the next *)
CopyClaims(op, in, out, role, inst) ==
    Claims(<<Puts(<<Of(1, "input", in[1]), Fresh(role, out)>>, inst.copy, role, out,
                  Attributes(1, Len(op.attrTypes)))>>, <<>>, <<>>)

PartnClaims(op, in, out, hdr, inst) ==
    LET vals == Values(op.partnAttrs)
        stored == Of(1, "data", out)
        copied == CopyClaims(op, in, out, "copy", inst)
    IN  Claims(Append(copied.puts, Puts(<<stored, Fresh("header", hdr)>>, inst.header, "header", hdr, vals)),
               <<Matches(<<stored, Bind("update", hdr, vals), Bind("scan", hdr, vals)>>, inst.hdrIdx, <<>>,
                       {{vals[i]} : i \in DOMAIN vals})>>, <<>>)

(* what a source is told to write and an output to read: no instructions *)
ColumnsRight(cols, types, laid) == cols = SubSeq(laid, 1, Len(types))

ClaimsOf(p, o, in, out, inst) ==
    LET op == p.ops[o]
        minus == ~InputIsStream(p, o)
        count == TupleAttrs(p, CountStore(p, o))
    IN  CASE op.kind = "select"   -> SelectClaims(op, in, inst)
          [] op.kind = "project"  -> ProjectClaims(op, in, out, inst)
          [] op.kind \in Joins \cup StrJoins -> JoinClaims(op, in, out, inst)
          [] op.kind = "group"    -> GroupClaims(op, minus, in, out, inst)
          [] op.kind = "distinct" -> DistinctClaims(op, minus, in, out, inst)
          [] op.kind = "partn"    -> PartnClaims(op, in, out, HeaderAttrs(p, o), inst)
          [] op.kind \in {"istream", "dstream"} -> XstreamClaims(op, in, out, count, inst)
          [] op.kind = "rstream"  -> CopyClaims(op, in, out, "output", inst)
          [] op.kind = "union"    -> UnionClaims(op, in, out, inst)
          [] op.kind = "except"   -> ExceptClaims(op, in, out, count, inst)
          [] OTHER                -> Claims(<<>>, <<>>, <<>>)

AllRight(claims) ==
    /\ \A c \in ToSet(claims.puts)  : PutsRight(c)
    /\ \A c \in ToSet(claims.matches) : MatchesRight(c)
    /\ \A c \in ToSet(claims.tells) : TellsRight(c)

(***************************************************************************)
(* Operator o's instructions do what o is for.  The index of a relation    *)
(* source is left out: its scan hashes the wrong tuple.                    *)
(***************************************************************************)
Right(p, o, laid, inst) ==
    LET op == p.ops[o]
        in == [i \in DOMAIN op.inputs |-> laid[op.inStores[i]]]
    IN  CASE op.kind \in {"reln_source", "stream_source"} ->
                ColumnsRight(inst.cols, op.attrTypes, getColumns(laid[op.store]))
          [] op.kind = "output" -> ColumnsRight(inst.cols, op.attrTypes, getColumns(in[1]))
          [] OTHER              -> AllRight(ClaimsOf(p, o, in, laid[op.store], inst))

=============================================================================
