------------------------------ MODULE Formula ------------------------------
(***************************************************************************)
(* The formulae of the symbolic stores (src/src/llvmsym/formula/rpn.h) and *)
(* what the solver takes them to mean (formula/z3.cpp).  A formula is a    *)
(* sequence of items in reverse Polish notation; the empty one is true.    *)
(*                                                                         *)
(* An identifier names one generation of one cell: seg is the number the   *)
(* symbolic store gave the segment, which never changes.  A valuation maps *)
(* identifiers to words.                                                   *)
(***************************************************************************)
EXTENDS Words, Sequences, FiniteSets, TLC

UnaryOperators == {"SExt", "ZExt", "Trunc", "Not", "BNot"}

OpItem(op, value) == [kind |-> "Op", op |-> op, value |-> value]

buildConstant(value, bw) == <<[kind |-> "Constant", value |-> value, bw |-> bw]>>
buildIdentifier(id)      == <<[kind |-> "Identifier", id |-> id]>>
buildBoolVal(value)      == <<[kind |-> "BoolVal", value |-> value]>>

(* joinBinary: an empty operand of And is left out *)
joinBinary(l, r, op) ==
  IF op = "And" /\ l = << >> THEN r
  ELSE IF op = "And" /\ r = << >> THEN l
  ELSE l \o r \o <<OpItem(op, 0)>>

(* joinUnary: value is the new width of an extension, the high bit of a Trunc *)
joinUnary(l, op, value) == Append(l, OpItem(op, value))

Identifiers(f)       == SelectSeq(f, LAMBDA item : item.kind = "Identifier")   \* in their order
collect_variables(f) == {f[n].id : n \in {n \in DOMAIN f : f[n].kind = "Identifier"}}

(* substitute: every occurrence of the identifier replaced by the definition *)
substitute(f, pattern, definition) ==
  LET prefix[n \in 0 .. Len(f)] ==
        IF n = 0 THEN << >>
        ELSE prefix[n - 1] \o (IF f[n] = buildIdentifier(pattern)[1] THEN definition ELSE <<f[n]>>)
  IN  prefix[Len(f)]

(* what Item::operator== looks at: no width of a constant, no operand of an operator *)
Compared(item) ==
  CASE item.kind = "Identifier" -> <<item.kind, item.id>>
    [] item.kind = "Op"         -> <<item.kind, item.op>>
    [] OTHER                    -> <<item.kind, item.value>>
Syntax(f) == [n \in DOMAIN f |-> Compared(f[n])]

-----------------------------------------------------------------------------
(***************************************************************************)
(* toz3.  The operations of the solver are those of SMT-LIB: total, and    *)
(* each signed or unsigned by itself.  Div is z3's "/", bvsdiv; Shr is     *)
(* bvlshr.  A bit-vector on the stack knows its width.                     *)
(***************************************************************************)
BoolOperators == {"Eq", "NEq", "LT", "ULT", "LEq", "ULEq", "GT", "UGT", "GEq", "UGEq"}

SolverDiv(a, b, w) ==
  IF b # 0 THEN Lower(Quotient(Signed(a, w), Signed(b, w)), w)
  ELSE IF Signed(a, w) < 0 THEN 1 ELSE 2^w - 1
SolverSRem(a, b, w) == IF b = 0 THEN a ELSE Lower(Remainder(Signed(a, w), Signed(b, w)), w)

(* operator2z3, on words *)
SolverWord(op, a, b, w) ==
  CASE op = "Plus"  -> Lower(a + b, w)
    [] op = "Minus" -> Lower(a - b, w)
    [] op = "Times" -> Lower(a * b, w)
    [] op = "Div"   -> SolverDiv(a, b, w)
    [] op = "URem"  -> IF b = 0 THEN a ELSE a % b
    [] op = "SRem"  -> SolverSRem(a, b, w)
    [] op = "BAnd"  -> BitAnd(a, b, w)
    [] op = "BOr"   -> BitOr(a, b, w)
    [] op = "Xor"   -> BitXor(a, b, w)
    [] op = "Shl"   -> IF b >= w THEN 0 ELSE Lower(a * 2^b, w)
    [] op = "Shr"   -> IF b >= w THEN 0 ELSE a \div 2^b

(* operator2z3, comparisons *)
SolverBool(op, a, b, w) ==
  CASE op = "Eq"   -> a = b
    [] op = "NEq"  -> a # b
    [] op = "LT"   -> Signed(a, w) < Signed(b, w)
    [] op = "GT"   -> Signed(a, w) > Signed(b, w)
    [] op = "LEq"  -> Signed(a, w) <= Signed(b, w)
    [] op = "GEq"  -> Signed(a, w) >= Signed(b, w)
    [] op = "ULT"  -> a < b
    [] op = "UGT"  -> a > b
    [] op = "ULEq" -> a <= b
    [] op = "UGEq" -> a >= b

(* operator2z3unary *)
SolverUnary(item, top) ==
  CASE item.op = "Not"   -> ~top
    [] item.op = "ZExt"  -> [word |-> top.word, bw |-> item.value]
    [] item.op = "SExt"  -> [word |-> Lower(Signed(top.word, top.bw), item.value), bw |-> item.value]
    [] item.op = "Trunc" -> [word |-> Lower(top.word, item.value + 1), bw |-> item.value + 1]
    [] item.op = "BNot"  -> [top EXCEPT !.word = 2^top.bw - 1 - @]

SolverBinary(op, l, r) ==
  CASE op = "And" -> l /\ r
    [] op = "Or"  -> l \/ r
    [] op \in BoolOperators -> SolverBool(op, l.word, r.word, l.bw)
    [] OTHER -> [word |-> SolverWord(op, l.word, r.word, l.bw), bw |-> l.bw]

(* one round of rpn2z3 *)
Step(stack, item, val) ==
  LET n == Len(stack) IN
  CASE item.kind = "Constant"   -> Append(stack, [word |-> Lower(item.value, item.bw), bw |-> item.bw])
    [] item.kind = "Identifier" -> Append(stack, [word |-> val[item.id], bw |-> item.id.bw])
    [] item.kind = "BoolVal"    -> Append(stack, item.value)
    [] item.kind = "Op" /\ item.op \in UnaryOperators ->
         Append(SubSeq(stack, 1, n - 1), SolverUnary(item, stack[n]))
    [] OTHER ->
         Append(SubSeq(stack, 1, n - 2), SolverBinary(item.op, stack[n - 1], stack[n]))

(* the value of a formula that is not empty *)
ValueOf(f, val) ==
  LET stack[n \in 0 .. Len(f)] ==
        IF n = 0 THEN << >> ELSE Step(stack[n - 1], f[n], val)
  IN  stack[Len(f)][1]

Satisfied(f, val) == f = << >> \/ ValueOf(f, val)

(* the valuations of a set of identifiers *)
Assignments(ids) ==
  LET over[S \in SUBSET ids] ==
        IF S = {} THEN {<< >>}
        ELSE LET last == CHOOSE id \in S : TRUE
             IN  {(last :> word) @@ val : val \in over[S \ {last}], word \in Word(last.bw)}
  IN  over[ids]

(* the sort of a formula: its width, 0 for a truth value, -1 for what Z3 refuses *)
SortOf(f) ==
  LET Joined(op, l, r) ==
        IF op \in {"And", "Or"} THEN (IF l = 0 /\ r = 0 THEN 0 ELSE -1)
        ELSE IF l # r \/ l <= 0 THEN -1
        ELSE IF op \in BoolOperators THEN 0 ELSE l
      Converted(item, top) ==
        CASE item.op = "Not"   -> (IF top = 0 THEN 0 ELSE -1)
          [] item.op = "BNot"  -> (IF top > 0 THEN top ELSE -1)
          [] item.op = "Trunc" -> (IF item.value < top THEN item.value + 1 ELSE -1)
          [] OTHER             -> (IF top \in 1 .. item.value THEN item.value ELSE -1)
      stack[n \in 0 .. Len(f)] ==
        IF n = 0 THEN << >>
        ELSE LET before == stack[n - 1]
                 k      == Len(before)
             IN  CASE f[n].kind = "Constant"   -> Append(before, f[n].bw)
                   [] f[n].kind = "Identifier" -> Append(before, f[n].id.bw)
                   [] f[n].kind = "BoolVal"    -> Append(before, 0)
                   [] f[n].kind = "Op" /\ f[n].op \in UnaryOperators ->
                        Append(SubSeq(before, 1, k - 1), Converted(f[n], before[k]))
                   [] OTHER ->
                        Append(SubSeq(before, 1, k - 2), Joined(f[n].op, before[k - 1], before[k]))
  IN  stack[Len(f)]

(* sane: one value is left on the stack; and it is a condition *)
WellSorted(f) == f = << >> \/ SortOf(f) = <<0>>

(* the definitions in an order in which each comes after those it depends on *)
Ordered(definitions) ==
  LET before[n \in 0 .. Cardinality(definitions)] ==
        IF n = 0 THEN << >>
        ELSE LET placed == before[n - 1]
                 left   == definitions \ {placed[k] : k \in DOMAIN placed}
             IN  Append(placed, CHOOSE d \in left :
                   \A e \in left : e.symbol \notin collect_variables(d.def))
  IN  before[Cardinality(definitions)]

(***************************************************************************)
(* What a solver that always answers finds for definitions and conditions: *)
(* the definitions are equations, one for each symbol and without a circle,*)
(* so they extend every choice of the other identifiers in one way.        *)
(***************************************************************************)
Models(definitions, conditions) ==
  LET order   == Ordered(definitions)
      symbols == {d.symbol : d \in definitions}
      ids     == UNION {collect_variables(d.def) : d \in definitions}
                   \cup UNION {collect_variables(f) : f \in conditions}
      Extend(choice) ==
        LET upto[n \in 0 .. Len(order)] ==
              IF n = 0 THEN choice
              ELSE LET val == upto[n - 1]
                   IN  (order[n].symbol :> ValueOf(order[n].def, val).word) @@ val
        IN  upto[Len(order)]
  IN  {val \in {Extend(choice) : choice \in Assignments(ids \ symbols)} :
         \A f \in conditions : Satisfied(f, val)}
=============================================================================
