------------------------------- MODULE Words -------------------------------
(***************************************************************************)
(* Words of w bits as the numbers 0 .. 2^w - 1, and what LLVM's integer    *)
(* instructions compute on them.  This is the reference against which the  *)
(* explicit store, the formulae and the solver's operations are measured;  *)
(* of the code it takes only the names of the instructions.                *)
(***************************************************************************)
EXTENDS Integers

Word(w) == 0 .. 2^w - 1

Lower(n, w)  == n % 2^w                                 \* the low w bits of n
Signed(n, w) == IF n < 2^(w - 1) THEN n ELSE n - 2^w    \* two's complement

(* division truncates towards zero and the remainder has the dividend's sign *)
Magnitude(n) == IF n < 0 THEN -n ELSE n
Quotient(a, b) ==
  LET q == Magnitude(a) \div Magnitude(b) IN IF (a < 0) = (b < 0) THEN q ELSE -q
Remainder(a, b) == a - b * Quotient(a, b)

(* a bitwise operation, from what it does to two bits *)
Bitwise(Op(_, _), a, b, w) ==
  LET low[n \in 0 .. w] ==
        IF n = 0 THEN 0
        ELSE low[n - 1] + 2^(n - 1) * Op((a \div 2^(n - 1)) % 2, (b \div 2^(n - 1)) % 2)
  IN  low[w]
BitAnd(a, b, w) == LET And(x, y) == x * y           IN Bitwise(And, a, b, w)
BitOr(a, b, w)  == LET Or(x, y)  == x + y - x * y   IN Bitwise(Or, a, b, w)
BitXor(a, b, w) == LET Xor(x, y) == (x + y) % 2     IN Bitwise(Xor, a, b, w)

BinaryOps == {"Add", "Sub", "Mul", "UDiv", "SDiv", "URem", "SRem",
              "And", "Or", "Xor", "Shl", "LShr"}
Predicates == {"EQ", "NE", "UGT", "UGE", "ULT", "ULE", "SGT", "SGE", "SLT", "SLE"}
Casts == {"ZExt", "SExt", "Trunc"}

(* division by zero, overflowing division and oversized shifts are undefined *)
Defined(op, w, a, b) ==
  /\ op \in {"UDiv", "SDiv", "URem", "SRem"} => b # 0
  /\ op \in {"SDiv", "SRem"} => ~(Signed(a, w) = -(2^(w - 1)) /\ Signed(b, w) = -1)
  /\ op \in {"Shl", "LShr"} => b < w

Binary(op, w, a, b) ==
  CASE op = "Add"  -> Lower(a + b, w)
    [] op = "Sub"  -> Lower(a - b, w)
    [] op = "Mul"  -> Lower(a * b, w)
    [] op = "UDiv" -> a \div b
    [] op = "SDiv" -> Lower(Quotient(Signed(a, w), Signed(b, w)), w)
    [] op = "URem" -> a % b
    [] op = "SRem" -> Lower(Remainder(Signed(a, w), Signed(b, w)), w)
    [] op = "And"  -> BitAnd(a, b, w)
    [] op = "Or"   -> BitOr(a, b, w)
    [] op = "Xor"  -> BitXor(a, b, w)
    [] op = "Shl"  -> Lower(a * 2^b, w)
    [] op = "LShr" -> a \div 2^b

Holds(predicate, w, a, b) ==
  CASE predicate = "EQ"  -> a = b
    [] predicate = "NE"  -> a # b
    [] predicate = "UGT" -> a > b
    [] predicate = "UGE" -> a >= b
    [] predicate = "ULT" -> a < b
    [] predicate = "ULE" -> a <= b
    [] predicate = "SGT" -> Signed(a, w) > Signed(b, w)
    [] predicate = "SGE" -> Signed(a, w) >= Signed(b, w)
    [] predicate = "SLT" -> Signed(a, w) < Signed(b, w)
    [] predicate = "SLE" -> Signed(a, w) <= Signed(b, w)

(* a word of v bits as one of w bits *)
Cast(op, v, w, a) ==
  CASE op = "ZExt"  -> a
    [] op = "SExt"  -> Lower(Signed(a, v), w)
    [] op = "Trunc" -> Lower(a, w)
=============================================================================
