---------------------------- MODULE Propositions ----------------------------
(***************************************************************************)
(* Atomic propositions, as the actions of the LTL parser build them        *)
(* (src/src/parsers/ltl_parser.y).  A proposition is written over the      *)
(* cells of globals, before any store exists: generation and width are     *)
(* placeholders, which pushPropGuard replaces in identifiers only.         *)
(***************************************************************************)
EXTENDS Formula

Placeholder == 42

ident(seg, off)    == buildIdentifier([seg |-> seg, off |-> off, gen |-> Placeholder, bw |-> Placeholder])
integer(value)     == buildConstant(value, Placeholder)   \* no cell has this width
sized(value, bits) == buildConstant(value, bits)      \* written value(bits)
negation(f)        == joinUnary(f, "Not", 0)

TokenOperator ==
  [TPLUS  |-> "Plus", TMINUS |-> "Minus", TMUL |-> "Times", TDIV |-> "Div", TRSHIFT |-> "Shr",
   TLSHIFT |-> "Shl", TEQUAL |-> "Eq", TCNE |-> "NEq", TCLT |-> "LT", TCLE |-> "LEq",
   TCGT |-> "GT", TCGE |-> "GEq", TAND |-> "And", TOR |-> "Or"]

binary_op(o, a, b) ==
  IF o = "TIMP" THEN joinBinary(negation(a), b, "Or") ELSE joinBinary(a, b, TokenOperator[o])
=============================================================================
