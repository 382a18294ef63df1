------------------------------- MODULE Labels -------------------------------
(***************************************************************************)
(* The labels of the automaton (LtlTranslator in src/src/toolkit/ltl2ba.h).*)
(* ltl2tgba prints a label as literals joined by "&&" and "||"; a label is *)
(* the sequence of its literals here, each with the connective in front of *)
(* it.  An atomic proposition is the set of data it is true of, and so is  *)
(* the guard made of a label.                                              *)
(***************************************************************************)
EXTENDS Naturals, Sequences, SequencesExt

CONSTANT Data       \* the valuations propositions speak of

Literal == [op : {"none", "&&", "||"}, ap : Nat \ {0}, negated : BOOLEAN]

Truth(aps, literal) == IF literal.negated THEN Data \ aps[literal.ap] ELSE aps[literal.ap]

(* translate_ap: the number is read from the front of the text, what follows it is left *)
translate_ap(aps, text) == IF text = << >> THEN Data ELSE Truth(aps, Head(text))

(* find: the first literal with this connective in front of it, 0 if there is none *)
find(label, op) == SelectInSeq(label, LAMBDA literal : literal.op = op)

(* variant: the second operand is read where the first one is *)
TranslateFirst(aps, label) == translate_ap(aps, label)

(* LtlTranslator::operator() *)
translate(aps, label) ==
  LET and_pos == find(label, "&&")
      or_pos  == find(label, "||")
      Before(pos) == translate_ap(aps, SubSeq(label, 1, pos - 1))
      From(pos)   == translate_ap(aps, SubSeq(label, pos, Len(label)))
  IN  IF and_pos # 0 THEN Before(and_pos) \cap From(and_pos)
      ELSE IF or_pos # 0 THEN Before(or_pos) \cup From(or_pos)
      ELSE translate_ap(aps, label)

(* what ltl2tgba means by a label: "&&" binds stronger than "||" *)
Meaning(aps, label) ==
  LET starts == {n \in DOMAIN label : label[n].op # "&&"}
      Conjuncts(n) == {m \in n .. Len(label) : \A k \in n + 1 .. m : label[k].op = "&&"}
  IN  IF label = << >> THEN Data
      ELSE {d \in Data : \E n \in starts : \A m \in Conjuncts(n) : d \in Truth(aps, label[m])}

(* the labels translate reads to the end: of two literals at most *)
Readable(aps, label) ==
  /\ label \in Seq(Literal) /\ Len(label) <= 2
  /\ \A i \in 1 .. Len(label) : label[i].ap \in DOMAIN aps /\ (label[i].op = "none" <=> i = 1)
=============================================================================
