-------------------------------- MODULE MCLtl --------------------------------
(***************************************************************************)
(* Instances of Ltl: programs over two locations, and automata with two    *)
(* states, the shape of those for the negation of G p, of F p and GF p.    *)
(***************************************************************************)
EXTENDS Ltl

CONSTANTS l1, l2, q, r   \* locations; states of the automaton

MCExpl == Location \X BaState

Id     == {<<d, d>> : d \in Data}
Input  == Data \X Data
Assume == {<<d, d>> : d \in Data \ {0}}
Reset  == {<<d, 0>> : d \in Data}

Out(l, rels) == [src : {l}, rel : rels, dst : Location]

MCPrograms ==
  {[init |-> [expl |-> l1, sym |-> s], edges |-> {e1, e2, f}] :
     s \in {Data, {0}}, e1 \in Out(l1, {Input}), e2 \in Out(l1, {Assume, Reset}),
     f \in Out(l2, {Id})}

(* labels of no, one and two literals: more are not read *)
Lit(op, n)   == [op |-> op, ap |-> n, negated |-> FALSE]
NoLit(op, n) == [op |-> op, ap |-> n, negated |-> TRUE]
AnyData  == << >>
One      == <<Lit("none", 1)>>
ZeroOnly == <<Lit("none", 2), NoLit("&&", 1)>>
Either   == <<Lit("none", 1), NoLit("||", 1)>>

BaEdge(s, label, d) == [src |-> s, label |-> label, dst |-> d]

MCAutomata ==
  {[start |-> q, aps |-> <<{1}, Data>>, edges |-> es, accepting |-> {r}] :
     es \in {<<BaEdge(q, AnyData, q), BaEdge(q, g, r), BaEdge(r, h, r)>> : g \in {One, ZeroOnly}, h \in {Either, One}}
       \cup {<<BaEdge(q, g, r), BaEdge(q, Either, q), BaEdge(r, h, q)>> : g \in {One, ZeroOnly}, h \in {AnyData, One}}}

(* what the theorems suppose of the automata is true of these *)
ASSUME LabelsAreReadAssumption == LabelsAreRead

MCModes == {[depth_bounded |-> TRUE, max_depth |-> -1]}
=============================================================================
