--------------------------- MODULE MCReachability ---------------------------
(***************************************************************************)
(* Instances of Reachability: every program over a few explicit parts,     *)
(* with one or two edges out of each and relations that assume, assign,    *)
(* read an input or leave the valuation alone.                             *)
(***************************************************************************)
EXTENDS Reachability

CONSTANTS a, b, bad   \* explicit parts; bad has the error property

MCErrors == {bad}

Id     == {<<d, d>> : d \in Data}
Input  == Data \X Data
Assume == {<<d, d>> : d \in Data \ {0}}
Reset  == {<<d, 0>> : d \in Data}

Rels   == {Id, Input, Assume, Reset}
From(l) == [src : {l}, rel : Rels, dst : Expl]

MCPrograms ==
  {[init |-> [expl |-> a, sym |-> s], edges |-> {e1, e2, f}] :
     s \in {Data, {0}}, e1 \in From(a), e2 \in From(a), f \in From(b)}
=============================================================================
