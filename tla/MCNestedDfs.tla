---------------------------- MODULE MCNestedDfs ----------------------------
(***************************************************************************)
(* Instances of NestedDfs: all graphs over a few vertices with at most     *)
(* two successors each, repeated ones included.                            *)
(***************************************************************************)
EXTENDS NestedDfs

CONSTANTS v1, v2, v3

MCAnswers == SeqOf(Vertex, 2)

Plain     == [depth_bounded |-> FALSE, max_depth |-> Unlimited]
Iterative == [depth_bounded |-> TRUE, max_depth |-> Unlimited]
Bounded(depth) == [depth_bounded |-> TRUE, max_depth |-> depth]

MCAllModes == {Plain, Iterative, Bounded(1), Bounded(3)}
=============================================================================
