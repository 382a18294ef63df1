----------------------------- MODULE CycleSearch -----------------------------
(***************************************************************************)
(* What the LTL command promises, free of colours, stacks and depths: it   *)
(* learns a graph vertex by vertex, only ever asking for the successors of *)
(* vertices the start leads to, says "Property violated!" only when what   *)
(* it has learnt holds an accepting cycle, and "Property holds!" only when *)
(* nothing is left to learn and there is none.  A limited search (--bound) *)
(* may say that the property holds without having learnt everything.       *)
(***************************************************************************)
CONSTANT Vertex

VARIABLES
  start,      \* where the search begins
  accepting,  \* the vertices met so far whose automaton state is accepting
  limited,    \* was a bound on the depth asked for?
  edges,      \* the successors learnt, a function on the vertices asked for
  verdict     \* "none", "violated" or "holds"

vars == <<start, accepting, limited, edges, verdict>>

(* the vertices that S leads to along the edges of g, S included: those in
   every set that holds S and is closed under the edges *)
Reach(g, S) ==
  {v \in Vertex : \A T \in SUBSET Vertex :
     (S \subseteq T /\ \A w \in T \cap DOMAIN g : g[w] \subseteq T) => v \in T}

(* a reachable accepting vertex that leads back to itself *)
AcceptingCycle(g, s) ==
  \E v \in accepting \cap Reach(g, {s}) \cap DOMAIN g : v \in Reach(g, g[v])

-----------------------------------------------------------------------------
(* only vertices are learnt and said to be accepting *)
TypeOK ==
  /\ start \in Vertex
  /\ accepting \subseteq Vertex
  /\ limited \in BOOLEAN
  /\ DOMAIN edges \subseteq Vertex
  /\ edges \in [DOMAIN edges -> SUBSET Vertex]
  /\ verdict \in {"none", "violated", "holds"}

Init ==
  /\ start \in Vertex
  /\ accepting \in SUBSET {start}
  /\ limited \in BOOLEAN
  /\ edges = [v \in {} |-> {}]
  /\ verdict = "none"

(* ask for the successors of a vertex that is known to be reachable, and
   see which of the new ones are accepting *)
Learn ==
  /\ verdict = "none"
  /\ \E v \in Reach(edges, {start}) \ DOMAIN edges, S \in SUBSET Vertex :
       /\ edges' = [w \in DOMAIN edges \cup {v} |-> IF w = v THEN S ELSE edges[w]]
       /\ \E A \in SUBSET (S \ Reach(edges, {start})) : accepting' = accepting \cup A
  /\ UNCHANGED <<start, limited, verdict>>

Violated ==
  /\ verdict = "none"
  /\ AcceptingCycle(edges, start)
  /\ verdict' = "violated"
  /\ UNCHANGED <<start, accepting, limited, edges>>

Holds ==
  /\ verdict = "none"
  /\ \/ limited
     \/ Reach(edges, {start}) \subseteq DOMAIN edges /\ ~ AcceptingCycle(edges, start)
  /\ verdict' = "holds"
  /\ UNCHANGED <<start, accepting, limited, edges>>

Next == Learn \/ Violated \/ Holds

Spec == Init /\ [][Next]_vars

-----------------------------------------------------------------------------
(* "Property violated!" is printed only if there is an accepting cycle. *)
ViolationIsReal == verdict = "violated" => AcceptingCycle(edges, start)

(* Without a bound, "Property holds!" is printed only when everything
   reachable was explored and there is no accepting cycle. *)
HoldsIsComplete ==
  verdict = "holds" /\ ~ limited =>
    Reach(edges, {start}) \subseteq DOMAIN edges /\ ~ AcceptingCycle(edges, start)
=============================================================================
