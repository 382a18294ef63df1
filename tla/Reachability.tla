---------------------------- MODULE Reachability ----------------------------
(***************************************************************************)
(* The reachability command (src/src/llvmsym/reachability.tpp): a breadth- *)
(* first search over multi-states.  A vertex is popped, its blob is read   *)
(* back from the database and advanced; every successor advance yields is  *)
(* offered to the database, and queued when the database takes it as new.  *)
(*                                                                         *)
(* What advance yields is given by the program's edges.  The order of the  *)
(* yields of one call is left open.                                        *)
(***************************************************************************)
EXTENDS Database

CONSTANTS
  Errors,    \* the explicit parts whose error property is set
  Programs,  \* the programs under verification
  MaxMissed  \* bound: how many hits the solver may miss in one run

ASSUME MaxMissedAssumption == MaxMissed \in Nat

VARIABLES
  program,      \* the bitcode the evaluator was built from
  knowns,       \* the database
  graph,        \* the state graph: successors recorded for each vertex
  to_do,        \* the queue of identifiers still to be expanded
  pc,           \* "loop" at the loop's condition, "advance" inside, "end" after
  vertex,       \* the identifier being expanded
  pending,      \* the successors advance has still to yield
  successors,   \* the identifiers of those yielded
  error_found,
  output,       \* what has been printed: "error", "Safe", "exception"
  missed        \* hits missed so far

vars == <<program, knowns, graph, to_do, pc, vertex, pending, successors,
          error_found, output, missed>>

Abstract == INSTANCE StateSpace WITH covered <- Known(knowns)

(* initial() starts without the error property; advance leaves error states alone *)
ASSUME ProgramsAssumption ==
  /\ Errors \subseteq Expl
  /\ \A p \in Programs : /\ p \in Abstract!Program
                         /\ p.init.expl \notin Errors
                         /\ \A e \in p.edges : e.src \notin Errors

Elements(q) == {q[i] : i \in 1 .. Len(q)}

(* the valuations an edge leads to from those of S: all that the models tell
   of what advance makes of the data on the way to the next visible point *)
Post(edge, S) == {d \in Data : \E c \in S : <<c, d>> \in edge.rel}

(* variant: successors whose path condition is unsatisfiable are yielded too *)
SuccessorsUnchecked(b) ==
  {[expl |-> edge.dst, sym |-> Post(edge, b.sym)] :
     edge \in {e \in program.edges : e.src = b.expl}}

(***************************************************************************)
(* The multi-states advance yields from b: one for every edge that leaves  *)
(* some valuation; an empty successor is dropped by restoringYield.        *)
(***************************************************************************)
Successors(b) ==
  {s \in {[expl |-> edge.dst, sym |-> Post(edge, b.sym)] :
            edge \in {e \in program.edges : e.src = b.expl}} : s.sym # {}}

(* Graph::add_vertex and add_successors, on the functions from vertices to
   the set of their recorded neighbours *)
AddVertex(g, v) == TableInsert(g, v, {})

AddSuccessors(g, v, succ) ==
  IF v \in DOMAIN g
  THEN [w \in DOMAIN g \cup succ |->
          IF w \notin DOMAIN g THEN {} ELSE IF w = v THEN g[w] \cup succ ELSE g[w]]
  ELSE g

-----------------------------------------------------------------------------
Init ==
  /\ program \in Programs
  /\ knowns = Insert(EmptyDatabase, program.init)
  /\ graph = AddVertex([v \in {} |-> {}], NewId(EmptyDatabase, program.init))
  /\ to_do = <<NewId(EmptyDatabase, program.init)>>
  /\ pc = "loop"
  /\ vertex = NoState
  /\ pending = {}
  /\ successors = {}
  /\ error_found = FALSE
  /\ output = {}
  /\ missed = 0

(* take the next vertex and start to advance its state *)
Pop ==
  /\ pc = "loop"
  /\ to_do # << >>
  /\ ~error_found
  /\ vertex' = Head(to_do)
  /\ to_do' = Tail(to_do)
  /\ pending' = Successors(GetState(knowns, Head(to_do)))
  /\ successors' = {}
  /\ pc' = "advance"
  /\ UNCHANGED <<program, knowns, graph, error_found, output, missed>>

(* variant: every yielded state is queued, new or not *)
YieldAlwaysQueues ==
  /\ pc = "advance"
  /\ \E succ \in pending :
       /\ pending' = pending \ {succ}
       /\ error_found' = (error_found \/ succ.expl \in Errors)
       /\ output' = output \cup (IF succ.expl \in Errors THEN {"error"} ELSE {})
       /\ \E value \in InsertCheck(knowns, succ) :
            /\ missed + value.missed <= MaxMissed
            /\ missed' = missed + value.missed
            /\ knowns' = value.db
            /\ to_do' = Append(to_do, value.id)
            /\ successors' = successors \cup {value.id}
  /\ UNCHANGED <<program, graph, pc, vertex>>

(* variant: only new states are recorded as successors *)
YieldRecordsFresh ==
  /\ pc = "advance"
  /\ \E succ \in pending :
       /\ pending' = pending \ {succ}
       /\ error_found' = (error_found \/ succ.expl \in Errors)
       /\ output' = output \cup (IF succ.expl \in Errors THEN {"error"} ELSE {})
       /\ \E value \in InsertCheck(knowns, succ) :
            /\ missed + value.missed <= MaxMissed
            /\ missed' = missed + value.missed
            /\ knowns' = value.db
            /\ to_do' = IF value.fresh THEN Append(to_do, value.id) ELSE to_do
            /\ successors' = successors \cup (IF value.fresh THEN {value.id} ELSE {})
  /\ UNCHANGED <<program, graph, pc, vertex>>

(* advance yields one successor *)
Yield ==
  /\ pc = "advance"
  /\ \E succ \in pending :
       /\ pending' = pending \ {succ}
       /\ error_found' = (error_found \/ succ.expl \in Errors)
       /\ output' = output \cup (IF succ.expl \in Errors THEN {"error"} ELSE {})
       /\ \E value \in InsertCheck(knowns, succ) :
            /\ missed + value.missed <= MaxMissed
            /\ missed' = missed + value.missed
            /\ knowns' = value.db
            /\ to_do' = IF value.fresh THEN Append(to_do, value.id) ELSE to_do
            /\ successors' = successors \cup {value.id}
  /\ UNCHANGED <<program, graph, pc, vertex>>

(* advance has returned: record the successors and go back to the loop *)
Record ==
  /\ pc = "advance"
  /\ pending = {}
  /\ graph' = AddSuccessors(graph, vertex, successors)
  /\ pc' = "loop"
  /\ UNCHANGED <<program, knowns, to_do, vertex, pending, successors,
                 error_found, output, missed>>

(* variants: the loop ends only when the queue is empty; it always says "Safe." *)
FinishWhenDrained ==
  /\ pc = "loop"
  /\ to_do = << >>
  /\ output' = IF error_found THEN output ELSE output \cup {"Safe"}
  /\ pc' = "end"
  /\ UNCHANGED <<program, knowns, graph, to_do, vertex, pending, successors,
                 error_found, missed>>

FinishAlwaysSafe ==
  /\ pc = "loop"
  /\ to_do = << >> \/ error_found
  /\ output' = output \cup {"Safe"}
  /\ pc' = "end"
  /\ UNCHANGED <<program, knowns, graph, to_do, vertex, pending, successors,
                 error_found, missed>>

(* the loop ends *)
Finish ==
  /\ pc = "loop"
  /\ to_do = << >> \/ error_found
  /\ output' = IF error_found THEN output ELSE output \cup {"Safe"}
  /\ pc' = "end"
  /\ UNCHANGED <<program, knowns, graph, to_do, vertex, pending, successors,
                 error_found, missed>>

(* the solver throws while a state is advanced; run() catches it *)
Throw ==
  /\ pc = "advance"
  /\ output' = output \cup {"exception"}
  /\ pc' = "end"
  /\ UNCHANGED <<program, knowns, graph, to_do, vertex, pending, successors,
                 error_found, missed>>

(* the solver throws in insertCheck: the error, if the successor is one, has
   been printed by then, but the successor is not stored *)
ThrowInCheck ==
  /\ pc = "advance"
  /\ \E succ \in pending :
       /\ error_found' = (error_found \/ succ.expl \in Errors)
       /\ output' = output \cup {"exception"}
                      \cup (IF succ.expl \in Errors THEN {"error"} ELSE {})
  /\ pc' = "end"
  /\ UNCHANGED <<program, knowns, graph, to_do, vertex, pending, successors, missed>>

Next == Pop \/ Yield \/ Record \/ Finish \/ Throw \/ ThrowInCheck

(* run() is one sequential loop that nothing suspends *)
Spec == Init /\ [][Next]_vars /\ WF_vars(Next)

-----------------------------------------------------------------------------
(* The variables keep their types, and the tables of the database agree:
   getState throws on an identifier it does not know (blobing.h:290-304). *)
TypeOK ==
  /\ program \in Programs
  /\ DatabaseOK(knowns)
  /\ DOMAIN graph \subseteq StateId
  /\ graph \in [DOMAIN graph -> SUBSET StateId]
  /\ to_do \in Seq(StateId)
  /\ pc \in {"loop", "advance", "end"}
  /\ vertex \in StateId
  /\ pending \subseteq Blob
  /\ successors \subseteq StateId
  /\ error_found \in BOOLEAN
  /\ output \subseteq {"error", "Safe", "exception"}
  /\ missed \in Nat

(* "Safe." is printed only if no concrete state reachable along the
   program's edges is an error: reachability.tpp:59-60. *)
SafeIsSound == Abstract!SafeIsSound

(* "Error state is reachable" is printed only if one is: the multi-state in
   hand at reachability.tpp:36-41 holds a really reachable valuation. *)
ErrorIsReal == Abstract!ErrorIsReal

(* An identifier is expanded or waits to be expanded, once: no identifier
   is in the queue twice, and none that was already expanded is there.  That
   it has successors in the graph shows that it was expanded; a state without
   successors leaves no such trace, only the last one popped is known. *)
ExpandedOnce ==
  /\ \A i, j \in 1 .. Len(to_do) : to_do[i] = to_do[j] => i = j
  /\ \A id \in Elements(to_do) :
       id # vertex /\ (id \in DOMAIN graph => graph[id] = {})

(* What the graph shows is what the program does: once a vertex has been
   expanded, each of its successors is inside the state recorded for it. *)
GraphSimulates ==
  \A v \in DOMAIN graph \ Elements(to_do) :
    v # vertex \/ (pc # "advance" /\ "exception" \notin output) =>
      \A s \in Successors(GetState(knowns, v)) :
        \E w \in graph[v] :
          /\ w \in DOMAIN graph
          /\ Concrete(s) \subseteq Concrete(GetState(knowns, w))

(* the pairs of stored states of which the first makes the second superfluous *)
Superfluous(db) ==
  {p \in (DOMAIN db.id2item) \X (DOMAIN db.id2item) :
     /\ p[1][1] = p[2][1] /\ p[1][2] < p[2][2]
     /\ Hit(GetState(db, p[2]).sym, GetState(db, p[1]).sym)}

(* The database keeps a state only if no earlier one of its container makes
   it superfluous, except for the hits the solver missed. *)
NoSuperfluousState == Cardinality(Superfluous(knowns)) <= missed

(***************************************************************************)
(* The invariant the soundness of the search rests on, in parts.           *)
(***************************************************************************)
Explored(id) ==
  \A s \in Successors(GetState(knowns, id)) : Concrete(s) \subseteq Known(knowns)

(* every identifier in use is in the database *)
IdsKnown ==
  /\ Elements(to_do) \subseteq DOMAIN knowns.id2item
  /\ pc = "advance" => vertex \in DOMAIN knowns.id2item

(* a stored state waits in the queue, or is explored, or is being advanced *)
Frontier ==
  \A id \in DOMAIN knowns.id2item :
    \/ id \in Elements(to_do)
    \/ Explored(id)
    \/ id = vertex /\ (pc = "advance" \/ "exception" \in output)

(* what advance has still to yield is all that the vertex lacks *)
PendingRest ==
  pc = "advance" =>
    /\ pending \subseteq Successors(GetState(knowns, vertex))
    /\ \A s \in Successors(GetState(knowns, vertex)) :
         s \in pending \/ Concrete(s) \subseteq Known(knowns)

(* what is stored is reachable, the initial states included *)
KnownReachable ==
  /\ Abstract!InitialStates(program) \subseteq Known(knowns)
  /\ Known(knowns) \subseteq Abstract!Reach(program)

(* the flag and the verdicts agree with what is stored and queued; only after
   an exception may the error that was reported be missing in the database *)
VerdictAgrees ==
  /\ error_found <=> "error" \in output
  /\ Known(knowns) \cap Abstract!ErrorState # {} => error_found
  /\ error_found => \/ Known(knowns) \cap Abstract!ErrorState # {}
                     \/ /\ "exception" \in output
                        /\ Abstract!Reach(program) \cap Abstract!ErrorState # {}
  /\ "Safe" \in output => /\ pc = "end" /\ to_do = << >>
                          /\ ~ error_found /\ "exception" \notin output
  /\ "exception" \in output => pc = "end"

SoundInv == IdsKnown /\ Frontier /\ PendingRest /\ KnownReachable /\ VerdictAgrees

(***************************************************************************)
(* What the correctness of the recorded graph rests on besides, in parts.  *)
(***************************************************************************)
(* the vertices are states of the database, and a stored state is a vertex or
   waits in the queue; while advance runs it may be there as a successor only *)
GraphAgrees ==
  /\ DOMAIN graph \cup successors \subseteq DOMAIN knowns.id2item
  /\ DOMAIN knowns.id2item \subseteq DOMAIN graph \cup Elements(to_do)
  /\ \A v \in DOMAIN graph : graph[v] \subseteq DOMAIN graph
  /\ pc = "loop" => Elements(to_do) \subseteq DOMAIN graph
  /\ pc = "advance" => /\ vertex \in DOMAIN graph
                       /\ Elements(to_do) \subseteq DOMAIN graph \cup successors

(* a successor of the vertex in hand is still to be yielded, or is inside the
   state of one of the identifiers that will be recorded *)
CoveredSoFar ==
  pc = "advance" =>
    \A s \in Successors(GetState(knowns, vertex)) :
      \/ s \in pending
      \/ \E w \in successors : Concrete(s) \subseteq Concrete(GetState(knowns, w))

(* All of this: what is stored is reachable, and waits, is in hand or is
   explored; the queue, the graph and the database agree. *)
SearchInv == SoundInv /\ GraphAgrees /\ CoveredSoFar

(* Every run ends: the queue runs dry or an error or an exception stops it. *)
Termination == <>(pc = "end")

(* The command does what the abstract search allows. *)
Refinement == Abstract!Spec
=============================================================================
