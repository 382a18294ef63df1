------------------------------ MODULE NestedDfs ------------------------------
(***************************************************************************)
(* The nested depth-first search of the LTL command                        *)
(* (src/src/llvmsym/ltl.tpp).  The outer search keeps a stack of vectors:  *)
(* each vector holds the successors of a vertex still to be looked at, and *)
(* the vertex the next vector belongs to stays at its back.  When an       *)
(* accepting vertex is left, the inner search looks for a way back to it.  *)
(* Inner colours are not reset between the inner searches.  With           *)
(* --iterative or --bound the search is cut at a depth that doubles.       *)
(*                                                                         *)
(* The product graph is made on the fly: a vertex is asked for its         *)
(* successors when it is entered, and generated says what the answer was.  *)
(* Here the answer is any sequence; Ltl.tla says which one.                *)
(***************************************************************************)
EXTENDS Integers, Sequences, SequencesExt

CONSTANTS
  Vertex,        \* identifiers of states
  Answers,       \* the sequences a vertex may be given as successors
  InitialBound,  \* the first depth of an iterative search, 32 in the code
  Modes          \* how run() is called: records [depth_bounded, max_depth]

ASSUME InitialBoundAssumption == InitialBound \in Nat \ {0}
ASSUME AnswersAssumption == Answers \subseteq Seq(Vertex)

Unlimited == -1   \* run()'s default for max_depth

ASSUME ModesAssumption ==
  Modes \subseteq ([depth_bounded : BOOLEAN, max_depth : {Unlimited}]
                   \cup [depth_bounded : {TRUE}, max_depth : Nat])

VARIABLES
  mode,          \* the call's depth_bounded and max_depth
  start_vertex,
  accepting,     \* the vertices met so far whose automaton state is accepting
  graph,         \* the graph so far: colours, depth and neighbours of each vertex
  generated,     \* the vertices generate_successors has been called for
  to_process,    \* the stack of the outer search
  depth_bound,
  depth_bound_reached,
  accepting_found,
  inner_start,   \* the vertex the inner search tries to get back to
  inner_process, \* the stack of the inner search
  pc,            \* "outer", "inner" or "end"
  output         \* the verdict: "none", "violated", "holds"

vars == <<mode, start_vertex, accepting, graph, generated, to_process, depth_bound,
          depth_bound_reached, accepting_found, inner_start, inner_process, pc, output>>

Color      == {"WHITE", "GRAY", "BLACK"}
VertexInfo == [outer : Color, inner : Color, depth : Nat, neighbors : Seq(Vertex)]
Fresh(d)   == [outer |-> "WHITE", inner |-> "WHITE", depth |-> d, neighbors |-> << >>]

(* Graph::add_successors: vertices that are new get the depth d *)
AddSuccessors(g, v, succ, d) ==
  [w \in DOMAIN g \cup ToSet(succ) |->
     IF w \notin DOMAIN g THEN Fresh(d)
     ELSE IF w = v THEN [g[w] EXCEPT !.neighbors = @ \o succ] ELSE g[w]]

(* variant: the inner colours survive the reset *)
ResetOuterOnly(g) == [v \in DOMAIN g |-> [g[v] EXCEPT !.outer = "WHITE"]]

(* reset_dfs *)
Reset(g) == [v \in DOMAIN g |-> [g[v] EXCEPT !.outer = "WHITE", !.inner = "WHITE"]]

(* a stack of vectors: the vector on top, and the vertex at its back *)
Top(stack)     == Last(stack)
Current(stack) == Last(Last(stack))
PopBack(stack) == Append(Front(stack), Front(Last(stack)))

-----------------------------------------------------------------------------
Init ==
  /\ mode \in Modes
  /\ start_vertex \in Vertex
  /\ accepting \in SUBSET {start_vertex}
  /\ graph = [v \in {start_vertex} |-> Fresh(0)]
  /\ generated = {}
  /\ to_process = << <<start_vertex>> >>
  /\ depth_bound = InitialBound
  /\ depth_bound_reached = FALSE
  /\ accepting_found = FALSE
  /\ inner_start = start_vertex
  /\ inner_process = << >>
  /\ pc = "outer"
  /\ output = "none"

(* the outer loop has a vector to look at *)
Searching == pc = "outer" /\ ~ accepting_found /\ to_process # << >>

(* the vertex in hand is too deep for this iteration *)
TooDeep(v) == mode.depth_bounded /\ graph[v].depth >= depth_bound

UnchangedByOuter == UNCHANGED <<mode, start_vertex, accepting_found,
                                inner_start, inner_process, pc, output>>

(* variants of Retreat: the doubled bound is always capped by max_depth; or
   it is not doubled *)
RetreatCapped ==
  /\ Searching
  /\ Top(to_process) = << >>
  /\ IF mode.depth_bounded /\ Len(to_process) = 1 /\ depth_bound_reached
        /\ (mode.max_depth = Unlimited \/ depth_bound < mode.max_depth)
     THEN /\ graph' = Reset(graph)
          /\ depth_bound' = IF mode.max_depth < 2 * depth_bound
                            THEN mode.max_depth ELSE 2 * depth_bound
          /\ depth_bound_reached' = FALSE
          /\ to_process' = << <<start_vertex>> >>
     ELSE /\ to_process' = Front(to_process)
          /\ UNCHANGED <<graph, depth_bound, depth_bound_reached>>
  /\ UnchangedByOuter
  /\ UNCHANGED <<accepting, generated>>

RetreatSameBound ==
  /\ Searching
  /\ Top(to_process) = << >>
  /\ IF mode.depth_bounded /\ Len(to_process) = 1 /\ depth_bound_reached
        /\ (mode.max_depth = Unlimited \/ depth_bound < mode.max_depth)
     THEN /\ graph' = Reset(graph)
          /\ depth_bound_reached' = FALSE
          /\ to_process' = << <<start_vertex>> >>
     ELSE /\ to_process' = Front(to_process)
          /\ UNCHANGED <<graph, depth_bound_reached>>
  /\ UnchangedByOuter
  /\ UNCHANGED <<accepting, generated, depth_bound>>

(* no successor is left in the top vector; if none is left at all and the
   depth was cut, start again with a larger bound *)
Retreat ==
  /\ Searching
  /\ Top(to_process) = << >>
  /\ LET deeper == /\ mode.depth_bounded
                   /\ Len(to_process) = 1
                   /\ depth_bound_reached
                   /\ mode.max_depth = Unlimited \/ depth_bound < mode.max_depth
     IN  IF deeper
         THEN /\ graph' = Reset(graph)
              /\ depth_bound' = IF mode.max_depth # Unlimited /\ mode.max_depth < 2 * depth_bound
                                THEN mode.max_depth ELSE 2 * depth_bound
              /\ depth_bound_reached' = FALSE
              /\ to_process' = << <<start_vertex>> >>
         ELSE /\ to_process' = Front(to_process)
              /\ UNCHANGED <<graph, depth_bound, depth_bound_reached>>
  /\ UnchangedByOuter
  /\ UNCHANGED <<accepting, generated>>

(* variant: nothing remembers that a vector was given up *)
CutOffUnmarked ==
  /\ Searching
  /\ Top(to_process) # << >>
  /\ TooDeep(Current(to_process))
  /\ to_process' = Front(to_process)
  /\ UnchangedByOuter
  /\ UNCHANGED <<accepting, graph, generated, depth_bound, depth_bound_reached>>

(* the depth bound: the whole top vector is given up *)
CutOff ==
  /\ Searching
  /\ Top(to_process) # << >>
  /\ TooDeep(Current(to_process))
  /\ to_process' = Front(to_process)
  /\ depth_bound_reached' = TRUE
  /\ UnchangedByOuter
  /\ UNCHANGED <<accepting, graph, generated, depth_bound>>

(* the vertex in hand, of the given colour *)
InHand(v, color) ==
  /\ Searching
  /\ Top(to_process) # << >>
  /\ v = Current(to_process)
  /\ ~ TooDeep(v)
  /\ graph[v].outer = color

(* what generate_successors may answer for v: the sequence of successors and
   which of the new ones are accepting; it repeats itself when asked again *)
MayAnswer(v, succ, acc) ==
  /\ v \in generated => succ = graph[v].neighbors
  /\ acc \subseteq ToSet(succ) \ DOMAIN graph

(* variant: the inner search starts when an accepting vertex is entered *)
EnterSearchesFirst(v, succ, acc) ==
  /\ InHand(v, "WHITE")
  /\ LET known == graph[v].neighbors
         g     == IF known = << >>
                  THEN AddSuccessors(graph, v, succ, graph[v].depth + 1) ELSE graph
     IN  /\ graph' = [g EXCEPT ![v].outer = "GRAY"]
         /\ to_process' = Append(to_process, IF known = << >> THEN succ ELSE known)
  /\ generated' = generated \cup {v}
  /\ accepting' = accepting \cup acc
  /\ IF v \in accepting
     THEN pc' = "inner" /\ inner_start' = v /\ inner_process' = << <<v>> >>
     ELSE UNCHANGED <<pc, inner_start, inner_process>>
  /\ UNCHANGED <<mode, start_vertex, accepting_found, output,
                 depth_bound, depth_bound_reached>>

(* a new vertex: take its successors, asked for now if none are recorded *)
Enter(v, succ, acc) ==
  /\ InHand(v, "WHITE")
  /\ LET known == graph[v].neighbors
         g     == IF known = << >>
                  THEN AddSuccessors(graph, v, succ, graph[v].depth + 1) ELSE graph
     IN  /\ graph' = [g EXCEPT ![v].outer = "GRAY"]
         /\ to_process' = Append(to_process, IF known = << >> THEN succ ELSE known)
  /\ generated' = generated \cup {v}
  /\ accepting' = accepting \cup acc
  /\ UnchangedByOuter
  /\ UNCHANGED <<depth_bound, depth_bound_reached>>

(* a vertex whose successors are done, or that is met again on the stack *)
Backtrack(v) ==
  /\ InHand(v, "GRAY")
  /\ graph' = [graph EXCEPT ![v].outer = "BLACK"]
  /\ to_process' = PopBack(to_process)
  /\ IF v \in accepting
     THEN pc' = "inner" /\ inner_start' = v /\ inner_process' = << <<v>> >>
     ELSE UNCHANGED <<pc, inner_start, inner_process>>
  /\ UNCHANGED <<mode, start_vertex, accepting, generated, depth_bound,
                 depth_bound_reached, accepting_found, output>>

(* a vertex that was put on the stack more than once *)
Skip(v) ==
  /\ InHand(v, "BLACK")
  /\ to_process' = PopBack(to_process)
  /\ UnchangedByOuter
  /\ UNCHANGED <<accepting, graph, generated, depth_bound, depth_bound_reached>>

-----------------------------------------------------------------------------
InnerSearching == pc = "inner" /\ ~ accepting_found /\ inner_process # << >>

UnchangedByInner == UNCHANGED <<mode, start_vertex, accepting, generated, to_process,
                                depth_bound, depth_bound_reached, inner_start, pc, output>>

InnerRetreat ==
  /\ InnerSearching
  /\ Top(inner_process) = << >>
  /\ inner_process' = Front(inner_process)
  /\ UnchangedByInner
  /\ UNCHANGED <<graph, accepting_found>>

InnerInHand(v, color) ==
  /\ InnerSearching
  /\ Top(inner_process) # << >>
  /\ v = Current(inner_process)
  /\ graph[v].inner = color

(* variant: a successor on the inner stack counts as well, as in the test
   that is commented out at ltl.tpp:208-209 *)
InnerEnterGray(v) ==
  /\ InnerInHand(v, "WHITE")
  /\ accepting_found' = (\E w \in ToSet(graph[v].neighbors) :
                           w = inner_start \/ graph[w].inner = "GRAY")
  /\ inner_process' = Append(inner_process, graph[v].neighbors)
  /\ graph' = [graph EXCEPT ![v].inner = "GRAY"]
  /\ UnchangedByInner

(* a vertex new to the inner searches: is the start among its successors? *)
InnerEnter(v) ==
  /\ InnerInHand(v, "WHITE")
  /\ accepting_found' = (inner_start \in ToSet(graph[v].neighbors))
  /\ inner_process' = Append(inner_process, graph[v].neighbors)
  /\ graph' = [graph EXCEPT ![v].inner = "GRAY"]
  /\ UnchangedByInner

InnerLeave(v) ==
  /\ InnerInHand(v, "GRAY")
  /\ graph' = [graph EXCEPT ![v].inner = "BLACK"]
  /\ inner_process' = PopBack(inner_process)
  /\ UnchangedByInner
  /\ UNCHANGED accepting_found

InnerSkip(v) ==
  /\ InnerInHand(v, "BLACK")
  /\ inner_process' = PopBack(inner_process)
  /\ UnchangedByInner
  /\ UNCHANGED <<graph, accepting_found>>

(* run_inner_dfs returns *)
InnerReturn ==
  /\ pc = "inner"
  /\ accepting_found \/ inner_process = << >>
  /\ pc' = "outer"
  /\ UNCHANGED <<mode, start_vertex, accepting, graph, generated, to_process, depth_bound,
                 depth_bound_reached, accepting_found, inner_start, inner_process, output>>

-----------------------------------------------------------------------------
(* variant: the verdict ignores what the inner search found *)
FinishHolds ==
  /\ pc = "outer"
  /\ accepting_found \/ to_process = << >>
  /\ output' = "holds"
  /\ pc' = "end"
  /\ UNCHANGED <<mode, start_vertex, accepting, graph, generated, to_process, depth_bound,
                 depth_bound_reached, accepting_found, inner_start, inner_process>>

(* the outer loop ends and the verdict is printed *)
Finish ==
  /\ pc = "outer"
  /\ accepting_found \/ to_process = << >>
  /\ output' = IF accepting_found THEN "violated" ELSE "holds"
  /\ pc' = "end"
  /\ UNCHANGED <<mode, start_vertex, accepting, graph, generated, to_process, depth_bound,
                 depth_bound_reached, accepting_found, inner_start, inner_process>>

(* every step but the entering of a vertex *)
Walk ==
  \/ Retreat \/ CutOff \/ InnerRetreat \/ InnerReturn \/ Finish
  \/ \E v \in DOMAIN graph :
       Backtrack(v) \/ Skip(v) \/ InnerEnter(v) \/ InnerLeave(v) \/ InnerSkip(v)

Next ==
  \/ Walk
  \/ \E v \in DOMAIN graph, succ \in Answers, acc \in SUBSET Vertex :
       MayAnswer(v, succ, acc) /\ Enter(v, succ, acc)

Spec == Init /\ [][Next]_vars /\ WF_vars(Next)

-----------------------------------------------------------------------------
Stack == Seq(Seq(Vertex))

(* The variables keep their types; the depth bound, which run() may cap with
   max_depth, stays a number when there is no limit (ltl.tpp:95-103). *)
TypeOK ==
  /\ mode \in Modes
  /\ start_vertex \in Vertex
  /\ accepting \subseteq Vertex
  /\ DOMAIN graph \subseteq Vertex
  /\ graph \in [DOMAIN graph -> VertexInfo]
  /\ generated \subseteq DOMAIN graph
  /\ to_process \in Stack
  /\ depth_bound \in Nat
  /\ depth_bound_reached \in BOOLEAN
  /\ accepting_found \in BOOLEAN
  /\ inner_start \in Vertex
  /\ inner_process \in Stack
  /\ pc \in {"outer", "inner", "end"}
  /\ output \in {"none", "violated", "holds"}

(* the vertices on the path of a stack: those under whose successors it is *)
Path(stack) == {Last(stack[i]) : i \in 1 .. Len(stack) - 1}

(* Below every vector of a stack lies the vertex it belongs to: the vector is
   what is left of that vertex's neighbours, and its colour is not WHITE. *)
StacksArePaths ==
  /\ \A i \in 2 .. Len(to_process) :
       /\ to_process[i - 1] # << >>
       /\ LET v == Last(to_process[i - 1])
          IN  graph[v].outer # "WHITE" /\ IsPrefix(to_process[i], graph[v].neighbors)
  /\ \A i \in 2 .. Len(inner_process) :
       /\ inner_process[i - 1] # << >>
       /\ LET v == Last(inner_process[i - 1])
          IN  graph[v].inner # "WHITE" /\ IsPrefix(inner_process[i], graph[v].neighbors)

(* The inner colours may be kept from one inner search to the next because,
   as long as no cycle is found and nothing is cut, what the inner searches
   have visited is closed under the edges and keeps clear of the outer path:
   no later way back to a vertex of the path leads through it. *)
VisitedIsClosed ==
  pc # "inner" /\ ~ accepting_found /\ ~ depth_bound_reached =>
    \A v \in DOMAIN graph : graph[v].inner # "WHITE" =>
      /\ graph[v].inner = "BLACK"
      /\ graph[v].outer # "WHITE"
      /\ v \notin Path(to_process)
      /\ \A w \in ToSet(graph[v].neighbors) : graph[w].inner = "BLACK"

(* The edges recorded in the graph, as the abstract search learns them. *)
Neighbors(v) == ToSet(graph[v].neighbors)
Edges        == [v \in generated |-> Neighbors(v)]

Abstract == INSTANCE CycleSearch WITH
  start   <- start_vertex,
  limited <- mode.max_depth # Unlimited,
  edges   <- Edges,
  verdict <- output

(* "Property violated!" is printed only if the graph holds a cycle through
   an accepting vertex: ltl.tpp:171-172. *)
ViolationIsReal == Abstract!ViolationIsReal

(* Without a bound, "Property holds!" is printed only when every vertex was
   entered and no accepting cycle is reachable: ltl.tpp:173-174. *)
HoldsIsComplete == Abstract!HoldsIsComplete

-----------------------------------------------------------------------------
(***************************************************************************)
(* The inductive invariant.                                                *)
(***************************************************************************)
(* what the recorded edges lead to from a set of vertices *)
Led(S) == Abstract!Reach(Edges, S)

(* the path of a stack, and the vertex in hand *)
Spine(stack) == {Last(stack[i]) : i \in {j \in 1 .. Len(stack) : stack[j] # << >>}}

(* the edges a stack has still to look at *)
Waiting(stack) == UNION {{Last(stack[i - 1])} \X ToSet(stack[i]) : i \in 2 .. Len(stack)}

(* the graph holds what the start leads to, as far as it was asked for *)
GraphIsReached ==
  /\ start_vertex \in DOMAIN graph
  /\ graph[start_vertex].depth = 0
  /\ accepting \subseteq DOMAIN graph
  /\ DOMAIN graph \subseteq Led({start_vertex})
  /\ \A v \in DOMAIN graph :
       /\ Neighbors(v) \subseteq DOMAIN graph
       /\ v \notin generated => graph[v].neighbors = << >> /\ graph[v].outer = "WHITE"

(* the outer stack begins with the start, and every vertex on its path leads
   to all that lies above *)
OuterStackOK ==
  /\ \A i \in 1 .. Len(to_process) : ToSet(to_process[i]) \subseteq DOMAIN graph
  /\ to_process # << >> => to_process[1] \in {<<start_vertex>>, << >>}
  /\ \A j \in 1 .. Len(to_process) : \A i \in 1 .. j - 1 :
       ToSet(to_process[j]) \subseteq Led(Neighbors(Last(to_process[i])))

(* the inner stack begins with the accepting vertex it was started for, and
   this vertex leads to all that lies above *)
InnerStackOK ==
  /\ pc # "inner" /\ ~ accepting_found => inner_process = << >>
  /\ inner_process # << >> => inner_process[1] \in {<<inner_start>>, << >>}
  /\ \A i \in 1 .. Len(inner_process) : ToSet(inner_process[i]) \subseteq DOMAIN graph
  /\ \A i \in 2 .. Len(inner_process) :
       ToSet(inner_process[i]) \subseteq Led(Neighbors(inner_start))
  /\ pc = "inner" \/ accepting_found => inner_start \in accepting \cap generated
  /\ accepting_found => inner_start \in Led(Neighbors(inner_start))

(* a search that was cut and has no limit is not over, and the verdict tells
   how the search ended *)
VerdictOK ==
  /\ depth_bound > 0
  /\ depth_bound_reached =>
       mode.depth_bounded /\ (mode.max_depth = Unlimited => to_process # << >>)
  /\ pc = "end" <=> output # "none"
  /\ output = "violated" => accepting_found
  /\ output = "holds" => ~ accepting_found /\ to_process = << >>

(* what was entered is on the stack's path or has only entered neighbours *)
OuterIsClosed ==
  /\ \/ graph[start_vertex].outer # "WHITE"
     \/ to_process # << >> /\ to_process[1] = <<start_vertex>>
  /\ \A v \in DOMAIN graph : graph[v].outer # "WHITE" =>
       \A w \in Neighbors(v) : graph[w].outer # "WHITE" \/ <<v, w>> \in Waiting(to_process)
  /\ \A v \in DOMAIN graph : graph[v].outer = "GRAY" =>
       v \in IF pc = "inner" THEN Path(to_process) ELSE Spine(to_process)

(* between the inner searches, what they visited has been left by the outer
   search, is off its path, and is closed *)
VisitedIsLeft ==
  \A v \in DOMAIN graph : graph[v].inner # "WHITE" =>
    /\ graph[v].inner = "BLACK"
    /\ graph[v].outer = "BLACK"
    /\ v \notin Path(to_process)
    /\ \A w \in Neighbors(v) : graph[w].inner # "WHITE"

(* during an inner search, every vertex of the outer path leads to its start,
   and no edge back to the start has been passed over *)
InnerIsClosed ==
  /\ graph[inner_start].outer = "BLACK"
  /\ \A v \in Path(to_process) : inner_start \in Led(Neighbors(v))
  /\ \/ graph[inner_start].inner # "WHITE"
     \/ inner_process # << >> /\ inner_process[1] = <<inner_start>>
  /\ \A v \in DOMAIN graph : graph[v].inner # "WHITE" =>
       /\ graph[v].outer = "BLACK" \/ v \in Led({inner_start})
       /\ graph[v].inner = "GRAY" => v \in Spine(inner_process)
       /\ inner_start \notin Neighbors(v)
       /\ \A w \in Neighbors(v) : graph[w].inner # "WHITE" \/ <<v, w>> \in Waiting(inner_process)

(* the vertex leads to nothing that is still to be asked for, nor to itself *)
Sealed(v) == Led(Neighbors(v)) \subseteq generated /\ v \notin Led(Neighbors(v))

(* an accepting vertex that was left is on no cycle, now or later *)
AcceptingAreSealed ==
  \A v \in accepting : graph[v].outer = "BLACK" /\ ~ (pc = "inner" /\ v = inner_start) => Sealed(v)

(* All of this together: what the stacks hold is always true, what was left
   is closed as long as no cycle is found and nothing is cut. *)
SearchInv ==
  /\ GraphIsReached /\ StacksArePaths /\ OuterStackOK /\ InnerStackOK /\ VerdictOK
  /\ ~ accepting_found /\ ~ depth_bound_reached =>
       /\ OuterIsClosed
       /\ IF pc = "inner" THEN InnerIsClosed ELSE VisitedIsLeft
       /\ AcceptingAreSealed

-----------------------------------------------------------------------------
(* The search does what the abstract one allows. *)
Refinement == Abstract!Spec

(* The search ends on every finite graph, iterative or not. *)
Termination == <>(pc = "end")
=============================================================================
