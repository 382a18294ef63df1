-------------------------- MODULE NestedDfsProofs --------------------------
(***************************************************************************)
(* The nested depth-first search is right for every graph, finite or not,  *)
(* every choice of accepting vertices and every mode.                      *)
(***************************************************************************)
EXTENDS NestedDfs, SequenceLemmas, TLAPS

-----------------------------------------------------------------------------
(* Stacks.                                                                 *)

(* A stack that loses its top vector. *)
LEMMA StackDropped ==
  ASSUME NEW stack \in Stack, stack # << >>
  PROVE  /\ Front(stack) \in Stack
         /\ Len(stack) \in Nat \ {0}
         /\ Len(Front(stack)) = Len(stack) - 1
         /\ \A i \in 1 .. Len(stack) - 1 : Front(stack)[i] = stack[i]
         /\ Top(stack) = stack[Len(stack)] /\ Top(stack) \in Seq(Vertex)
  BY FrontAndLast DEF Stack, Top

(* A stack that loses the vertex in hand. *)
LEMMA StackPopped ==
  ASSUME NEW stack \in Stack, stack # << >>, Top(stack) # << >>
  PROVE  /\ PopBack(stack) \in Stack /\ PopBack(stack) # << >>
         /\ Len(stack) \in Nat \ {0}
         /\ Len(PopBack(stack)) = Len(stack)
         /\ \A i \in 1 .. Len(stack) - 1 : PopBack(stack)[i] = stack[i]
         /\ PopBack(stack)[Len(stack)] = Front(stack[Len(stack)])
         /\ stack[Len(stack)] \in Seq(Vertex) /\ stack[Len(stack)] # << >>
         /\ Current(stack) = Last(stack[Len(stack)]) /\ Current(stack) \in Vertex
         /\ ToSet(stack[Len(stack)]) = ToSet(Front(stack[Len(stack)])) \cup {Current(stack)}
<1>1. /\ Front(stack) \in Seq(Seq(Vertex))
      /\ Len(stack) \in Nat \ {0}
      /\ Len(Front(stack)) = Len(stack) - 1
      /\ \A i \in 1 .. Len(stack) - 1 : Front(stack)[i] = stack[i]
      /\ Last(stack) = stack[Len(stack)]
      /\ Last(stack) \in Seq(Vertex)
  BY FrontAndLast DEF Stack
<1> DEFINE top == stack[Len(stack)]
<1>2. top \in Seq(Vertex) /\ top # << >>
  BY <1>1 DEF Top
<1>3. Front(top) \in Seq(Vertex) /\ Last(top) \in Vertex /\ ToSet(top) = ToSet(Front(top)) \cup {Last(top)}
  BY <1>2, FrontAndLast
<1>4. PopBack(stack) = Append(Front(stack), Front(top)) /\ Current(stack) = Last(top)
  BY <1>1 DEF PopBack, Current
<1>5. QED
  BY <1>1, <1>2, <1>3, <1>4, Appending DEF Stack

(* The edges a stack has still to look at. *)
LEMMA WaitingPairs ==
  ASSUME NEW stack, NEW v, NEW w
  PROVE  <<v, w>> \in Waiting(stack) <=>
           \E i \in 2 .. Len(stack) : v = Last(stack[i - 1]) /\ w \in ToSet(stack[i])
  BY DEF Waiting

(* No vector is empty but the one on top. *)
BelowFilled(stack) == \A i \in 1 .. Len(stack) - 1 : stack[i] # << >>

(* What a stack that loses its top vector keeps. *)
LEMMA DropKeeps ==
  ASSUME NEW stack \in Stack, stack # << >>, BelowFilled(stack)
  PROVE  /\ Path(Front(stack)) \subseteq Path(stack)
         /\ Spine(Front(stack)) = Path(stack)
         /\ Top(stack) = << >> =>
              Spine(stack) \subseteq Path(stack) /\ Waiting(stack) \subseteq Waiting(Front(stack))
<1> DEFINE short == Front(stack)
<1>1. /\ Len(stack) \in Nat \ {0} /\ Len(short) = Len(stack) - 1
      /\ \A i \in 1 .. Len(stack) - 1 : short[i] = stack[i]
      /\ Top(stack) = stack[Len(stack)] /\ Top(stack) \in Seq(Vertex)
  BY StackDropped
<1> HIDE DEF short
<1>2. Path(short) \subseteq Path(stack)
  BY <1>1 DEF Path
<1>3. Spine(short) = Path(stack)
  BY <1>1 DEF Path, Spine, BelowFilled
<1>4. ASSUME Top(stack) = << >>
      PROVE  Spine(stack) \subseteq Path(stack) /\ Waiting(stack) \subseteq Waiting(short)
  <2>1. Spine(stack) \subseteq Path(stack)
    <3>1. ASSUME NEW i \in 1 .. Len(stack), stack[i] # << >> PROVE i \in 1 .. Len(stack) - 1
      <4>1. i # Len(stack)
        BY <1>1, <1>4, <3>1
      <4>2. QED
        BY <1>1, <4>1
    <3>2. QED
      BY <3>1 DEF Path, Spine
  <2>2. ASSUME NEW i \in 2 .. Len(stack), NEW w \in ToSet(stack[i])
        PROVE  i \in 2 .. Len(short) /\ short[i] = stack[i] /\ short[i - 1] = stack[i - 1]
    <3>1. i # Len(stack)
      BY <1>1, <1>4, <2>2, SetOfSequence
    <3>2. QED
      BY <1>1, <3>1
  <2>3. Waiting(stack) \subseteq Waiting(short)
    BY <2>2 DEF Waiting
  <2>4. QED
    BY <2>1, <2>3
<1>5. QED
  BY <1>2, <1>3, <1>4 DEF short

(* What a stack that loses the vertex in hand keeps. *)
LEMMA PopKeeps ==
  ASSUME NEW stack \in Stack, stack # << >>, Top(stack) # << >>
  PROVE  /\ Path(PopBack(stack)) = Path(stack)
         /\ BelowFilled(stack) => BelowFilled(PopBack(stack)) /\ Path(stack) \subseteq Spine(PopBack(stack))
         /\ Spine(stack) \subseteq Path(stack) \cup {Current(stack)}
         /\ \A v, w : <<v, w>> \in Waiting(stack) =>
                       <<v, w>> \in Waiting(PopBack(stack)) \/ w = Current(stack)
<1> DEFINE p == PopBack(stack)
           n == Len(stack)
           x == Current(stack)
<1>1. /\ n \in Nat \ {0} /\ Len(p) = n
      /\ \A i \in 1 .. n - 1 : p[i] = stack[i]
      /\ p[n] = Front(stack[n])
      /\ x = Last(stack[n])
      /\ ToSet(stack[n]) = ToSet(p[n]) \cup {x}
  BY StackPopped
<1> HIDE DEF p, x
<1>2. Path(p) = Path(stack)
  BY <1>1 DEF Path
<1>3. Spine(stack) \subseteq Path(stack) \cup {x}
  BY <1>1 DEF Path, Spine
<1>4. BelowFilled(stack) => BelowFilled(p) /\ Path(stack) \subseteq Spine(p)
  BY <1>1 DEF Path, Spine, BelowFilled
<1>5. ASSUME NEW v, NEW w, <<v, w>> \in Waiting(stack), w # x
      PROVE  <<v, w>> \in Waiting(p)
  <2>1. PICK i \in 2 .. n : v = Last(stack[i - 1]) /\ w \in ToSet(stack[i])
    BY <1>5, WaitingPairs
  <2>2. v = Last(p[i - 1]) /\ w \in ToSet(p[i])
    BY <1>1, <1>5, <2>1
  <2>3. QED
    BY <1>1, <2>2, WaitingPairs
<1>6. QED
  BY <1>2, <1>3, <1>4, <1>5 DEF p, x

(* What a stack keeps and gains when the vertex in hand is entered. *)
LEMMA PushKeeps ==
  ASSUME NEW stack \in Stack, stack # << >>, Top(stack) # << >>, NEW q \in Seq(Vertex)
  PROVE  /\ Append(stack, q) \in Stack /\ Append(stack, q) # << >>
         /\ Len(stack) \in Nat \ {0} /\ Len(Append(stack, q)) = Len(stack) + 1
         /\ \A i \in 1 .. Len(stack) : Append(stack, q)[i] = stack[i]
         /\ Append(stack, q)[Len(stack) + 1] = q
         /\ Path(Append(stack, q)) = Path(stack) \cup {Current(stack)}
         /\ BelowFilled(stack) => BelowFilled(Append(stack, q))
         /\ Spine(stack) \cup {Current(stack)} \subseteq Spine(Append(stack, q))
         /\ Waiting(stack) \subseteq Waiting(Append(stack, q))
         /\ \A w \in ToSet(q) : <<Current(stack), w>> \in Waiting(Append(stack, q))
<1> DEFINE p == Append(stack, q)
           n == Len(stack)
           x == Current(stack)
<1>1. /\ n \in Nat \ {0} /\ stack[n] # << >> /\ x = Last(stack[n])
  BY StackPopped
<1>2. /\ p \in Stack /\ p # << >> /\ Len(p) = n + 1
      /\ \A i \in 1 .. n : p[i] = stack[i]
      /\ p[n + 1] = q
  BY Appending DEF Stack
<1> HIDE DEF p, x
<1>3. Path(p) = Path(stack) \cup {x}
  BY <1>1, <1>2 DEF Path
<1>4. BelowFilled(stack) => BelowFilled(p)
  BY <1>1, <1>2 DEF BelowFilled
<1>5. Spine(stack) \cup {x} \subseteq Spine(p)
  BY <1>1, <1>2 DEF Spine
<1>6. Waiting(stack) \subseteq Waiting(p)
  BY <1>1, <1>2 DEF Waiting
<1>7. ASSUME NEW w \in ToSet(q) PROVE <<x, w>> \in Waiting(p)
  <2>1. n + 1 \in 2 .. Len(p) /\ x = Last(p[n + 1 - 1]) /\ w \in ToSet(p[n + 1])
    BY <1>1, <1>2
  <2>2. QED
    BY <2>1, WaitingPairs
<1>8. QED
  BY <1>1, <1>2, <1>3, <1>4, <1>5, <1>6, <1>7 DEF p, x

-----------------------------------------------------------------------------
(* What a graph leads to.                                                  *)

Graph == UNION {[D -> SUBSET Vertex] : D \in SUBSET Vertex}

(* h is g with perhaps more vertices asked for *)
Learnt(g, h) == DOMAIN g \subseteq DOMAIN h /\ \A v \in DOMAIN g : h[v] = g[v]

(* Reach is the least set that holds S and is closed under the edges. *)
LEMMA ReachLeast ==
  ASSUME NEW g \in Graph, NEW S \in SUBSET Vertex
  PROVE  /\ S \subseteq Abstract!Reach(g, S) /\ Abstract!Reach(g, S) \subseteq Vertex
         /\ \A v \in Abstract!Reach(g, S) \cap DOMAIN g : g[v] \subseteq Abstract!Reach(g, S)
         /\ \A T \in SUBSET Vertex :
              S \subseteq T /\ (\A v \in T \cap DOMAIN g : g[v] \subseteq T) =>
                Abstract!Reach(g, S) \subseteq T
<1>1. \A v \in DOMAIN g : g[v] \subseteq Vertex
  BY DEF Graph
<1>2. S \subseteq Abstract!Reach(g, S) /\ Abstract!Reach(g, S) \subseteq Vertex
  BY DEF Abstract!Reach
<1>3. ASSUME NEW v \in Abstract!Reach(g, S) \cap DOMAIN g, NEW w \in g[v]
      PROVE  w \in Abstract!Reach(g, S)
  BY <1>1, <1>3 DEF Abstract!Reach
<1>4. \A T \in SUBSET Vertex :
        S \subseteq T /\ (\A v \in T \cap DOMAIN g : g[v] \subseteq T) =>
          Abstract!Reach(g, S) \subseteq T
  BY DEF Abstract!Reach
<1>5. QED
  BY <1>2, <1>3, <1>4

(* More to start from leads to more; what is led to leads to nothing new. *)
LEMMA ReachMonotone ==
  ASSUME NEW g \in Graph, NEW S \in SUBSET Vertex, NEW U \in SUBSET Abstract!Reach(g, S)
  PROVE  Abstract!Reach(g, U) \subseteq Abstract!Reach(g, S)
<1>1. U \in SUBSET Vertex
  BY ReachLeast
<1>2. QED
  BY <1>1, ReachLeast

(* A larger graph leads to more. *)
LEMMA ReachGrows ==
  ASSUME NEW g \in Graph, NEW h \in Graph, Learnt(g, h), NEW S \in SUBSET Vertex
  PROVE  Abstract!Reach(g, S) \subseteq Abstract!Reach(h, S)
<1> DEFINE T == Abstract!Reach(h, S)
<1>1. S \subseteq T /\ T \in SUBSET Vertex /\ \A v \in T \cap DOMAIN h : h[v] \subseteq T
  BY ReachLeast
<1>2. \A v \in T \cap DOMAIN g : g[v] \subseteq T
  BY <1>1 DEF Learnt
<1> HIDE DEF T
<1>3. Abstract!Reach(g, S) \subseteq T
  BY <1>1, <1>2, ReachLeast
<1>4. QED
  BY <1>3 DEF T

(* Unless nothing of what it leads to was still to be asked for. *)
LEMMA ReachSealed ==
  ASSUME NEW g \in Graph, NEW h \in Graph, Learnt(g, h), NEW S \in SUBSET Vertex,
         Abstract!Reach(g, S) \subseteq DOMAIN g
  PROVE  Abstract!Reach(h, S) \subseteq Abstract!Reach(g, S)
<1> DEFINE T == Abstract!Reach(g, S)
<1>1. S \subseteq T /\ T \in SUBSET Vertex /\ \A v \in T \cap DOMAIN g : g[v] \subseteq T
  BY ReachLeast
<1>2. \A v \in T \cap DOMAIN h : h[v] \subseteq T
  BY <1>1 DEF Learnt
<1> HIDE DEF T
<1>3. Abstract!Reach(h, S) \subseteq T
  BY <1>1, <1>2, ReachLeast
<1>4. QED
  BY <1>3 DEF T

(* A vertex leads to itself and to what its successors lead to. *)
LEMMA ReachFrom ==
  ASSUME NEW g \in Graph, NEW v \in DOMAIN g
  PROVE  Abstract!Reach(g, {v}) = {v} \cup Abstract!Reach(g, g[v])
<1>1. v \in Vertex /\ g[v] \in SUBSET Vertex
  BY DEF Graph
<1>2. v \in Abstract!Reach(g, {v}) /\ g[v] \subseteq Abstract!Reach(g, {v})
  BY <1>1, ReachLeast
<1>3. Abstract!Reach(g, g[v]) \subseteq Abstract!Reach(g, {v})
  BY <1>1, <1>2, ReachMonotone
<1> DEFINE T == {v} \cup Abstract!Reach(g, g[v])
<1>4. T \in SUBSET Vertex /\ \A w \in T \cap DOMAIN g : g[w] \subseteq T
  BY <1>1, ReachLeast
<1>5. {v} \subseteq T /\ {v} \in SUBSET Vertex
  BY <1>1
<1> HIDE DEF T
<1>6. Abstract!Reach(g, {v}) \subseteq T
  BY <1>4, <1>5, ReachLeast
<1>7. QED
  BY <1>2, <1>3, <1>6 DEF T

-----------------------------------------------------------------------------
(* Type correctness.                                                       *)

(* What entering a vertex does to the graph: the vertex turns GRAY, its
   neighbours are all known and are pushed, and nothing else changes. *)
Entered(v) ==
  /\ graph' \in [DOMAIN graph' -> VertexInfo] /\ DOMAIN graph' \subseteq Vertex
  /\ DOMAIN graph' = DOMAIN graph \cup ToSet(graph'[v].neighbors)
  /\ \A w \in DOMAIN graph \ {v} : graph'[w] = graph[w]
  /\ \A w \in DOMAIN graph' \ DOMAIN graph : graph'[w].outer = "WHITE" /\ graph'[w].inner = "WHITE"
                                           /\ graph'[w].neighbors = << >>
  /\ graph'[v].outer = "GRAY" /\ graph'[v].inner = graph[v].inner /\ graph'[v].depth = graph[v].depth
  /\ v \in generated => graph'[v].neighbors = graph[v].neighbors
  /\ to_process' = Append(to_process, graph'[v].neighbors)
  /\ graph'[v].neighbors \in Seq(Vertex)

LEMMA EnterEffect ==
  ASSUME TypeOK, NEW v \in DOMAIN graph, NEW succ \in Answers, NEW acc,
         Neighbors(v) \subseteq DOMAIN graph, v \notin generated => graph[v].neighbors = << >>,
         MayAnswer(v, succ, acc), Enter(v, succ, acc)
  PROVE  Entered(v) /\ acc \subseteq DOMAIN graph' \ DOMAIN graph
<1> DEFINE known == graph[v].neighbors
           h == AddSuccessors(graph, v, succ, graph[v].depth + 1)
           g == IF known = << >> THEN h ELSE graph
<1>1. /\ graph \in [DOMAIN graph -> VertexInfo] /\ DOMAIN graph \subseteq Vertex
      /\ graph[v] \in VertexInfo /\ known \in Seq(Vertex) /\ graph[v].depth + 1 \in Nat
      /\ succ \in Seq(Vertex)
  BY AnswersAssumption DEF TypeOK, VertexInfo
<1>2. /\ graph' = [g EXCEPT ![v].outer = "GRAY"]
      /\ to_process' = Append(to_process, IF known = << >> THEN succ ELSE known)
  BY DEF Enter
<1>3. /\ g \in [DOMAIN g -> VertexInfo] /\ DOMAIN g \subseteq Vertex
      /\ DOMAIN g = DOMAIN graph \cup ToSet(g[v].neighbors)
      /\ \A w \in DOMAIN graph \ {v} : g[w] = graph[w]
      /\ \A w \in DOMAIN g \ DOMAIN graph : g[w].outer = "WHITE" /\ g[w].inner = "WHITE"
                                               /\ g[w].neighbors = << >>
      /\ g[v].inner = graph[v].inner /\ g[v].depth = graph[v].depth
      /\ g[v].neighbors = IF known = << >> THEN succ ELSE known
  <2>1. CASE known = << >>
    <3> DEFINE d == graph[v].depth + 1
    <3>1. /\ DOMAIN h = DOMAIN graph \cup ToSet(succ) /\ DOMAIN h \subseteq Vertex
          /\ \A w \in DOMAIN h \ DOMAIN graph : h[w] = Fresh(d)
          /\ \A w \in DOMAIN graph \ {v} : h[w] = graph[w]
          /\ h[v] = [graph[v] EXCEPT !.neighbors = graph[v].neighbors \o succ]
      <4>1. ToSet(succ) \subseteq Vertex
        BY <1>1, SetOfSequence
      <4>2. QED
        BY <1>1, <4>1 DEF AddSuccessors
    <3>2. graph[v].neighbors \o succ = succ
      BY <1>1, <2>1, ConcatEmptySeq
    <3>3. /\ h[v] \in VertexInfo /\ h[v].neighbors = succ
          /\ h[v].inner = graph[v].inner /\ h[v].depth = graph[v].depth
      BY <1>1, <3>1, <3>2 DEF VertexInfo
    <3>4. \A w \in DOMAIN h \ DOMAIN graph :
            h[w].outer = "WHITE" /\ h[w].inner = "WHITE" /\ h[w].neighbors = << >>
      BY <3>1 DEF Fresh
    <3>5. g = h
      BY <2>1
    <3>6. Fresh(d) \in VertexInfo
      BY <1>1 DEF Fresh, VertexInfo, Color
    <3>7. h = [w \in DOMAIN h |-> h[w]]
      BY DEF AddSuccessors
    <3> HIDE DEF d, h
    <3>8. \A w \in DOMAIN h : h[w] \in VertexInfo
      BY <1>1, <3>1, <3>3, <3>6
    <3>9. h \in [DOMAIN h -> VertexInfo]
      BY <3>7, <3>8
    <3> HIDE DEF g, known
    <3>10. QED
      BY <2>1, <3>1, <3>3, <3>4, <3>5, <3>9
  <2>2. CASE known # << >>
    BY <1>1, <2>2 DEF Neighbors
  <2>3. QED
    BY <2>1, <2>2
<1> HIDE DEF g
<1>4. /\ DOMAIN graph' = DOMAIN g /\ v \in DOMAIN g
      /\ \A w \in DOMAIN g \ {v} : graph'[w] = g[w]
      /\ graph'[v] = [g[v] EXCEPT !.outer = "GRAY"]
  BY <1>2, <1>3
<1>5. /\ g[v] \in VertexInfo
      /\ graph'[v] \in VertexInfo
      /\ graph'[v].outer = "GRAY" /\ graph'[v].inner = g[v].inner
      /\ graph'[v].depth = g[v].depth /\ graph'[v].neighbors = g[v].neighbors
  BY <1>3, <1>4 DEF VertexInfo, Color
<1>6. graph' \in [DOMAIN graph' -> VertexInfo]
  <2>1. graph' = [w \in DOMAIN g |-> graph'[w]]
    BY <1>2
  <2>2. \A w \in DOMAIN g : graph'[w] \in VertexInfo
    BY <1>3, <1>4, <1>5
  <2>3. QED
    BY <1>4, <2>1, <2>2
<1>7. v \in generated => g[v].neighbors = known
  BY <1>3 DEF MayAnswer
<1>8. to_process' = Append(to_process, graph'[v].neighbors) /\ graph'[v].neighbors \in Seq(Vertex)
  BY <1>1, <1>2, <1>3, <1>5
<1>9. acc \subseteq DOMAIN graph' \ DOMAIN graph
  <2>1. acc \subseteq ToSet(succ) \ DOMAIN graph
    BY DEF MayAnswer
  <2>2. v \notin generated \/ known = << >> \/ succ = known
    BY DEF MayAnswer
  <2>3. ToSet(succ) \subseteq DOMAIN g
    <3>1. CASE known = << >>
      BY <1>3, <3>1
    <3>2. CASE known # << >>
      BY <1>3, <2>2, <3>2
    <3>3. QED
      BY <3>1, <3>2
  <2>4. QED
    BY <1>4, <2>1, <2>3
<1>10. Entered(v)
  BY <1>3, <1>4, <1>5, <1>6, <1>7, <1>8 DEF Entered
<1>11. QED
  BY <1>9, <1>10

(* The graph keeps its vertices and edges; colours may change. *)
OnlyColors ==
  /\ graph' \in [DOMAIN graph -> VertexInfo] /\ DOMAIN graph' = DOMAIN graph
  /\ \A w \in DOMAIN graph : /\ graph'[w].neighbors = graph[w].neighbors
                             /\ graph'[w].depth = graph[w].depth
  /\ UNCHANGED <<start_vertex, accepting, generated>>

(* A vertex takes another colour in the outer search. *)
LEMMA OuterColored ==
  ASSUME TypeOK, NEW v \in DOMAIN graph, NEW c \in Color,
         graph' = [graph EXCEPT ![v].outer = c],
         UNCHANGED <<start_vertex, accepting, generated>>
  PROVE  /\ OnlyColors
         /\ \A w \in DOMAIN graph : graph'[w].inner = graph[w].inner
         /\ \A w \in DOMAIN graph \ {v} : graph'[w].outer = graph[w].outer
         /\ graph'[v].outer = c
<1>1. \A w \in DOMAIN graph : graph[w] \in VertexInfo
  BY DEF TypeOK
<1>2. \A w \in DOMAIN graph : graph'[w] = IF w = v THEN [graph[v] EXCEPT !.outer = c] ELSE graph[w]
  OBVIOUS
<1>3. QED
  BY <1>1, <1>2 DEF OnlyColors, VertexInfo

(* A vertex takes another colour in the inner searches. *)
LEMMA InnerColored ==
  ASSUME TypeOK, NEW v \in DOMAIN graph, NEW c \in Color,
         graph' = [graph EXCEPT ![v].inner = c],
         UNCHANGED <<start_vertex, accepting, generated>>
  PROVE  /\ OnlyColors
         /\ \A w \in DOMAIN graph : graph'[w].outer = graph[w].outer
         /\ \A w \in DOMAIN graph \ {v} : graph'[w].inner = graph[w].inner
         /\ graph'[v].inner = c
<1>1. \A w \in DOMAIN graph : graph[w] \in VertexInfo
  BY DEF TypeOK
<1>2. \A w \in DOMAIN graph : graph'[w] = IF w = v THEN [graph[v] EXCEPT !.inner = c] ELSE graph[w]
  OBVIOUS
<1>3. QED
  BY <1>1, <1>2 DEF OnlyColors, VertexInfo

(* Every vertex is WHITE again. *)
LEMMA AllReset ==
  ASSUME TypeOK, graph' = Reset(graph), UNCHANGED <<start_vertex, accepting, generated>>
  PROVE  /\ OnlyColors
         /\ \A w \in DOMAIN graph : graph'[w].inner = "WHITE" /\ graph'[w].outer = "WHITE"
<1>1. \A w \in DOMAIN graph : graph[w] \in VertexInfo
  BY DEF TypeOK
<1>2. \A w \in DOMAIN graph : graph'[w] = [graph[w] EXCEPT !.outer = "WHITE", !.inner = "WHITE"]
  BY DEF Reset
<1>3. DOMAIN graph' = DOMAIN graph
  BY DEF Reset
<1>4. \A w \in DOMAIN graph : graph'[w] \in VertexInfo
  BY <1>1, <1>2 DEF VertexInfo, Color
<1>5. graph' \in [DOMAIN graph -> VertexInfo]
  BY <1>3, <1>4 DEF Reset
<1>6. QED
  BY <1>1, <1>2, <1>3, <1>5 DEF OnlyColors, VertexInfo

(* Nothing changes. *)
LEMMA SameGraph ==
  ASSUME TypeOK, UNCHANGED <<graph, start_vertex, accepting, generated>>
  PROVE  OnlyColors
  BY DEF OnlyColors, TypeOK

(* The recorded edges are a graph. *)
LEMMA EdgesAreGraph ==
  ASSUME TypeOK
  PROVE  /\ Edges \in Graph /\ DOMAIN Edges = generated /\ generated \subseteq Vertex
         /\ \A v \in DOMAIN graph : v \in Vertex /\ Neighbors(v) \in SUBSET Vertex
         /\ \A v \in generated : Edges[v] = Neighbors(v)
<1>1. ASSUME NEW v \in DOMAIN graph PROVE v \in Vertex /\ Neighbors(v) \in SUBSET Vertex
  <2>1. graph[v].neighbors \in Seq(Vertex)
    BY DEF TypeOK, VertexInfo
  <2>2. QED
    BY <2>1, SetOfSequence DEF Neighbors, TypeOK
<1>2. generated \subseteq DOMAIN graph /\ generated \subseteq Vertex
  BY DEF TypeOK
<1>3. Edges \in [generated -> SUBSET Vertex]
  BY <1>1, <1>2 DEF Edges
<1>4. QED
  BY <1>1, <1>2, <1>3 DEF Edges, Graph

(* With the edges, what they lead to stays the same. *)
LEMMA ColorsKeepEdges ==
  ASSUME TypeOK, OnlyColors
  PROVE  /\ Edges' = Edges
         /\ \A S : Led(S)' = Led(S)
         /\ \A v \in DOMAIN graph : /\ Neighbors(v)' = Neighbors(v)
                                    /\ Led(Neighbors(v))' = Led(Neighbors(v))
                                    /\ Sealed(v)' <=> Sealed(v)
<1>1. \A v \in DOMAIN graph : Neighbors(v)' = Neighbors(v)
  BY DEF OnlyColors, Neighbors
<1>2. generated' = generated /\ generated \subseteq DOMAIN graph
  BY DEF OnlyColors, TypeOK
<1>3. Edges' = Edges
  BY <1>1, <1>2 DEF Edges
<1>4. \A S : Led(S)' = Led(S)
  BY <1>3 DEF Led
<1>5. \A v \in DOMAIN graph : Led(Neighbors(v))' = Led(Neighbors(v))
  BY <1>1, <1>3 DEF Led
<1>6. \A v \in DOMAIN graph : Sealed(v)' <=> Sealed(v)
  BY <1>2, <1>5 DEF Sealed
<1>7. QED
  BY <1>1, <1>3, <1>4, <1>5, <1>6

(* Every step keeps the types. *)
LEMMA TypeStep ==
  ASSUME TypeOK, GraphIsReached, [Next]_vars
  PROVE  TypeOK'
<1> USE DEF Color
<1>1. CASE Retreat
  <2>1. /\ to_process \in Stack /\ to_process # << >> /\ Front(to_process) \in Stack
        /\ start_vertex \in Vertex /\ << <<start_vertex>> >> \in Stack
    BY <1>1, StackDropped DEF TypeOK, Stack, Retreat, Searching
  <2> DEFINE larger == IF mode.max_depth # Unlimited /\ mode.max_depth < 2 * depth_bound
                       THEN mode.max_depth ELSE 2 * depth_bound
             again == /\ graph' = Reset(graph)
                      /\ depth_bound' = larger
                      /\ depth_bound_reached' = FALSE
                      /\ to_process' = << <<start_vertex>> >>
             back == to_process' = Front(to_process)
                     /\ UNCHANGED <<graph, depth_bound, depth_bound_reached>>
  <2>2. again \/ back
    BY <1>1 DEF Retreat
  <2>3. larger \in Nat
    <3>1. mode.max_depth # Unlimited => mode.max_depth \in Nat
      BY ModesAssumption DEF TypeOK
    <3>2. 2 * depth_bound \in Nat
      BY DEF TypeOK
    <3>3. QED
      BY <3>1, <3>2
  <2> HIDE DEF larger
  <2>4. CASE again
    <3>1. OnlyColors
      BY <1>1, <2>4, AllReset DEF Retreat, UnchangedByOuter
    <3>2. QED
      BY <1>1, <2>1, <2>3, <2>4, <3>1 DEF TypeOK, OnlyColors, Retreat, UnchangedByOuter
  <2>5. CASE back
    BY <1>1, <2>1, <2>5 DEF TypeOK, Retreat, UnchangedByOuter
  <2>6. QED
    BY <2>2, <2>4, <2>5
<1>2. CASE CutOff
  BY <1>2, StackDropped DEF TypeOK, CutOff, Searching, UnchangedByOuter
<1>3. CASE InnerRetreat
  BY <1>3, StackDropped DEF TypeOK, InnerRetreat, InnerSearching, UnchangedByInner
<1>4. CASE InnerReturn
  BY <1>4 DEF TypeOK, InnerReturn
<1>5. CASE Finish
  BY <1>5 DEF TypeOK, Finish
<1>6. ASSUME NEW v \in DOMAIN graph, Backtrack(v) PROVE TypeOK'
  <2>1. graph' = [graph EXCEPT ![v].outer = "BLACK"] /\ UNCHANGED <<start_vertex, accepting, generated>>
    BY <1>6 DEF Backtrack
  <2>2. OnlyColors
    BY <2>1, OuterColored
  <2>3. PopBack(to_process) \in Stack
    BY <1>6, StackPopped DEF TypeOK, Backtrack, InHand, Searching
  <2>4. v \in Vertex /\ << <<v>> >> \in Stack
    BY DEF TypeOK, Stack
  <2>5. pc' \in {"outer", "inner", "end"} /\ inner_start' \in Vertex /\ inner_process' \in Stack
    BY <1>6, <2>4 DEF Backtrack, TypeOK
  <2>6. QED
    BY <1>6, <2>2, <2>3, <2>5 DEF TypeOK, OnlyColors, Backtrack
<1>7. ASSUME NEW v \in DOMAIN graph, Skip(v) PROVE TypeOK'
  BY <1>7, StackPopped DEF TypeOK, Skip, InHand, Searching, UnchangedByOuter
<1>8. ASSUME NEW v \in DOMAIN graph, InnerEnter(v) PROVE TypeOK'
  <2>1. OnlyColors
    BY <1>8, InnerColored DEF InnerEnter, UnchangedByInner
  <2>2. graph[v].neighbors \in Seq(Vertex)
    BY DEF TypeOK, VertexInfo
  <2>3. Append(inner_process, graph[v].neighbors) \in Stack
    BY <2>2, Appending DEF TypeOK, Stack
  <2>4. accepting_found' \in BOOLEAN
    BY <1>8 DEF InnerEnter
  <2>5. QED
    BY <1>8, <2>1, <2>3, <2>4 DEF TypeOK, OnlyColors, InnerEnter, UnchangedByInner
<1>9. ASSUME NEW v \in DOMAIN graph, InnerLeave(v) PROVE TypeOK'
  <2>1. OnlyColors
    BY <1>9, InnerColored DEF InnerLeave, UnchangedByInner
  <2>2. PopBack(inner_process) \in Stack
    BY <1>9, StackPopped DEF TypeOK, InnerLeave, InnerInHand, InnerSearching
  <2>3. QED
    BY <1>9, <2>1, <2>2 DEF TypeOK, OnlyColors, InnerLeave, UnchangedByInner
<1>10. ASSUME NEW v \in DOMAIN graph, InnerSkip(v) PROVE TypeOK'
  BY <1>10, StackPopped DEF TypeOK, InnerSkip, InnerInHand, InnerSearching, UnchangedByInner
<1>11. ASSUME NEW v \in DOMAIN graph, NEW succ \in Answers, NEW acc \in SUBSET Vertex,
              MayAnswer(v, succ, acc), Enter(v, succ, acc)
       PROVE  TypeOK'
  <2>1. Entered(v) /\ acc \subseteq DOMAIN graph' \ DOMAIN graph
    BY <1>11, EnterEffect DEF GraphIsReached
  <2>2. to_process' \in Stack
    BY <2>1, Appending DEF Entered, TypeOK, Stack
  <2>3. generated' \subseteq DOMAIN graph' /\ accepting' \subseteq Vertex
    BY <1>11, <2>1 DEF Enter, Entered, TypeOK
  <2>4. QED
    BY <1>11, <2>1, <2>2, <2>3 DEF TypeOK, Entered, Enter, UnchangedByOuter
<1>12. CASE UNCHANGED vars
  BY <1>12 DEF TypeOK, vars
<1>13. QED
  BY <1>1, <1>2, <1>3, <1>4, <1>5, <1>6, <1>7, <1>8, <1>9, <1>10, <1>11, <1>12 DEF Next, Walk

-----------------------------------------------------------------------------
(* What holds of the stacks.                                               *)

(* short is what is left of a stack after some steps back *)
Shorter(short, stack) ==
  /\ Len(short) <= Len(stack)
  /\ \A i \in 1 .. Len(short) - 1 : short[i] = stack[i]
  /\ \A i \in 1 .. Len(short) : /\ short[i] \in Seq(Vertex) /\ stack[i] \in Seq(Vertex)
                                /\ IsPrefix(short[i], stack[i])
                                /\ ToSet(short[i]) \subseteq ToSet(stack[i])

(* The same stack, a stack that lost its top vector or the vertex in hand. *)
LEMMA StepsBack ==
  ASSUME NEW stack \in Stack
  PROVE  /\ Shorter(stack, stack)
         /\ stack # << >> => Shorter(Front(stack), stack)
         /\ stack # << >> /\ Top(stack) # << >> => Shorter(PopBack(stack), stack)
<1>1. \A q \in Seq(Vertex) : IsPrefix(q, q)
  BY PrefixElements
<1>2. Len(stack) \in Nat /\ \A i \in 1 .. Len(stack) : stack[i] \in Seq(Vertex)
  BY DEF Stack
<1>3. Shorter(stack, stack)
  BY <1>1, <1>2 DEF Shorter
<1>4. ASSUME stack # << >> PROVE Shorter(Front(stack), stack)
  <2>1. /\ Len(stack) \in Nat \ {0} /\ Len(Front(stack)) = Len(stack) - 1
        /\ \A i \in 1 .. Len(stack) - 1 : Front(stack)[i] = stack[i]
    BY <1>4, StackDropped
  <2>2. QED
    BY <1>1, <1>2, <2>1 DEF Shorter
<1>5. ASSUME stack # << >>, Top(stack) # << >> PROVE Shorter(PopBack(stack), stack)
  <2> DEFINE p == PopBack(stack)
             n == Len(stack)
  <2>1. /\ n \in Nat \ {0} /\ Len(p) = n
        /\ \A i \in 1 .. n - 1 : p[i] = stack[i]
        /\ p[n] = Front(stack[n]) /\ stack[n] \in Seq(Vertex) /\ stack[n] # << >>
    BY <1>5, StackPopped
  <2> HIDE DEF p
  <2>2. \A q \in Seq(Vertex) : q # << >> =>
          Front(q) \in Seq(Vertex) /\ IsPrefix(Front(q), q) /\ ToSet(Front(q)) \subseteq ToSet(q)
    <3>1. SUFFICES ASSUME NEW q \in Seq(Vertex), q # << >>
                   PROVE  Front(q) \in Seq(Vertex) /\ IsPrefix(Front(q), q)
                          /\ ToSet(Front(q)) \subseteq ToSet(q)
      OBVIOUS
    <3>2. /\ Front(q) \in Seq(Vertex) /\ Len(Front(q)) = Len(q) - 1 /\ Len(q) \in Nat \ {0}
          /\ \A i \in 1 .. Len(q) - 1 : Front(q)[i] = q[i]
          /\ ToSet(q) = ToSet(Front(q)) \cup {Last(q)}
      BY <3>1, FrontAndLast
    <3>3. QED
      BY <3>2, PrefixElements
  <2>3. p[n] \in Seq(Vertex) /\ IsPrefix(p[n], stack[n]) /\ ToSet(p[n]) \subseteq ToSet(stack[n])
    BY <2>1, <2>2
  <2>4. Shorter(p, stack)
    BY <1>1, <1>2, <2>1, <2>3 DEF Shorter
  <2>5. QED
    BY <2>4 DEF p
<1>6. QED
  BY <1>3, <1>4, <1>5

(* A prefix of a prefix is a prefix. *)
LEMMA PrefixTransitive ==
  ASSUME NEW T, NEW p \in Seq(T), NEW q \in Seq(T), NEW r \in Seq(T),
         IsPrefix(p, q), IsPrefix(q, r)
  PROVE  IsPrefix(p, r)
<1>1. Len(p) \in Nat /\ Len(q) \in Nat /\ Len(r) \in Nat
  OBVIOUS
<1>2. /\ Len(p) <= Len(q) /\ \A i \in 1 .. Len(p) : p[i] = q[i]
      /\ Len(q) <= Len(r) /\ \A i \in 1 .. Len(q) : q[i] = r[i]
  BY PrefixElements
<1>3. Len(p) <= Len(r) /\ \A i \in 1 .. Len(p) : p[i] = r[i]
  BY <1>1, <1>2
<1>4. QED
  BY <1>3, PrefixElements

(* A prefix of a sequence of at most one element is one of the two. *)
LEMMA PrefixOfOne ==
  ASSUME NEW T, NEW x \in T, NEW p \in Seq(T), NEW q \in {<<x>>, << >>}, IsPrefix(p, q)
  PROVE  p \in {<<x>>, << >>}
<1>1. Len(p) \in Nat /\ q \in Seq(T) /\ Len(q) <= 1 /\ (Len(q) = 1 => q = <<x>>)
  <2>1. <<x>> \in Seq(T) /\ Len(<<x>>) = 1 /\ << >> \in Seq(T) /\ Len(<< >>) = 0
    OBVIOUS
  <2>2. Len(p) \in Nat
    OBVIOUS
  <2>3. CASE q = <<x>>
    BY <2>1, <2>2, <2>3
  <2>4. CASE q = << >>
    BY <2>1, <2>2, <2>4
  <2>5. QED
    BY <2>3, <2>4
<1>2. Len(p) <= Len(q) /\ \A i \in 1 .. Len(p) : p[i] = q[i]
  BY <1>1, PrefixElements
<1>3. CASE Len(p) = 0
  BY <1>3
<1>4. CASE Len(p) = 1
  <2>1. Len(q) = 1 /\ q = <<x>> /\ p[1] = x
    BY <1>1, <1>2, <1>4
  <2>2. p = <<x>>
    BY <1>4, <2>1
  <2>3. QED
    BY <2>2
<1>5. QED
  BY <1>1, <1>2, <1>3, <1>4

(* The two stacks of StacksArePaths. *)
OuterPath == \A i \in 2 .. Len(to_process) :
  /\ to_process[i - 1] # << >>
  /\ graph[Last(to_process[i - 1])].outer # "WHITE"
  /\ IsPrefix(to_process[i], graph[Last(to_process[i - 1])].neighbors)

InnerPath == \A i \in 2 .. Len(inner_process) :
  /\ inner_process[i - 1] # << >>
  /\ graph[Last(inner_process[i - 1])].inner # "WHITE"
  /\ IsPrefix(inner_process[i], graph[Last(inner_process[i - 1])].neighbors)

LEMMA BothPaths == StacksArePaths <=> OuterPath /\ InnerPath
  BY DEF StacksArePaths, OuterPath, InnerPath

LEMMA BelowAreFilled ==
  ASSUME TypeOK
  PROVE  /\ OuterPath => BelowFilled(to_process)
         /\ InnerPath => BelowFilled(inner_process)
<1>1. Len(to_process) \in Nat /\ Len(inner_process) \in Nat
  BY DEF TypeOK, Stack
<1>2. ASSUME NEW n \in Nat, NEW i \in 1 .. n - 1 PROVE i + 1 \in 2 .. n /\ i + 1 - 1 = i
  OBVIOUS
<1>3. ASSUME OuterPath PROVE BelowFilled(to_process)
  BY <1>1, <1>2, <1>3 DEF BelowFilled, OuterPath
<1>4. ASSUME InnerPath PROVE BelowFilled(inner_process)
  BY <1>1, <1>2, <1>4 DEF BelowFilled, InnerPath
<1>5. QED
  BY <1>3, <1>4

(* After steps back the outer stack is as good as before. *)
LEMMA OuterStepsBack ==
  ASSUME TypeOK, GraphIsReached, OuterPath, OuterStackOK, OnlyColors,
         to_process' \in Stack, Shorter(to_process', to_process),
         \A v \in DOMAIN graph : graph[v].outer # "WHITE" => graph'[v].outer # "WHITE"
  PROVE  OuterPath' /\ OuterStackOK'
<1> DEFINE s == to_process
           p == to_process'
           n == Len(s)
           m == Len(p)
<1>1. /\ n \in Nat /\ m \in Nat /\ m <= n
      /\ \A i \in 1 .. m - 1 : p[i] = s[i]
      /\ \A i \in 1 .. m : /\ p[i] \in Seq(Vertex) /\ s[i] \in Seq(Vertex)
                           /\ IsPrefix(p[i], s[i]) /\ ToSet(p[i]) \subseteq ToSet(s[i])
  <2>1. n \in Nat /\ m \in Nat
    BY DEF TypeOK, Stack
  <2>2. QED
    BY <2>1 DEF Shorter
<1>2. \A i \in 1 .. n : ToSet(s[i]) \subseteq DOMAIN graph
  BY DEF OuterStackOK
<1>3. \A i \in 1 .. n : s[i] # << >> => Last(s[i]) \in DOMAIN graph
  <2>1. \A i \in 1 .. n : s[i] \in Seq(Vertex)
    BY DEF TypeOK, Stack
  <2>2. \A i \in 1 .. n : s[i] # << >> => Last(s[i]) \in ToSet(s[i])
    BY <2>1, FrontAndLast
  <2>3. QED
    BY <1>2, <2>2
<1>4. /\ start_vertex' = start_vertex /\ DOMAIN graph' = DOMAIN graph
      /\ \A v \in DOMAIN graph : graph'[v].neighbors = graph[v].neighbors
      /\ \A v \in DOMAIN graph : graph[v].neighbors \in Seq(Vertex)
      /\ Edges' = Edges
  BY ColorsKeepEdges DEF OnlyColors, TypeOK, VertexInfo
<1>5. ASSUME NEW i \in 2 .. m
      PROVE  /\ p[i - 1] # << >> /\ graph'[Last(p[i - 1])].outer # "WHITE"
             /\ IsPrefix(p[i], graph'[Last(p[i - 1])].neighbors)
  <2>1. i \in 2 .. n /\ i - 1 \in 1 .. m - 1 /\ i - 1 \in 1 .. n /\ i \in 1 .. m
    BY <1>1
  <2>2. p[i - 1] = s[i - 1]
    BY <1>1, <2>1
  <2>3. /\ s[i - 1] # << >> /\ graph[Last(s[i - 1])].outer # "WHITE"
        /\ IsPrefix(s[i], graph[Last(s[i - 1])].neighbors)
    BY <2>1 DEF OuterPath
  <2>4. Last(s[i - 1]) \in DOMAIN graph
    BY <1>3, <2>1, <2>3
  <2>5. IsPrefix(p[i], graph[Last(s[i - 1])].neighbors)
    BY <1>1, <1>4, <2>1, <2>3, <2>4, PrefixTransitive
  <2>6. QED
    BY <1>4, <2>2, <2>3, <2>4, <2>5
<1>6. ASSUME NEW i \in 1 .. m PROVE ToSet(p[i]) \subseteq DOMAIN graph'
  <2>1. i \in 1 .. n
    BY <1>1
  <2>2. QED
    BY <1>1, <1>2, <1>4, <2>1
<1>7. ASSUME p # << >> PROVE p[1] \in {<<start_vertex'>>, << >>}
  <2>1. m # 0
    BY <1>7
  <2>2. 1 \in 1 .. m /\ s # << >>
    BY <1>1, <2>1
  <2>3. s[1] \in {<<start_vertex>>, << >>} /\ start_vertex \in Vertex
    BY <2>2 DEF OuterStackOK, TypeOK
  <2>4. p[1] \in {<<start_vertex>>, << >>}
    BY <1>1, <2>2, <2>3, PrefixOfOne
  <2>5. QED
    BY <1>4, <2>4
<1>8. ASSUME NEW j \in 1 .. m, NEW i \in 1 .. j - 1
      PROVE  ToSet(p[j]) \subseteq Abstract!Reach(Edges', ToSet(graph'[Last(p[i])].neighbors))
  <2>1. i \in 1 .. m - 1 /\ i \in 1 .. n /\ j \in 1 .. n /\ i + 1 \in 2 .. n /\ i + 1 - 1 = i
    BY <1>1
  <2>2. p[i] = s[i] /\ s[i] # << >>
    BY <1>1, <2>1 DEF OuterPath
  <2>3. Last(s[i]) \in DOMAIN graph
    BY <1>3, <2>1, <2>2
  <2>4. ToSet(s[j]) \subseteq Abstract!Reach(Edges, ToSet(graph[Last(s[i])].neighbors))
    BY <2>1 DEF OuterStackOK, Led, Neighbors
  <2>5. graph'[Last(p[i])].neighbors = graph[Last(s[i])].neighbors
    BY <1>4, <2>2, <2>3
  <2>6. QED
    BY <1>1, <1>4, <2>4, <2>5
<1>9. OuterPath'
  BY <1>5 DEF OuterPath
<1>10. OuterStackOK'
  BY <1>6, <1>7, <1>8 DEF OuterStackOK, Led, Neighbors
<1>11. QED
  BY <1>9, <1>10

(* After steps back the inner stack is as good as before. *)
LEMMA InnerStepsBack ==
  ASSUME TypeOK, GraphIsReached, InnerPath, InnerStackOK, OnlyColors,
         inner_process' \in Stack, Shorter(inner_process', inner_process),
         UNCHANGED <<inner_start, accepting_found>>,
         pc' = "inner" => pc = "inner",
         pc' # "inner" /\ ~ accepting_found => inner_process' = << >>,
         \/ inner_process' = << >>
         \/ \A v \in DOMAIN graph : graph[v].inner # "WHITE" => graph'[v].inner # "WHITE"
  PROVE  InnerPath' /\ InnerStackOK'
<1> DEFINE s == inner_process
           p == inner_process'
           n == Len(s)
           m == Len(p)
<1>1. /\ n \in Nat /\ m \in Nat /\ m <= n
      /\ \A i \in 1 .. m - 1 : p[i] = s[i]
      /\ \A i \in 1 .. m : /\ p[i] \in Seq(Vertex) /\ s[i] \in Seq(Vertex)
                           /\ IsPrefix(p[i], s[i]) /\ ToSet(p[i]) \subseteq ToSet(s[i])
  <2>1. n \in Nat /\ m \in Nat
    BY DEF TypeOK, Stack
  <2>2. QED
    BY <2>1 DEF Shorter
<1>2. \A i \in 1 .. n : ToSet(s[i]) \subseteq DOMAIN graph
  BY DEF InnerStackOK
<1>3. \A i \in 1 .. n : s[i] # << >> => Last(s[i]) \in DOMAIN graph
  <2>1. \A i \in 1 .. n : s[i] \in Seq(Vertex)
    BY DEF TypeOK, Stack
  <2>2. \A i \in 1 .. n : s[i] # << >> => Last(s[i]) \in ToSet(s[i])
    BY <2>1, FrontAndLast
  <2>3. QED
    BY <1>2, <2>2
<1>4. /\ DOMAIN graph' = DOMAIN graph /\ accepting' = accepting /\ generated' = generated
      /\ \A v \in DOMAIN graph : graph'[v].neighbors = graph[v].neighbors
      /\ \A v \in DOMAIN graph : graph[v].neighbors \in Seq(Vertex)
      /\ inner_start' = inner_start /\ accepting_found' = accepting_found
      /\ generated \subseteq DOMAIN graph
  BY DEF OnlyColors, TypeOK, VertexInfo
<1>5. ASSUME NEW i \in 2 .. m
      PROVE  /\ p[i - 1] # << >> /\ graph'[Last(p[i - 1])].inner # "WHITE"
             /\ IsPrefix(p[i], graph'[Last(p[i - 1])].neighbors)
  <2>1. i \in 2 .. n /\ i - 1 \in 1 .. m - 1 /\ i - 1 \in 1 .. n /\ i \in 1 .. m
    BY <1>1
  <2>2. p[i - 1] = s[i - 1]
    BY <1>1, <2>1
  <2>3. /\ s[i - 1] # << >> /\ graph[Last(s[i - 1])].inner # "WHITE"
        /\ IsPrefix(s[i], graph[Last(s[i - 1])].neighbors)
    BY <2>1 DEF InnerPath
  <2>4. Last(s[i - 1]) \in DOMAIN graph
    BY <1>3, <2>1, <2>3
  <2>5. IsPrefix(p[i], graph[Last(s[i - 1])].neighbors)
    BY <1>1, <1>4, <2>1, <2>3, <2>4, PrefixTransitive
  <2>6. p # << >>
    BY <1>1, <2>1
  <2>7. QED
    BY <1>4, <2>2, <2>3, <2>4, <2>5, <2>6
<1>6. ASSUME NEW i \in 1 .. m PROVE ToSet(p[i]) \subseteq DOMAIN graph'
  <2>1. i \in 1 .. n
    BY <1>1
  <2>2. QED
    BY <1>1, <1>2, <1>4, <2>1
<1>7. ASSUME p # << >> PROVE p[1] \in {<<inner_start'>>, << >>}
  <2>1. m # 0
    BY <1>7
  <2>2. 1 \in 1 .. m /\ s # << >>
    BY <1>1, <2>1
  <2>3. s[1] \in {<<inner_start>>, << >>} /\ inner_start \in Vertex
    BY <2>2 DEF InnerStackOK, TypeOK
  <2>4. p[1] \in {<<inner_start>>, << >>}
    BY <1>1, <2>2, <2>3, PrefixOfOne
  <2>5. QED
    BY <1>4, <2>4
<1>8. m >= 2 => inner_start \in DOMAIN graph
  <2>1. ASSUME m >= 2 PROVE pc = "inner" \/ accepting_found
    <3>1. s # << >>
      BY <1>1, <2>1
    <3>2. QED
      BY <3>1 DEF InnerStackOK
  <2>2. QED
    BY <1>4, <2>1 DEF InnerStackOK
<1>9. ASSUME NEW i \in 2 .. m
      PROVE  ToSet(p[i]) \subseteq Abstract!Reach(Edges', ToSet(graph'[inner_start].neighbors))
  <2>1. i \in 2 .. n /\ i \in 1 .. m /\ m >= 2
    BY <1>1
  <2>2. ToSet(s[i]) \subseteq Abstract!Reach(Edges, ToSet(graph[inner_start].neighbors))
    BY <2>1 DEF InnerStackOK, Led, Neighbors
  <2>3. graph'[inner_start].neighbors = graph[inner_start].neighbors /\ Edges' = Edges
    BY <1>4, <1>8, <2>1, ColorsKeepEdges
  <2>4. QED
    BY <1>1, <2>1, <2>2, <2>3
<1>10. ASSUME accepting_found
       PROVE  inner_start \in Abstract!Reach(Edges', ToSet(graph'[inner_start].neighbors))
  <2>1. inner_start \in DOMAIN graph
    BY <1>4, <1>10 DEF InnerStackOK
  <2>2. inner_start \in Abstract!Reach(Edges, ToSet(graph[inner_start].neighbors))
    BY <1>10 DEF InnerStackOK, Led, Neighbors
  <2>3. graph'[inner_start].neighbors = graph[inner_start].neighbors /\ Edges' = Edges
    BY <1>4, <2>1, ColorsKeepEdges
  <2>4. QED
    BY <2>2, <2>3
<1>11. pc' = "inner" \/ accepting_found => inner_start \in accepting \cap generated
  BY DEF InnerStackOK
<1>12. InnerPath'
  BY <1>5 DEF InnerPath
<1>13. InnerStackOK'
  BY <1>4, <1>6, <1>7, <1>9, <1>10, <1>11 DEF InnerStackOK, Led, Neighbors
<1>14. QED
  BY <1>12, <1>13

(* Another colour keeps the graph reached. *)
LEMMA ColorsKeepReached ==
  ASSUME TypeOK, GraphIsReached, OnlyColors,
         \A v \in DOMAIN graph : v \notin generated => graph'[v].outer = "WHITE"
  PROVE  GraphIsReached'
<1>1. /\ Edges' = Edges /\ DOMAIN graph' = DOMAIN graph
      /\ \A v \in DOMAIN graph : graph'[v].neighbors = graph[v].neighbors
      /\ \A v \in DOMAIN graph : graph'[v].depth = graph[v].depth
      /\ UNCHANGED <<start_vertex, accepting, generated>>
  BY ColorsKeepEdges DEF OnlyColors
<1>2. DOMAIN graph \subseteq Abstract!Reach(Edges', {start_vertex'})
  BY <1>1 DEF GraphIsReached, Led
<1>3. \A v \in DOMAIN graph' :
        /\ ToSet(graph'[v].neighbors) \subseteq DOMAIN graph'
        /\ v \notin generated' => graph'[v].neighbors = << >> /\ graph'[v].outer = "WHITE"
  BY <1>1 DEF GraphIsReached, Neighbors
<1>4. start_vertex' \in DOMAIN graph' /\ graph'[start_vertex'].depth = 0 /\ accepting' \subseteq DOMAIN graph'
  BY <1>1 DEF GraphIsReached
<1>5. QED
  BY <1>1, <1>2, <1>3, <1>4 DEF GraphIsReached, Led, Neighbors

(* Another colour keeps what accepting vertices lead to. *)
LEMMA ColorsKeepSealed ==
  ASSUME TypeOK, GraphIsReached, OnlyColors, AcceptingAreSealed,
         \A v \in accepting : graph'[v].outer = "BLACK" /\ ~ (pc' = "inner" /\ v = inner_start')
           => graph[v].outer = "BLACK" /\ ~ (pc = "inner" /\ v = inner_start)
  PROVE  AcceptingAreSealed'
<1>1. \A v \in DOMAIN graph : Sealed(v)' <=> Sealed(v)
  BY ColorsKeepEdges
<1>2. accepting' = accepting /\ accepting \subseteq DOMAIN graph
  BY DEF OnlyColors, GraphIsReached
<1>3. QED
  BY <1>1, <1>2 DEF AcceptingAreSealed

-----------------------------------------------------------------------------
(* The inductive invariant: every step keeps it.                           *)

(* what holds as long as no cycle is found and nothing is cut *)
ClosedSoFar ==
  /\ OuterIsClosed
  /\ IF pc = "inner" THEN InnerIsClosed ELSE VisitedIsLeft
  /\ AcceptingAreSealed

IInv ==
  /\ TypeOK /\ GraphIsReached /\ OuterPath /\ InnerPath /\ OuterStackOK /\ InnerStackOK /\ VerdictOK
  /\ ~ accepting_found /\ ~ depth_bound_reached => ClosedSoFar

LEMMA InvariantParts == IInv <=> TypeOK /\ SearchInv
  BY BothPaths DEF IInv, SearchInv, ClosedSoFar

(* the iteration with a larger bound begins *)
LEMMA AgainKeeps ==
  ASSUME IInv, TypeOK', Searching,
         graph' = Reset(graph), depth_bound_reached' = FALSE, to_process' = << <<start_vertex>> >>,
         depth_bound' > 0, UnchangedByOuter, UNCHANGED <<accepting, generated>>
  PROVE  IInv'
<1>1. TypeOK /\ GraphIsReached /\ InnerPath /\ InnerStackOK /\ VerdictOK
  BY DEF IInv
<1>2. /\ OnlyColors
      /\ \A w \in DOMAIN graph : graph'[w].inner = "WHITE" /\ graph'[w].outer = "WHITE"
  BY <1>1, AllReset DEF UnchangedByOuter
<1>3. GraphIsReached'
  BY <1>1, <1>2, ColorsKeepReached
<1>4. Len(to_process') = 1 /\ to_process'[1] = <<start_vertex>> /\ start_vertex' = start_vertex
      /\ to_process' # << >>
  BY DEF UnchangedByOuter
<1>5. ToSet(<<start_vertex>>) \subseteq DOMAIN graph /\ DOMAIN graph' = DOMAIN graph
  <2>1. start_vertex \in DOMAIN graph
    BY <1>1 DEF GraphIsReached
  <2>2. QED
    BY <1>2, <2>1 DEF ToSet, OnlyColors
<1>6. OuterPath' /\ OuterStackOK'
  BY <1>4, <1>5 DEF OuterPath, OuterStackOK
<1>7. inner_process = << >> /\ inner_process' = << >>
  BY <1>1 DEF InnerStackOK, Searching, UnchangedByOuter
<1>8. InnerPath' /\ InnerStackOK'
  <2>1. Shorter(inner_process', inner_process) /\ inner_process' \in Stack
    BY <1>1, <1>7, StepsBack DEF TypeOK
  <2>2. QED
    BY <1>1, <1>2, <1>7, <2>1, InnerStepsBack DEF UnchangedByOuter
<1>9. VerdictOK'
  BY <1>1, <1>4 DEF VerdictOK, UnchangedByOuter, Searching
<1>10. OuterIsClosed'
  BY <1>2, <1>4 DEF OuterIsClosed, OnlyColors
<1>11. pc' = "outer" /\ VisitedIsLeft'
  BY <1>2 DEF VisitedIsLeft, OnlyColors, Searching, UnchangedByOuter
<1>12. AcceptingAreSealed'
  BY <1>1, <1>2 DEF AcceptingAreSealed, GraphIsReached, OnlyColors
<1>13. ClosedSoFar'
  BY <1>10, <1>11, <1>12 DEF ClosedSoFar
<1>14. QED
  BY <1>3, <1>6, <1>8, <1>9, <1>13 DEF IInv

(* the vector on top of the outer stack is dropped *)
LEMMA DropKeepsInv ==
  ASSUME IInv, TypeOK', Searching, to_process' = Front(to_process),
         UnchangedByOuter, UNCHANGED <<accepting, graph, generated, depth_bound>>,
         \/ depth_bound_reached'
         \/ depth_bound_reached' = depth_bound_reached /\ Top(to_process) = << >>,
         depth_bound_reached' =>
           mode.depth_bounded /\ (mode.max_depth = Unlimited => to_process' # << >>)
  PROVE  IInv'
<1>1. TypeOK /\ GraphIsReached /\ OuterPath /\ InnerPath /\ OuterStackOK /\ InnerStackOK /\ VerdictOK
  BY DEF IInv
<1>2. OnlyColors /\ graph' = graph
  BY <1>1, SameGraph DEF UnchangedByOuter
<1>3. GraphIsReached'
  BY <1>1, <1>2, ColorsKeepReached DEF GraphIsReached
<1>4. to_process \in Stack /\ to_process # << >> /\ to_process' \in Stack
  BY <1>1 DEF TypeOK, Searching
<1>5. OuterPath' /\ OuterStackOK'
  BY <1>1, <1>2, <1>4, StepsBack, OuterStepsBack
<1>6. InnerPath' /\ InnerStackOK'
  <2>1. inner_process' = inner_process /\ inner_process \in Stack /\ inner_process = << >>
    BY <1>1 DEF TypeOK, UnchangedByOuter, InnerStackOK, Searching
  <2>2. Shorter(inner_process', inner_process) /\ inner_process' \in Stack
    BY <2>1, StepsBack
  <2>3. QED
    BY <1>1, <1>2, <2>1, <2>2, InnerStepsBack DEF UnchangedByOuter
<1>7. VerdictOK'
  BY <1>1 DEF VerdictOK, UnchangedByOuter, Searching
<1>8. ASSUME ~ depth_bound_reached' PROVE ClosedSoFar'
  <2>1. ClosedSoFar /\ Top(to_process) = << >> /\ pc = "outer" /\ pc' = "outer" /\ ~ accepting_found
    BY <1>8 DEF IInv, Searching, UnchangedByOuter
  <2>2. /\ Len(to_process) \in Nat \ {0} /\ Len(to_process') = Len(to_process) - 1
        /\ \A i \in 1 .. Len(to_process) - 1 : to_process'[i] = to_process[i]
        /\ Top(to_process) = to_process[Len(to_process)]
    BY <1>4, StackDropped
  <2>3. /\ Path(to_process)' \subseteq Path(to_process)
        /\ Spine(to_process)' = Path(to_process)
        /\ Spine(to_process) \subseteq Path(to_process)
        /\ Waiting(to_process) \subseteq Waiting(to_process)'
    BY <1>1, <1>4, <2>1, DropKeeps, BelowAreFilled
  <2>4. OuterIsClosed'
    <3>1. ASSUME to_process[1] = <<start_vertex>>
          PROVE  to_process' # << >> /\ to_process'[1] = <<start_vertex>>
      <4>1. <<start_vertex>> # << >>
        OBVIOUS
      <4>2. Len(to_process) # 1
        BY <2>1, <2>2, <3>1, <4>1
      <4>3. QED
        BY <2>2, <3>1, <4>2
    <3>2. start_vertex' = start_vertex
      BY DEF UnchangedByOuter
    <3>3. QED
      BY <1>2, <2>1, <2>3, <3>1, <3>2 DEF OuterIsClosed, ClosedSoFar, Neighbors
  <2>5. VisitedIsLeft'
    BY <1>2, <2>1, <2>3 DEF VisitedIsLeft, ClosedSoFar, Neighbors
  <2>6. AcceptingAreSealed'
    BY <1>1, <1>2, <2>1, ColorsKeepSealed DEF ClosedSoFar
  <2>7. QED
    BY <2>1, <2>4, <2>5, <2>6 DEF ClosedSoFar
<1>9. QED
  BY <1>3, <1>5, <1>6, <1>7, <1>8 DEF IInv

LEMMA RetreatKeeps ==
  ASSUME IInv, TypeOK', Retreat
  PROVE  IInv'
<1> DEFINE deeper == /\ mode.depth_bounded
                     /\ Len(to_process) = 1
                     /\ depth_bound_reached
                     /\ mode.max_depth = Unlimited \/ depth_bound < mode.max_depth
<1>1. /\ Searching /\ Top(to_process) = << >> /\ UnchangedByOuter
      /\ UNCHANGED <<accepting, generated>>
  BY DEF Retreat
<1>2. CASE deeper
  <2>1. /\ graph' = Reset(graph)
        /\ depth_bound' = IF mode.max_depth # Unlimited /\ mode.max_depth < 2 * depth_bound
                          THEN mode.max_depth ELSE 2 * depth_bound
        /\ depth_bound_reached' = FALSE
        /\ to_process' = << <<start_vertex>> >>
    BY <1>2 DEF Retreat
  <2>2. depth_bound' > 0
    <3>1. depth_bound \in Nat /\ depth_bound > 0
      BY DEF IInv, TypeOK, VerdictOK
    <3>2. mode.max_depth # Unlimited => mode.max_depth \in Nat /\ depth_bound < mode.max_depth
      BY <1>2, ModesAssumption DEF IInv, TypeOK
    <3>3. QED
      BY <2>1, <3>1, <3>2
  <2>3. QED
    BY <1>1, <2>1, <2>2, AgainKeeps
<1>3. CASE ~ deeper
  <2>1. to_process' = Front(to_process) /\ UNCHANGED <<graph, depth_bound, depth_bound_reached>>
    BY <1>3 DEF Retreat
  <2>2. depth_bound_reached' =>
          mode.depth_bounded /\ (mode.max_depth = Unlimited => to_process' # << >>)
    <3>1. to_process \in Stack /\ to_process # << >>
      BY <1>1 DEF IInv, TypeOK, Searching
    <3>2. Len(to_process) \in Nat \ {0} /\ Len(Front(to_process)) = Len(to_process) - 1
          /\ Front(to_process) \in Stack
      BY <3>1, StackDropped
    <3>3. depth_bound_reached => mode.depth_bounded
      BY DEF IInv, VerdictOK
    <3>4. depth_bound_reached /\ mode.max_depth = Unlimited => Len(to_process) # 1
      BY <1>3, <3>3
    <3>5. QED
      BY <2>1, <3>2, <3>3, <3>4 DEF Stack
  <2>3. QED
    BY <1>1, <2>1, <2>2, DropKeepsInv
<1>4. QED
  BY <1>2, <1>3

LEMMA CutOffKeeps ==
  ASSUME IInv, TypeOK', CutOff
  PROVE  IInv'
<1>1. /\ Searching /\ Top(to_process) # << >> /\ TooDeep(Current(to_process))
      /\ to_process' = Front(to_process) /\ depth_bound_reached'
      /\ UnchangedByOuter /\ UNCHANGED <<accepting, graph, generated, depth_bound>>
  BY DEF CutOff
<1>2. /\ to_process \in Stack /\ to_process # << >> /\ GraphIsReached /\ OuterStackOK
      /\ depth_bound > 0 /\ depth_bound \in Nat
  BY <1>1 DEF IInv, TypeOK, VerdictOK, Searching
<1>3. /\ Len(to_process) \in Nat \ {0} /\ Len(Front(to_process)) = Len(to_process) - 1
      /\ Top(to_process) = to_process[Len(to_process)]
  BY <1>2, StackDropped
<1>4. to_process' # << >>
  <2>1. ASSUME Len(to_process) = 1 PROVE FALSE
    <3>1. Top(to_process) = <<start_vertex>>
      BY <1>1, <1>2, <1>3, <2>1 DEF OuterStackOK
    <3>2. Current(to_process) = start_vertex
      BY <3>1 DEF Current, Top, Last
    <3>3. graph[start_vertex].depth = 0
      BY <1>2 DEF GraphIsReached
    <3>4. QED
      BY <1>1, <1>2, <3>2, <3>3 DEF TooDeep
  <2>2. Len(Front(to_process)) # 0
    BY <1>3, <2>1
  <2>3. QED
    BY <1>1, <2>2
<1>5. mode.depth_bounded
  BY <1>1 DEF TooDeep
<1>6. QED
  BY <1>1, <1>4, <1>5, DropKeepsInv

(* the vertex in hand, which was entered before, is taken off the outer stack *)
LEMMA PopKeepsOuter ==
  ASSUME IInv, TypeOK', Searching, Top(to_process) # << >>,
         to_process' = PopBack(to_process), OnlyColors,
         NEW v, v = Current(to_process), graph[v].outer # "WHITE", graph'[v].outer = "BLACK",
         \A w \in DOMAIN graph \ {v} : graph'[w].outer = graph[w].outer,
         pc' \in {"outer", "inner"},
         UNCHANGED <<mode, depth_bound, depth_bound_reached, accepting_found, output>>
  PROVE  /\ GraphIsReached' /\ OuterPath' /\ OuterStackOK' /\ VerdictOK'
         /\ ~ depth_bound_reached => OuterIsClosed'
         /\ v \in DOMAIN graph /\ v \in generated
         /\ Path(to_process)' = Path(to_process)
<1>1. TypeOK /\ GraphIsReached /\ OuterPath /\ OuterStackOK /\ VerdictOK
  BY DEF IInv
<1>2. to_process \in Stack /\ to_process # << >> /\ to_process' \in Stack
  BY <1>1 DEF TypeOK, Searching
<1>3. /\ to_process' # << >> /\ Len(to_process) \in Nat \ {0} /\ Len(to_process') = Len(to_process)
      /\ \A i \in 1 .. Len(to_process) - 1 : to_process'[i] = to_process[i]
      /\ ToSet(to_process[Len(to_process)]) = ToSet(Front(to_process[Len(to_process)])) \cup {v}
  BY <1>2, StackPopped
<1>4. v \in DOMAIN graph /\ v \in generated
  <2>1. v \in DOMAIN graph
    BY <1>1, <1>3 DEF OuterStackOK
  <2>2. QED
    BY <1>1, <2>1 DEF GraphIsReached
<1>5. GraphIsReached'
  <2>1. \A w \in DOMAIN graph : w \notin generated => graph'[w].outer = "WHITE"
    BY <1>1, <1>4 DEF GraphIsReached
  <2>2. QED
    BY <1>1, <2>1, ColorsKeepReached
<1>6. OuterPath' /\ OuterStackOK'
  <2>1. Shorter(to_process', to_process)
    BY <1>2, StepsBack
  <2>2. \A w \in DOMAIN graph : graph[w].outer # "WHITE" => graph'[w].outer # "WHITE"
    OBVIOUS
  <2>3. QED
    BY <1>1, <1>2, <2>1, <2>2, OuterStepsBack
<1>7. VerdictOK'
  BY <1>1, <1>3 DEF VerdictOK, Searching
<1>8. /\ Path(to_process)' = Path(to_process)
      /\ Path(to_process) \subseteq Spine(to_process)'
      /\ Spine(to_process) \subseteq Path(to_process) \cup {v}
      /\ \A u, w : <<u, w>> \in Waiting(to_process) => <<u, w>> \in Waiting(to_process)' \/ w = v
  BY <1>1, <1>2, PopKeeps, BelowAreFilled
<1>9. ASSUME ~ depth_bound_reached PROVE OuterIsClosed'
  <2>1. OuterIsClosed /\ pc = "outer"
    BY <1>9 DEF IInv, ClosedSoFar, Searching
  <2>2. \/ graph'[start_vertex].outer # "WHITE"
        \/ to_process' # << >> /\ to_process'[1] = <<start_vertex>>
    <3>1. CASE graph[start_vertex].outer # "WHITE"
      BY <1>1, <3>1 DEF GraphIsReached
    <3>2. CASE to_process[1] = <<start_vertex>> /\ Len(to_process) = 1
      <4>1. v = start_vertex
        BY <3>2, <1>2, StackPopped DEF Last
      <4>2. QED
        BY <4>1
    <3>3. CASE to_process[1] = <<start_vertex>> /\ Len(to_process) # 1
      BY <1>3, <3>3
    <3>4. QED
      BY <2>1, <3>1, <3>2, <3>3 DEF OuterIsClosed
  <2>3. ASSUME NEW u \in DOMAIN graph, graph'[u].outer # "WHITE",
               NEW w \in Neighbors(u), graph'[w].outer = "WHITE"
        PROVE  <<u, w>> \in Waiting(to_process)'
    <3>1. w \in DOMAIN graph /\ w # v /\ graph[u].outer # "WHITE" /\ graph[w].outer = "WHITE"
      BY <1>1, <2>3 DEF GraphIsReached
    <3>2. <<u, w>> \in Waiting(to_process)
      BY <2>1, <2>3, <3>1 DEF OuterIsClosed
    <3>3. QED
      BY <1>8, <3>1, <3>2
  <2>4. ASSUME NEW u \in DOMAIN graph, graph'[u].outer = "GRAY"
        PROVE  u \in Path(to_process)' /\ u \in Spine(to_process)'
    BY <1>8, <2>1, <2>4 DEF OuterIsClosed
  <2>5. /\ DOMAIN graph' = DOMAIN graph /\ start_vertex' = start_vertex
        /\ \A u \in DOMAIN graph : Neighbors(u)' = Neighbors(u)
    BY <1>1, ColorsKeepEdges DEF OnlyColors
  <2>6. QED
    BY <2>2, <2>3, <2>4, <2>5 DEF OuterIsClosed
<1>10. QED
  BY <1>4, <1>5, <1>6, <1>7, <1>8, <1>9

LEMMA SkipKeeps ==
  ASSUME IInv, TypeOK', NEW v \in DOMAIN graph, Skip(v)
  PROVE  IInv'
<1>1. TypeOK /\ GraphIsReached /\ InnerPath /\ InnerStackOK
  BY DEF IInv
<1>2. /\ Searching /\ Top(to_process) # << >> /\ v = Current(to_process)
      /\ graph[v].outer = "BLACK" /\ to_process' = PopBack(to_process) /\ UnchangedByOuter
      /\ UNCHANGED <<accepting, graph, generated, depth_bound, depth_bound_reached>>
  BY DEF Skip, InHand
<1>3. OnlyColors /\ graph' = graph /\ pc = "outer" /\ pc' = "outer"
  BY <1>1, <1>2, SameGraph DEF UnchangedByOuter, Searching
<1>4. /\ GraphIsReached' /\ OuterPath' /\ OuterStackOK' /\ VerdictOK'
      /\ ~ depth_bound_reached => OuterIsClosed'
      /\ Path(to_process)' = Path(to_process)
  BY <1>2, <1>3, PopKeepsOuter DEF UnchangedByOuter
<1>5. InnerPath' /\ InnerStackOK'
  <2>1. inner_process' = inner_process /\ inner_process \in Stack /\ inner_process = << >>
    BY <1>1, <1>2 DEF TypeOK, UnchangedByOuter, InnerStackOK, Searching
  <2>2. Shorter(inner_process', inner_process) /\ inner_process' \in Stack
    BY <2>1, StepsBack
  <2>3. QED
    BY <1>1, <1>2, <1>3, <2>1, <2>2, InnerStepsBack DEF UnchangedByOuter
<1>6. ASSUME ~ depth_bound_reached PROVE ClosedSoFar'
  <2>1. ClosedSoFar
    BY <1>2, <1>6 DEF IInv, Searching
  <2>2. VisitedIsLeft'
    BY <1>3, <1>4, <2>1 DEF ClosedSoFar, VisitedIsLeft, Neighbors
  <2>3. AcceptingAreSealed'
    BY <1>1, <1>3, <2>1, ColorsKeepSealed DEF ClosedSoFar
  <2>4. QED
    BY <1>3, <1>4, <1>6, <2>2, <2>3 DEF ClosedSoFar
<1>7. QED
  BY <1>2, <1>4, <1>5, <1>6 DEF IInv

LEMMA BacktrackKeeps ==
  ASSUME IInv, TypeOK', NEW v \in DOMAIN graph, Backtrack(v)
  PROVE  IInv'
<1>1. TypeOK /\ GraphIsReached /\ InnerPath /\ InnerStackOK /\ OuterStackOK
  BY DEF IInv
<1>2. /\ Searching /\ Top(to_process) # << >> /\ v = Current(to_process)
      /\ graph[v].outer = "GRAY" /\ to_process' = PopBack(to_process)
      /\ graph' = [graph EXCEPT ![v].outer = "BLACK"]
      /\ UNCHANGED <<mode, start_vertex, accepting, generated, depth_bound,
                     depth_bound_reached, accepting_found, output>>
      /\ pc = "outer" /\ ~ accepting_found
  BY DEF Backtrack, InHand, Searching
<1>3. /\ OnlyColors
      /\ \A w \in DOMAIN graph : graph'[w].inner = graph[w].inner
      /\ \A w \in DOMAIN graph \ {v} : graph'[w].outer = graph[w].outer
      /\ graph'[v].outer = "BLACK"
  BY <1>1, <1>2, OuterColored DEF Color
<1>4. /\ DOMAIN graph' = DOMAIN graph /\ Edges' = Edges
      /\ \A u \in DOMAIN graph : /\ Neighbors(u)' = Neighbors(u)
                                 /\ Led(Neighbors(u))' = Led(Neighbors(u))
  BY <1>1, <1>3, ColorsKeepEdges DEF OnlyColors
<1>5. pc' \in {"outer", "inner"}
  BY <1>2 DEF Backtrack
<1>6. /\ GraphIsReached' /\ OuterPath' /\ OuterStackOK' /\ VerdictOK'
      /\ ~ depth_bound_reached => OuterIsClosed'
      /\ v \in generated /\ Path(to_process)' = Path(to_process)
  BY <1>2, <1>3, <1>5, PopKeepsOuter
<1>7. inner_process = << >>
  BY <1>1, <1>2 DEF InnerStackOK
<1>8. ~ depth_bound_reached => VisitedIsLeft /\ AcceptingAreSealed
  BY <1>2 DEF IInv, ClosedSoFar
<1>9. CASE v \in accepting
  <2>1. pc' = "inner" /\ inner_start' = v /\ inner_process' = << <<v>> >>
    BY <1>2, <1>9 DEF Backtrack
  <2>2. InnerPath' /\ InnerStackOK'
    <3>1. /\ Len(inner_process') = 1 /\ inner_process'[1] = <<v>>
          /\ ToSet(<<v>>) \subseteq DOMAIN graph'
      BY <1>4, <2>1 DEF ToSet
    <3>2. v \in accepting' \cap generated' /\ ~ accepting_found'
      BY <1>2, <1>6, <1>9
    <3>3. QED
      BY <2>1, <3>1, <3>2 DEF InnerPath, InnerStackOK
  <2>3. ASSUME ~ depth_bound_reached PROVE ClosedSoFar'
    <3>1. VisitedIsLeft /\ AcceptingAreSealed
      BY <1>8, <2>3
    <3>2. \A p \in Path(to_process) :
            v \in Abstract!Reach(Edges', ToSet(graph'[p].neighbors))
      <4>1. SUFFICES ASSUME NEW i \in 1 .. Len(to_process) - 1
                     PROVE  v \in Abstract!Reach(Edges', ToSet(graph'[Last(to_process[i])].neighbors))
        BY DEF Path
      <4>2. /\ to_process \in Stack /\ to_process # << >>
            /\ Len(to_process) \in Nat \ {0} /\ v \in ToSet(to_process[Len(to_process)])
        BY <1>1, <1>2, StackPopped DEF TypeOK, Searching
      <4>3. v \in Abstract!Reach(Edges, ToSet(graph[Last(to_process[i])].neighbors))
        <5>1. Len(to_process) \in 1 .. Len(to_process) /\ i \in 1 .. Len(to_process) - 1
          BY <4>2
        <5>2. ToSet(to_process[Len(to_process)]) \subseteq Led(Neighbors(Last(to_process[i])))
          BY <1>1, <5>1 DEF OuterStackOK
        <5>3. QED
          BY <4>2, <5>2 DEF Led, Neighbors
      <4>4. Last(to_process[i]) \in DOMAIN graph
        <5>1. to_process[i] # << >> /\ to_process[i] \in Seq(Vertex)
          BY <1>1, <4>2, BelowAreFilled DEF BelowFilled, IInv, Stack
        <5>2. Last(to_process[i]) \in ToSet(to_process[i])
          BY <5>1, FrontAndLast
        <5>3. QED
          BY <1>1, <4>2, <5>2 DEF OuterStackOK
      <4>5. QED
        BY <1>3, <1>4, <4>3, <4>4 DEF OnlyColors
    <3>3. ASSUME NEW u \in DOMAIN graph, graph[u].inner # "WHITE"
          PROVE  /\ graph'[u].outer = "BLACK" /\ graph[u].inner # "GRAY"
                 /\ v \notin Neighbors(u)
                 /\ \A w \in Neighbors(u) : graph'[w].inner # "WHITE"
      <4>1. graph[u].inner = "BLACK" /\ graph[u].outer = "BLACK" /\ \A w \in Neighbors(u) : graph[w].inner # "WHITE"
        BY <3>1, <3>3 DEF VisitedIsLeft
      <4>2. Neighbors(u) \subseteq DOMAIN graph
        BY <1>1 DEF GraphIsReached
      <4>3. v \notin Neighbors(u)
        BY <1>2, <3>1, <4>1 DEF VisitedIsLeft
      <4>4. QED
        BY <1>3, <4>1, <4>2, <4>3
    <3>4. InnerIsClosed'
      <4>1. \A p \in Path(to_process)' : inner_start' \in Abstract!Reach(Edges', ToSet(graph'[p].neighbors))
        BY <1>6, <2>1, <3>2
      <4>2. /\ graph'[inner_start'].outer = "BLACK"
            /\ inner_process' # << >> /\ inner_process'[1] = <<inner_start'>>
        BY <1>3, <2>1
      <4>3. \A u \in DOMAIN graph' : graph'[u].inner # "WHITE" =>
              /\ graph'[u].outer = "BLACK" /\ graph'[u].inner # "GRAY"
              /\ inner_start' \notin Neighbors(u)'
              /\ \A w \in Neighbors(u)' : graph'[w].inner # "WHITE"
        BY <1>3, <1>4, <2>1, <3>3
      <4>4. QED
        BY <4>1, <4>2, <4>3 DEF InnerIsClosed, Led, Neighbors
    <3>5. AcceptingAreSealed'
      <4>1. \A u \in accepting : graph'[u].outer = "BLACK" /\ ~ (pc' = "inner" /\ u = inner_start')
              => graph[u].outer = "BLACK" /\ ~ (pc = "inner" /\ u = inner_start)
        BY <1>1, <1>2, <1>3, <2>1 DEF GraphIsReached
      <4>2. QED
        BY <1>1, <1>3, <3>1, <4>1, ColorsKeepSealed
    <3>6. QED
      BY <1>6, <2>1, <2>3, <3>4, <3>5 DEF ClosedSoFar
  <2>4. QED
    BY <1>2, <1>6, <2>2, <2>3 DEF IInv
<1>10. CASE v \notin accepting
  <2>1. UNCHANGED <<pc, inner_start, inner_process>>
    BY <1>10 DEF Backtrack
  <2>2. InnerPath' /\ InnerStackOK'
    <3>1. Shorter(inner_process', inner_process) /\ inner_process' \in Stack
      BY <1>1, <2>1, StepsBack DEF TypeOK
    <3>2. QED
      BY <1>1, <1>2, <1>3, <1>7, <2>1, <3>1, InnerStepsBack
  <2>3. ASSUME ~ depth_bound_reached PROVE ClosedSoFar'
    <3>1. VisitedIsLeft'
      <4>1. \A u \in DOMAIN graph : Neighbors(u) \subseteq DOMAIN graph
        BY <1>1 DEF GraphIsReached
      <4>2. QED
        BY <1>3, <1>4, <1>6, <1>8, <2>3, <4>1 DEF VisitedIsLeft
    <3>2. AcceptingAreSealed'
      <4>1. \A u \in accepting : graph'[u].outer = "BLACK" => graph[u].outer = "BLACK"
        BY <1>1, <1>3, <1>10 DEF GraphIsReached
      <4>2. QED
        BY <1>1, <1>2, <1>3, <1>8, <2>3, <4>1, ColorsKeepSealed
    <3>3. QED
      BY <1>2, <1>6, <2>1, <2>3, <3>1, <3>2 DEF ClosedSoFar
  <2>4. QED
    BY <1>2, <1>6, <2>2, <2>3 DEF IInv
<1>11. QED
  BY <1>9, <1>10

(* what entering a vertex does to the edges *)
LEMMA EnteredEdges ==
  ASSUME TypeOK, TypeOK', GraphIsReached, NEW v \in DOMAIN graph, Entered(v),
         generated' = generated \cup {v}
  PROVE  /\ Edges \in Graph /\ Edges' \in Graph /\ Learnt(Edges, Edges')
         /\ DOMAIN Edges = generated /\ DOMAIN Edges' = generated \cup {v}
         /\ \A w \in DOMAIN graph : w # v \/ v \in generated => graph'[w].neighbors = graph[w].neighbors
         /\ Edges'[v] = ToSet(graph'[v].neighbors) /\ v \in Vertex
         /\ \A w \in DOMAIN graph' : w \in Vertex /\ ToSet(graph'[w].neighbors) \in SUBSET Vertex
         /\ \A S \in SUBSET Vertex :
              Abstract!Reach(Edges, S) \subseteq Abstract!Reach(Edges', S)
<1>1. /\ Edges \in Graph /\ DOMAIN Edges = generated
      /\ generated \subseteq DOMAIN graph
      /\ \A w \in generated : Edges[w] = ToSet(graph[w].neighbors)
  BY EdgesAreGraph DEF Neighbors, TypeOK
<1>2. /\ Edges' \in Graph /\ DOMAIN Edges' = generated'
      /\ \A w \in DOMAIN graph' : w \in Vertex /\ ToSet(graph'[w].neighbors) \in SUBSET Vertex
      /\ \A w \in generated' : Edges'[w] = ToSet(graph'[w].neighbors)
  <2>1. /\ generated' \subseteq DOMAIN graph'
        /\ \A w \in DOMAIN graph' : w \in Vertex /\ graph'[w].neighbors \in Seq(Vertex)
    BY DEF TypeOK, VertexInfo
  <2>2. \A w \in DOMAIN graph' : ToSet(graph'[w].neighbors) \in SUBSET Vertex
    BY <2>1, SetOfSequence
  <2>3. Edges' = [w \in generated' |-> ToSet(graph'[w].neighbors)]
    BY DEF Edges, Neighbors
  <2>4. Edges' \in [generated' -> SUBSET Vertex] /\ generated' \in SUBSET Vertex
    BY <2>1, <2>2, <2>3
  <2>5. Edges' \in Graph
    BY <2>4 DEF Graph
  <2>6. QED
    BY <2>1, <2>2, <2>3, <2>5
<1>3. \A w \in DOMAIN graph : w # v \/ v \in generated => graph'[w].neighbors = graph[w].neighbors
  BY DEF Entered
<1>4. Learnt(Edges, Edges')
  BY <1>1, <1>2, <1>3 DEF Learnt
<1>5. \A S \in SUBSET Vertex : Abstract!Reach(Edges, S) \subseteq Abstract!Reach(Edges', S)
  BY <1>1, <1>2, <1>4, ReachGrows
<1>6. QED
  BY <1>1, <1>2, <1>3, <1>4, <1>5 DEF TypeOK

LEMMA EnterKeeps ==
  ASSUME IInv, TypeOK', NEW v \in DOMAIN graph, NEW succ \in Answers, NEW acc \in SUBSET Vertex,
         MayAnswer(v, succ, acc), Enter(v, succ, acc)
  PROVE  IInv'
<1>1. TypeOK /\ GraphIsReached /\ OuterPath /\ InnerPath /\ OuterStackOK /\ InnerStackOK /\ VerdictOK
  BY DEF IInv
<1>2. Entered(v) /\ acc \subseteq DOMAIN graph' \ DOMAIN graph
  BY <1>1, EnterEffect DEF GraphIsReached
<1>3. /\ Searching /\ Top(to_process) # << >> /\ v = Current(to_process) /\ graph[v].outer = "WHITE"
      /\ generated' = generated \cup {v} /\ accepting' = accepting \cup acc
      /\ UnchangedByOuter /\ UNCHANGED <<depth_bound, depth_bound_reached>>
      /\ pc = "outer" /\ pc' = "outer" /\ ~ accepting_found
  BY DEF Enter, InHand, Searching, UnchangedByOuter
<1> DEFINE q == graph'[v].neighbors
           n == Len(to_process)
<1>4. /\ q \in Seq(Vertex) /\ to_process' = Append(to_process, q)
      /\ DOMAIN graph' = DOMAIN graph \cup ToSet(q)
      /\ graph'[v].outer = "GRAY" /\ graph'[v].inner = graph[v].inner /\ graph'[v].depth = graph[v].depth
      /\ \A w \in DOMAIN graph \ {v} : graph'[w] = graph[w]
      /\ \A w \in DOMAIN graph' \ DOMAIN graph :
           graph'[w].outer = "WHITE" /\ graph'[w].inner = "WHITE" /\ graph'[w].neighbors = << >>
  BY <1>2 DEF Entered
<1>5. /\ Edges \in Graph /\ Edges' \in Graph /\ Learnt(Edges, Edges')
      /\ DOMAIN Edges = generated /\ DOMAIN Edges' = generated \cup {v}
      /\ \A w \in DOMAIN graph : w # v \/ v \in generated => graph'[w].neighbors = graph[w].neighbors
      /\ Edges'[v] = ToSet(q) /\ v \in Vertex
      /\ \A w \in DOMAIN graph' : w \in Vertex /\ ToSet(graph'[w].neighbors) \in SUBSET Vertex
      /\ \A S \in SUBSET Vertex : Abstract!Reach(Edges, S) \subseteq Abstract!Reach(Edges', S)
  BY <1>1, <1>2, <1>3, EnteredEdges
<1>6. \A w \in DOMAIN graph : w # v => graph'[w].neighbors = graph[w].neighbors /\ graph'[w].outer = graph[w].outer
                                       /\ graph'[w].inner = graph[w].inner /\ graph'[w].depth = graph[w].depth
  BY <1>4
<1>7. /\ to_process \in Stack /\ to_process # << >> /\ n \in Nat \ {0} /\ Len(to_process') = n + 1
      /\ \A i \in 1 .. n : to_process'[i] = to_process[i]
      /\ to_process'[n + 1] = q /\ to_process' # << >>
      /\ Path(to_process)' = Path(to_process) \cup {v}
      /\ Spine(to_process) \cup {v} \subseteq Spine(to_process)'
      /\ Waiting(to_process) \subseteq Waiting(to_process)'
      /\ \A w \in ToSet(q) : <<v, w>> \in Waiting(to_process)'
  <2>1. to_process \in Stack /\ to_process # << >> /\ q \in Seq(Vertex)
    BY <1>1, <1>3, <1>4 DEF TypeOK, Searching
  <2> HIDE DEF q
  <2>2. QED
    BY <1>3, <1>4, <2>1, PushKeeps
<1>8. /\ to_process[n] \in Seq(Vertex) /\ to_process[n] # << >> /\ v = Last(to_process[n])
      /\ v \in ToSet(to_process[n])
  <2>1. /\ to_process[n] \in Seq(Vertex) /\ to_process[n] # << >> /\ v = Last(to_process[n])
        /\ ToSet(to_process[n]) = ToSet(Front(to_process[n])) \cup {v}
    BY <1>3, <1>7, StackPopped
  <2>2. QED
    BY <2>1
<1>9. GraphIsReached'
  <2>1. /\ start_vertex' = start_vertex /\ start_vertex \in DOMAIN graph /\ graph[start_vertex].depth = 0
        /\ accepting \subseteq DOMAIN graph
        /\ \A w \in DOMAIN graph : ToSet(graph[w].neighbors) \subseteq DOMAIN graph
        /\ \A w \in DOMAIN graph : w \notin generated => graph[w].neighbors = << >> /\ graph[w].outer = "WHITE"
    BY <1>1, <1>3 DEF GraphIsReached, Neighbors, UnchangedByOuter
  <2>2. \A w \in DOMAIN graph' :
          /\ ToSet(graph'[w].neighbors) \subseteq DOMAIN graph'
          /\ w \notin generated' => graph'[w].neighbors = << >> /\ graph'[w].outer = "WHITE"
    <3>1. ToSet(<< >>) = {}
      BY DEF ToSet
    <3>2. QED
      BY <1>3, <1>4, <2>1, <3>1
  <2>3. DOMAIN graph' \subseteq Abstract!Reach(Edges', {start_vertex})
    <3>1. {start_vertex} \in SUBSET Vertex
      BY <1>1 DEF TypeOK
    <3>2. DOMAIN graph \subseteq Abstract!Reach(Edges', {start_vertex})
      BY <1>1, <1>5, <3>1 DEF GraphIsReached, Led
    <3>3. ToSet(q) \subseteq Abstract!Reach(Edges', {start_vertex})
      BY <1>5, <3>1, <3>2, ReachLeast
    <3>4. QED
      BY <1>4, <3>2, <3>3
  <2>4. graph'[start_vertex].depth = 0 /\ accepting' \subseteq DOMAIN graph' /\ start_vertex' \in DOMAIN graph'
    BY <1>2, <1>3, <1>4, <2>1
  <2>5. QED
    BY <2>1, <2>2, <2>3, <2>4 DEF GraphIsReached, Led, Neighbors
<1>10. \A i \in 1 .. n : to_process[i] # << >> => Last(to_process[i]) \in DOMAIN graph
  <2>1. \A i \in 1 .. n : to_process[i] \in Seq(Vertex) /\ ToSet(to_process[i]) \subseteq DOMAIN graph
    BY <1>1, <1>7 DEF OuterStackOK, Stack
  <2>2. \A i \in 1 .. n : to_process[i] # << >> => Last(to_process[i]) \in ToSet(to_process[i])
    BY <2>1, FrontAndLast
  <2>3. QED
    BY <2>1, <2>2
<1>11. OuterPath'
  <2>1. ASSUME NEW i \in 2 .. n
        PROVE  /\ to_process'[i - 1] # << >> /\ graph'[Last(to_process'[i - 1])].outer # "WHITE"
               /\ IsPrefix(to_process'[i], graph'[Last(to_process'[i - 1])].neighbors)
    <3>1. /\ to_process[i - 1] # << >> /\ graph[Last(to_process[i - 1])].outer # "WHITE"
          /\ IsPrefix(to_process[i], graph[Last(to_process[i - 1])].neighbors)
      BY <1>1 DEF OuterPath
    <3>2. i \in 1 .. n /\ i - 1 \in 1 .. n
      BY <1>7
    <3>3. Last(to_process[i - 1]) \in DOMAIN graph /\ Last(to_process[i - 1]) # v
      BY <1>3, <1>10, <3>1, <3>2
    <3>4. QED
      BY <1>6, <1>7, <3>1, <3>2, <3>3
  <2>2. IsPrefix(q, q)
    BY <1>4, PrefixElements
  <2>3. n \in 1 .. n /\ n + 1 - 1 = n /\ \A i \in 2 .. n + 1 : i \in 2 .. n \/ i = n + 1
    BY <1>7
  <2>4. /\ to_process'[n] # << >> /\ graph'[Last(to_process'[n])].outer # "WHITE"
        /\ IsPrefix(to_process'[n + 1], graph'[Last(to_process'[n])].neighbors)
    BY <1>4, <1>7, <1>8, <2>2, <2>3
  <2>5. QED
    BY <1>7, <2>1, <2>3, <2>4, SMTT(20) DEF OuterPath
<1>12. OuterStackOK'
  <2>1. \A i \in 1 .. n + 1 : ToSet(to_process'[i]) \subseteq DOMAIN graph'
    BY <1>1, <1>4, <1>7 DEF OuterStackOK
  <2>2. to_process'[1] \in {<<start_vertex'>>, << >>}
    BY <1>1, <1>3, <1>7 DEF OuterStackOK, UnchangedByOuter
  <2>3. ASSUME NEW j \in 1 .. n, NEW i \in 1 .. j - 1
        PROVE  ToSet(to_process[j]) \subseteq Abstract!Reach(Edges', ToSet(graph'[Last(to_process[i])].neighbors))
    <3>1. i \in 1 .. n - 1 /\ i \in 1 .. n /\ i + 1 \in 2 .. n /\ i + 1 - 1 = i
      BY <1>7
    <3>2. to_process[i] # << >> /\ graph[Last(to_process[i])].outer # "WHITE"
      BY <1>1, <3>1 DEF OuterPath
    <3>3. Last(to_process[i]) \in DOMAIN graph /\ Last(to_process[i]) # v
      BY <1>3, <1>10, <3>1, <3>2
    <3>4. ToSet(to_process[j]) \subseteq Abstract!Reach(Edges, ToSet(graph[Last(to_process[i])].neighbors))
      BY <1>1 DEF OuterStackOK, Led, Neighbors
    <3>5. /\ graph'[Last(to_process[i])].neighbors = graph[Last(to_process[i])].neighbors
          /\ ToSet(graph'[Last(to_process[i])].neighbors) \in SUBSET Vertex
      BY <1>4, <1>5, <1>6, <3>3
    <3>6. QED
      BY <1>5, <3>4, <3>5
  <2>4. ASSUME NEW i \in 1 .. n
        PROVE  ToSet(q) \subseteq Abstract!Reach(Edges', ToSet(graph'[Last(to_process[i])].neighbors))
    <3>1. to_process[i] # << >>
      <4>1. i = n \/ (i + 1 \in 2 .. n /\ i + 1 - 1 = i)
        BY <1>7
      <4>2. QED
        BY <1>1, <1>8, <4>1 DEF OuterPath
    <3>2. Last(to_process[i]) \in DOMAIN graph
      BY <1>10, <3>1
    <3>3. ToSet(graph'[Last(to_process[i])].neighbors) \in SUBSET Vertex
      BY <1>4, <1>5, <3>2
    <3>4. CASE i = n
      BY <1>8, <3>3, <3>4, <1>5, ReachLeast
    <3>5. CASE i # n
      <4>1. n \in 1 .. n /\ i \in 1 .. n - 1
        BY <1>7, <3>5
      <4>2. v \in Abstract!Reach(Edges', ToSet(graph'[Last(to_process[i])].neighbors))
        BY <1>8, <2>3, <4>1
      <4>3. QED
        BY <1>5, <3>3, <4>2, ReachLeast
    <3>6. QED
      BY <3>4, <3>5
  <2>5. ASSUME NEW j \in 1 .. n + 1, NEW i \in 1 .. j - 1
        PROVE  ToSet(to_process'[j]) \subseteq Abstract!Reach(Edges', ToSet(graph'[Last(to_process'[i])].neighbors))
    <3>1. i \in 1 .. n /\ (j \in 1 .. n \/ j = n + 1)
      BY <1>7
    <3>2. to_process'[i] = to_process[i]
      BY <1>7, <3>1
    <3>3. QED
      BY <1>7, <2>3, <2>4, <3>1, <3>2
  <2>6. QED
    BY <1>7, <2>1, <2>2, <2>5 DEF OuterStackOK, Led, Neighbors
<1>13. InnerPath' /\ InnerStackOK'
  <2>1. inner_process' = << >>
    BY <1>1, <1>3 DEF InnerStackOK, UnchangedByOuter
  <2>2. Len(inner_process') = 0 /\ ~ accepting_found'
    BY <1>3, <2>1 DEF UnchangedByOuter
  <2>3. QED
    BY <1>3, <2>1, <2>2 DEF InnerPath, InnerStackOK
<1>14. VerdictOK'
  BY <1>1, <1>3, <1>7 DEF VerdictOK, UnchangedByOuter
<1>15. ASSUME ~ depth_bound_reached' PROVE ClosedSoFar'
  <2>1. OuterIsClosed /\ VisitedIsLeft /\ AcceptingAreSealed
    BY <1>3, <1>15 DEF IInv, ClosedSoFar
  <2>2. OuterIsClosed'
    <3>1. \/ graph'[start_vertex].outer # "WHITE"
          \/ to_process' # << >> /\ to_process'[1] = <<start_vertex>>
      <4>1. start_vertex \in DOMAIN graph
        BY <1>1 DEF GraphIsReached
      <4>2. QED
        BY <1>4, <1>6, <1>7, <2>1, <4>1 DEF OuterIsClosed
    <3>2. ASSUME NEW u \in DOMAIN graph', graph'[u].outer # "WHITE",
                 NEW w \in ToSet(graph'[u].neighbors), graph'[w].outer = "WHITE"
          PROVE  <<u, w>> \in Waiting(to_process)'
      <4>1. u \in DOMAIN graph
        BY <1>4, <3>2
      <4>2. CASE u = v
        BY <1>7, <3>2, <4>2
      <4>3. CASE u # v
        <5>1. w \in ToSet(graph[u].neighbors) /\ graph[u].outer # "WHITE" /\ w \in DOMAIN graph
          BY <1>1, <1>6, <3>2, <4>1, <4>3 DEF GraphIsReached, Neighbors
        <5>2. graph[w].outer = "WHITE"
          BY <1>3, <1>6, <3>2, <5>1
        <5>3. QED
          BY <1>7, <2>1, <4>1, <5>1, <5>2 DEF OuterIsClosed, Neighbors
      <4>4. QED
        BY <4>2, <4>3
    <3>3. ASSUME NEW u \in DOMAIN graph', graph'[u].outer = "GRAY" PROVE u \in Spine(to_process)'
      <4>1. u \in DOMAIN graph
        BY <1>4, <3>3
      <4>2. QED
        BY <1>3, <1>6, <1>7, <2>1, <3>3, <4>1 DEF OuterIsClosed
    <3>4. QED
      BY <1>3, <3>1, <3>2, <3>3 DEF OuterIsClosed, Neighbors, UnchangedByOuter
  <2>3. VisitedIsLeft'
    <3>1. ASSUME NEW u \in DOMAIN graph', graph'[u].inner # "WHITE"
          PROVE  /\ graph'[u].inner = "BLACK" /\ graph'[u].outer = "BLACK"
                 /\ u \notin Path(to_process)'
                 /\ \A w \in ToSet(graph'[u].neighbors) : graph'[w].inner # "WHITE"
      <4>1. u \in DOMAIN graph /\ graph[u].inner # "WHITE"
        BY <1>4, <3>1
      <4>2. /\ graph[u].inner = "BLACK" /\ graph[u].outer = "BLACK" /\ u \notin Path(to_process)
            /\ \A w \in Neighbors(u) : graph[w].inner # "WHITE"
        BY <2>1, <4>1 DEF VisitedIsLeft
      <4>3. u # v
        BY <1>3, <4>2
      <4>4. \A w \in Neighbors(u) : w \in DOMAIN graph /\ graph'[w].inner # "WHITE"
        BY <1>1, <1>4, <1>6, <4>1, <4>2 DEF GraphIsReached
      <4>5. QED
        BY <1>6, <1>7, <4>1, <4>2, <4>3, <4>4 DEF Neighbors
    <3>2. QED
      BY <3>1 DEF VisitedIsLeft, Neighbors
  <2>4. AcceptingAreSealed'
    <3>1. ASSUME NEW u \in accepting', graph'[u].outer = "BLACK"
          PROVE  /\ Abstract!Reach(Edges', ToSet(graph'[u].neighbors)) \subseteq generated'
                 /\ u \notin Abstract!Reach(Edges', ToSet(graph'[u].neighbors))
      <4>1. u \in DOMAIN graph
        BY <1>1, <1>2, <1>3, <1>4, <3>1 DEF GraphIsReached
      <4>2. u # v /\ u \in accepting /\ graph[u].outer = "BLACK"
        BY <1>2, <1>3, <1>4, <1>6, <3>1, <4>1
      <4>3. /\ Abstract!Reach(Edges, ToSet(graph[u].neighbors)) \subseteq generated
            /\ u \notin Abstract!Reach(Edges, ToSet(graph[u].neighbors))
        BY <1>3, <2>1, <4>2 DEF AcceptingAreSealed, Sealed, Led, Neighbors
      <4>4. ToSet(graph'[u].neighbors) = ToSet(graph[u].neighbors) /\ ToSet(graph[u].neighbors) \in SUBSET Vertex
        BY <1>4, <1>5, <1>6, <4>1, <4>2
      <4>5. Abstract!Reach(Edges', ToSet(graph[u].neighbors)) \subseteq Abstract!Reach(Edges, ToSet(graph[u].neighbors))
        BY <1>5, <4>3, <4>4, ReachSealed
      <4>6. QED
        BY <1>3, <4>3, <4>4, <4>5
    <3>2. QED
      BY <1>3, <3>1 DEF AcceptingAreSealed, Sealed, Led, Neighbors
  <2>5. QED
    BY <1>3, <2>2, <2>3, <2>4 DEF ClosedSoFar
<1>16. QED
  BY <1>3, <1>9, <1>11, <1>12, <1>13, <1>14, <1>15 DEF IInv

(* what the outer search holds stays as it is during the inner one *)
LEMMA OuterKept ==
  ASSUME IInv, OnlyColors, \A w \in DOMAIN graph : graph'[w].outer = graph[w].outer,
         UNCHANGED <<mode, to_process, depth_bound, depth_bound_reached>>,
         VerdictOK'
  PROVE  /\ GraphIsReached' /\ OuterPath' /\ OuterStackOK'
         /\ OuterIsClosed /\ (pc' = pc \/ (pc' # "inner" /\ Path(to_process) \subseteq Spine(to_process)))
              => OuterIsClosed'
<1>1. TypeOK /\ GraphIsReached /\ OuterPath /\ OuterStackOK
  BY DEF IInv
<1>2. GraphIsReached'
  BY <1>1, ColorsKeepReached DEF GraphIsReached
<1>3. OuterPath' /\ OuterStackOK'
  <2>1. to_process \in Stack /\ to_process' = to_process
    BY <1>1 DEF TypeOK
  <2>2. Shorter(to_process', to_process) /\ to_process' \in Stack
    BY <2>1, StepsBack
  <2>3. QED
    BY <1>1, <2>2, OuterStepsBack
<1>4. ASSUME OuterIsClosed, pc' = pc \/ (pc' # "inner" /\ Path(to_process) \subseteq Spine(to_process))
      PROVE  OuterIsClosed'
  <2>1. /\ DOMAIN graph' = DOMAIN graph /\ start_vertex' = start_vertex /\ start_vertex \in DOMAIN graph
        /\ \A u \in DOMAIN graph : Neighbors(u)' = Neighbors(u) /\ Neighbors(u) \subseteq DOMAIN graph
    BY <1>1, ColorsKeepEdges DEF OnlyColors, GraphIsReached
  <2>2. /\ to_process' = to_process
        /\ Waiting(to_process)' = Waiting(to_process) /\ Path(to_process)' = Path(to_process)
        /\ Spine(to_process)' = Spine(to_process)
    BY DEF Waiting, Path, Spine
  <2>3. \/ graph'[start_vertex'].outer # "WHITE"
        \/ to_process' # << >> /\ to_process'[1] = <<start_vertex'>>
    BY <1>4, <2>1 DEF OuterIsClosed
  <2>4. \A u \in DOMAIN graph' : graph'[u].outer # "WHITE" =>
          \A w \in Neighbors(u)' : graph'[w].outer # "WHITE" \/ <<u, w>> \in Waiting(to_process)'
    BY <1>4, <2>1, <2>2 DEF OuterIsClosed
  <2>5. \A u \in DOMAIN graph' : graph'[u].outer = "GRAY" =>
          u \in IF pc' = "inner" THEN Path(to_process)' ELSE Spine(to_process)'
    BY <1>4, <2>1, <2>2 DEF OuterIsClosed
  <2>6. QED
    BY <2>3, <2>4, <2>5 DEF OuterIsClosed
<1>5. QED
  BY <1>2, <1>3, <1>4

(* A step back of the inner search: either the empty vector on top is
   dropped, or the vertex in hand, which was entered before, is left. *)
LEMMA InnerBackKeeps ==
  ASSUME IInv, TypeOK', InnerSearching, OnlyColors, UnchangedByInner, UNCHANGED accepting_found,
         \A w \in DOMAIN graph : graph'[w].outer = graph[w].outer,
         \A w \in DOMAIN graph : graph[w].inner # "WHITE" <=> graph'[w].inner # "WHITE",
         Shorter(inner_process', inner_process),
         graph[inner_start].inner = "WHITE" /\ inner_process[1] = <<inner_start>> =>
           inner_process' # << >> /\ inner_process'[1] = <<inner_start>>,
         \A u \in DOMAIN graph : graph'[u].inner = "GRAY" =>
           graph[u].inner = "GRAY" /\ (u \in Spine(inner_process) => u \in Spine(inner_process)'),
         \A u, w \in DOMAIN graph : <<u, w>> \in Waiting(inner_process) =>
           <<u, w>> \in Waiting(inner_process)' \/ graph'[w].inner # "WHITE"
  PROVE  IInv'
<1>1. TypeOK /\ GraphIsReached /\ InnerPath /\ InnerStackOK /\ VerdictOK
  BY DEF IInv
<1>2. pc = "inner" /\ pc' = "inner" /\ ~ accepting_found
  BY DEF InnerSearching, UnchangedByInner
<1>3. VerdictOK'
  BY <1>1, <1>2 DEF VerdictOK, UnchangedByInner
<1>4. /\ GraphIsReached' /\ OuterPath' /\ OuterStackOK'
      /\ OuterIsClosed => OuterIsClosed'
  BY <1>2, <1>3, OuterKept DEF UnchangedByInner
<1>5. InnerPath' /\ InnerStackOK'
  BY <1>1, <1>2, InnerStepsBack DEF TypeOK, UnchangedByInner
<1>6. /\ DOMAIN graph' = DOMAIN graph
      /\ \A S : Led(S)' = Led(S)
      /\ \A u \in DOMAIN graph : /\ Neighbors(u)' = Neighbors(u) /\ Neighbors(u) \subseteq DOMAIN graph
                                 /\ Led(Neighbors(u))' = Led(Neighbors(u))
  BY <1>1, ColorsKeepEdges DEF OnlyColors, GraphIsReached
<1>7. ASSUME ~ depth_bound_reached' PROVE ClosedSoFar'
  <2>1. OuterIsClosed /\ InnerIsClosed /\ AcceptingAreSealed
    BY <1>2, <1>7 DEF IInv, ClosedSoFar, UnchangedByInner
  <2>2. AcceptingAreSealed'
    BY <1>1, <1>2, <2>1, ColorsKeepSealed DEF UnchangedByInner, GraphIsReached
  <2>3. inner_start \in DOMAIN graph /\ inner_start' = inner_start
    BY <1>1, <1>2 DEF InnerStackOK, TypeOK, UnchangedByInner
  <2>4. InnerIsClosed'
    <3>1. graph'[inner_start].outer = "BLACK"
      BY <2>1, <2>3 DEF InnerIsClosed
    <3>2. \A p \in Path(to_process)' : inner_start \in Abstract!Reach(Edges', ToSet(graph'[p].neighbors))
      <4>1. Path(to_process)' = Path(to_process) /\ Path(to_process) \subseteq DOMAIN graph
        <5>1. Path(to_process)' = Path(to_process)
          BY DEF UnchangedByInner, Path
        <5>2. ASSUME NEW i \in 1 .. Len(to_process) - 1 PROVE Last(to_process[i]) \in DOMAIN graph
          <6>1. Len(to_process) \in Nat
            BY <1>1 DEF TypeOK, Stack
          <6>2. i \in 1 .. Len(to_process) /\ to_process[i] # << >> /\ to_process[i] \in Seq(Vertex)
            BY <1>1, <6>1, BelowAreFilled, SMTT(20) DEF BelowFilled, IInv, Stack, TypeOK
          <6>3. Last(to_process[i]) \in ToSet(to_process[i])
            BY <6>2, FrontAndLast, ZenonT(20)
          <6>4. QED
            BY <6>2, <6>3 DEF IInv, OuterStackOK
        <5>3. QED
          BY <5>1, <5>2 DEF Path
      <4>2. \A p \in DOMAIN graph : graph'[p].neighbors = graph[p].neighbors
        BY DEF OnlyColors
      <4>3. Edges' = Edges
        BY <1>1, ColorsKeepEdges
      <4>4. \A p \in Path(to_process) : inner_start \in Abstract!Reach(Edges, ToSet(graph[p].neighbors))
        BY <2>1 DEF InnerIsClosed, Led, Neighbors
      <4>5. QED
        BY <4>1, <4>2, <4>3, <4>4
    <3>3. \/ graph'[inner_start].inner # "WHITE"
          \/ inner_process' # << >> /\ inner_process'[1] = <<inner_start>>
      BY <2>1, <2>3 DEF InnerIsClosed
    <3>4. ASSUME NEW u \in DOMAIN graph, graph'[u].inner # "WHITE"
          PROVE  /\ graph'[u].outer = "BLACK" \/ u \in Abstract!Reach(Edges', {inner_start})
                 /\ graph'[u].inner = "GRAY" => u \in Spine(inner_process)'
                 /\ inner_start \notin Neighbors(u)'
                 /\ \A w \in Neighbors(u)' : graph'[w].inner # "WHITE" \/ <<u, w>> \in Waiting(inner_process)'
      <4>1. /\ graph[u].outer = "BLACK" \/ u \in Led({inner_start})
            /\ graph[u].inner = "GRAY" => u \in Spine(inner_process)
            /\ inner_start \notin Neighbors(u)
            /\ \A w \in Neighbors(u) : graph[w].inner # "WHITE" \/ <<u, w>> \in Waiting(inner_process)
        BY <2>1, <3>4 DEF InnerIsClosed
      <4>2. Led({inner_start}) = Abstract!Reach(Edges', {inner_start})
        BY <1>1, ColorsKeepEdges DEF Led
      <4>3. QED
        BY <1>6, <3>4, <4>1, <4>2
    <3>5. QED
      BY <1>6, <2>3, <3>1, <3>2, <3>3, <3>4 DEF InnerIsClosed, Led, Neighbors
  <2>5. QED
    BY <1>2, <1>4, <2>1, <2>2, <2>4 DEF ClosedSoFar
<1>8. QED
  BY <1>2, <1>3, <1>4, <1>5, <1>7 DEF IInv, UnchangedByInner

LEMMA InnerRetreatKeeps ==
  ASSUME IInv, TypeOK', InnerRetreat
  PROVE  IInv'
<1>1. TypeOK /\ InnerPath /\ InnerStackOK
  BY DEF IInv
<1>2. /\ InnerSearching /\ Top(inner_process) = << >> /\ inner_process' = Front(inner_process)
      /\ UnchangedByInner /\ UNCHANGED <<graph, accepting_found>>
  BY DEF InnerRetreat
<1>3. OnlyColors /\ graph' = graph
  BY <1>1, <1>2, SameGraph DEF UnchangedByInner
<1>4. inner_process \in Stack /\ inner_process # << >>
  BY <1>1, <1>2 DEF TypeOK, InnerSearching
<1>5. /\ Len(inner_process) \in Nat \ {0} /\ Len(inner_process') = Len(inner_process) - 1
      /\ \A i \in 1 .. Len(inner_process) - 1 : inner_process'[i] = inner_process[i]
      /\ Top(inner_process) = inner_process[Len(inner_process)]
  BY <1>2, <1>4, StackDropped
<1>6. /\ Shorter(inner_process', inner_process)
      /\ Spine(inner_process) \subseteq Spine(inner_process)'
      /\ Waiting(inner_process) \subseteq Waiting(inner_process)'
  BY <1>1, <1>2, <1>4, StepsBack, DropKeeps, BelowAreFilled
<1>7. ASSUME inner_process[1] = <<inner_start>>
      PROVE  inner_process' # << >> /\ inner_process'[1] = <<inner_start>>
  <2>1. <<inner_start>> # << >>
    OBVIOUS
  <2>2. Len(inner_process) # 1
    BY <1>2, <1>5, <1>7, <2>1
  <2>3. QED
    BY <1>5, <1>7, <2>2
<1>8. QED
  BY <1>2, <1>3, <1>6, <1>7, InnerBackKeeps

(* the vertex in hand, which was entered before, is taken off the inner stack *)
LEMMA InnerPopKeeps ==
  ASSUME IInv, TypeOK', InnerSearching, Top(inner_process) # << >>, OnlyColors,
         NEW v, v = Current(inner_process), graph[v].inner # "WHITE", graph'[v].inner = "BLACK",
         inner_process' = PopBack(inner_process),
         \A w \in DOMAIN graph : graph'[w].outer = graph[w].outer,
         \A w \in DOMAIN graph \ {v} : graph'[w].inner = graph[w].inner,
         UnchangedByInner, UNCHANGED accepting_found
  PROVE  IInv'
<1>1. TypeOK /\ InnerPath /\ InnerStackOK
  BY DEF IInv
<1>2. inner_process \in Stack /\ inner_process # << >>
  BY <1>1 DEF TypeOK, InnerSearching
<1>3. /\ inner_process' # << >> /\ Len(inner_process) \in Nat \ {0}
      /\ \A i \in 1 .. Len(inner_process) - 1 : inner_process'[i] = inner_process[i]
      /\ v = Last(inner_process[Len(inner_process)])
  BY <1>2, StackPopped
<1>4. /\ Shorter(inner_process', inner_process)
      /\ Path(inner_process) \subseteq Spine(inner_process)'
      /\ Spine(inner_process) \subseteq Path(inner_process) \cup {v}
      /\ \A u, w : <<u, w>> \in Waiting(inner_process) => <<u, w>> \in Waiting(inner_process)' \/ w = v
  BY <1>1, <1>2, StepsBack, PopKeeps, BelowAreFilled
<1>5. ASSUME graph[inner_start].inner = "WHITE", inner_process[1] = <<inner_start>>
      PROVE  inner_process'[1] = <<inner_start>>
  <2>1. ASSUME Len(inner_process) = 1 PROVE FALSE
    <3>1. v = inner_start
      BY <1>3, <1>5, <2>1 DEF Last
    <3>2. QED
      BY <1>5, <3>1
  <2>2. 1 \in 1 .. Len(inner_process) - 1
    <3>1. \A m \in Nat \ {0} : m # 1 => 1 \in 1 .. m - 1
      OBVIOUS
    <3>2. QED
      BY <1>3, <2>1, <3>1
  <2>3. QED
    BY <1>3, <1>5, <2>2
<1>6. \A u \in DOMAIN graph : graph'[u].inner = "GRAY" =>
        graph[u].inner = "GRAY" /\ (u \in Spine(inner_process) => u \in Spine(inner_process)')
  BY <1>4
<1>7. \A w \in DOMAIN graph : graph[w].inner # "WHITE" <=> graph'[w].inner # "WHITE"
  OBVIOUS
<1>8. \A u, w \in DOMAIN graph : <<u, w>> \in Waiting(inner_process) =>
        <<u, w>> \in Waiting(inner_process)' \/ graph'[w].inner # "WHITE"
  BY <1>4
<1>9. QED
  BY <1>3, <1>4, <1>5, <1>6, <1>7, <1>8, InnerBackKeeps

LEMMA InnerLeaveKeeps ==
  ASSUME IInv, TypeOK', NEW v \in DOMAIN graph, InnerLeave(v)
  PROVE  IInv'
<1>1. /\ InnerSearching /\ Top(inner_process) # << >> /\ v = Current(inner_process)
      /\ graph[v].inner = "GRAY" /\ graph' = [graph EXCEPT ![v].inner = "BLACK"]
      /\ inner_process' = PopBack(inner_process) /\ UnchangedByInner /\ UNCHANGED accepting_found
  BY DEF InnerLeave, InnerInHand
<1>2. /\ OnlyColors
      /\ \A w \in DOMAIN graph : graph'[w].outer = graph[w].outer
      /\ \A w \in DOMAIN graph \ {v} : graph'[w].inner = graph[w].inner
      /\ graph'[v].inner = "BLACK"
  BY <1>1, InnerColored DEF IInv, UnchangedByInner, Color
<1>3. QED
  BY <1>1, <1>2, InnerPopKeeps

LEMMA InnerSkipKeeps ==
  ASSUME IInv, TypeOK', NEW v \in DOMAIN graph, InnerSkip(v)
  PROVE  IInv'
<1>1. /\ InnerSearching /\ Top(inner_process) # << >> /\ v = Current(inner_process)
      /\ graph[v].inner = "BLACK" /\ graph' = graph /\ accepting_found' = accepting_found
      /\ inner_process' = PopBack(inner_process) /\ UnchangedByInner
  BY DEF InnerSkip, InnerInHand
<1>2. OnlyColors
  BY <1>1, SameGraph DEF IInv, UnchangedByInner
<1>3. QED
  BY <1>1, <1>2, InnerPopKeeps

LEMMA InnerEnterKeeps ==
  ASSUME IInv, TypeOK', NEW v \in DOMAIN graph, InnerEnter(v)
  PROVE  IInv'
<1>1. TypeOK /\ GraphIsReached /\ InnerPath /\ InnerStackOK /\ VerdictOK
  BY DEF IInv
<1> DEFINE q == graph[v].neighbors
           n == Len(inner_process)
<1>2. /\ InnerSearching /\ Top(inner_process) # << >> /\ v = Current(inner_process)
      /\ graph[v].inner = "WHITE" /\ graph' = [graph EXCEPT ![v].inner = "GRAY"]
      /\ inner_process' = Append(inner_process, q) /\ UnchangedByInner
      /\ accepting_found' = (inner_start \in Neighbors(v))
      /\ pc = "inner" /\ pc' = "inner" /\ ~ accepting_found
  BY DEF InnerEnter, InnerInHand, InnerSearching, UnchangedByInner, Neighbors
<1>3. /\ OnlyColors
      /\ \A w \in DOMAIN graph : graph'[w].outer = graph[w].outer
      /\ \A w \in DOMAIN graph \ {v} : graph'[w].inner = graph[w].inner
      /\ graph'[v].inner = "GRAY"
  BY <1>1, <1>2, InnerColored DEF UnchangedByInner, Color
<1>4. VerdictOK'
  BY <1>1, <1>2 DEF VerdictOK, UnchangedByInner
<1>5. /\ GraphIsReached' /\ OuterPath' /\ OuterStackOK'
      /\ OuterIsClosed => OuterIsClosed'
  BY <1>2, <1>3, <1>4, OuterKept DEF UnchangedByInner
<1>6. /\ DOMAIN graph' = DOMAIN graph /\ Edges' = Edges
      /\ \A u \in DOMAIN graph : graph'[u].neighbors = graph[u].neighbors
      /\ \A u \in DOMAIN graph : graph[u].neighbors \in Seq(Vertex)
      /\ \A u \in DOMAIN graph : ToSet(graph[u].neighbors) \subseteq DOMAIN graph
      /\ inner_start' = inner_start /\ inner_start \in accepting \cap generated /\ inner_start \in DOMAIN graph
      /\ UNCHANGED <<accepting, generated>>
  BY <1>1, <1>2, <1>3, ColorsKeepEdges DEF OnlyColors, GraphIsReached, Neighbors, TypeOK, VertexInfo,
     UnchangedByInner, InnerStackOK
<1> DEFINE L == Abstract!Reach(Edges, ToSet(graph[inner_start].neighbors))
<1>7. /\ inner_process \in Stack /\ inner_process # << >> /\ n \in Nat \ {0}
      /\ Len(inner_process') = n + 1 /\ inner_process' # << >>
      /\ \A i \in 1 .. n : inner_process'[i] = inner_process[i]
      /\ inner_process'[n + 1] = q
      /\ Spine(inner_process) \cup {v} \subseteq Spine(inner_process)'
      /\ Waiting(inner_process) \subseteq Waiting(inner_process)'
      /\ \A w \in ToSet(q) : <<v, w>> \in Waiting(inner_process)'
  <2>1. inner_process \in Stack /\ inner_process # << >> /\ q \in Seq(Vertex)
    BY <1>1, <1>2, <1>6 DEF TypeOK, InnerSearching
  <2> HIDE DEF q
  <2>2. QED
    BY <1>2, <2>1, PushKeeps
<1>8. /\ inner_process[n] \in Seq(Vertex) /\ inner_process[n] # << >> /\ v = Last(inner_process[n])
      /\ v \in ToSet(inner_process[n])
  <2>1. /\ inner_process[n] \in Seq(Vertex) /\ inner_process[n] # << >> /\ v = Last(inner_process[n])
        /\ ToSet(inner_process[n]) = ToSet(Front(inner_process[n])) \cup {v}
    BY <1>2, <1>7, StackPopped
  <2>2. QED
    BY <2>1
<1>9. /\ Edges \in Graph /\ DOMAIN Edges = generated
      /\ \A u \in generated : Edges[u] = ToSet(graph[u].neighbors) /\ u \in DOMAIN graph
      /\ \A u \in DOMAIN graph : u \in Vertex /\ ToSet(graph[u].neighbors) \in SUBSET Vertex
  BY <1>1, EdgesAreGraph DEF Neighbors, TypeOK
<1>10. v = inner_start \/ v \in L
  <2>1. CASE n = 1
    <3>1. inner_process[1] = <<inner_start>>
      BY <1>1, <1>7, <1>8, <2>1 DEF InnerStackOK
    <3>2. QED
      BY <1>8, <2>1, <3>1 DEF Last
  <2>2. CASE n # 1
    <3>1. n \in 2 .. n
      <4>1. \A m \in Nat \ {0} : m # 1 => m \in 2 .. m
        OBVIOUS
      <4>2. n \in Nat \ {0}
        BY <1>7
      <4>3. QED
        BY <2>2, <4>1, <4>2
    <3>2. ToSet(inner_process[n]) \subseteq L
      BY <1>1, <3>1 DEF InnerStackOK, Led, Neighbors
    <3>3. QED
      BY <1>8, <3>2
  <2>3. QED
    BY <2>1, <2>2
<1>11. ToSet(q) \subseteq L
  <2>1. L \subseteq Vertex /\ ToSet(graph[inner_start].neighbors) \subseteq L
        /\ \A u \in L \cap generated : ToSet(graph[u].neighbors) \subseteq L
    BY <1>6, <1>9, ReachLeast
  <2>2. CASE v = inner_start
    BY <2>1, <2>2
  <2>3. CASE v \in L /\ v \in generated
    BY <2>1, <2>3
  <2>4. CASE v \notin generated
    <3>1. q = << >>
      BY <1>1, <2>4 DEF GraphIsReached
    <3>2. QED
      BY <3>1 DEF ToSet
  <2>5. QED
    BY <1>10, <2>2, <2>3, <2>4
<1>12. InnerPath'
  <2>1. \A i \in 2 .. n : i \in 1 .. n /\ i - 1 \in 1 .. n
    BY <1>7
  <2>2. \A i \in 1 .. n : inner_process[i] # << >> => Last(inner_process[i]) \in DOMAIN graph
    <3>1. \A i \in 1 .. n : inner_process[i] \in Seq(Vertex) /\ ToSet(inner_process[i]) \subseteq DOMAIN graph
      BY <1>1, <1>7 DEF InnerStackOK, Stack
    <3>2. \A i \in 1 .. n : inner_process[i] # << >> => Last(inner_process[i]) \in ToSet(inner_process[i])
      BY <3>1, FrontAndLast
    <3>3. QED
      BY <3>1, <3>2
  <2>3. ASSUME NEW i \in 2 .. n
        PROVE  /\ inner_process'[i - 1] # << >> /\ graph'[Last(inner_process'[i - 1])].inner # "WHITE"
               /\ IsPrefix(inner_process'[i], graph'[Last(inner_process'[i - 1])].neighbors)
    <3>1. /\ inner_process[i - 1] # << >> /\ graph[Last(inner_process[i - 1])].inner # "WHITE"
          /\ IsPrefix(inner_process[i], graph[Last(inner_process[i - 1])].neighbors)
      BY <1>1 DEF InnerPath
    <3>2. Last(inner_process[i - 1]) \in DOMAIN graph
      BY <2>1, <2>2, <3>1
    <3>3. graph'[Last(inner_process[i - 1])].inner # "WHITE"
      BY <1>3, <3>1, <3>2
    <3>4. QED
      BY <1>6, <1>7, <2>1, <3>1, <3>2, <3>3
  <2>4. IsPrefix(q, q)
    BY <1>6, PrefixElements
  <2>5. n \in 1 .. n /\ n + 1 - 1 = n /\ \A i \in 2 .. n + 1 : i \in 2 .. n \/ i = n + 1
    BY <1>7
  <2>6. /\ inner_process'[n] # << >> /\ graph'[Last(inner_process'[n])].inner # "WHITE"
        /\ IsPrefix(inner_process'[n + 1], graph'[Last(inner_process'[n])].neighbors)
    BY <1>3, <1>6, <1>7, <1>8, <2>4, <2>5
  <2>7. QED
    BY <1>7, <2>3, <2>5, <2>6 DEF InnerPath
<1>13. accepting_found' => inner_start \in L
  BY <1>2, <1>11 DEF Neighbors
<1>14. InnerStackOK'
  <2>1. inner_process'[1] \in {<<inner_start>>, << >>}
    BY <1>1, <1>7 DEF InnerStackOK
  <2>2. \A i \in 1 .. n + 1 : ToSet(inner_process'[i]) \subseteq DOMAIN graph'
    BY <1>1, <1>6, <1>7 DEF InnerStackOK
  <2>3. \A i \in 2 .. n + 1 : ToSet(inner_process'[i]) \subseteq L
    <3>1. \A i \in 2 .. n : ToSet(inner_process[i]) \subseteq L /\ i \in 1 .. n
      BY <1>1, <1>7 DEF InnerStackOK, Led, Neighbors
    <3>2. QED
      BY <1>7, <1>11, <3>1
  <2>4. L = Abstract!Reach(Edges', ToSet(graph'[inner_start'].neighbors))
    BY <1>6
  <2> HIDE DEF L
  <2>5. QED
    BY <1>2, <1>6, <1>7, <1>13, <2>1, <2>2, <2>3, <2>4 DEF InnerStackOK, Led, Neighbors
<1>15. ASSUME ~ accepting_found', ~ depth_bound_reached' PROVE ClosedSoFar'
  <2>1. OuterIsClosed /\ InnerIsClosed /\ AcceptingAreSealed
    BY <1>2, <1>15 DEF IInv, ClosedSoFar, UnchangedByInner
  <2>2. AcceptingAreSealed'
    BY <1>1, <1>2, <1>3, <2>1, ColorsKeepSealed DEF UnchangedByInner, GraphIsReached
  <2>3. \A p \in Path(to_process)' : inner_start \in Abstract!Reach(Edges', ToSet(graph'[p].neighbors))
    <3>1. Path(to_process)' = Path(to_process) /\ Path(to_process) \subseteq DOMAIN graph
      <4>1. Path(to_process)' = Path(to_process)
        BY <1>2 DEF UnchangedByInner, Path
      <4>2. ASSUME NEW i \in 1 .. Len(to_process) - 1 PROVE Last(to_process[i]) \in DOMAIN graph
        <5>1. Len(to_process) \in Nat
          BY <1>1 DEF TypeOK, Stack
        <5>2. i \in 1 .. Len(to_process) /\ to_process[i] # << >> /\ to_process[i] \in Seq(Vertex)
          BY <1>1, <5>1, BelowAreFilled, SMTT(20) DEF BelowFilled, IInv, Stack, TypeOK
        <5>3. Last(to_process[i]) \in ToSet(to_process[i])
          BY <5>2, FrontAndLast
        <5>4. QED
          BY <5>2, <5>3 DEF IInv, OuterStackOK
      <4>3. QED
        BY <4>1, <4>2 DEF Path
    <3>2. \A p \in Path(to_process) : inner_start \in Abstract!Reach(Edges, ToSet(graph[p].neighbors))
      BY <2>1 DEF InnerIsClosed, Led, Neighbors
    <3>3. QED
      BY <1>6, <3>1, <3>2
  <2>4. \/ graph'[inner_start].inner # "WHITE"
        \/ inner_process' # << >> /\ inner_process'[1] = <<inner_start>>
    BY <1>3, <1>6, <1>7, <2>1 DEF InnerIsClosed
  <2>5. \A u \in DOMAIN graph : graph'[u].inner # "WHITE" => u = v \/ graph[u].inner # "WHITE"
    BY <1>3
  <2>6. ASSUME NEW u \in DOMAIN graph, graph'[u].inner # "WHITE"
        PROVE  /\ graph'[u].outer = "BLACK" \/ u \in Abstract!Reach(Edges, {inner_start})
               /\ graph'[u].inner = "GRAY" => u \in Spine(inner_process)'
               /\ inner_start \notin ToSet(graph[u].neighbors)
               /\ \A w \in ToSet(graph[u].neighbors) :
                    graph'[w].inner # "WHITE" \/ <<u, w>> \in Waiting(inner_process)'
    <3>1. CASE u = v
      <4>1. v \in Abstract!Reach(Edges, {inner_start})
        BY <1>6, <1>9, <1>10, ReachFrom
      <4>2. inner_start \notin ToSet(graph[u].neighbors)
        BY <1>2, <1>15, <3>1 DEF Neighbors
      <4>3. QED
        BY <1>7, <3>1, <4>1, <4>2
    <3>2. CASE u # v
      <4>1. /\ graph[u].outer = "BLACK" \/ u \in Led({inner_start})
            /\ graph[u].inner = "GRAY" => u \in Spine(inner_process)
            /\ inner_start \notin Neighbors(u)
            /\ \A w \in Neighbors(u) : graph[w].inner # "WHITE" \/ <<u, w>> \in Waiting(inner_process)
        BY <2>1, <2>5, <2>6, <3>2 DEF InnerIsClosed
      <4>2. \A w \in Neighbors(u) : graph[w].inner # "WHITE" => graph'[w].inner # "WHITE"
        BY <1>2, <1>3, <1>6 DEF Neighbors
      <4>3. QED
        BY <1>3, <1>7, <2>6, <3>2, <4>1, <4>2 DEF Led, Neighbors
    <3>3. QED
      BY <3>1, <3>2
  <2>7. graph'[inner_start].outer = "BLACK"
    BY <1>3, <1>6, <2>1 DEF InnerIsClosed
  <2>8. InnerIsClosed'
    BY <1>6, <2>3, <2>4, <2>6, <2>7 DEF InnerIsClosed, Led, Neighbors
  <2>9. QED
    BY <1>2, <1>5, <2>1, <2>2, <2>8 DEF ClosedSoFar
<1>16. QED
  BY <1>4, <1>5, <1>12, <1>14, <1>15 DEF IInv

(* The path of a stack is part of its spine, and what waits lies above it. *)
LEMMA PathAndWaiting ==
  ASSUME NEW stack \in Stack, BelowFilled(stack)
  PROVE  /\ Path(stack) \subseteq Spine(stack)
         /\ \A u, w : <<u, w>> \in Waiting(stack) => u \in Path(stack)
         /\ stack = << >> => Spine(stack) = {} /\ Waiting(stack) = {}
<1>1. Len(stack) \in Nat
  BY DEF Stack
<1>2. Path(stack) \subseteq Spine(stack)
  BY <1>1 DEF Path, Spine, BelowFilled
<1>3. ASSUME NEW u, NEW w, <<u, w>> \in Waiting(stack) PROVE u \in Path(stack)
  <2>1. PICK i \in 2 .. Len(stack) : u = Last(stack[i - 1])
    BY <1>3, WaitingPairs
  <2>2. i - 1 \in 1 .. Len(stack) - 1
    BY <1>1
  <2>3. QED
    BY <2>1, <2>2 DEF Path
<1>4. stack = << >> => Spine(stack) = {} /\ Waiting(stack) = {}
  BY DEF Spine, Waiting
<1>5. QED
  BY <1>2, <1>3, <1>4

(* When an inner search returns without a cycle, what the inner searches
   visited is closed, was left by the outer search and keeps clear of its
   path, and the accepting vertex it was started for is sealed. *)
LEMMA VisitedWasLeft ==
  ASSUME IInv, pc = "inner", inner_process = << >>, InnerIsClosed, OuterIsClosed
  PROVE  VisitedIsLeft /\ Sealed(inner_start)
<1> DEFINE s == inner_start
           V == {u \in DOMAIN graph : graph[u].inner # "WHITE"}
           T == V \ {s}
           B == {u \in V : graph[u].outer # "WHITE"}
<1>1. TypeOK /\ GraphIsReached /\ OuterPath /\ InnerStackOK
  BY DEF IInv
<1>2. /\ Edges \in Graph /\ DOMAIN Edges = generated /\ generated \subseteq DOMAIN graph
      /\ \A u \in generated : Edges[u] = Neighbors(u)
      /\ \A u \in DOMAIN graph : u \in Vertex /\ Neighbors(u) \in SUBSET Vertex
      /\ \A u \in DOMAIN graph : Neighbors(u) \subseteq DOMAIN graph
      /\ s \in DOMAIN graph
  BY <1>1, EdgesAreGraph DEF TypeOK, GraphIsReached, InnerStackOK
<1>3. Spine(inner_process) = {} /\ Waiting(inner_process) = {}
  BY DEF Spine, Waiting
<1>4. \A u \in V : /\ graph[u].inner = "BLACK" /\ s \notin Neighbors(u) /\ Neighbors(u) \subseteq T
                   /\ graph[u].outer = "BLACK" \/ u \in Led({s})
  <2>1. \A u \in DOMAIN graph : graph[u].inner \in Color
    BY <1>1 DEF TypeOK, VertexInfo
  <2>2. QED
    BY <1>2, <1>3, <2>1 DEF InnerIsClosed, Color
<1>5. s \in V /\ graph[s].outer = "BLACK"
  BY <1>2 DEF InnerIsClosed
<1>6. T \in SUBSET Vertex /\ \A u \in T \cap DOMAIN Edges : Edges[u] \subseteq T
  BY <1>2, <1>4
<1>7. \A u \in V : Led(Neighbors(u)) \subseteq T
  <2>1. SUFFICES ASSUME NEW u \in V PROVE Led(Neighbors(u)) \subseteq T
    OBVIOUS
  <2>2. Neighbors(u) \in SUBSET Vertex /\ Neighbors(u) \subseteq T
    BY <1>2, <1>4
  <2> HIDE DEF T
  <2>3. QED
    BY <1>2, <1>6, <2>2, ReachLeast DEF Led
<1>8. \A u \in V : u \notin Path(to_process)
  <2>1. \A u \in Path(to_process) : s \in Led(Neighbors(u))
    BY DEF InnerIsClosed
  <2>2. QED
    BY <1>7, <2>1
<1>9. B \in SUBSET Vertex /\ \A u \in B \cap DOMAIN Edges : Edges[u] \subseteq B
  <2>1. B \in SUBSET Vertex
    BY <1>2
  <2>2. ASSUME NEW u \in B, NEW w \in Neighbors(u) PROVE w \in B
    <3>1. w \in V
      BY <1>4, <2>2
    <3>2. <<u, w>> \notin Waiting(to_process)
      BY <1>1, <1>8, <2>2, PathAndWaiting, BelowAreFilled DEF TypeOK
    <3>3. graph[w].outer # "WHITE"
      BY <1>2, <2>2, <3>2 DEF OuterIsClosed
    <3>4. QED
      BY <3>1, <3>3
  <2>3. QED
    BY <1>2, <2>1, <2>2
<1>10. Led({s}) \subseteq B
  <2>1. {s} \subseteq B /\ {s} \in SUBSET Vertex
    BY <1>2, <1>5
  <2> HIDE DEF B
  <2>2. QED
    BY <1>2, <1>9, <2>1, ReachLeast DEF Led
<1>11. \A u \in V : graph[u].outer = "BLACK"
  <2>1. \A u \in V : graph[u].outer \in Color /\ graph[u].outer # "WHITE"
    BY <1>1, <1>4, <1>10 DEF TypeOK, VertexInfo
  <2>2. \A u \in V : graph[u].outer # "GRAY"
    BY <1>8 DEF OuterIsClosed
  <2>3. QED
    BY <2>1, <2>2 DEF Color
<1>12. VisitedIsLeft
  BY <1>4, <1>8, <1>11 DEF VisitedIsLeft
<1>13. Sealed(s)
  <2>1. Led(Neighbors(s)) \subseteq T
    BY <1>5, <1>7
  <2>2. T \subseteq generated
    BY <1>1, <1>11 DEF GraphIsReached
  <2>3. QED
    BY <2>1, <2>2 DEF Sealed
<1>14. QED
  BY <1>12, <1>13

LEMMA InnerReturnKeeps ==
  ASSUME IInv, TypeOK', InnerReturn
  PROVE  IInv'
<1>1. TypeOK /\ GraphIsReached /\ OuterPath /\ InnerPath /\ InnerStackOK /\ VerdictOK
  BY DEF IInv
<1>2. /\ pc = "inner" /\ pc' = "outer" /\ (accepting_found \/ inner_process = << >>)
      /\ UNCHANGED <<mode, start_vertex, accepting, graph, generated, to_process, depth_bound,
                     depth_bound_reached, accepting_found, inner_start, inner_process, output>>
  BY DEF InnerReturn
<1>3. OnlyColors /\ graph' = graph
  BY <1>1, <1>2, SameGraph
<1>4. VerdictOK'
  BY <1>1, <1>2 DEF VerdictOK
<1>5. Path(to_process) \subseteq Spine(to_process)
  BY <1>1, PathAndWaiting, BelowAreFilled DEF TypeOK
<1>6. /\ GraphIsReached' /\ OuterPath' /\ OuterStackOK'
      /\ OuterIsClosed => OuterIsClosed'
  BY <1>2, <1>3, <1>4, <1>5, OuterKept
<1>7. InnerPath' /\ InnerStackOK'
  <2>1. Shorter(inner_process', inner_process) /\ inner_process' \in Stack
    BY <1>1, <1>2, StepsBack DEF TypeOK
  <2>2. QED
    BY <1>1, <1>2, <1>3, <2>1, InnerStepsBack
<1>8. ASSUME ~ accepting_found', ~ depth_bound_reached' PROVE ClosedSoFar'
  <2>1. OuterIsClosed /\ InnerIsClosed /\ AcceptingAreSealed
    BY <1>2, <1>8 DEF IInv, ClosedSoFar
  <2>2. VisitedIsLeft /\ Sealed(inner_start)
    BY <1>2, <1>8, <2>1, VisitedWasLeft
  <2>3. VisitedIsLeft'
    BY <1>2, <2>2 DEF VisitedIsLeft, Neighbors, Path
  <2>4. AcceptingAreSealed'
    <3>1. \A u \in DOMAIN graph : Sealed(u)' <=> Sealed(u)
      BY <1>1, <1>3, ColorsKeepEdges
    <3>2. \A u \in accepting : graph[u].outer = "BLACK" => Sealed(u)
      BY <2>1, <2>2 DEF AcceptingAreSealed
    <3>3. QED
      BY <1>1, <1>2, <3>1, <3>2 DEF AcceptingAreSealed, GraphIsReached
  <2>5. QED
    BY <1>2, <1>6, <2>1, <2>3, <2>4 DEF ClosedSoFar
<1>9. QED
  BY <1>4, <1>6, <1>7, <1>8 DEF IInv

LEMMA FinishKeeps ==
  ASSUME IInv, TypeOK', Finish
  PROVE  IInv'
<1>1. TypeOK /\ GraphIsReached /\ OuterPath /\ InnerPath /\ InnerStackOK /\ VerdictOK
  BY DEF IInv
<1>2. /\ pc = "outer" /\ pc' = "end" /\ (accepting_found \/ to_process = << >>)
      /\ output' = IF accepting_found THEN "violated" ELSE "holds"
      /\ UNCHANGED <<mode, start_vertex, accepting, graph, generated, to_process, depth_bound,
                     depth_bound_reached, accepting_found, inner_start, inner_process>>
  BY DEF Finish
<1>3. OnlyColors /\ graph' = graph
  BY <1>1, <1>2, SameGraph
<1>4. VerdictOK'
  BY <1>1, <1>2 DEF VerdictOK
<1>5. Path(to_process) \subseteq Spine(to_process)
  BY <1>1, PathAndWaiting, BelowAreFilled DEF TypeOK
<1>6. /\ GraphIsReached' /\ OuterPath' /\ OuterStackOK'
      /\ OuterIsClosed => OuterIsClosed'
  BY <1>2, <1>3, <1>4, <1>5, OuterKept
<1>7. InnerPath' /\ InnerStackOK'
  <2>1. Shorter(inner_process', inner_process) /\ inner_process' \in Stack
    BY <1>1, <1>2, StepsBack DEF TypeOK
  <2>2. ~ accepting_found => inner_process' = << >>
    BY <1>1, <1>2 DEF InnerStackOK
  <2>3. QED
    BY <1>1, <1>2, <1>3, <2>1, <2>2, InnerStepsBack
<1>8. ASSUME ~ accepting_found', ~ depth_bound_reached' PROVE ClosedSoFar'
  <2>1. OuterIsClosed /\ VisitedIsLeft /\ AcceptingAreSealed
    BY <1>2, <1>8 DEF IInv, ClosedSoFar
  <2>2. VisitedIsLeft'
    BY <1>2, <2>1 DEF VisitedIsLeft, Neighbors, Path
  <2>3. AcceptingAreSealed'
    BY <1>1, <1>2, <1>3, <2>1, ColorsKeepSealed
  <2>4. QED
    BY <1>2, <1>6, <2>1, <2>2, <2>3 DEF ClosedSoFar
<1>9. QED
  BY <1>4, <1>6, <1>7, <1>8 DEF IInv

LEMMA StutterKeeps ==
  ASSUME IInv, TypeOK', UNCHANGED vars
  PROVE  IInv'
<1>1. TypeOK /\ GraphIsReached /\ OuterPath /\ InnerPath /\ InnerStackOK /\ VerdictOK
  BY DEF IInv
<1>2. UNCHANGED <<mode, start_vertex, accepting, graph, generated, to_process, depth_bound,
                  depth_bound_reached, accepting_found, inner_start, inner_process, pc, output>>
  BY DEF vars
<1>3. OnlyColors
  BY <1>1, <1>2, SameGraph
<1>4. VerdictOK'
  BY <1>1, <1>2 DEF VerdictOK
<1>5. /\ GraphIsReached' /\ OuterPath' /\ OuterStackOK'
      /\ OuterIsClosed => OuterIsClosed'
  BY <1>2, <1>3, <1>4, OuterKept
<1>6. InnerPath' /\ InnerStackOK'
  <2>1. Shorter(inner_process', inner_process) /\ inner_process' \in Stack
    BY <1>1, <1>2, StepsBack DEF TypeOK
  <2>2. pc # "inner" /\ ~ accepting_found => inner_process' = << >>
    BY <1>1, <1>2 DEF InnerStackOK
  <2>3. QED
    BY <1>1, <1>2, <1>3, <2>1, <2>2, InnerStepsBack
<1>7. VisitedIsLeft => VisitedIsLeft'
  BY <1>2 DEF VisitedIsLeft, Neighbors, Path
<1>8. InnerIsClosed => InnerIsClosed'
  <2>1. /\ Path(to_process)' = Path(to_process) /\ Spine(inner_process)' = Spine(inner_process)
        /\ Waiting(inner_process)' = Waiting(inner_process)
    BY <1>2 DEF Path, Spine, Waiting
  <2>2. Edges' = Edges
    BY <1>1, <1>3, ColorsKeepEdges
  <2>3. QED
    BY <1>2, <2>1, <2>2 DEF InnerIsClosed, Led, Neighbors
<1>9. AcceptingAreSealed => AcceptingAreSealed'
  BY <1>1, <1>2, <1>3, ColorsKeepSealed
<1>10. QED
  BY <1>2, <1>4, <1>5, <1>6, <1>7, <1>8, <1>9 DEF IInv, ClosedSoFar

LEMMA InitKeeps ==
  ASSUME Init
  PROVE  IInv
<1>1. /\ mode \in Modes /\ start_vertex \in Vertex /\ accepting \in SUBSET {start_vertex}
      /\ graph = [v \in {start_vertex} |-> Fresh(0)] /\ generated = {}
      /\ to_process = << <<start_vertex>> >> /\ depth_bound = InitialBound
      /\ depth_bound_reached = FALSE /\ accepting_found = FALSE /\ inner_start = start_vertex
      /\ inner_process = << >> /\ pc = "outer" /\ output = "none"
  BY DEF Init
<1>2. /\ DOMAIN graph = {start_vertex} /\ graph[start_vertex] = Fresh(0)
      /\ Fresh(0) \in VertexInfo /\ Fresh(0).outer = "WHITE" /\ Fresh(0).inner = "WHITE"
      /\ Fresh(0).depth = 0 /\ Fresh(0).neighbors = << >>
  BY <1>1 DEF Fresh, VertexInfo, Color
<1>3. TypeOK
  <2>1. to_process \in Stack /\ inner_process \in Stack
    BY <1>1 DEF Stack
  <2>2. graph \in [DOMAIN graph -> VertexInfo]
    BY <1>1, <1>2
  <2>3. depth_bound \in Nat
    BY <1>1, InitialBoundAssumption
  <2>4. QED
    BY <1>1, <1>2, <2>1, <2>2, <2>3 DEF TypeOK
<1>4. Neighbors(start_vertex) = {}
  BY <1>2 DEF Neighbors, ToSet
<1>5. GraphIsReached
  <2>1. start_vertex \in Led({start_vertex})
    BY <1>1, <1>3, EdgesAreGraph, ReachLeast DEF Led
  <2>2. QED
    BY <1>1, <1>2, <1>4, <2>1 DEF GraphIsReached
<1>6. /\ Len(to_process) = 1 /\ to_process[1] = <<start_vertex>> /\ to_process # << >>
      /\ Len(inner_process) = 0 /\ ToSet(<<start_vertex>>) = {start_vertex}
  BY <1>1 DEF ToSet
<1>7. OuterPath /\ InnerPath
  BY <1>6 DEF OuterPath, InnerPath
<1>8. OuterStackOK /\ InnerStackOK
  BY <1>1, <1>2, <1>6 DEF OuterStackOK, InnerStackOK
<1>9. VerdictOK
  BY <1>1, InitialBoundAssumption DEF VerdictOK
<1>10. ClosedSoFar
  <2>1. OuterIsClosed
    BY <1>1, <1>2, <1>6 DEF OuterIsClosed
  <2>2. VisitedIsLeft /\ AcceptingAreSealed
    BY <1>1, <1>2 DEF VisitedIsLeft, AcceptingAreSealed
  <2>3. QED
    BY <1>1, <2>1, <2>2 DEF ClosedSoFar
<1>11. QED
  BY <1>3, <1>5, <1>7, <1>8, <1>9, <1>10 DEF IInv

LEMMA StepKeeps ==
  ASSUME IInv, [Next]_vars
  PROVE  IInv'
<1>1. TypeOK'
  BY TypeStep DEF IInv
<1>2. CASE UNCHANGED vars
  BY <1>1, <1>2, StutterKeeps
<1>3. CASE Retreat
  BY <1>1, <1>3, RetreatKeeps
<1>4. CASE CutOff
  BY <1>1, <1>4, CutOffKeeps
<1>5. CASE InnerRetreat
  BY <1>1, <1>5, InnerRetreatKeeps
<1>6. CASE InnerReturn
  BY <1>1, <1>6, InnerReturnKeeps
<1>7. CASE Finish
  BY <1>1, <1>7, FinishKeeps
<1>8. ASSUME NEW v \in DOMAIN graph,
             Backtrack(v) \/ Skip(v) \/ InnerEnter(v) \/ InnerLeave(v) \/ InnerSkip(v)
      PROVE  IInv'
  BY <1>1, <1>8, BacktrackKeeps, SkipKeeps, InnerEnterKeeps, InnerLeaveKeeps, InnerSkipKeeps
<1>9. ASSUME NEW v \in DOMAIN graph, NEW succ \in Answers, NEW acc \in SUBSET Vertex,
             MayAnswer(v, succ, acc), Enter(v, succ, acc)
      PROVE  IInv'
  BY <1>1, <1>9, EnterKeeps
<1>10. QED
  BY <1>2, <1>3, <1>4, <1>5, <1>6, <1>7, <1>8, <1>9 DEF Next, Walk

-----------------------------------------------------------------------------
(* What the search keeps, for every graph, every set of accepting vertices  *)
(* and every mode.                                                         *)

(* The types: in particular the bound on the depth stays a number. *)
THEOREM TypeCorrect == Spec => []TypeOK
<1>1. IInv => TypeOK
  BY DEF IInv
<1>2. QED
  BY <1>1, InitKeeps, StepKeeps, PTL DEF Spec

(* The inductive invariant of the nested search: ltl.tpp:84-226. *)
THEOREM SearchKeepsInv == Spec => []SearchInv
<1>1. IInv => SearchInv
  BY InvariantParts
<1>2. QED
  BY <1>1, InitKeeps, StepKeeps, PTL DEF Spec

(* Both stacks are paths through the graph. *)
THEOREM PathsOnStacks == Spec => []StacksArePaths
<1>1. SearchInv => StacksArePaths
  BY DEF SearchInv
<1>2. QED
  BY <1>1, SearchKeepsInv, PTL

(* The inner colours may be kept from one inner search to the next. *)
THEOREM VisitedStaysClosed == Spec => []VisitedIsClosed
<1>1. ASSUME IInv, pc # "inner", ~ accepting_found, ~ depth_bound_reached,
             NEW v \in DOMAIN graph, graph[v].inner # "WHITE"
      PROVE  /\ graph[v].inner = "BLACK" /\ graph[v].outer # "WHITE" /\ v \notin Path(to_process)
             /\ \A w \in ToSet(graph[v].neighbors) : graph[w].inner = "BLACK"
  <2>1. VisitedIsLeft
    BY <1>1 DEF IInv, ClosedSoFar
  <2>2. ToSet(graph[v].neighbors) \subseteq DOMAIN graph
    BY <1>1 DEF IInv, GraphIsReached, Neighbors
  <2>3. QED
    BY <1>1, <2>1, <2>2 DEF VisitedIsLeft, Neighbors
<1>2. IInv => VisitedIsClosed
  BY <1>1 DEF VisitedIsClosed
<1>3. QED
  BY <1>2, InitKeeps, StepKeeps, PTL DEF Spec

(* The inner search finds an accepting cycle of the graph. *)
LEMMA CycleFound ==
  ASSUME IInv, accepting_found
  PROVE  Abstract!AcceptingCycle(Edges, start_vertex)
<1>1. /\ inner_start \in accepting \cap generated /\ inner_start \in Led(Neighbors(inner_start))
      /\ TypeOK /\ GraphIsReached
  BY DEF IInv, InnerStackOK
<1>2. /\ DOMAIN Edges = generated /\ Edges[inner_start] = Neighbors(inner_start)
      /\ inner_start \in DOMAIN graph
  BY <1>1, EdgesAreGraph DEF TypeOK
<1>3. inner_start \in Led({start_vertex})
  BY <1>1, <1>2 DEF GraphIsReached
<1>4. QED
  BY <1>1, <1>2, <1>3 DEF Abstract!AcceptingCycle, Led

(* The invariant says what the violation's theorem needs. *)
LEMMA ViolationKept == IInv => ViolationIsReal
  BY CycleFound DEF ViolationIsReal, Abstract!ViolationIsReal, IInv, VerdictOK

(* "Property violated!" is never said of a graph without an accepting cycle. *)
THEOREM NoFalseViolation == Spec => []ViolationIsReal
  BY ViolationKept, InitKeeps, StepKeeps, PTL DEF Spec

(* A search that ran to its end without a cut has seen everything. *)
LEMMA NothingMissed ==
  ASSUME IInv, ~ accepting_found, ~ depth_bound_reached, to_process = << >>, pc # "inner"
  PROVE  /\ Abstract!Reach(Edges, {start_vertex}) \subseteq DOMAIN Edges
         /\ ~ Abstract!AcceptingCycle(Edges, start_vertex)
<1>1. TypeOK /\ GraphIsReached /\ OuterIsClosed /\ AcceptingAreSealed
  BY DEF IInv, ClosedSoFar
<1>2. /\ Edges \in Graph /\ DOMAIN Edges = generated /\ generated \subseteq DOMAIN graph
      /\ \A u \in generated : Edges[u] = Neighbors(u)
      /\ \A u \in DOMAIN graph : u \in Vertex /\ Neighbors(u) \subseteq DOMAIN graph
      /\ start_vertex \in DOMAIN graph
  BY <1>1, EdgesAreGraph DEF TypeOK, GraphIsReached
<1>3. Spine(to_process) = {} /\ Waiting(to_process) = {}
  BY DEF Spine, Waiting
<1> DEFINE B == {u \in DOMAIN graph : graph[u].outer = "BLACK"}
<1>4. \A u \in DOMAIN graph : graph[u].outer \in Color /\ graph[u].outer # "GRAY"
  BY <1>1, <1>3 DEF TypeOK, VertexInfo, OuterIsClosed
<1>5. B \in SUBSET Vertex /\ \A u \in B \cap DOMAIN Edges : Edges[u] \subseteq B
  BY <1>1, <1>2, <1>3, <1>4, ZenonT(20) DEF OuterIsClosed, Color
<1>6. {start_vertex} \in SUBSET Vertex /\ {start_vertex} \subseteq B
  BY <1>1, <1>2, <1>4 DEF OuterIsClosed, Color
<1>7. Abstract!Reach(Edges, {start_vertex}) \subseteq B
  <2> HIDE DEF B
  <2>1. QED
    BY <1>2, <1>5, <1>6, ReachLeast
<1>8. B \subseteq DOMAIN Edges
  BY <1>1, <1>2 DEF GraphIsReached
<1>9. ASSUME NEW v \in accepting \cap Abstract!Reach(Edges, {start_vertex}) \cap DOMAIN Edges
      PROVE  v \notin Abstract!Reach(Edges, Edges[v])
  <2>1. Sealed(v)
    BY <1>1, <1>7, <1>9 DEF AcceptingAreSealed
  <2>2. QED
    BY <1>2, <1>9, <2>1 DEF Sealed, Led
<1>10. QED
  BY <1>7, <1>8, <1>9 DEF Abstract!AcceptingCycle

(* And what the theorem about the other verdict needs. *)
LEMMA HoldsKept == IInv => HoldsIsComplete
<1>1. ASSUME IInv, output = "holds", ~ (mode.max_depth # Unlimited)
      PROVE  /\ Abstract!Reach(Edges, {start_vertex}) \subseteq DOMAIN Edges
             /\ ~ Abstract!AcceptingCycle(Edges, start_vertex)
  <2>1. ~ accepting_found /\ to_process = << >> /\ ~ depth_bound_reached /\ pc # "inner"
    BY <1>1 DEF IInv, VerdictOK
  <2>2. QED
    BY <1>1, <2>1, NothingMissed
<1>2. QED
  BY <1>1 DEF HoldsIsComplete, Abstract!HoldsIsComplete

(* Without a bound, "Property holds!" is only said of a graph all of which
   was looked at and that holds no accepting cycle. *)
THEOREM NoFalseHolds == Spec => []HoldsIsComplete
  BY HoldsKept, InitKeeps, StepKeeps, PTL DEF Spec

-----------------------------------------------------------------------------
(* The search implements the abstract one.                                 *)

(* a step that learns nothing and says nothing *)
LEMMA NothingLearnt ==
  ASSUME TypeOK, OnlyColors, UNCHANGED <<mode, output>>
  PROVE  UNCHANGED Abstract!vars
  BY ColorsKeepEdges DEF Abstract!vars, OnlyColors

(* a vertex is asked for its successors *)
LEMMA EnterLearns ==
  ASSUME IInv, TypeOK', NEW v \in DOMAIN graph, NEW succ \in Answers, NEW acc \in SUBSET Vertex,
         MayAnswer(v, succ, acc), Enter(v, succ, acc)
  PROVE  Abstract!Next \/ UNCHANGED Abstract!vars
<1>1. TypeOK /\ GraphIsReached
  BY DEF IInv
<1>2. Entered(v) /\ acc \subseteq DOMAIN graph' \ DOMAIN graph
  BY <1>1, EnterEffect DEF GraphIsReached
<1>3. /\ generated' = generated \cup {v} /\ accepting' = accepting \cup acc
      /\ pc = "outer" /\ UNCHANGED <<mode, start_vertex, output>>
  BY DEF Enter, InHand, Searching, UnchangedByOuter
<1> DEFINE q == graph'[v].neighbors
           S == ToSet(q)
<1>4. /\ Edges \in Graph /\ Edges' \in Graph /\ Learnt(Edges, Edges')
      /\ DOMAIN Edges = generated /\ DOMAIN Edges' = generated \cup {v}
      /\ \A w \in DOMAIN graph : w # v \/ v \in generated => graph'[w].neighbors = graph[w].neighbors
      /\ Edges'[v] = S /\ v \in Vertex
      /\ \A w \in DOMAIN graph' : w \in Vertex /\ ToSet(graph'[w].neighbors) \in SUBSET Vertex
  BY <1>1, <1>2, <1>3, EnteredEdges
<1>5. DOMAIN graph' = DOMAIN graph \cup S
  BY <1>2 DEF Entered
<1>6. CASE v \in generated
  <2>1. S \subseteq DOMAIN graph
    BY <1>1, <1>4, <1>6 DEF GraphIsReached, Neighbors
  <2>2. acc = {}
    BY <1>2, <1>5, <2>1
  <2>3. Edges' = Edges
    <3>1. \A w \in generated : Edges'[w] = Edges[w]
      BY <1>4 DEF Learnt
    <3>2. generated' = generated
      BY <1>3, <1>6
    <3>3. Edges = [w \in generated |-> Neighbors(w)] /\ Edges' = [w \in generated |-> Neighbors(w)']
      BY <3>2 DEF Edges
    <3>4. \A w \in generated : Neighbors(w)' = Neighbors(w)
      BY <1>1, <1>4, <1>6 DEF Neighbors, TypeOK
    <3>5. QED
      BY <3>3, <3>4
  <2>4. QED
    BY <1>3, <2>2, <2>3 DEF Abstract!vars
<1>7. CASE v \notin generated
  <2>1. output = "none"
    BY <1>3 DEF IInv, VerdictOK
  <2>2. v \in Abstract!Reach(Edges, {start_vertex}) \ DOMAIN Edges
    BY <1>1, <1>4, <1>7 DEF GraphIsReached, Led
  <2>3. S \in SUBSET Vertex
    BY <1>4, <1>5
  <2>4. Edges' = [w \in DOMAIN Edges \cup {v} |-> IF w = v THEN S ELSE Edges[w]]
    <3>1. \A w \in generated : w # v /\ Edges'[w] = Edges[w]
      BY <1>4, <1>7 DEF Learnt
    <3>2. Edges' = [w \in generated \cup {v} |-> Edges'[w]]
      BY <1>3 DEF Edges
    <3>3. QED
      BY <1>4, <3>1, <3>2
  <2>5. acc \in SUBSET (S \ Abstract!Reach(Edges, {start_vertex}))
    <3>1. DOMAIN graph \in SUBSET Vertex /\ {start_vertex} \subseteq DOMAIN graph /\ {start_vertex} \in SUBSET Vertex
          /\ \A w \in DOMAIN graph \cap DOMAIN Edges : Edges[w] \subseteq DOMAIN graph
      BY <1>1, EdgesAreGraph DEF GraphIsReached, TypeOK
    <3>2. Abstract!Reach(Edges, {start_vertex}) \subseteq DOMAIN graph
      BY <1>4, <3>1, ReachLeast
    <3>3. QED
      BY <1>2, <1>5, <3>2
  <2> HIDE DEF S
  <2>6. Abstract!Learn
    BY <1>3, <2>1, <2>2, <2>3, <2>4, <2>5 DEF Abstract!Learn
  <2>7. QED
    BY <2>6 DEF Abstract!Next
<1>8. QED
  BY <1>6, <1>7

(* the verdict is one the abstract search may give *)
LEMMA FinishSays ==
  ASSUME IInv, Finish
  PROVE  Abstract!Next
<1>1. /\ pc = "outer" /\ (accepting_found \/ to_process = << >>)
      /\ output' = IF accepting_found THEN "violated" ELSE "holds"
      /\ UNCHANGED <<mode, start_vertex, accepting, graph, generated>>
  BY DEF Finish
<1>2. TypeOK /\ VerdictOK /\ output = "none"
  BY <1>1 DEF IInv, VerdictOK
<1>3. Edges' = Edges
  BY <1>1 DEF Edges, Neighbors
<1>4. CASE accepting_found
  <2>1. Abstract!Violated
    BY <1>1, <1>2, <1>3, <1>4, CycleFound DEF Abstract!Violated
  <2>2. QED
    BY <2>1 DEF Abstract!Next
<1>5. CASE ~ accepting_found
  <2>1. \/ mode.max_depth # Unlimited
        \/ /\ Abstract!Reach(Edges, {start_vertex}) \subseteq DOMAIN Edges
           /\ ~ Abstract!AcceptingCycle(Edges, start_vertex)
    <3>1. mode.max_depth = Unlimited => ~ depth_bound_reached
      BY <1>1, <1>2, <1>5 DEF VerdictOK
    <3>2. QED
      BY <1>1, <1>5, <3>1, NothingMissed
  <2>2. Abstract!Holds
    BY <1>1, <1>2, <1>3, <1>5, <2>1 DEF Abstract!Holds
  <2>3. QED
    BY <2>2 DEF Abstract!Next
<1>6. QED
  BY <1>4, <1>5

LEMMA InitMaps ==
  ASSUME Init
  PROVE  Abstract!Init
<1>1. /\ start_vertex \in Vertex /\ accepting \in SUBSET {start_vertex} /\ generated = {} /\ output = "none"
  BY DEF Init
<1>2. Edges = [v \in {} |-> {}]
  BY <1>1 DEF Edges
<1>3. QED
  BY <1>1, <1>2 DEF Abstract!Init

LEMMA StepMaps ==
  ASSUME IInv, IInv', [Next]_vars
  PROVE  Abstract!Next \/ UNCHANGED Abstract!vars
<1>1. TypeOK /\ TypeOK'
  BY DEF IInv
<1>2. ASSUME NEW v \in DOMAIN graph, NEW succ \in Answers, NEW acc \in SUBSET Vertex,
             MayAnswer(v, succ, acc), Enter(v, succ, acc)
      PROVE  Abstract!Next \/ UNCHANGED Abstract!vars
  BY <1>1, <1>2, EnterLearns
<1>3. CASE Finish
  BY <1>3, FinishSays
<1>4. CASE Retreat
  <2>1. graph' = Reset(graph) \/ graph' = graph
    BY <1>4 DEF Retreat
  <2>2. UNCHANGED <<mode, start_vertex, accepting, generated, output>>
    BY <1>4 DEF Retreat, UnchangedByOuter
  <2>3. OnlyColors
    BY <1>1, <2>1, <2>2, AllReset, SameGraph
  <2>4. QED
    BY <1>1, <2>2, <2>3, NothingLearnt
<1>5. ASSUME NEW v \in DOMAIN graph, Backtrack(v) PROVE UNCHANGED Abstract!vars
  <2>1. /\ graph' = [graph EXCEPT ![v].outer = "BLACK"]
        /\ UNCHANGED <<mode, start_vertex, accepting, generated, output>>
    BY <1>5 DEF Backtrack
  <2>2. OnlyColors
    BY <1>1, <2>1, OuterColored DEF Color
  <2>3. QED
    BY <1>1, <2>1, <2>2, NothingLearnt
<1>6. ASSUME NEW v \in DOMAIN graph, InnerEnter(v) \/ InnerLeave(v) PROVE UNCHANGED Abstract!vars
  <2>1. PICK c \in Color : graph' = [graph EXCEPT ![v].inner = c]
    BY <1>6 DEF InnerEnter, InnerLeave, Color
  <2>2. UNCHANGED <<mode, start_vertex, accepting, generated, output>>
    BY <1>6 DEF InnerEnter, InnerLeave, UnchangedByInner
  <2>3. OnlyColors
    BY <1>1, <2>1, <2>2, InnerColored
  <2>4. QED
    BY <1>1, <2>2, <2>3, NothingLearnt
<1>7. ASSUME CutOff \/ InnerRetreat \/ InnerReturn \/ UNCHANGED vars
             \/ \E v \in DOMAIN graph : Skip(v) \/ InnerSkip(v)
      PROVE  UNCHANGED Abstract!vars
  <2>1. UNCHANGED <<mode, start_vertex, accepting, graph, generated, output>>
    BY <1>7 DEF CutOff, InnerRetreat, InnerReturn, Skip, InnerSkip, UnchangedByOuter, UnchangedByInner, vars
  <2>2. QED
    BY <1>1, <2>1, SameGraph, NothingLearnt
<1>8. QED
  BY <1>2, <1>3, <1>4, <1>5, <1>6, <1>7 DEF Next, Walk

(* The search only ever learns what the start leads to, and its verdict is
   one that what it has learnt justifies: every behaviour of the nested
   search is one of CycleSearch. *)
THEOREM SearchRefines == Spec => Refinement
<1>1. Init => Abstract!Init
  BY InitMaps
<1>2. IInv /\ IInv' /\ [Next]_vars => [Abstract!Next]_(Abstract!vars)
  BY StepMaps
<1>3. QED
  BY <1>1, <1>2, InitKeeps, StepKeeps, PTL DEF Spec, Refinement, Abstract!Spec
=============================================================================
