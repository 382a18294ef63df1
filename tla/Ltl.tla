--------------------------------- MODULE Ltl ---------------------------------
(***************************************************************************)
(* The LTL command (src/src/llvmsym/ltl.tpp): the nested depth-first       *)
(* search over the product of the program with a Buchi automaton of the    *)
(* negated property.  A state of the product is a blob whose user part is  *)
(* the automaton's state; hash and equality of the database take it for a  *)
(* piece of the explicit part, so Expl pairs locations and automaton       *)
(* states here.  The search itself is NestedDfs; this module says what     *)
(* generate_successors answers and what that does to the database.         *)
(***************************************************************************)
EXTENDS Database, Integers, SequencesExt

CONSTANTS
  Location,     \* explicit parts of the program's states
  BaState,      \* states of the automaton
  Programs,     \* the programs under verification, as in StateSpace
  Automata,     \* the automata ltl2tgba may have built
  InitialBound, Modes,   \* as in NestedDfs
  MaxMissed     \* bound: how many hits the solver may miss in one run

ASSUME ExplAssumption == Expl = Location \X BaState
ASSUME DataAssumption == IsFiniteSet(Data)

(* what advance may do in a location: an edge relates valuations *)
Edge == [src : Location, rel : SUBSET (Data \X Data), dst : Location]

ASSUME ProgramsAssumption ==
  \A p \in Programs : /\ p.init \in [expl : Location, sym : Sym]
                      /\ p.edges \subseteq Edge /\ IsFiniteSet(p.edges)

INSTANCE Labels     \* with the Data of the database

(* an automaton: the one successor of the start point of its drawing, the
   atomic propositions of its labels, the edges in order, the accepting states *)
Automaton ==
  [start : BaState,
   aps   : Seq(SUBSET Data),
   edges : Seq([src : BaState, label : Seq(Literal), dst : BaState]),
   accepting : SUBSET BaState]

ASSUME AutomataAssumption == Automata \subseteq Automaton

(* are the automata's labels among those that translate reads to the end? *)
LabelsAreRead == \A a \in Automata : \A e \in ToSet(a.edges) : Readable(a.aps, e.label)

(* as in NestedDfs *)
ASSUME InitialBoundAssumption == InitialBound \in Nat \ {0}
ASSUME ModesAssumption ==
  Modes \subseteq ([depth_bounded : BOOLEAN, max_depth : {-1}]
                   \cup [depth_bounded : {TRUE}, max_depth : Nat])

VARIABLES
  program, ba,      \* what is verified, fixed when the run starts
  knowns,           \* the database
  missed,           \* hits missed so far
  mode, start_vertex, accepting, graph, generated, to_process, depth_bound,
  depth_bound_reached, accepting_found, inner_start, inner_process, pc, output

Dfs == INSTANCE NestedDfs WITH Vertex <- StateId, Answers <- Seq(StateId)

vars == <<program, ba, knowns, missed, Dfs!vars>>

(* blob.user_as<index_type>() *)
UserPart(b) == b.expl[2]

-----------------------------------------------------------------------------
(* the valuations an edge leads to from those of S, as in Reachability *)
Post(edge, S) == {d \in Data : \E c \in S : <<c, d>> \in edge.rel}

(* the blob for the state a program edge leads to from b, the automaton's
   edge taken along: pushPropGuard restricts the valuations first *)
Step(b, ba_edge, edge) ==
  [expl |-> <<edge.dst, ba_edge.dst>>, sym |-> Post(edge, b.sym \cap translate(ba.aps, ba_edge.label))]

(* the steps of the program that an edge of the automaton may be taken along *)
Enabled(b, ba_edge) ==
  {e \in program.edges : /\ ba_edge.src = UserPart(b)
                         /\ e.src = b.expl[1]
                         /\ Step(b, ba_edge, e).sym # {}}

(* the sequences of blobs advance may yield for one edge of the automaton *)
Yields(b, ba_edge) ==
  {[i \in DOMAIN order |-> Step(b, ba_edge, order[i])] : order \in SetToSeqs(Enabled(b, ba_edge))}

(* insertCheck on each of a sequence of blobs: the possible outcomes *)
InsertEach(outcome, blobs) ==
  LET after[n \in 0 .. Len(blobs)] ==
        IF n = 0 THEN {outcome}
        ELSE UNION {{[db     |-> r.db,
                      ids    |-> Append(o.ids, r.id),
                      missed |-> o.missed + r.missed] : r \in InsertCheck(o.db, blobs[n])}
                    : o \in after[n - 1]}
  IN  after[Len(blobs)]

(* variant: only the first edge of the automaton is followed *)
GenerateFirstEdge(v) ==
  LET b     == GetState(knowns, v)
      first == {i \in DOMAIN ba.edges : /\ ba.edges[i].src = UserPart(b)
                                        /\ \A j \in 1 .. i - 1 : ba.edges[j].src # UserPart(b)}
  IN  IF first = {} THEN {[db |-> knowns, ids |-> << >>, missed |-> 0]}
      ELSE UNION {InsertEach([db |-> knowns, ids |-> << >>, missed |-> 0], blobs)
                  : blobs \in Yields(b, ba.edges[CHOOSE i \in first : TRUE])}

(* generate_successors: for every edge of the automaton, in order *)
GenerateSuccessors(v) ==
  LET b == GetState(knowns, v)
      after[n \in 0 .. Len(ba.edges)] ==
        IF n = 0 THEN {[db |-> knowns, ids |-> << >>, missed |-> 0]}
        ELSE UNION {UNION {InsertEach(o, blobs) : blobs \in Yields(b, ba.edges[n])}
                    : o \in after[n - 1]}
  IN  after[Len(ba.edges)]

(* the program's initial state with the automaton's *)
InitialBlob(p, a) == [expl |-> <<p.init.expl, a.start>>, sym |-> p.init.sym]

(* is the automaton accepting in the state an identifier names? *)
IsAccepting(db, id) == UserPart(GetState(db, id)) \in ba.accepting

-----------------------------------------------------------------------------
Init ==
  /\ program \in Programs
  /\ ba \in Automata
  /\ knowns = Insert(EmptyDatabase, InitialBlob(program, ba))
  /\ start_vertex = NewId(EmptyDatabase, InitialBlob(program, ba))
  /\ accepting = {v \in {start_vertex} : IsAccepting(knowns, v)}
  /\ missed = 0
  /\ mode \in Modes
  /\ graph = [v \in {start_vertex} |-> Dfs!Fresh(0)]
  /\ generated = {}
  /\ to_process = << <<start_vertex>> >>
  /\ depth_bound = InitialBound
  /\ depth_bound_reached = FALSE
  /\ accepting_found = FALSE
  /\ inner_start = start_vertex
  /\ inner_process = << >>
  /\ pc = "outer"
  /\ output = "none"

(* a vertex is entered for the first time, or was found to have no successors *)
EnterGenerate ==
  \E v \in DOMAIN graph :
    /\ Dfs!InHand(v, "WHITE")
    /\ graph[v].neighbors = << >>
    /\ \E o \in GenerateSuccessors(v) :
         /\ missed + o.missed <= MaxMissed
         /\ missed' = missed + o.missed
         /\ knowns' = o.db
         /\ Dfs!Enter(v, o.ids, {w \in ToSet(o.ids) \ DOMAIN graph : IsAccepting(o.db, w)})
    /\ UNCHANGED <<program, ba>>

(* its successors are known from an earlier iteration *)
EnterKnown ==
  /\ \E v \in DOMAIN graph : /\ Dfs!InHand(v, "WHITE")
                             /\ graph[v].neighbors # << >>
                             /\ Dfs!Enter(v, graph[v].neighbors, {})
  /\ UNCHANGED <<program, ba, knowns, missed>>

Walk == Dfs!Walk /\ UNCHANGED <<program, ba, knowns, missed>>

Next == EnterGenerate \/ EnterKnown \/ Walk

Spec == Init /\ [][Next]_vars /\ WF_vars(Next)

-----------------------------------------------------------------------------
(* the product of a program's concrete states with an automaton, whose labels
   mean what ltl2tgba means by them: where each concrete state leads *)
Products ==
  [p \in Programs |-> [a \in Automata |-> [c \in Expl \X Data |->
     {d \in Expl \X Data :
        \E edge \in p.edges, e \in ToSet(a.edges) :
          /\ edge.src = c[1][1] /\ e.src = c[1][2] /\ d[1] = <<edge.dst, e.dst>>
          /\ c[2] \in Meaning(a.aps, e.label) /\ <<c[2], d[2]>> \in edge.rel}]]]

Product == Products[program][ba]

(* the search for accepting cycles there, without any database *)
Runs == INSTANCE CycleSearch WITH
  Vertex    <- Expl \X Data,
  start     <- start_vertex,
  accepting <- {c \in Expl \X Data : c[1][2] \in ba.accepting},
  limited   <- FALSE,
  edges     <- Product,
  verdict   <- output

(* has the program a concrete run that the automaton accepts? *)
Accepted ==
  [p \in Programs |-> [a \in Automata |->
     LET steps == Products[p][a]
     IN  \E c \in Runs!Reach(steps, Concrete(InitialBlob(p, a))) :
           c[1][2] \in a.accepting /\ c \in Runs!Reach(steps, steps[c])]]

AcceptedRun == Accepted[program][ba]

(* "Property holds!" is printed by a search without a bound only if no run
   of the program violates the property: ltl.tpp:173-174. *)
HoldsIsSound ==
  output = "holds" /\ mode.max_depth = Dfs!Unlimited => ~ AcceptedRun

(* "Checks if given LTL property of a model holds or not": "Property
   violated!" is printed only if some run violates it. *)
ViolationIsReal == output = "violated" => AcceptedRun

(* every edge of the graph leads to the very state advance yielded *)
NothingAbsorbed ==
  \A v \in generated : LET b == GetState(knowns, v) IN
    \A w \in ToSet(graph[v].neighbors) :
      \E e \in ToSet(ba.edges), edge \in program.edges :
        /\ e.src = UserPart(b) /\ edge.src = b.expl[1]
        /\ GetState(knowns, w) = Step(b, e, edge)

(* A violation that is reported can only be spurious because some state was
   dropped for a larger one: ltl.tpp:171-172 with symdivine.cpp:56. *)
ViolationIsRealOrAbsorbed == output = "violated" /\ NothingAbsorbed => AcceptedRun

(* Every step of the product from a vertex that was entered leads into one
   of its neighbours, so that no run of the program is lost by storing fewer
   states. *)
GraphSimulates ==
  \A v \in generated : \A c \in Concrete(GetState(knowns, v)) :
    \A d \in Product[c] :
      \E w \in ToSet(graph[v].neighbors) : d \in Concrete(GetState(knowns, w))

-----------------------------------------------------------------------------
(* The inductive invariant.                                                *)

(* what advance yields for an edge of the automaton *)
Yielded(b, ba_edge) == {Step(b, ba_edge, e) : e \in Enabled(b, ba_edge)}

(* a state yielded is one of the neighbours, or was dropped for one *)
NeighborsCover(v, ba_edge) ==
  \A b \in Yielded(GetState(knowns, v), ba_edge) :
    \E w \in ToSet(graph[v].neighbors) : Concrete(b) \subseteq Concrete(GetState(knowns, w))

(* The graph's vertices are stored states, its accepting ones those the
   automaton accepts in.  What advance yields for a vertex has a cover among
   its neighbours, so that a vertex without neighbours, for which
   generate_successors is called again, yields nothing then either. *)
ProductStored ==
  /\ program \in Programs /\ ba \in Automata
  /\ DatabaseOK(knowns)
  /\ DOMAIN graph \subseteq DOMAIN knowns.id2item
  /\ GetState(knowns, start_vertex) = InitialBlob(program, ba)
  /\ accepting = {v \in DOMAIN graph : IsAccepting(knowns, v)}
  /\ IsFiniteSet(generated)
  /\ \A v \in generated :
       /\ \A e \in ToSet(ba.edges) : NeighborsCover(v, e)
       /\ \A w \in ToSet(graph[v].neighbors) : GetState(knowns, w).sym # {}

(* What is stored keeps every step of the product, whose automaton reads its
   labels as ltl2tgba means them: ltl.tpp:40-78. *)
ProductInv == ProductStored /\ GraphSimulates
=============================================================================
