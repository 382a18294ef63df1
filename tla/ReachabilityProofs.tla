------------------------- MODULE ReachabilityProofs -------------------------
(***************************************************************************)
(* The breadth-first search is sound for every program, every finite or    *)
(* infinite set of valuations and every pattern of missed hits, provided   *)
(* the database's comparison accepts a state only if it is a subset of a   *)
(* stored one (HitPolicy # "partial").  What it records: no identifier is  *)
(* expanded twice and the database keeps a superfluous state only for a    *)
(* hit the solver missed, whatever the comparison is; and, with one that   *)
(* means inclusion, the graph shows every step of the program.             *)
(***************************************************************************)
EXTENDS Reachability, DatabaseProofs

-----------------------------------------------------------------------------
(* Reachable states: the least closed set.                                 *)

(* The reachable states hold the initial ones and are closed under steps;
   every closed set of concrete states holds them all. *)
LEMMA ReachLeastClosed ==
  ASSUME NEW p \in Abstract!Program
  PROVE  /\ Abstract!InitialStates(p) \subseteq Abstract!Reach(p)
         /\ Abstract!Image(p, Abstract!Reach(p)) \subseteq Abstract!Reach(p)
         /\ \A S \in SUBSET Abstract!ConcreteState :
              Abstract!Closed(p, S) => Abstract!Reach(p) \subseteq S
<1>1. Abstract!InitialStates(p) \subseteq Abstract!ConcreteState
  BY DEF Abstract!InitialStates, Abstract!ConcreteState, Abstract!Program
<1>2. Abstract!InitialStates(p) \subseteq Abstract!Reach(p)
  BY <1>1 DEF Abstract!Reach, Abstract!Closed
<1>3. ASSUME NEW t \in Abstract!Image(p, Abstract!Reach(p))
      PROVE  t \in Abstract!Reach(p)
  <2>1. t \in Abstract!ConcreteState
    BY <1>3 DEF Abstract!Image
  <2>2. PICK e \in p.edges, d \in Data :
          /\ <<e.src, d>> \in Abstract!Reach(p)
          /\ t[1] = e.dst
          /\ <<d, t[2]>> \in e.rel
    BY <1>3 DEF Abstract!Image
  <2>3. ASSUME NEW S \in SUBSET Abstract!ConcreteState, Abstract!Closed(p, S)
        PROVE  t \in S
    <3>1. <<e.src, d>> \in S
      BY <2>2, <2>3 DEF Abstract!Reach
    <3>2. t \in Abstract!Image(p, S)
      BY <2>1, <2>2, <3>1 DEF Abstract!Image
    <3>3. QED
      BY <2>3, <3>2 DEF Abstract!Closed
  <2>4. QED
    BY <2>1, <2>3 DEF Abstract!Reach
<1>4. \A S \in SUBSET Abstract!ConcreteState :
        Abstract!Closed(p, S) => Abstract!Reach(p) \subseteq S
  BY DEF Abstract!Reach
<1>5. QED
  BY <1>2, <1>3, <1>4

-----------------------------------------------------------------------------
(* The symbolic successors of a blob against its concrete ones.            *)

(* A blob's successors are blobs, none of them empty. *)
LEMMA SuccessorsType ==
  ASSUME program \in Programs, NEW b \in Blob, NEW s \in Successors(b)
  PROVE  s \in Blob /\ Concrete(s) # {}
<1>1. PICK edge \in program.edges :
        /\ edge.src = b.expl
        /\ s = [expl |-> edge.dst, sym |-> Post(edge, b.sym)]
        /\ s.sym # {}
  BY DEF Successors
<1>2. edge.dst \in Expl
  BY ProgramsAssumption DEF Abstract!Program, Abstract!Edge
<1>3. s.sym \in SUBSET Data /\ s.expl = edge.dst
  BY <1>1 DEF Post
<1>4. s \in Blob
  BY <1>1, <1>2, <1>3 DEF Blob, Sym
<1>5. PICK d \in s.sym : TRUE
  BY <1>1
<1>6. <<s.expl, d>> \in Concrete(s)
  BY DEF Concrete
<1>7. QED
  BY <1>4, <1>6

(* Every concrete step out of a blob ends in one of its successors. *)
LEMMA SuccessorsCover ==
  ASSUME program \in Programs, NEW b \in Blob,
         NEW t \in Abstract!Image(program, Concrete(b))
  PROVE  \E s \in Successors(b) : t \in Concrete(s)
<1>1. PICK e \in program.edges, d \in Data :
        /\ <<e.src, d>> \in Concrete(b)
        /\ t[1] = e.dst
        /\ <<d, t[2]>> \in e.rel
  BY DEF Abstract!Image
<1>2. t \in Expl \X Data
  BY DEF Abstract!Image, Abstract!ConcreteState
<1>3. e.src = b.expl /\ d \in b.sym
  BY <1>1 DEF Concrete
<1>4. t[2] \in Post(e, b.sym)
  BY <1>1, <1>2, <1>3 DEF Post
<1> DEFINE s == [expl |-> e.dst, sym |-> Post(e, b.sym)]
<1>5. s.sym # {}
  BY <1>4
<1>6. s \in Successors(b)
  BY <1>3, <1>5 DEF Successors
<1>7. t \in Concrete(s)
  BY <1>1, <1>2, <1>4 DEF Concrete
<1>8. QED
  BY <1>6, <1>7

(* The valuations of a successor are all one concrete step away. *)
LEMMA SuccessorsReal ==
  ASSUME program \in Programs, NEW b \in Blob, NEW s \in Successors(b)
  PROVE  Concrete(s) \subseteq Abstract!Image(program, Concrete(b))
<1>1. PICK edge \in program.edges :
        /\ edge.src = b.expl
        /\ s = [expl |-> edge.dst, sym |-> Post(edge, b.sym)]
  BY DEF Successors
<1>2. edge.dst \in Expl
  BY ProgramsAssumption DEF Abstract!Program, Abstract!Edge
<1>3. ASSUME NEW t \in Concrete(s)
      PROVE  t \in Abstract!Image(program, Concrete(b))
  <2>1. /\ t = <<t[1], t[2]>>
        /\ t[1] = edge.dst
        /\ t[2] \in Post(edge, b.sym)
    BY <1>1 DEF Concrete
  <2>2. PICK d \in b.sym : <<d, t[2]>> \in edge.rel
    BY <2>1 DEF Post
  <2>3. d \in Data /\ t[2] \in Data
    BY <2>1, <2>2 DEF Blob, Sym, Post
  <2>4. <<edge.src, d>> \in Concrete(b)
    BY <1>1, <2>2 DEF Concrete
  <2>5. t \in Abstract!ConcreteState
    BY <1>2, <2>1, <2>3 DEF Abstract!ConcreteState
  <2>6. QED
    BY <2>1, <2>2, <2>3, <2>4, <2>5 DEF Abstract!Image
<1>4. QED
  BY <1>3

-----------------------------------------------------------------------------
(* Type correctness.                                                       *)

(* The step that yields succ, when insertCheck has the outcome value. *)
YieldOf(succ, value) ==
  /\ pc = "advance"
  /\ pending' = pending \ {succ}
  /\ error_found' = (error_found \/ succ.expl \in Errors)
  /\ output' = output \cup (IF succ.expl \in Errors THEN {"error"} ELSE {})
  /\ missed' = missed + value.missed
  /\ knowns' = value.db
  /\ to_do' = IF value.fresh THEN Append(to_do, value.id) ELSE to_do
  /\ successors' = successors \cup {value.id}
  /\ UNCHANGED <<program, graph, pc, vertex>>

(* A Yield step yields one successor with one outcome of insertCheck. *)
LEMMA YieldSplit ==
  Yield => \E succ \in pending : \E value \in InsertCheck(knowns, succ) : YieldOf(succ, value)
BY DEF Yield, YieldOf

(* The elements of a queue. *)
LEMMA ElementsOfQueue ==
  ASSUME NEW T, NEW q \in Seq(T)
  PROVE  /\ Elements(q) \subseteq T
         /\ \A x \in T : Append(q, x) \in Seq(T) /\ Elements(Append(q, x)) = Elements(q) \cup {x}
         /\ q # << >> => /\ Head(q) \in Elements(q)
                        /\ Tail(q) \in Seq(T)
                        /\ Elements(q) = Elements(Tail(q)) \cup {Head(q)}
<1>1. Elements(q) \subseteq T
  BY DEF Elements
<1>2. ASSUME NEW x \in T
      PROVE  Append(q, x) \in Seq(T) /\ Elements(Append(q, x)) = Elements(q) \cup {x}
  <2>1. /\ Len(Append(q, x)) = Len(q) + 1
        /\ Append(q, x)[Len(q) + 1] = x
        /\ \A i \in 1 .. Len(q) : Append(q, x)[i] = q[i]
        /\ Len(q) \in Nat
    OBVIOUS
  <2>2. Elements(Append(q, x)) \subseteq Elements(q) \cup {x}
    BY <2>1 DEF Elements
  <2>3. Elements(q) \cup {x} \subseteq Elements(Append(q, x))
    BY <2>1 DEF Elements
  <2>4. QED
    BY <2>2, <2>3
<1>3. ASSUME q # << >>
      PROVE  /\ Head(q) \in Elements(q)
             /\ Tail(q) \in Seq(T)
             /\ Elements(q) = Elements(Tail(q)) \cup {Head(q)}
  <2>1. /\ Len(q) \in Nat \ {0}
        /\ Head(q) = q[1]
        /\ Len(Tail(q)) = Len(q) - 1
        /\ \A i \in 1 .. Len(q) - 1 : Tail(q)[i] = q[i + 1]
        /\ Tail(q) \in Seq(T)
    BY <1>3
  <2>2. Head(q) \in Elements(q)
    BY <2>1 DEF Elements
  <2>3. Elements(Tail(q)) \subseteq Elements(q)
    BY <2>1 DEF Elements
  <2>4. Elements(q) \subseteq Elements(Tail(q)) \cup {Head(q)}
    <3> SUFFICES ASSUME NEW i \in 1 .. Len(q)
                 PROVE  q[i] \in Elements(Tail(q)) \cup {Head(q)}
      BY DEF Elements
    <3>1. CASE i = 1
      BY <2>1, <3>1
    <3>2. CASE i # 1
      <4>1. i - 1 \in 1 .. Len(q) - 1 /\ Tail(q)[i - 1] = q[i]
        BY <2>1, <3>2
      <4>2. QED
        BY <2>1, <4>1 DEF Elements
    <3>3. QED
      BY <3>1, <3>2
  <2>5. QED
    BY <2>1, <2>2, <2>3, <2>4
<1>4. QED
  BY <1>1, <1>2, <1>3

(* What the initial state of the run holds. *)
LEMMA InitialDatabase ==
  ASSUME Init
  PROVE  /\ program.init \in Blob
         /\ DatabaseOK(knowns)
         /\ Extends(knowns, EmptyDatabase, NewId(EmptyDatabase, program.init), program.init)
         /\ NewId(EmptyDatabase, program.init) \in StateId
<1>1. program.init \in Blob
  BY ProgramsAssumption DEF Init, Abstract!Program, Blob, Sym
<1>2. QED
  BY <1>1, EmptyDatabaseOK, InsertCorrect DEF Init

(* The type invariant, the agreement of the database's tables included. *)
THEOREM TypeCorrect == Spec => []TypeOK
<1>1. Init => TypeOK
  <2> SUFFICES ASSUME Init PROVE TypeOK
    OBVIOUS
  <2> DEFINE id == NewId(EmptyDatabase, program.init)
  <2>1. DatabaseOK(knowns) /\ id \in StateId
    BY InitialDatabase
  <2>2. /\ DOMAIN graph = {id}
        /\ graph \in [{id} -> SUBSET StateId]
    BY DEF Init, AddVertex, TableInsert
  <2>3. to_do \in Seq(StateId)
    BY <2>1 DEF Init
  <2>4. vertex \in StateId
    BY DEF Init, NoState, StateId
  <2> HIDE DEF id
  <2>5. QED
    BY <2>1, <2>2, <2>3, <2>4 DEF TypeOK, Init
<1>2. TypeOK /\ [Next]_vars => TypeOK'
  <2> SUFFICES ASSUME TypeOK, [Next]_vars PROVE TypeOK'
    OBVIOUS
  <2>1. CASE Pop
    <3>1. Head(to_do) \in StateId /\ Tail(to_do) \in Seq(StateId)
      BY <2>1, ElementsOfQueue DEF Pop, TypeOK
    <3>2. pending' \subseteq Blob
      <4>1. ASSUME NEW s \in pending' PROVE s \in Blob
        <5>1. PICK edge \in program.edges :
                s = [expl |-> edge.dst, sym |-> Post(edge, GetState(knowns, Head(to_do)).sym)]
          BY <2>1 DEF Pop, Successors
        <5>2. edge.dst \in Expl
          BY ProgramsAssumption DEF TypeOK, Abstract!Program, Abstract!Edge
        <5>3. QED
          BY <5>1, <5>2 DEF Post, Blob, Sym
      <4>2. QED
        BY <4>1
    <3>3. QED
      BY <2>1, <3>1, <3>2 DEF Pop, TypeOK
  <2>2. CASE Yield
    <3>1. PICK succ \in pending : \E value \in InsertCheck(knowns, succ) : YieldOf(succ, value)
      BY <2>2, YieldSplit
    <3>1a. PICK value \in InsertCheck(knowns, succ) : YieldOf(succ, value)
      BY <3>1
    <3>2. /\ DatabaseOK(value.db)
          /\ value.id \in DOMAIN value.db.id2item
          /\ value.missed \in Nat
      BY InsertCheckCorrect DEF TypeOK
    <3>3. value.id \in StateId
      BY <3>2, GetStateType
    <3>4. to_do' \in Seq(StateId)
      BY <3>1a, <3>3 DEF TypeOK, YieldOf
    <3>5. error_found' \in BOOLEAN /\ missed' \in Nat
      BY <3>1a, <3>2 DEF TypeOK, YieldOf
    <3>6. output' \subseteq {"error", "Safe", "exception"}
      BY <3>1a DEF TypeOK, YieldOf
    <3>7. QED
      BY <3>1a, <3>2, <3>3, <3>4, <3>5, <3>6 DEF YieldOf, TypeOK
  <2>3. CASE Record
    <3>1. DOMAIN graph' \subseteq StateId /\ graph' \in [DOMAIN graph' -> SUBSET StateId]
      BY <2>3 DEF Record, AddSuccessors, TypeOK
    <3>2. QED
      BY <2>3, <3>1 DEF Record, TypeOK
  <2>4. CASE Finish
    BY <2>4 DEF Finish, TypeOK
  <2>5. CASE Throw
    BY <2>5 DEF Throw, TypeOK
  <2>6. CASE ThrowInCheck
    BY <2>6 DEF ThrowInCheck, TypeOK
  <2>7. CASE UNCHANGED vars
    BY <2>7 DEF vars, TypeOK
  <2>8. QED
    BY <2>1, <2>2, <2>3, <2>4, <2>5, <2>6, <2>7 DEF Next
<1>3. QED
  BY <1>1, <1>2, PTL DEF Spec

-----------------------------------------------------------------------------
(* The search invariant.                                                   *)

(* Steps out of a larger set of states lead to a larger set. *)
LEMMA ImageMonotone ==
  ASSUME NEW p, NEW S, NEW T, S \subseteq T
  PROVE  Abstract!Image(p, S) \subseteq Abstract!Image(p, T)
BY DEF Abstract!Image

(* Successors depends on the program and the blob alone. *)
LEMMA SuccessorsUnchanged ==
  ASSUME UNCHANGED program, NEW b
  PROVE  Successors(b)' = Successors(b)
BY DEF Successors, Post

(* The invariant holds when the initial state has been stored and queued. *)
LEMMA SoundInvInit == Init => SoundInv
<1> SUFFICES ASSUME Init PROVE SoundInv
  OBVIOUS
<1> DEFINE id == NewId(EmptyDatabase, program.init)
<1>1. /\ program.init \in Blob
      /\ DatabaseOK(knowns)
      /\ DOMAIN knowns.id2item = {id}
      /\ GetState(knowns, id) = program.init
  BY InitialDatabase, EmptyDatabaseOK DEF Extends
<1>2. /\ program \in Programs /\ to_do = <<id>> /\ pc = "loop" /\ pending = {}
      /\ ~ error_found /\ output = {}
  BY DEF Init
<1> HIDE DEF id
<1>3. Elements(to_do) = {id}
  BY <1>2 DEF Elements
<1>4. Known(knowns) = Concrete(program.init)
  BY <1>1 DEF Known
<1>5. Known(knowns) = Abstract!InitialStates(program)
  BY <1>4 DEF Abstract!InitialStates, Concrete
<1>6. IdsKnown /\ Frontier /\ PendingRest
  BY <1>1, <1>2, <1>3 DEF IdsKnown, Frontier, PendingRest
<1>7. KnownReachable
  BY <1>2, <1>5, ReachLeastClosed, ProgramsAssumption DEF KnownReachable
<1>8. VerdictAgrees
  <2>1. Known(knowns) \cap Abstract!ErrorState = {}
    BY <1>2, <1>4, ProgramsAssumption DEF Concrete, Abstract!ErrorState
  <2>2. QED
    BY <1>2, <2>1 DEF VerdictAgrees
<1>9. QED
  BY <1>6, <1>7, <1>8 DEF SoundInv

(* Popping a vertex moves it from the queue to the hand of advance. *)
LEMMA SoundInvPop == TypeOK /\ SoundInv /\ Pop => SoundInv'
<1> SUFFICES ASSUME TypeOK, SoundInv, Pop PROVE SoundInv'
  OBVIOUS
<1>1. /\ pc = "loop" /\ pc' = "advance"
      /\ vertex' = Head(to_do)
      /\ pending' = Successors(GetState(knowns, vertex'))
      /\ UNCHANGED <<program, knowns, error_found, output>>
  BY DEF Pop
<1>2. /\ vertex' \in Elements(to_do)
      /\ Elements(to_do) = Elements(to_do') \cup {vertex'}
  BY ElementsOfQueue DEF Pop, TypeOK
<1>3. \A id : Explored(id)' <=> Explored(id)
  BY <1>1 DEF Explored, Successors, Post
<1>4. IdsKnown'
  BY <1>1, <1>2 DEF SoundInv, IdsKnown
<1>5. Frontier'
  <2>1. "exception" \notin output
    BY <1>1 DEF SoundInv, VerdictAgrees
  <2>2. QED
    BY <1>1, <1>2, <1>3, <2>1 DEF SoundInv, Frontier
<1>6. PendingRest'
  <2>1. Successors(GetState(knowns, vertex))' = Successors(GetState(knowns', vertex'))
    BY <1>1 DEF Successors, Post
  <2>2. QED
    BY <1>1, <2>1 DEF PendingRest
<1>7. KnownReachable'
  BY <1>1 DEF SoundInv, KnownReachable
<1>8. VerdictAgrees'
  BY <1>1 DEF SoundInv, VerdictAgrees, Pop
<1>9. QED
  BY <1>4, <1>5, <1>6, <1>7, <1>8 DEF SoundInv

(* What a yield does to the database and the queue: an identifier that is new
   is stored and queued, the others keep their states. *)
LEMMA YieldStores ==
  ASSUME TypeOK, NEW succ \in pending, NEW value \in InsertCheck(knowns, succ),
         YieldOf(succ, value)
  PROVE  /\ value.fresh \in BOOLEAN
         /\ value.id \in StateId /\ value.id \in DOMAIN knowns'.id2item
         /\ value.fresh => value.id \notin DOMAIN knowns.id2item
         /\ value.fresh => GetState(knowns', value.id) = succ
         /\ ~ value.fresh => knowns' = knowns
         /\ DOMAIN knowns'.id2item =
              DOMAIN knowns.id2item \cup (IF value.fresh THEN {value.id} ELSE {})
         /\ \A i \in DOMAIN knowns.id2item : GetState(knowns', i) = GetState(knowns, i)
         /\ Elements(to_do') = Elements(to_do) \cup (IF value.fresh THEN {value.id} ELSE {})
<1>1. /\ DatabaseOK(knowns) /\ succ \in Blob /\ to_do \in Seq(StateId)
      /\ knowns' = value.db
      /\ to_do' = IF value.fresh THEN Append(to_do, value.id) ELSE to_do
  BY DEF TypeOK, YieldOf
<1>2. /\ value.id \in DOMAIN knowns'.id2item
      /\ value.id \in StateId
      /\ value.fresh => Extends(knowns', knowns, value.id, succ)
      /\ ~ value.fresh => knowns' = knowns
      /\ value.fresh \in BOOLEAN
  BY <1>1, InsertCheckCorrect, GetStateType
<1>3. Elements(to_do') = Elements(to_do) \cup (IF value.fresh THEN {value.id} ELSE {})
  BY <1>1, <1>2, ElementsOfQueue
<1>4. QED
  BY <1>2, <1>3 DEF Extends

(* A successor still to be yielded is one step away from what is stored, hence
   reachable, and it holds an error exactly if its explicit part says so. *)
LEMMA PendingReachable ==
  ASSUME TypeOK, SoundInv, pc = "advance", NEW succ \in pending
  PROVE  /\ Concrete(succ) \subseteq Abstract!Image(program, Known(knowns))
         /\ Concrete(succ) \subseteq Abstract!Reach(program)
         /\ succ.expl \in Errors <=> Concrete(succ) \cap Abstract!ErrorState # {}
<1>1. /\ program \in Programs /\ program \in Abstract!Program
      /\ DatabaseOK(knowns) /\ succ \in Blob
  BY ProgramsAssumption DEF TypeOK
<1>2. /\ vertex \in DOMAIN knowns.id2item
      /\ succ \in Successors(GetState(knowns, vertex))
  BY DEF SoundInv, IdsKnown, PendingRest
<1>3. Concrete(succ) \subseteq Abstract!Image(program, Known(knowns))
  <2>1. Concrete(succ) \subseteq Abstract!Image(program, Concrete(GetState(knowns, vertex)))
    BY <1>1, <1>2, GetStateType, SuccessorsReal
  <2>2. QED
    BY <1>2, <2>1, NamedIsKnown, ImageMonotone
<1>4. Concrete(succ) \subseteq Abstract!Reach(program)
  <2>1. Abstract!Image(program, Known(knowns))
          \subseteq Abstract!Image(program, Abstract!Reach(program))
    BY ImageMonotone DEF SoundInv, KnownReachable
  <2>2. Abstract!Image(program, Abstract!Reach(program)) \subseteq Abstract!Reach(program)
    BY <1>1, ReachLeastClosed
  <2>3. QED
    BY <1>3, <2>1, <2>2
<1>5. succ.expl \in Errors <=> Concrete(succ) \cap Abstract!ErrorState # {}
  <2>1. Concrete(succ) # {} /\ Concrete(succ) \subseteq {succ.expl} \X Data
    BY <1>1, <1>2, GetStateType, SuccessorsType DEF Blob, Sym, Concrete
  <2>2. QED
    BY <2>1 DEF Concrete, Abstract!ErrorState
<1>6. QED
  BY <1>3, <1>4, <1>5

(* A yielded successor is covered by the database afterwards; what was
   explored stays explored, and a new identifier goes to the queue. *)
LEMMA SoundInvYield ==
  HitPolicy # "partial" /\ TypeOK /\ SoundInv /\ Yield => SoundInv'
<1> SUFFICES ASSUME HitPolicy # "partial", TypeOK, SoundInv, Yield PROVE SoundInv'
  OBVIOUS
<1>1. PICK succ \in pending : \E value \in InsertCheck(knowns, succ) : YieldOf(succ, value)
  BY YieldSplit
<1>2. PICK value \in InsertCheck(knowns, succ) : YieldOf(succ, value)
  BY <1>1
<1>3. /\ DatabaseOK(knowns) /\ succ \in Blob /\ program \in Programs
      /\ pc = "advance" /\ pc' = "advance"
      /\ UNCHANGED <<program, vertex>>
      /\ knowns' = value.db
      /\ to_do \in Seq(StateId)
  BY <1>2 DEF TypeOK, YieldOf
<1>4. /\ value.fresh \in BOOLEAN
      /\ DOMAIN knowns'.id2item =
           DOMAIN knowns.id2item \cup (IF value.fresh THEN {value.id} ELSE {})
      /\ \A i \in DOMAIN knowns.id2item : GetState(knowns', i) = GetState(knowns, i)
      /\ Elements(to_do') = Elements(to_do) \cup (IF value.fresh THEN {value.id} ELSE {})
  BY <1>2, YieldStores
<1>5. /\ Known(knowns) \subseteq Known(knowns')
      /\ Known(knowns') \subseteq Known(knowns) \cup Concrete(succ)
      /\ Concrete(succ) \subseteq Known(knowns')
  BY <1>3, KnownAfterInsertCheck
<1>7. vertex \in DOMAIN knowns.id2item
  BY <1>3 DEF SoundInv, IdsKnown
<1>8. \A i \in DOMAIN knowns.id2item :
        Successors(GetState(knowns, i))' = Successors(GetState(knowns, i))
  BY <1>3, <1>4 DEF Successors, Post
<1>9. IdsKnown'
  BY <1>3, <1>4, <1>7 DEF SoundInv, IdsKnown
<1>10. Frontier'
  <2> SUFFICES ASSUME NEW id \in DOMAIN knowns'.id2item
               PROVE  \/ id \in Elements(to_do')
                      \/ Explored(id)'
                      \/ id = vertex'
    BY <1>3 DEF Frontier
  <2>1. CASE id \in DOMAIN knowns.id2item
    <3>1. id \in Elements(to_do) \/ Explored(id) \/ id = vertex
      BY <2>1 DEF SoundInv, Frontier
    <3>2. Explored(id) => Explored(id)'
      BY <1>5, <1>8, <2>1 DEF Explored
    <3>3. QED
      BY <1>3, <1>4, <3>1, <3>2
  <2>2. CASE id \notin DOMAIN knowns.id2item
    BY <1>4, <2>2
  <2>3. QED
    BY <2>1, <2>2
<1>11. PendingRest'
  <2>1. /\ pending \subseteq Successors(GetState(knowns, vertex))
        /\ \A s \in Successors(GetState(knowns, vertex)) :
             s \in pending \/ Concrete(s) \subseteq Known(knowns)
    BY <1>3 DEF SoundInv, PendingRest
  <2>2. Successors(GetState(knowns, vertex))' = Successors(GetState(knowns, vertex))
    BY <1>3, <1>4, <1>7 DEF Successors, Post
  <2>3. pending' = pending \ {succ}
    BY <1>2 DEF YieldOf
  <2>4. QED
    BY <1>5, <2>1, <2>2, <2>3 DEF PendingRest
<1>13. KnownReachable'
  <2>1. Known(knowns') \subseteq Abstract!Reach(program)
    BY <1>3, <1>5, PendingReachable DEF SoundInv, KnownReachable
  <2>2. QED
    BY <1>3, <1>5, <2>1 DEF SoundInv, KnownReachable
<1>14. VerdictAgrees'
  <2>1. succ.expl \in Errors <=> Concrete(succ) \cap Abstract!ErrorState # {}
    BY <1>3, PendingReachable
  <2>2. error_found' <=> Known(knowns') \cap Abstract!ErrorState # {}
    <3>1. error_found' <=> error_found \/ succ.expl \in Errors
      BY <1>2 DEF YieldOf, TypeOK
    <3>2. error_found <=> Known(knowns) \cap Abstract!ErrorState # {}
      BY <1>3 DEF SoundInv, VerdictAgrees
    <3>3. QED
      BY <1>5, <2>1, <3>1, <3>2
  <2>3. error_found' <=> "error" \in output'
    BY <1>2 DEF YieldOf, SoundInv, VerdictAgrees
  <2>4. "Safe" \notin output' /\ "exception" \notin output'
    BY <1>2 DEF YieldOf, SoundInv, VerdictAgrees
  <2>5. QED
    BY <2>2, <2>3, <2>4 DEF VerdictAgrees
<1>15. QED
  BY <1>9, <1>10, <1>11, <1>13, <1>14 DEF SoundInv

(* When nothing is left to yield the vertex is explored. *)
LEMMA SoundInvRecord == TypeOK /\ SoundInv /\ Record => SoundInv'
<1> SUFFICES ASSUME TypeOK, SoundInv, Record PROVE SoundInv'
  OBVIOUS
<1>1. /\ pc = "advance" /\ pc' = "loop" /\ pending = {}
      /\ UNCHANGED <<program, knowns, to_do, vertex, pending, error_found, output>>
  BY DEF Record
<1>2. \A id : Explored(id)' <=> Explored(id)
  BY <1>1 DEF Explored, Successors, Post
<1>3. Explored(vertex)
  BY <1>1 DEF SoundInv, PendingRest, Explored
<1>4. IdsKnown' /\ PendingRest' /\ KnownReachable'
  BY <1>1 DEF SoundInv, IdsKnown, PendingRest, KnownReachable
<1>5. Frontier'
  BY <1>1, <1>2, <1>3 DEF SoundInv, Frontier
<1>6. VerdictAgrees'
  BY <1>1 DEF SoundInv, VerdictAgrees
<1>7. QED
  BY <1>4, <1>5, <1>6 DEF SoundInv

(* Ending the loop, or leaving it by an exception, disturbs only the verdict. *)
LEMMA SoundInvEnd == TypeOK /\ SoundInv /\ (Finish \/ Throw) => SoundInv'
<1> SUFFICES ASSUME TypeOK, SoundInv, Finish \/ Throw PROVE SoundInv'
  OBVIOUS
<1>1. /\ pc' = "end"
      /\ UNCHANGED <<program, knowns, to_do, vertex, pending, error_found>>
      /\ output \subseteq output'
  BY DEF Finish, Throw
<1>2. \A id : Explored(id)' <=> Explored(id)
  BY <1>1 DEF Explored, Successors, Post
<1>3. IdsKnown' /\ PendingRest' /\ KnownReachable'
  BY <1>1 DEF SoundInv, IdsKnown, PendingRest, KnownReachable
<1>4. Frontier'
  <2>1. pc = "advance" => "exception" \in output'
    BY DEF Finish, Throw
  <2>2. QED
    BY <1>1, <1>2, <2>1 DEF SoundInv, Frontier
<1>5. VerdictAgrees'
  <2>1. "Safe" \notin output /\ "exception" \notin output
    BY DEF Finish, Throw, SoundInv, VerdictAgrees
  <2>2. CASE Finish
    BY <2>1, <2>2 DEF Finish, SoundInv, VerdictAgrees, TypeOK
  <2>3. CASE Throw
    BY <2>1, <2>3 DEF Throw, SoundInv, VerdictAgrees
  <2>4. QED
    BY <2>2, <2>3
<1>6. QED
  BY <1>3, <1>4, <1>5 DEF SoundInv

(* An exception in insertCheck may leave a reported error that is not stored,
   but the successor in hand is a reachable one. *)
LEMMA SoundInvThrowInCheck == TypeOK /\ SoundInv /\ ThrowInCheck => SoundInv'
<1> SUFFICES ASSUME TypeOK, SoundInv, ThrowInCheck PROVE SoundInv'
  OBVIOUS
<1>1. PICK succ \in pending :
        /\ error_found' = (error_found \/ succ.expl \in Errors)
        /\ output' = output \cup {"exception"}
                       \cup (IF succ.expl \in Errors THEN {"error"} ELSE {})
  BY DEF ThrowInCheck
<1>2. /\ pc = "advance" /\ pc' = "end"
      /\ UNCHANGED <<program, knowns, to_do, vertex, pending>>
  BY DEF ThrowInCheck
<1>3. \A id : Explored(id)' <=> Explored(id)
  BY <1>2 DEF Explored, Successors, Post
<1>4. IdsKnown' /\ PendingRest' /\ KnownReachable'
  BY <1>2 DEF SoundInv, IdsKnown, PendingRest, KnownReachable
<1>5. Frontier'
  BY <1>1, <1>2, <1>3 DEF SoundInv, Frontier
<1>6. VerdictAgrees'
  <2>1. "Safe" \notin output /\ "exception" \notin output
    BY <1>2 DEF SoundInv, VerdictAgrees
  <2>2. succ.expl \in Errors => Abstract!Reach(program) \cap Abstract!ErrorState # {}
    BY <1>2, PendingReachable
  <2>3. QED
    BY <1>1, <1>2, <2>1, <2>2 DEF SoundInv, VerdictAgrees, TypeOK
<1>7. QED
  BY <1>4, <1>5, <1>6 DEF SoundInv

(* The search invariant holds throughout every run. *)
THEOREM SoundInvariant == HitPolicy # "partial" => (Spec => []SoundInv)
<1> SUFFICES ASSUME HitPolicy # "partial" PROVE Spec => []SoundInv
  OBVIOUS
<1>1. TypeOK /\ SoundInv /\ [Next]_vars => SoundInv'
  <2> SUFFICES ASSUME TypeOK, SoundInv, [Next]_vars PROVE SoundInv'
    OBVIOUS
  <2>1. CASE UNCHANGED vars
    <3>1. \A id : Explored(id)' <=> Explored(id)
      BY <2>1 DEF vars, Explored, Successors, Post
    <3>2. IdsKnown' /\ KnownReachable' /\ VerdictAgrees'
      BY <2>1 DEF vars, SoundInv, IdsKnown, KnownReachable, VerdictAgrees
    <3>3. Frontier'
      BY <2>1, <3>1 DEF vars, SoundInv, Frontier
    <3>4. Successors(GetState(knowns, vertex))' = Successors(GetState(knowns, vertex))
      BY <2>1 DEF vars, Successors, Post
    <3>5. PendingRest'
      BY <2>1, <3>4 DEF vars, SoundInv, PendingRest
    <3>6. QED
      BY <3>2, <3>3, <3>5 DEF SoundInv
  <2>2. QED
    BY <2>1, SoundInvPop, SoundInvYield, SoundInvRecord, SoundInvEnd,
       SoundInvThrowInCheck DEF Next
<1>2. QED
  BY <1>1, SoundInvInit, TypeCorrect, PTL DEF Spec

(* When all that is stored is explored, no step leads out of it. *)
LEMMA ExploredIsClosed ==
  ASSUME TypeOK, \A id \in DOMAIN knowns.id2item : Explored(id)
  PROVE  Abstract!Image(program, Known(knowns)) \subseteq Known(knowns)
<1> SUFFICES ASSUME NEW t \in Abstract!Image(program, Known(knowns))
             PROVE  t \in Known(knowns)
  OBVIOUS
<1>1. PICK e \in program.edges, d \in Data :
        /\ <<e.src, d>> \in Known(knowns)
        /\ t[1] = e.dst
        /\ <<d, t[2]>> \in e.rel
  BY DEF Abstract!Image
<1>2. PICK id \in DOMAIN knowns.id2item : <<e.src, d>> \in Concrete(GetState(knowns, id))
  BY <1>1 DEF Known
<1>3. t \in Abstract!Image(program, Concrete(GetState(knowns, id)))
  BY <1>1, <1>2 DEF Abstract!Image
<1>4. GetState(knowns, id) \in Blob /\ program \in Programs
  BY GetStateType DEF TypeOK
<1>5. PICK s \in Successors(GetState(knowns, id)) : t \in Concrete(s)
  BY <1>3, <1>4, SuccessorsCover
<1>6. QED
  BY <1>5 DEF Explored

(* "Safe." is printed only if no reachable concrete state is an error. *)
THEOREM SafeSound == HitPolicy # "partial" => (Spec => []SafeIsSound)
<1> SUFFICES ASSUME HitPolicy # "partial" PROVE Spec => []SafeIsSound
  OBVIOUS
<1>1. TypeOK /\ SoundInv => SafeIsSound
  <2> SUFFICES ASSUME TypeOK, SoundInv, "Safe" \in output
               PROVE  Abstract!Reach(program) \cap Abstract!ErrorState = {}
    BY DEF SafeIsSound, Abstract!SafeIsSound
  <2>1. /\ Elements(to_do) = {}
        /\ pc = "end" /\ "exception" \notin output
        /\ Known(knowns) \cap Abstract!ErrorState = {}
    BY DEF SoundInv, VerdictAgrees, Elements
  <2>2. \A id \in DOMAIN knowns.id2item : Explored(id)
    BY <2>1 DEF SoundInv, Frontier
  <2>3. program \in Programs /\ program \in Abstract!Program
    BY ProgramsAssumption DEF TypeOK
  <2>4. Abstract!Image(program, Known(knowns)) \subseteq Known(knowns)
    BY <2>2, ExploredIsClosed
  <2>5. Known(knowns) \in SUBSET Abstract!ConcreteState
    <3>1. \A id \in DOMAIN knowns.id2item :
            Concrete(GetState(knowns, id)) \subseteq Abstract!ConcreteState
      BY GetStateType DEF TypeOK, Concrete, Blob, Sym, Abstract!ConcreteState
    <3>2. QED
      BY <3>1 DEF Known
  <2>6. Abstract!Closed(program, Known(knowns))
    BY <2>4 DEF Abstract!Closed, SoundInv, KnownReachable
  <2>7. Abstract!Reach(program) \subseteq Known(knowns)
    BY <2>3, <2>5, <2>6, ReachLeastClosed
  <2>8. QED
    BY <2>1, <2>7
<1>2. QED
  BY <1>1, SoundInvariant, TypeCorrect, PTL

(* "Error state is reachable" is printed only if one is. *)
THEOREM ErrorReal == HitPolicy # "partial" => (Spec => []ErrorIsReal)
<1> SUFFICES ASSUME HitPolicy # "partial" PROVE Spec => []ErrorIsReal
  OBVIOUS
<1>1. SoundInv => ErrorIsReal
  BY DEF SoundInv, VerdictAgrees, KnownReachable, ErrorIsReal, Abstract!ErrorIsReal
<1>2. QED
  BY <1>1, SoundInvariant, PTL

-----------------------------------------------------------------------------
(* The search implements the abstract one.                                 *)

(* The command starts where the abstract search does. *)
LEMMA InitRefines == Init => Abstract!Init
<1> SUFFICES ASSUME Init PROVE Abstract!Init
  OBVIOUS
<1> DEFINE id == NewId(EmptyDatabase, program.init)
<1>1. DOMAIN knowns.id2item = {id} /\ GetState(knowns, id) = program.init
  BY InitialDatabase, EmptyDatabaseOK DEF Extends
<1> HIDE DEF id
<1>2. Known(knowns) = Abstract!InitialStates(program)
  BY <1>1 DEF Known, Abstract!InitialStates, Concrete
<1>3. QED
  BY <1>2 DEF Init, Abstract!Init

(* A yielded successor covers states one step away from the covered ones, and
   is reported as an error only if it holds one. *)
LEMMA YieldRefines ==
  HitPolicy # "partial" /\ TypeOK /\ SoundInv /\ Yield => Abstract!Explore
<1> SUFFICES ASSUME HitPolicy # "partial", TypeOK, SoundInv, Yield PROVE Abstract!Explore
  OBVIOUS
<1>1. PICK succ \in pending : \E value \in InsertCheck(knowns, succ) : YieldOf(succ, value)
  BY YieldSplit
<1>2. PICK value \in InsertCheck(knowns, succ) : YieldOf(succ, value)
  BY <1>1
<1>3. /\ DatabaseOK(knowns) /\ succ \in Blob /\ program \in Programs
      /\ pc = "advance" /\ knowns' = value.db /\ program' = program
      /\ output \subseteq {"error", "Safe", "exception"}
  BY <1>2 DEF TypeOK, YieldOf
<1>4. /\ Known(knowns) \subseteq Known(knowns')
      /\ Known(knowns') \subseteq Known(knowns) \cup Concrete(succ)
      /\ Concrete(succ) \subseteq Known(knowns')
  BY <1>3, KnownAfterInsertCheck
<1>5. vertex \in DOMAIN knowns.id2item /\ succ \in Successors(GetState(knowns, vertex))
  BY <1>3 DEF SoundInv, IdsKnown, PendingRest
<1>6. Concrete(succ) \subseteq Abstract!Image(program, Known(knowns))
  <2>1. Concrete(succ) \subseteq Abstract!Image(program, Concrete(GetState(knowns, vertex)))
    BY <1>3, <1>5, GetStateType, SuccessorsReal
  <2>2. QED
    BY <1>5, <2>1, NamedIsKnown, ImageMonotone
<1>7. \E S \in SUBSET Abstract!Image(program, Known(knowns)) : Known(knowns') = Known(knowns) \cup S
  <2>1. Known(knowns') = Known(knowns) \cup (Known(knowns') \ Known(knowns))
    BY <1>4
  <2>2. Known(knowns') \ Known(knowns) \in SUBSET Abstract!Image(program, Known(knowns))
    BY <1>4, <1>6
  <2>3. QED
    BY <2>1, <2>2
<1>8. output \subseteq {"error"}
  BY <1>3 DEF SoundInv, VerdictAgrees
<1>9. output' = output \/ (Known(knowns') \cap Abstract!ErrorState # {} /\ output' = output \cup {"error"})
  <2>1. CASE succ.expl \in Errors
    <3>1. Concrete(succ) # {} /\ Concrete(succ) \subseteq {succ.expl} \X Data
      BY <1>3, <1>5, GetStateType, SuccessorsType DEF Blob, Sym, Concrete
    <3>2. Concrete(succ) \cap Abstract!ErrorState # {}
      BY <2>1, <3>1 DEF Abstract!ErrorState
    <3>3. output' = output \cup {"error"}
      BY <1>2, <2>1 DEF YieldOf
    <3>4. QED
      BY <1>4, <3>2, <3>3
  <2>2. CASE succ.expl \notin Errors
    BY <1>2, <2>2 DEF YieldOf
  <2>3. QED
    BY <2>1, <2>2
<1>10. QED
  BY <1>3, <1>7, <1>8, <1>9 DEF Abstract!Explore

(* The loop ends with "Safe." when all that is covered is explored. *)
LEMMA FinishRefines ==
  TypeOK /\ SoundInv /\ Finish => Abstract!ReportSafe \/ UNCHANGED Abstract!vars
<1> SUFFICES ASSUME TypeOK, SoundInv, Finish
             PROVE  Abstract!ReportSafe \/ UNCHANGED Abstract!vars
  OBVIOUS
<1>1. CASE error_found
  BY <1>1 DEF Finish, Abstract!vars
<1>2. CASE ~ error_found
  <2>1. /\ pc = "loop" /\ to_do = << >> /\ output' = output \cup {"Safe"}
        /\ UNCHANGED <<program, knowns>>
    BY <1>2 DEF Finish
  <2>2. output = {} /\ Known(knowns) \cap Abstract!ErrorState = {}
    BY <1>2, <2>1 DEF TypeOK, SoundInv, VerdictAgrees
  <2>3. Elements(to_do) = {}
    BY <2>1 DEF Elements
  <2>4. \A id \in DOMAIN knowns.id2item : Explored(id)
    BY <2>1, <2>2, <2>3 DEF SoundInv, Frontier
  <2>5. Abstract!Image(program, Known(knowns)) \subseteq Known(knowns)
    BY <2>4, ExploredIsClosed
  <2>6. output' = {"Safe"}
    BY <2>1, <2>2
  <2>7. Known(knowns)' = Known(knowns)
    BY <2>1
  <2>8. QED
    BY <2>1, <2>2, <2>5, <2>6, <2>7 DEF Abstract!ReportSafe
<1>3. QED
  BY <1>1, <1>2

(* An exception in insertCheck ends the run; an error reported just before is
   one step away from what is stored. *)
LEMMA ThrowInCheckRefines == TypeOK /\ SoundInv /\ ThrowInCheck => Abstract!Abort
<1> SUFFICES ASSUME TypeOK, SoundInv, ThrowInCheck PROVE Abstract!Abort
  OBVIOUS
<1>1. PICK succ \in pending :
        output' = output \cup {"exception"}
                    \cup (IF succ.expl \in Errors THEN {"error"} ELSE {})
  BY DEF ThrowInCheck
<1>2. pc = "advance" /\ UNCHANGED <<program, knowns>>
  BY DEF ThrowInCheck
<1>3. output \subseteq {"error"}
  BY <1>2 DEF TypeOK, SoundInv, VerdictAgrees
<1>4. succ.expl \in Errors =>
        Abstract!Image(program, Known(knowns)) \cap Abstract!ErrorState # {}
  BY <1>2, PendingReachable
<1>5. output' = output \cup {"exception"} \/ output' = output \cup {"error", "exception"}
  BY <1>1
<1>6. output' = output \cup {"exception"} \/ succ.expl \in Errors
  BY <1>1
<1>7. QED
  BY <1>2, <1>3, <1>4, <1>5, <1>6 DEF Abstract!Abort

(***************************************************************************)
(* The command does what the abstract search allows: every step explores   *)
(* states one step away, reports a verdict that is due, or changes neither *)
(* what is covered nor what is printed.                                    *)
(***************************************************************************)
THEOREM SearchRefines == HitPolicy # "partial" => (Spec => Refinement)
<1> SUFFICES ASSUME HitPolicy # "partial" PROVE Spec => Refinement
  OBVIOUS
<1>1. TypeOK /\ SoundInv /\ [Next]_vars => [Abstract!Next]_(Abstract!vars)
  <2> SUFFICES ASSUME TypeOK, SoundInv, [Next]_vars
               PROVE  Abstract!Next \/ UNCHANGED Abstract!vars
    OBVIOUS
  <2>1. CASE Pop
    BY <2>1 DEF Pop, Abstract!vars
  <2>2. CASE Yield
    BY <2>2, YieldRefines DEF Abstract!Next
  <2>3. CASE Record
    BY <2>3 DEF Record, Abstract!vars
  <2>4. CASE Finish
    BY <2>4, FinishRefines DEF Abstract!Next
  <2>5. CASE Throw
    <3>1. output \subseteq {"error"}
      BY <2>5 DEF Throw, TypeOK, SoundInv, VerdictAgrees
    <3>2. QED
      BY <2>5, <3>1 DEF Throw, Abstract!Next, Abstract!Abort
  <2>6. CASE ThrowInCheck
    BY <2>6, ThrowInCheckRefines DEF Abstract!Next
  <2>7. CASE UNCHANGED vars
    BY <2>7 DEF vars, Abstract!vars
  <2>8. QED
    BY <2>1, <2>2, <2>3, <2>4, <2>5, <2>6, <2>7 DEF Next
<1>2. QED
  BY <1>1, InitRefines, SoundInvariant, TypeCorrect, PTL DEF Spec, Refinement, Abstract!Spec

-----------------------------------------------------------------------------
(* The queue and the graph.                                                *)

(* The elements of a queue without duplicates. *)
Distinct(q) == \A i, j \in 1 .. Len(q) : q[i] = q[j] => i = j

(* A queue stays without duplicates when an element that is not there is
   appended, and when its head is taken. *)
LEMMA DistinctQueue ==
  ASSUME NEW T, NEW q \in Seq(T), Distinct(q)
  PROVE  /\ \A x \in T : x \notin Elements(q) => Distinct(Append(q, x))
         /\ q # << >> => Distinct(Tail(q)) /\ Head(q) \notin Elements(Tail(q))
<1>1. ASSUME NEW x \in T, x \notin Elements(q) PROVE Distinct(Append(q, x))
  <2>1. /\ Len(q) \in Nat /\ Len(Append(q, x)) = Len(q) + 1
        /\ Append(q, x)[Len(q) + 1] = x
        /\ \A i \in 1 .. Len(q) : Append(q, x)[i] = q[i]
    OBVIOUS
  <2>2. \A i \in 1 .. Len(q) : q[i] # x
    BY <1>1 DEF Elements
  <2>3. \A i \in 1 .. Len(q) + 1 : i \in 1 .. Len(q) \/ i = Len(q) + 1
    BY <2>1
  <2>4. QED
    BY <2>1, <2>2, <2>3 DEF Distinct
<1>2. ASSUME q # << >> PROVE Distinct(Tail(q)) /\ Head(q) \notin Elements(Tail(q))
  <2>1. /\ Len(q) \in Nat \ {0} /\ Len(Tail(q)) = Len(q) - 1 /\ Head(q) = q[1]
        /\ \A i \in 1 .. Len(q) - 1 : Tail(q)[i] = q[i + 1]
    BY <1>2
  <2>2. \A i \in 1 .. Len(q) - 1 : i + 1 \in 1 .. Len(q) /\ i + 1 # 1 /\ 1 \in 1 .. Len(q)
    BY <2>1
  <2>3. ASSUME NEW i \in 1 .. Len(q) - 1 PROVE Tail(q)[i] # Head(q)
    BY <2>1, <2>2 DEF Distinct
  <2>4. ASSUME NEW i \in 1 .. Len(q) - 1, NEW j \in 1 .. Len(q) - 1, Tail(q)[i] = Tail(q)[j]
        PROVE  i = j
    <3>1. i + 1 = j + 1
      BY <2>1, <2>2, <2>4 DEF Distinct
    <3>2. QED
      BY <2>1, <3>1
  <2>5. QED
    BY <2>1, <2>3, <2>4 DEF Distinct, Elements
<1>3. QED
  BY <1>1, <1>2

(* What the initial state of the run holds, the queue and the graph included. *)
LEMMA InitialQueue ==
  ASSUME Init
  PROVE  \E id \in StateId : /\ id # NoState
                            /\ DOMAIN knowns.id2item = {id}
                            /\ to_do = <<id>> /\ Elements(to_do) = {id} /\ Distinct(to_do)
                            /\ DOMAIN graph = {id} /\ graph[id] = {}
                            /\ vertex = NoState /\ successors = {} /\ pc = "loop"
<1> DEFINE id == NewId(EmptyDatabase, program.init)
<1>1. /\ id \in StateId
      /\ DOMAIN knowns.id2item = {id}
  BY InitialDatabase, EmptyDatabaseOK DEF Extends
<1>2. id # NoState
  <2>1. EmptyDatabase.data = << >> /\ DOMAIN EmptyDatabase.state2item = {}
    BY DEF EmptyDatabase
  <2>2. ItemIndex(EmptyDatabase, program.init) = 1
    BY <2>1 DEF ItemIndex, Found
  <2>3. QED
    BY <2>2 DEF NewId, NoState
<1>3. /\ to_do = <<id>> /\ vertex = NoState /\ successors = {} /\ pc = "loop"
      /\ graph = AddVertex([v \in {} |-> {}], id)
  BY DEF Init
<1> HIDE DEF id
<1>4. DOMAIN graph = {id} /\ graph[id] = {}
  BY <1>3 DEF AddVertex, TableInsert
<1>5. Elements(to_do) = {id} /\ Distinct(to_do)
  BY <1>3 DEF Elements, Distinct
<1>6. QED
  BY <1>1, <1>2, <1>3, <1>4, <1>5

(***************************************************************************)
(* The invariant: the identifiers in use are known, the graph agrees with  *)
(* the database and the queue, and what waits was not expanded.            *)
(***************************************************************************)
QueueInv == IdsKnown /\ GraphAgrees /\ ExpandedOnce

(* The parts of the invariant about what waits. *)
LEMMA ExpandedOnceParts ==
  ExpandedOnce <=> /\ Distinct(to_do)
                   /\ \A id \in Elements(to_do) :
                        id # vertex /\ (id \in DOMAIN graph => graph[id] = {})
BY DEF ExpandedOnce, Distinct

LEMMA QueueInvInit == Init => QueueInv
<1> SUFFICES ASSUME Init PROVE QueueInv
  OBVIOUS
<1>1. PICK id \in StateId : /\ id # NoState
                            /\ DOMAIN knowns.id2item = {id}
                            /\ to_do = <<id>> /\ Elements(to_do) = {id} /\ Distinct(to_do)
                            /\ DOMAIN graph = {id} /\ graph[id] = {}
                            /\ vertex = NoState /\ successors = {} /\ pc = "loop"
  BY InitialQueue
<1>2. IdsKnown
  BY <1>1 DEF IdsKnown
<1>3. GraphAgrees
  BY <1>1 DEF GraphAgrees
<1>4. ExpandedOnce
  BY <1>1, ExpandedOnceParts
<1>5. QED
  BY <1>2, <1>3, <1>4 DEF QueueInv

(* Popping: the head is a vertex, known, and nowhere else in the queue. *)
LEMMA QueueInvPop == TypeOK /\ QueueInv /\ Pop => QueueInv'
<1> SUFFICES ASSUME TypeOK, QueueInv, Pop PROVE QueueInv'
  OBVIOUS
<1>1. /\ pc = "loop" /\ pc' = "advance" /\ to_do \in Seq(StateId) /\ to_do # << >>
      /\ vertex' = Head(to_do) /\ to_do' = Tail(to_do) /\ successors' = {}
      /\ UNCHANGED <<knowns, graph>>
  BY DEF Pop, TypeOK
<1>2. /\ vertex' \in Elements(to_do) /\ Elements(to_do) = Elements(to_do') \cup {vertex'}
  BY <1>1, ElementsOfQueue
<1>3. Distinct(to_do') /\ vertex' \notin Elements(to_do')
  BY <1>1, DistinctQueue, ExpandedOnceParts DEF QueueInv
<1>4. IdsKnown'
  BY <1>1, <1>2 DEF QueueInv, IdsKnown
<1>5. GraphAgrees'
  BY <1>1, <1>2 DEF QueueInv, GraphAgrees
<1>6. ExpandedOnce'
  <2>1. \A id \in Elements(to_do') : id # vertex' /\ (id \in DOMAIN graph' => graph'[id] = {})
    BY <1>1, <1>2, <1>3, ExpandedOnceParts DEF QueueInv
  <2>2. QED
    BY <1>3, <2>1 DEF ExpandedOnce, Distinct
<1>7. QED
  BY <1>4, <1>5, <1>6 DEF QueueInv

(* Yielding: an identifier is queued only if it was not known, so it is not
   the vertex in hand, nor in the graph, nor in the queue. *)
LEMMA QueueInvYield == TypeOK /\ QueueInv /\ Yield => QueueInv'
<1> SUFFICES ASSUME TypeOK, QueueInv, Yield PROVE QueueInv'
  OBVIOUS
<1>1. PICK succ \in pending : \E value \in InsertCheck(knowns, succ) : YieldOf(succ, value)
  BY YieldSplit
<1>2. PICK value \in InsertCheck(knowns, succ) : YieldOf(succ, value)
  BY <1>1
<1>3. /\ pc = "advance" /\ pc' = "advance" /\ to_do \in Seq(StateId)
      /\ to_do' = IF value.fresh THEN Append(to_do, value.id) ELSE to_do
      /\ successors' = successors \cup {value.id}
      /\ UNCHANGED <<graph, vertex>>
  BY <1>2 DEF YieldOf, TypeOK
<1>4. /\ value.fresh \in BOOLEAN /\ value.id \in StateId
      /\ value.id \in DOMAIN knowns'.id2item
      /\ value.fresh => value.id \notin DOMAIN knowns.id2item
      /\ DOMAIN knowns'.id2item =
           DOMAIN knowns.id2item \cup (IF value.fresh THEN {value.id} ELSE {})
      /\ Elements(to_do') = Elements(to_do) \cup (IF value.fresh THEN {value.id} ELSE {})
  BY <1>2, YieldStores
<1>5. /\ Elements(to_do) \subseteq DOMAIN knowns.id2item /\ vertex \in DOMAIN knowns.id2item
      /\ DOMAIN graph \subseteq DOMAIN knowns.id2item
  BY <1>3 DEF QueueInv, IdsKnown, GraphAgrees
<1>6. IdsKnown'
  BY <1>3, <1>4, <1>5 DEF IdsKnown
<1>7. GraphAgrees'
  BY <1>3, <1>4, <1>5 DEF QueueInv, GraphAgrees
<1>8. ExpandedOnce'
  <2>1. Distinct(to_do')
    BY <1>3, <1>4, <1>5, DistinctQueue, ExpandedOnceParts DEF QueueInv
  <2>2. \A id \in Elements(to_do') : id # vertex' /\ (id \in DOMAIN graph' => graph'[id] = {})
    BY <1>3, <1>4, <1>5, ExpandedOnceParts DEF QueueInv
  <2>3. QED
    BY <2>1, <2>2 DEF ExpandedOnce, Distinct
<1>9. QED
  BY <1>6, <1>7, <1>8 DEF QueueInv

(* What recording makes of the graph. *)
LEMMA RecordedGraph ==
  ASSUME TypeOK, Record, vertex \in DOMAIN graph
  PROVE  /\ DOMAIN graph' = DOMAIN graph \cup successors
         /\ graph'[vertex] = graph[vertex] \cup successors
         /\ \A v \in DOMAIN graph \ {vertex} : graph'[v] = graph[v]
         /\ \A v \in successors \ DOMAIN graph : graph'[v] = {}
BY DEF Record, AddSuccessors

(* Recording: only the vertex in hand gets neighbours, and it does not wait. *)
LEMMA QueueInvRecord == TypeOK /\ QueueInv /\ Record => QueueInv'
<1> SUFFICES ASSUME TypeOK, QueueInv, Record PROVE QueueInv'
  OBVIOUS
<1>1. /\ pc = "advance" /\ pc' = "loop"
      /\ UNCHANGED <<knowns, to_do, vertex, successors>>
      /\ vertex \in DOMAIN graph
  BY DEF Record, QueueInv, GraphAgrees
<1>2. /\ DOMAIN graph' = DOMAIN graph \cup successors
      /\ graph'[vertex] = graph[vertex] \cup successors
      /\ \A v \in DOMAIN graph \ {vertex} : graph'[v] = graph[v]
      /\ \A v \in successors \ DOMAIN graph : graph'[v] = {}
  BY <1>1, RecordedGraph
<1>3. IdsKnown'
  BY <1>1 DEF QueueInv, IdsKnown
<1>4. GraphAgrees'
  <2>1. ASSUME NEW v \in DOMAIN graph' PROVE graph'[v] \subseteq DOMAIN graph'
    <3>1. CASE v \in DOMAIN graph
      BY <1>2, <3>1 DEF QueueInv, GraphAgrees
    <3>2. CASE v \notin DOMAIN graph
      BY <1>2, <3>2
    <3>3. QED
      BY <3>1, <3>2
  <2>2. QED
    BY <1>1, <1>2, <2>1 DEF QueueInv, GraphAgrees
<1>5. ExpandedOnce'
  <2>1. \A id \in Elements(to_do) : id # vertex /\ (id \in DOMAIN graph' => graph'[id] = {})
    BY <1>1, <1>2, ExpandedOnceParts DEF QueueInv
  <2>2. QED
    BY <1>1, <2>1, ExpandedOnceParts DEF QueueInv, ExpandedOnce, Distinct
<1>6. QED
  BY <1>3, <1>4, <1>5 DEF QueueInv

(* The end of the loop and an exception leave queue, graph and database alone. *)
LEMMA QueueInvEnd == QueueInv /\ (Finish \/ Throw \/ ThrowInCheck \/ UNCHANGED vars) => QueueInv'
<1> SUFFICES ASSUME QueueInv, Finish \/ Throw \/ ThrowInCheck \/ UNCHANGED vars PROVE QueueInv'
  OBVIOUS
<1>1. /\ UNCHANGED <<knowns, graph, to_do, vertex, successors>>
      /\ pc' = "end" \/ pc' = pc
  BY DEF Finish, Throw, ThrowInCheck, vars
<1>2. QED
  BY <1>1 DEF QueueInv, IdsKnown, GraphAgrees, ExpandedOnce

(* Queue, graph and database agree throughout every run. *)
THEOREM QueueInvariant == Spec => []QueueInv
<1>1. TypeOK /\ QueueInv /\ [Next]_vars => QueueInv'
  BY QueueInvPop, QueueInvYield, QueueInvRecord, QueueInvEnd DEF Next
<1>2. QED
  BY <1>1, QueueInvInit, TypeCorrect, PTL DEF Spec

(* No state is expanded twice: an identifier is never queued while it waits,
   is being expanded, or was. *)
THEOREM NothingExpandedTwice == Spec => []ExpandedOnce
<1>1. QueueInv => ExpandedOnce
  BY DEF QueueInv
<1>2. QED
  BY <1>1, QueueInvariant, PTL

-----------------------------------------------------------------------------
(* The graph simulates the program.                                        *)

SimulationInv == QueueInv /\ CoveredSoFar /\ GraphSimulates

(* At first there is nothing but the initial state, and it waits. *)
LEMMA SimulationInvInit == Init => SimulationInv
<1> SUFFICES ASSUME Init PROVE SimulationInv
  OBVIOUS
<1>1. DOMAIN graph \subseteq Elements(to_do) /\ pc = "loop"
  BY InitialQueue
<1>2. QED
  BY <1>1, QueueInvInit DEF SimulationInv, CoveredSoFar, GraphSimulates

(* A popped vertex is in hand; of the others the graph says what it said. *)
LEMMA SimulationInvPop == TypeOK /\ SoundInv /\ SimulationInv /\ Pop => SimulationInv'
<1> SUFFICES ASSUME TypeOK, SoundInv, SimulationInv, Pop PROVE SimulationInv'
  OBVIOUS
<1>1. /\ pc = "loop" /\ pc' = "advance"
      /\ vertex' = Head(to_do) /\ to_do' = Tail(to_do)
      /\ pending' = Successors(GetState(knowns, vertex'))
      /\ to_do \in Seq(StateId) /\ to_do # << >>
      /\ UNCHANGED <<program, knowns, graph>>
  BY DEF Pop, TypeOK
<1>2. Elements(to_do) = Elements(to_do') \cup {vertex'}
  BY <1>1, ElementsOfQueue
<1>4. CoveredSoFar'
  <2>1. Successors(GetState(knowns, vertex))' = Successors(GetState(knowns', vertex'))
    BY <1>1 DEF Successors, Post
  <2>2. QED
    BY <1>1, <2>1 DEF CoveredSoFar
<1>5. GraphSimulates'
  <2>1. "exception" \notin output
    BY <1>1 DEF SoundInv, VerdictAgrees
  <2> SUFFICES ASSUME NEW v \in DOMAIN graph' \ Elements(to_do'), v # vertex',
                      NEW s \in Successors(GetState(knowns, v))
               PROVE  \E w \in graph'[v] :
                        /\ w \in DOMAIN graph'
                        /\ Concrete(s) \subseteq Concrete(GetState(knowns, w))
    <3>1. \A v : Successors(GetState(knowns, v))' = Successors(GetState(knowns, v))
      BY <1>1 DEF Successors, Post
    <3>2. QED
      BY <1>1, <3>1 DEF GraphSimulates
  <2>2. v \in DOMAIN graph \ Elements(to_do)
    BY <1>1, <1>2
  <2>3. QED
    BY <1>1, <2>1, <2>2 DEF SimulationInv, GraphSimulates
<1>6. QED
  BY <1>4, <1>5, QueueInvPop DEF SimulationInv

(* A yielded successor is inside the state of the identifier insertCheck
   returns for it; what was stored keeps its state. *)
LEMMA SimulationInvYield ==
  HitPolicy # "partial" /\ TypeOK /\ SimulationInv /\ Yield => SimulationInv'
<1> SUFFICES ASSUME HitPolicy # "partial", TypeOK, SimulationInv, Yield PROVE SimulationInv'
  OBVIOUS
<1>1. PICK succ \in pending : \E value \in InsertCheck(knowns, succ) : YieldOf(succ, value)
  BY YieldSplit
<1>2. PICK value \in InsertCheck(knowns, succ) : YieldOf(succ, value)
  BY <1>1
<1>3. /\ DatabaseOK(knowns) /\ succ \in Blob /\ knowns' = value.db
      /\ pc = "advance" /\ pc' = "advance"
      /\ pending' = pending \ {succ}
      /\ successors' = successors \cup {value.id}
      /\ UNCHANGED <<program, graph, vertex>>
  BY <1>2 DEF YieldOf, TypeOK
<1>4. /\ \A i \in DOMAIN knowns.id2item : GetState(knowns', i) = GetState(knowns, i)
      /\ Elements(to_do) \subseteq Elements(to_do')
  BY <1>2, YieldStores
<1>5. Concrete(succ) \subseteq Concrete(GetState(knowns', value.id))
  BY <1>3, InsertCheckCorrect
<1>6. /\ vertex \in DOMAIN knowns.id2item
      /\ DOMAIN graph \cup successors \subseteq DOMAIN knowns.id2item
  BY <1>3 DEF SimulationInv, QueueInv, IdsKnown, GraphAgrees
<1>8. CoveredSoFar'
  <2> SUFFICES ASSUME NEW s \in Successors(GetState(knowns, vertex)), s \notin pending'
               PROVE  \E w \in successors' : Concrete(s) \subseteq Concrete(GetState(knowns', w))
    <3>1. Successors(GetState(knowns, vertex))' = Successors(GetState(knowns, vertex))
      BY <1>3, <1>4, <1>6 DEF Successors, Post
    <3>2. QED
      BY <3>1 DEF CoveredSoFar
  <2>1. CASE s = succ
    BY <1>3, <1>5, <2>1
  <2>2. CASE s # succ
    <3>1. PICK w \in successors : Concrete(s) \subseteq Concrete(GetState(knowns, w))
      BY <1>3, <2>2 DEF SimulationInv, CoveredSoFar
    <3>2. QED
      BY <1>3, <1>4, <1>6, <3>1
  <2>3. QED
    BY <2>1, <2>2
<1>9. GraphSimulates'
  <2> SUFFICES ASSUME NEW v \in DOMAIN graph \ Elements(to_do'), v # vertex,
                      NEW s \in Successors(GetState(knowns, v))
               PROVE  \E w \in graph[v] :
                        /\ w \in DOMAIN graph
                        /\ Concrete(s) \subseteq Concrete(GetState(knowns', w))
    <3>1. \A v \in DOMAIN graph :
            Successors(GetState(knowns, v))' = Successors(GetState(knowns, v))
      BY <1>3, <1>4, <1>6 DEF Successors, Post
    <3>2. QED
      BY <1>3, <3>1 DEF GraphSimulates
  <2>1. PICK w \in graph[v] : /\ w \in DOMAIN graph
                              /\ Concrete(s) \subseteq Concrete(GetState(knowns, w))
    BY <1>4 DEF SimulationInv, GraphSimulates
  <2>2. QED
    BY <1>4, <1>6, <2>1
<1>10. QED
  BY <1>8, <1>9, QueueInvYield DEF SimulationInv

(* When all is yielded, the identifiers recorded cover what the vertex leads
   to; a successor that becomes a vertex now still waits. *)
LEMMA SimulationInvRecord == TypeOK /\ SimulationInv /\ Record => SimulationInv'
<1> SUFFICES ASSUME TypeOK, SimulationInv, Record PROVE SimulationInv'
  OBVIOUS
<1>1. /\ pc = "advance" /\ pc' = "loop" /\ pending = {}
      /\ UNCHANGED <<program, knowns, to_do, vertex, successors>>
      /\ vertex \in DOMAIN graph
  BY DEF Record, SimulationInv, QueueInv, GraphAgrees
<1>2. /\ DOMAIN graph' = DOMAIN graph \cup successors
      /\ graph'[vertex] = graph[vertex] \cup successors
      /\ \A v \in DOMAIN graph \ {vertex} : graph'[v] = graph[v]
  BY <1>1, RecordedGraph
<1>3. successors \subseteq DOMAIN graph \cup Elements(to_do)
  BY DEF SimulationInv, QueueInv, GraphAgrees
<1>4. GraphSimulates'
  <2> SUFFICES ASSUME NEW v \in DOMAIN graph' \ Elements(to_do),
                      NEW s \in Successors(GetState(knowns, v))
               PROVE  \E w \in graph'[v] :
                        /\ w \in DOMAIN graph'
                        /\ Concrete(s) \subseteq Concrete(GetState(knowns, w))
    <3>1. \A v : Successors(GetState(knowns, v))' = Successors(GetState(knowns, v))
      BY <1>1 DEF Successors, Post
    <3>2. QED
      BY <1>1, <3>1 DEF GraphSimulates
  <2>1. v \in DOMAIN graph
    BY <1>2, <1>3
  <2>2. CASE v = vertex
    <3>1. PICK w \in successors : Concrete(s) \subseteq Concrete(GetState(knowns, w))
      BY <1>1, <2>2 DEF SimulationInv, CoveredSoFar
    <3>2. QED
      BY <1>2, <2>2, <3>1
  <2>3. CASE v # vertex
    BY <1>2, <2>1, <2>3 DEF SimulationInv, GraphSimulates
  <2>4. QED
    BY <2>2, <2>3
<1>5. CoveredSoFar'
  BY <1>1 DEF CoveredSoFar
<1>6. QED
  BY <1>4, <1>5, QueueInvRecord DEF SimulationInv

(* The end of the loop changes nothing; an exception leaves the vertex in hand
   for good. *)
LEMMA SimulationInvEnd ==
  TypeOK /\ SimulationInv /\ (Finish \/ Throw \/ ThrowInCheck \/ UNCHANGED vars) => SimulationInv'
<1> SUFFICES ASSUME TypeOK, SimulationInv, Finish \/ Throw \/ ThrowInCheck \/ UNCHANGED vars
             PROVE  SimulationInv'
  OBVIOUS
<1>1. /\ UNCHANGED <<program, knowns, graph, to_do, vertex, pending, successors>>
      /\ pc' = "end" \/ pc' = pc
      /\ pc' = "advance" => pc = "advance"
      /\ output \subseteq output'
  BY DEF Finish, Throw, ThrowInCheck, vars
<1>2. \A v : Successors(GetState(knowns, v))' = Successors(GetState(knowns, v))
  BY <1>1 DEF Successors, Post
<1>3. CoveredSoFar'
  <2>1. Successors(GetState(knowns, vertex))' = Successors(GetState(knowns, vertex))
    BY <1>1 DEF Successors, Post
  <2>2. QED
    BY <1>1, <2>1 DEF SimulationInv, CoveredSoFar
<1>4. GraphSimulates'
  <2>1. pc = "advance" => pc' = "advance" \/ "exception" \in output'
    BY DEF Finish, Throw, ThrowInCheck, vars
  <2>2. QED
    BY <1>1, <1>2, <2>1 DEF SimulationInv, GraphSimulates
<1>5. QED
  BY <1>3, <1>4, QueueInvEnd DEF SimulationInv

(***************************************************************************)
(* Once a vertex has been expanded, each of its successors is inside the   *)
(* state of a recorded neighbour: the graph shows what the program does.   *)
(***************************************************************************)
THEOREM SimulationInvariant == HitPolicy # "partial" => (Spec => []SimulationInv)
<1> SUFFICES ASSUME HitPolicy # "partial" PROVE Spec => []SimulationInv
  OBVIOUS
<1>1. TypeOK /\ SoundInv /\ SimulationInv /\ [Next]_vars => SimulationInv'
  BY SimulationInvPop, SimulationInvYield, SimulationInvRecord, SimulationInvEnd DEF Next
<1>2. QED
  BY <1>1, SimulationInvInit, SoundInvariant, TypeCorrect, PTL DEF Spec

(* The graph handed on by the search simulates the program. *)
THEOREM GraphIsSimulation == HitPolicy # "partial" => (Spec => []GraphSimulates)
<1> SUFFICES ASSUME HitPolicy # "partial" PROVE Spec => []GraphSimulates
  OBVIOUS
<1>1. SimulationInv => GraphSimulates
  BY DEF SimulationInv
<1>2. QED
  BY <1>1, SimulationInvariant, PTL

(* The invariant of the search: what it stores is reachable and explored or
   still to be explored, and the graph and the queue agree with it. *)
THEOREM SearchInvariant == HitPolicy # "partial" => (Spec => []SearchInv)
<1> SUFFICES ASSUME HitPolicy # "partial" PROVE Spec => []SearchInv
  OBVIOUS
<1>1. SoundInv /\ SimulationInv => SearchInv
  BY DEF SimulationInv, QueueInv, SearchInv
<1>2. QED
  BY <1>1, SimulationInvariant, SoundInvariant, PTL

-----------------------------------------------------------------------------
(* Superfluous states.                                                     *)

(* Storing a blob makes superfluous pairs of it and its hits only: those of
   the other states were there before, and a container grows at its end. *)
LEMMA SuperfluousAfterInsert ==
  ASSUME NEW db, DatabaseOK(db), NEW b \in Blob
  PROVE  Superfluous(Insert(db, b)) \subseteq
           Superfluous(db) \cup {<< <<ItemIndex(db, b), j>>, NewId(db, b)>> : j \in Hits(db, b)}
<1> DEFINE new == Insert(db, b)
           id  == NewId(db, b)
           idx == ItemIndex(db, b)
           c   == Container(db, b)
<1>1. /\ id \notin DOMAIN db.id2item
      /\ DOMAIN new.id2item = DOMAIN db.id2item \cup {id}
      /\ \A i \in DOMAIN db.id2item : GetState(new, i) = GetState(db, i)
      /\ GetState(new, id) = b
  BY InsertCorrect DEF Extends
<1>2. c \in Seq(Sym) /\ id = <<idx, Len(c) + 1>> /\ Len(c) \in Nat
  BY ContainerType DEF NewId
<1>3. ASSUME NEW i \in DOMAIN db.id2item, i[1] = idx
      PROVE  i = <<idx, i[2]>> /\ i[2] \in 1 .. Len(c) /\ GetState(db, i).sym = c[i[2]]
  <2>1. /\ i = <<i[1], i[2]>> /\ i[1] = db.id2item[i] /\ i[1] \in 1 .. Len(db.data)
        /\ i[2] \in 1 .. Len(db.data[i[1]].sym_container)
        /\ db.data \in Seq(Item)
    BY DEF DatabaseOK
  <2>2. Found(db, b)
    BY <1>3, <2>1 DEF ItemIndex
  <2>3. c = db.data[idx].sym_container
    BY <2>2 DEF Container, ItemIndex
  <2>4. QED
    BY <1>3, <2>1, <2>3 DEF GetState
<1>4. ASSUME NEW p \in Superfluous(new)
      PROVE  p \in Superfluous(db) \/ \E j \in Hits(db, b) : p = << <<idx, j>>, id>>
  <2>1. /\ p = <<p[1], p[2]>> /\ p[1] \in DOMAIN new.id2item /\ p[2] \in DOMAIN new.id2item
        /\ p[1][1] = p[2][1] /\ p[1][2] < p[2][2]
        /\ Hit(GetState(new, p[2]).sym, GetState(new, p[1]).sym)
    BY DEF Superfluous
  <2> HIDE DEF new, id, idx, c
  <2>2. CASE p[2] = id
    <3>1. p[1][1] = idx /\ p[1][2] < Len(c) + 1
      BY <1>2, <2>1, <2>2
    <3>2. p[1] # id
      BY <1>2, <3>1
    <3>3. p[1] \in DOMAIN db.id2item
      BY <1>1, <2>1, <3>2
    <3>4. p[1] = <<idx, p[1][2]>> /\ p[1][2] \in 1 .. Len(c)
          /\ GetState(db, p[1]).sym = c[p[1][2]]
      BY <1>3, <3>1, <3>3
    <3>5. Hit(b.sym, c[p[1][2]])
      BY <1>1, <2>1, <2>2, <3>3, <3>4
    <3>6. p[1][2] \in Hits(db, b)
      BY <3>4, <3>5 DEF Hits, c
    <3>7. QED
      BY <2>1, <2>2, <3>4, <3>6
  <2>3. CASE p[2] # id /\ p[1] = id
    <3>1. p[2] \in DOMAIN db.id2item /\ p[2][1] = idx /\ Len(c) + 1 < p[2][2]
      BY <1>1, <1>2, <2>1, <2>3
    <3>2. p[2][2] \in 1 .. Len(c)
      BY <1>3, <3>1
    <3>3. QED
      BY <1>2, <3>1, <3>2
  <2>4. CASE p[2] # id /\ p[1] # id
    <3>1. p[1] \in DOMAIN db.id2item /\ p[2] \in DOMAIN db.id2item
      BY <1>1, <2>1, <2>4
    <3>2. Hit(GetState(db, p[2]).sym, GetState(db, p[1]).sym)
      BY <1>1, <2>1, <3>1
    <3>3. QED
      BY <2>1, <3>1, <3>2 DEF Superfluous
  <2>5. QED
    BY <2>2, <2>3, <2>4
<1>5. QED
  BY <1>4

(* The superfluous pairs are finitely many, and at most as many as were missed. *)
SuperfluousInv ==
  /\ IsFiniteSet(Superfluous(knowns))
  /\ Cardinality(Superfluous(knowns)) <= missed

(* One state alone is not superfluous. *)
LEMMA SuperfluousInvInit == Init => SuperfluousInv
<1> SUFFICES ASSUME Init PROVE SuperfluousInv
  OBVIOUS
<1>1. PICK id \in StateId : DOMAIN knowns.id2item = {id}
  BY InitialQueue
<1>2. id[2] \in Nat
  BY DEF StateId
<1>3. Superfluous(knowns) = {}
  BY <1>1, <1>2 DEF Superfluous
<1>4. QED
  BY <1>3, FS_EmptySet DEF Init, SuperfluousInv

(* A yield stores one state, superfluous for the hits it missed. *)
LEMMA SuperfluousInvYield == TypeOK /\ SuperfluousInv /\ Yield => SuperfluousInv'
<1> SUFFICES ASSUME TypeOK, SuperfluousInv, Yield PROVE SuperfluousInv'
  OBVIOUS
<1>1. PICK succ \in pending : \E value \in InsertCheck(knowns, succ) : YieldOf(succ, value)
  BY YieldSplit
<1>2. PICK value \in InsertCheck(knowns, succ) : YieldOf(succ, value)
  BY <1>1
<1>3. /\ DatabaseOK(knowns) /\ succ \in Blob /\ missed \in Nat
      /\ knowns' = value.db /\ missed' = missed + value.missed
  BY <1>2 DEF YieldOf, TypeOK
<1>4. /\ value.fresh \in BOOLEAN /\ value.missed \in Nat
      /\ ~ value.fresh => value.db = knowns
  BY <1>3, InsertCheckCorrect
<1> DEFINE old  == Superfluous(knowns)
           hits == Hits(knowns, succ)
           f    == [j \in hits |-> << <<ItemIndex(knowns, succ), j>>, NewId(knowns, succ)>>]
           more == {<< <<ItemIndex(knowns, succ), j>>, NewId(knowns, succ)>> : j \in hits}
<1>5. IsFiniteSet(old) /\ Cardinality(old) \in Nat /\ Cardinality(old) <= missed
  BY FS_CardinalityType DEF SuperfluousInv
<1>6. CASE ~ value.fresh
  <2>1. knowns' = knowns
    BY <1>3, <1>4, <1>6
  <2>2. Cardinality(old) <= missed'
    BY <1>3, <1>4, <1>5
  <2>3. QED
    BY <1>5, <2>1, <2>2 DEF SuperfluousInv
<1>7. CASE value.fresh
  <2>1. value.db = Insert(knowns, succ) /\ value.missed = Cardinality(hits)
    <3>1. value = [fresh  |-> TRUE, db |-> Insert(knowns, succ), id |-> NewId(knowns, succ),
                   missed |-> Cardinality(hits)]
      <4>1. ASSUME NEW i \in hits,
                   value = [fresh |-> FALSE, db |-> knowns,
                            id |-> <<ItemIndex(knowns, succ), i>>,
                            missed |-> Cardinality({j \in hits : j < i})]
            PROVE  FALSE
        <5>1. value.fresh = FALSE
          BY <4>1, Zenon
        <5>2. QED
          BY <1>7, <5>1
      <4>2. QED
        BY <4>1 DEF InsertCheck
    <3>2. QED
      BY <3>1
  <2>2. IsFiniteSet(hits)
    <3>1. Container(knowns, succ) \in Seq(Sym)
      BY <1>3, ContainerType
    <3>2. Len(Container(knowns, succ)) \in Int
      BY <3>1
    <3>3. IsFiniteSet(1 .. Len(Container(knowns, succ)))
      BY <3>2, FS_Interval
    <3>4. hits \in SUBSET (1 .. Len(Container(knowns, succ)))
      BY DEF Hits
    <3>5. QED
      BY <3>3, <3>4, FS_Subset
  <2>3. f \in Surjection(hits, more)
    BY DEF Surjection
  <2>4. IsFiniteSet(more) /\ Cardinality(more) <= Cardinality(hits)
    BY <2>2, <2>3, FS_Surjection
  <2> HIDE DEF more, hits, old
  <2>5. /\ IsFiniteSet(old \cup more)
        /\ Cardinality(old \cup more) = Cardinality(old) + Cardinality(more) - Cardinality(old \cap more)
    BY <1>5, <2>4, FS_Union
  <2>6. IsFiniteSet(old \cap more)
    BY <1>5, FS_Intersection
  <2>7. Cardinality(more) \in Nat /\ Cardinality(hits) \in Nat /\ Cardinality(old \cap more) \in Nat
    BY <2>2, <2>4, <2>6, FS_CardinalityType
  <2>8. Cardinality(old \cup more) <= missed'
    BY <1>3, <1>5, <2>1, <2>4, <2>5, <2>7
  <2>9. Superfluous(knowns') \in SUBSET (old \cup more)
    BY <1>3, <2>1, SuperfluousAfterInsert DEF old, more, hits
  <2>10. IsFiniteSet(Superfluous(knowns')) /\ Cardinality(Superfluous(knowns')) <= Cardinality(old \cup more)
    BY <2>5, <2>9, FS_Subset
  <2>11. Cardinality(Superfluous(knowns')) \in Nat /\ Cardinality(old \cup more) \in Nat /\ missed' \in Nat
    BY <1>3, <1>4, <2>5, <2>10, FS_CardinalityType
  <2>12. QED
    BY <2>8, <2>10, <2>11 DEF SuperfluousInv
<1>8. QED
  BY <1>4, <1>6, <1>7

(***************************************************************************)
(* Whatever the comparison, at most as many stored states are superfluous  *)
(* as hits were missed: with a solver that answers, none is.               *)
(***************************************************************************)
THEOREM FewSuperfluous == Spec => []NoSuperfluousState
<1>1. TypeOK /\ SuperfluousInv /\ [Next]_vars => SuperfluousInv'
  <2> SUFFICES ASSUME TypeOK, SuperfluousInv, [Next]_vars PROVE SuperfluousInv'
    OBVIOUS
  <2>1. CASE Yield
    BY <2>1, SuperfluousInvYield
  <2>2. CASE Pop \/ Record \/ Finish \/ Throw \/ ThrowInCheck \/ UNCHANGED vars
    <3>1. UNCHANGED <<knowns, missed>>
      BY <2>2 DEF Pop, Record, Finish, Throw, ThrowInCheck, vars
    <3>2. QED
      BY <3>1 DEF SuperfluousInv
  <2>3. QED
    BY <2>1, <2>2 DEF Next
<1>2. SuperfluousInv => NoSuperfluousState
  BY DEF SuperfluousInv, NoSuperfluousState
<1>3. QED
  BY <1>1, <1>2, SuperfluousInvInit, TypeCorrect, PTL DEF Spec
=============================================================================
