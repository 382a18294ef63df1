------------------------------ MODULE LtlProofs ------------------------------
(***************************************************************************)
(* Theorems about Ltl, the LTL command, for every program and automaton    *)
(* over finite data.  Its search is the nested search of NestedDfs, whose  *)
(* theorems are taken over by instantiating NestedDfsProofs; what          *)
(* generate_successors answers keeps ProductStored; and the verdicts       *)
(* follow from the two by arguments about finite cycles.                   *)
(***************************************************************************)
EXTENDS Ltl, DatabaseProofs, SequenceLemmas, FunctionTheorems

(* On a finite set, a transitive relation that leads on from every element
   leads from one of them back to it. *)
LEMMA FiniteCycle ==
  ASSUME NEW A, IsFiniteSet(A), A # {}, NEW R,
         \A a \in A : \E b \in A : <<a, b>> \in R,
         \A a, b, c \in A : <<a, b>> \in R /\ <<b, c>> \in R => <<a, c>> \in R
  PROVE  \E a \in A : <<a, a>> \in R
<1> DEFINE From(a) == {b \in A : <<a, b>> \in R}
           size == [a \in A |-> Cardinality(From(a))]
           N == {size[a] : a \in A}
<1>1. ASSUME NEW a \in A PROVE IsFiniteSet(From(a)) /\ Cardinality(From(a)) \in Nat
  <2>1. From(a) \in SUBSET A
    OBVIOUS
  <2> HIDE DEF From
  <2>2. IsFiniteSet(From(a))
    BY <2>1, FS_Subset
  <2>3. QED
    BY <2>2, FS_CardinalityType
<1>2. N \in SUBSET Nat /\ N # {}
  <2>1. \A a \in A : size[a] \in Nat
    BY <1>1
  <2> HIDE DEF size
  <2>2. QED
    BY <2>1
<1>3. PICK n \in N : \A i \in N : n <= i
  BY <1>2, LeastNumber
<1>4. PICK a \in A : n = size[a]
  BY <1>3
<1>5. PICK b \in A : <<a, b>> \in R
  OBVIOUS
<1>6. From(b) \in SUBSET From(a)
  BY <1>5
<1>7. b \in From(a)
  BY <1>5
<1>8. Cardinality(From(a)) <= Cardinality(From(b))
  <2>1. size[b] \in N
    OBVIOUS
  <2>2. size[a] <= size[b]
    BY <1>3, <1>4, <2>1
  <2>3. size[a] = Cardinality(From(a)) /\ size[b] = Cardinality(From(b))
    OBVIOUS
  <2>4. QED
    BY <2>2, <2>3
<1> HIDE DEF From
<1>9. Cardinality(From(b)) <= Cardinality(From(a)) /\ (Cardinality(From(a)) = Cardinality(From(b)) => From(a) = From(b))
  BY <1>1, <1>6, FS_Subset
<1>10. From(a) = From(b)
  BY <1>1, <1>8, <1>9
<1>11. b \in From(b)
  BY <1>7, <1>10
<1>12. QED
  BY <1>11 DEF From

(* The orders a finite set may be listed in hold its elements. *)
LEMMA OrdersHoldAll ==
  ASSUME NEW S, IsFiniteSet(S), NEW order \in SetToSeqs(S)
  PROVE  order \in Seq(S) /\ ToSet(order) = S
<1> DEFINE n == Cardinality(S)
<1>1. n \in Nat
  BY FS_CardinalityType
<1>2. order \in [1 .. n -> S] /\ \A i, j \in 1 .. n : i # j => order[i] # order[j]
  BY DEF SetToSeqs
<1> HIDE DEF n
<1>3. order \in Seq(S) /\ Len(order) = n
  BY <1>1, <1>2, FunctionAsSequence
<1>4. ToSet(order) = {order[i] : i \in 1 .. n}
  BY <1>3, SetOfSequence
<1>5. order \in Injection(1 .. n, S)
  BY <1>2, Fun_IsInj
<1>6. IsFiniteSet(1 .. n) /\ Cardinality(1 .. n) = n
  BY <1>1, FS_Interval
<1> DEFINE D == 1 .. n
<1> HIDE DEF D
<1>7. order \in Injection(D, S) /\ Cardinality(D) = Cardinality(S)
  BY <1>5, <1>6 DEF D, n
<1>8. order \in Surjection(D, S)
  BY <1>7, FS_Injection
<1>9. \A t \in S : \E i \in D : order[i] = t
  BY <1>8, Fun_SurjectionProperties
<1>10. S \subseteq ToSet(order)
  BY <1>4, <1>9 DEF D
<1>11. QED
  BY <1>2, <1>3, <1>4, <1>10

(* The runs of the product.                                                *)
State == Expl \X Data

(* where the steps of the product lead: the least set that holds S and is
   closed under the steps *)
LEMMA RunsLeast ==
  ASSUME NEW g \in [State -> SUBSET State], NEW S \in SUBSET State
  PROVE  /\ S \subseteq Runs!Reach(g, S) /\ Runs!Reach(g, S) \in SUBSET State
         /\ \A c \in Runs!Reach(g, S) : g[c] \subseteq Runs!Reach(g, S)
         /\ \A T \in SUBSET State :
              S \subseteq T /\ (\A c \in T : g[c] \subseteq T) => Runs!Reach(g, S) \subseteq T
<1>1. DOMAIN g = State /\ \A c \in State : g[c] \subseteq State
  OBVIOUS
<1>2. S \subseteq Runs!Reach(g, S) /\ Runs!Reach(g, S) \in SUBSET State
  BY DEF Runs!Reach, State
<1>3. ASSUME NEW c \in Runs!Reach(g, S), NEW d \in g[c]
      PROVE  d \in Runs!Reach(g, S)
  <2>1. c \in State /\ d \in State
    BY <1>1, <1>2
  <2>2. ASSUME NEW T \in SUBSET State, S \subseteq T, \A w \in T \cap DOMAIN g : g[w] \subseteq T
        PROVE  d \in T
    <3>1. c \in T
      BY <2>2 DEF Runs!Reach, State
    <3>2. QED
      BY <1>1, <2>1, <2>2, <3>1
  <2>3. QED
    BY <2>1, <2>2 DEF Runs!Reach, State
<1>4. ASSUME NEW T \in SUBSET State, S \subseteq T, \A c \in T : g[c] \subseteq T
      PROVE  Runs!Reach(g, S) \subseteq T
  BY <1>1, <1>4 DEF Runs!Reach, State
<1>5. QED
  BY <1>2, <1>3, <1>4

(* what a part of what S leads to leads to *)
LEMMA RunsMonotone ==
  ASSUME NEW g \in [State -> SUBSET State], NEW S \in SUBSET State, NEW U \in SUBSET Runs!Reach(g, S)
  PROVE  Runs!Reach(g, U) \subseteq Runs!Reach(g, S)
<1>1. U \in SUBSET State
  BY RunsLeast
<1>2. QED
  BY <1>1, RunsLeast

(* What find answers: the first literal with a connective. *)
LEMMA FirstWith ==
  ASSUME NEW label \in Seq(Literal), NEW op
  PROVE  /\ (\A i \in 1 .. Len(label) : label[i].op # op) => find(label, op) = 0
         /\ \A n \in 1 .. Len(label) :
              label[n].op = op /\ (\A i \in 1 .. n - 1 : label[i].op # op) => find(label, op) = n
<1> DEFINE I == {i \in 1 .. Len(label) : label[i].op = op}
<1>1. find(label, op) = IF I # {} THEN Min(I) ELSE 0
  BY DEF find, SelectInSeq
<1>2. ASSUME NEW n \in 1 .. Len(label), label[n].op = op, \A i \in 1 .. n - 1 : label[i].op # op
      PROVE  Min(I) = n
  <2>1. n \in I /\ \A i \in I : n <= i
    BY <1>2
  <2>2. I \subseteq Int
    OBVIOUS
  <2> HIDE DEF I
  <2>3. \A x \in I : (\A y \in I : x <= y) => x = n
    BY <2>1, <2>2
  <2>4. (CHOOSE x \in I : \A y \in I : x <= y) = n
    BY <2>1, <2>3
  <2>5. QED
    BY <2>4 DEF Min
<1>3. QED
  BY <1>1, <1>2

(* The head of a sequence is its first element. *)
LEMMA FirstIsHead ==
  ASSUME NEW T, NEW q \in Seq(T), Len(q) # 0
  PROVE  q # << >> /\ Head(q) = q[1]
  OBVIOUS

(* The translator reads such a label as it is meant. *)
LEMMA LabelRead ==
  ASSUME NEW aps \in Seq(SUBSET Data), NEW label, Readable(aps, label)
  PROVE  translate(aps, label) = Meaning(aps, label)
<1>1. /\ label \in Seq(Literal) /\ Len(label) \in 0 .. 2
      /\ \A i \in 1 .. Len(label) : label[i].op = "none" <=> i = 1
      /\ \A i \in 1 .. Len(label) : label[i] \in Literal
  <2>1. label \in Seq(Literal) /\ Len(label) <= 2
    BY DEF Readable
  <2>2. Len(label) \in Nat /\ \A i \in 1 .. Len(label) : label[i] \in Literal
    BY <2>1
  <2>3. \A i \in 1 .. Len(label) : label[i].op = "none" <=> i = 1
    BY DEF Readable
  <2>4. \A n \in Nat : n <= 2 => n \in 0 .. 2
    OBVIOUS
  <2>5. Len(label) \in 0 .. 2
    BY <2>1, <2>2, <2>4, Zenon
  <2>6. QED
    BY <2>1, <2>2, <2>3, <2>5
<1>2. ASSUME NEW i \in 1 .. Len(label) PROVE Truth(aps, label[i]) \subseteq Data
  BY <1>2 DEF Readable, Truth
<1>3. CASE Len(label) = 0
  <2>1. label = << >>
    BY <1>1, <1>3
  <2>2. find(label, "&&") = 0 /\ find(label, "||") = 0
    <3>1. \A op : \A i \in 1 .. Len(label) : label[i].op # op
      BY <1>3
    <3>2. QED
      BY <1>1, <3>1, FirstWith
  <2>3. translate(aps, label) = Data
    BY <2>1, <2>2 DEF translate, translate_ap
  <2>4. Meaning(aps, label) = Data
    BY <2>1 DEF Meaning
  <2>5. QED
    BY <2>3, <2>4
<1>4. CASE Len(label) = 1
  <2>1. label # << >> /\ Head(label) = label[1] /\ 1 \in 1 .. Len(label) /\ DOMAIN label = {1}
    BY <1>1, <1>4
  <2>2. find(label, "&&") = 0 /\ find(label, "||") = 0
    BY <1>1, <1>4, FirstWith
  <2>3. translate(aps, label) = Truth(aps, label[1])
    BY <2>1, <2>2 DEF translate, translate_ap
  <2>4. ASSUME NEW d \in Data
        PROVE  d \in Meaning(aps, label) <=> d \in Truth(aps, label[1])
    <3>1. {n \in DOMAIN label : label[n].op # "&&"} = {1}
      BY <1>1, <2>1
    <3>2. {m \in 1 .. Len(label) : \A k \in 2 .. m : label[k].op = "&&"} = {1}
      BY <1>4
    <3>3. QED
      BY <2>1, <3>1, <3>2 DEF Meaning
  <2>5. QED
    BY <1>2, <2>1, <2>3, <2>4 DEF Meaning
<1>5. CASE Len(label) = 2
  <2>1. /\ label # << >> /\ Head(label) = label[1] /\ DOMAIN label = {1, 2}
        /\ 1 \in 1 .. Len(label) /\ 2 \in 1 .. Len(label)
    <3>1. DOMAIN label = 1 .. 2 /\ 1 .. 2 = {1, 2}
      BY <1>1, <1>5
    <3>2. label \in Seq(Literal)
      BY <1>1
    <3>3. Len(label) # 0
      BY <1>5
    <3>4. label # << >> /\ Head(label) = label[1]
      BY <3>2, <3>3, FirstIsHead, Zenon
    <3>5. QED
      BY <1>5, <3>1, <3>4
  <2>2. label[1].op = "none" /\ label[2].op \in {"&&", "||"}
    BY <1>1, <2>1 DEF Literal
  <2>3. /\ SubSeq(label, 1, 1) # << >> /\ Head(SubSeq(label, 1, 1)) = label[1]
        /\ SubSeq(label, 2, 2) # << >> /\ Head(SubSeq(label, 2, 2)) = label[2]
    BY <1>1, <1>5, <2>1
  <2> DEFINE A == Truth(aps, label[1])
             B == Truth(aps, label[2])
  <2>4. A \subseteq Data /\ B \subseteq Data
    BY <1>2, <2>1
  <2>5. CASE label[2].op = "&&"
    <3>1. find(label, "&&") = 2
      BY <1>1, <2>1, <2>2, <2>5, FirstWith
    <3>2. translate(aps, label) = A \cap B
      BY <1>5, <2>3, <3>1 DEF translate, translate_ap
    <3>3. {n \in DOMAIN label : label[n].op # "&&"} = {1}
      BY <2>1, <2>2, <2>5
    <3>4. {m \in 1 .. Len(label) : \A k \in 2 .. m : label[k].op = "&&"} = {1, 2}
      BY <1>5, <2>5
    <3>5. Meaning(aps, label) = {d \in Data : d \in A /\ d \in B}
      BY <2>1, <3>3, <3>4 DEF Meaning
    <3>6. QED
      BY <2>4, <3>2, <3>5
  <2>6. CASE label[2].op = "||"
    <3>1. find(label, "&&") = 0 /\ find(label, "||") = 2
      BY <1>1, <1>5, <2>1, <2>2, <2>6, FirstWith
    <3>2. translate(aps, label) = A \cup B
      BY <1>5, <2>3, <3>1 DEF translate, translate_ap
    <3>3. {n \in DOMAIN label : label[n].op # "&&"} = {1, 2}
      BY <2>1, <2>2, <2>6
    <3>4. {m \in 1 .. Len(label) : \A k \in 2 .. m : label[k].op = "&&"} = {1}
      BY <1>5, <2>6
    <3>5. {m \in 2 .. Len(label) : \A k \in 3 .. m : label[k].op = "&&"} = {2}
      BY <1>5
    <3>6. Meaning(aps, label) = {d \in Data : d \in A \/ d \in B}
      BY <2>1, <3>3, <3>4, <3>5 DEF Meaning
    <3>7. QED
      BY <2>4, <3>2, <3>6
  <2>7. QED
    BY <2>2, <2>5, <2>6
<1>6. QED
  BY <1>1, <1>3, <1>4, <1>5

-----------------------------------------------------------------------------
(* What generate_successors answers.                                       *)

(* What advance leads to is a blob. *)
LEMMA StepType ==
  ASSUME program \in Programs, ba \in Automata, NEW b \in Blob,
         NEW e \in ToSet(ba.edges), NEW edge \in program.edges
  PROVE  /\ Step(b, e, edge) \in Blob
         /\ Step(b, e, edge).expl = <<edge.dst, e.dst>>
         /\ Step(b, e, edge).sym = Post(edge, b.sym \cap translate(ba.aps, e.label))
         /\ edge \in Edge /\ edge.dst \in Location /\ e.dst \in BaState
<1>1. edge \in Edge /\ edge.dst \in Location
  BY ProgramsAssumption DEF Edge
<1>2. e \in [src : BaState, label : Seq(Literal), dst : BaState]
  <2> DEFINE T == [src : BaState, label : Seq(Literal), dst : BaState]
  <2>1. ba.edges \in Seq(T)
    BY AutomataAssumption DEF Automaton
  <2> HIDE DEF T
  <2>2. e \in T
    BY <2>1, SetOfSequence
  <2>3. QED
    BY <2>2 DEF T
<1>3. Post(edge, b.sym \cap translate(ba.aps, e.label)) \in Sym
  BY DEF Post, Sym
<1>4. <<edge.dst, e.dst>> \in Expl
  BY <1>1, <1>2, ExplAssumption
<1>5. QED
  BY <1>1, <1>2, <1>3, <1>4 DEF Step, Blob

(* advance yields a blob for every step that is enabled, in some order. *)
LEMMA YieldsAll ==
  ASSUME program \in Programs, ba \in Automata, NEW b \in Blob,
         NEW e \in ToSet(ba.edges), NEW blobs \in Yields(b, e)
  PROVE  blobs \in Seq(Blob) /\ ToSet(blobs) = Yielded(b, e)
<1> DEFINE E == Enabled(b, e)
<1>1. E \subseteq program.edges /\ IsFiniteSet(E)
  <2>1. E \in SUBSET program.edges
    BY DEF Enabled
  <2>2. IsFiniteSet(program.edges)
    BY ProgramsAssumption
  <2> HIDE DEF E
  <2>3. QED
    BY <2>1, <2>2, FS_Subset
<1>2. PICK order \in SetToSeqs(E) : blobs = [i \in DOMAIN order |-> Step(b, e, order[i])]
  BY DEF Yields
<1> HIDE DEF E
<1>3. order \in Seq(E) /\ ToSet(order) = E
  BY <1>1, OrdersHoldAll
<1>4. /\ Len(order) \in Nat /\ DOMAIN order = 1 .. Len(order)
      /\ ToSet(order) = {order[i] : i \in 1 .. Len(order)}
      /\ \A i \in 1 .. Len(order) : order[i] \in program.edges
  <2>1. Len(order) \in Nat /\ ToSet(order) = {order[i] : i \in 1 .. Len(order)}
    BY <1>3, SetOfSequence
  <2>2. DOMAIN order = 1 .. Len(order) /\ \A i \in 1 .. Len(order) : order[i] \in E
    BY <1>3
  <2>3. QED
    BY <1>1, <2>1, <2>2
<1>5. \A i \in 1 .. Len(order) : Step(b, e, order[i]) \in Blob
  BY <1>4, StepType
<1>6. blobs \in [1 .. Len(order) -> Blob] /\ \A i \in 1 .. Len(order) : blobs[i] = Step(b, e, order[i])
  BY <1>2, <1>4, <1>5
<1>7. blobs \in Seq(Blob) /\ Len(blobs) = Len(order)
  BY <1>4, <1>6, FunctionAsSequence
<1>8. ToSet(blobs) = {blobs[i] : i \in 1 .. Len(order)}
  BY <1>7, SetOfSequence
<1>9. ToSet(blobs) = {Step(b, e, edge) : edge \in E}
  BY <1>3, <1>4, <1>6, <1>8
<1>10. QED
  BY <1>7, <1>9 DEF Yielded, E

(* The elements of a sequence with one element more. *)
LEMMA SetAfterAppending ==
  ASSUME NEW T, NEW q \in Seq(T), NEW x \in T
  PROVE  ToSet(Append(q, x)) = ToSet(q) \cup {x}
<1> DEFINE p == Append(q, x)
           n == Len(q)
<1>1. /\ p \in Seq(T) /\ n \in Nat /\ Len(p) = n + 1
      /\ (\A i \in 1 .. n : p[i] = q[i]) /\ p[n + 1] = x
  BY Appending
<1>2. ToSet(q) = {q[i] : i \in 1 .. n}
  BY SetOfSequence
<1> HIDE DEF p
<1>3. ToSet(p) = {p[i] : i \in 1 .. Len(p)}
  BY <1>1, SetOfSequence
<1> HIDE DEF n
<1>4. ASSUME NEW y \in ToSet(p) PROVE y \in ToSet(q) \cup {x}
  <2>1. PICK i \in 1 .. n + 1 : y = p[i]
    BY <1>1, <1>3
  <2>2. i \in 1 .. n \/ i = n + 1
    BY <1>1
  <2>3. QED
    BY <1>1, <1>2, <2>1, <2>2
<1>5. ASSUME NEW y \in ToSet(q) PROVE y \in ToSet(p)
  <2>1. PICK i \in 1 .. n : y = q[i]
    BY <1>2
  <2>2. i \in 1 .. Len(p)
    BY <1>1
  <2>3. QED
    BY <1>1, <1>3, <2>1, <2>2
<1>6. x \in ToSet(p)
  <2>1. n + 1 \in 1 .. Len(p)
    BY <1>1
  <2>2. QED
    BY <1>1, <1>3, <2>1
<1>7. QED
  BY <1>4, <1>5, <1>6 DEF p

(* An outcome: a database whose tables agree and the identifiers answered. *)
OutcomeOK(o) ==
  /\ DatabaseOK(o.db)
  /\ o.ids \in Seq(DOMAIN o.db.id2item)
  /\ o.missed \in Nat

(* p comes from o by the insertion of the blobs B: what was stored is still
   there, every blob is covered by an identifier of the answer, and what was
   added to the answer covers a blob. *)
Grown(o, p, B) ==
  /\ OutcomeOK(p)
  /\ \A id \in DOMAIN o.db.id2item :
       id \in DOMAIN p.db.id2item /\ GetState(p.db, id) = GetState(o.db, id)
  /\ ToSet(o.ids) \subseteq ToSet(p.ids)
  /\ \A b \in B : \E id \in ToSet(p.ids) : Concrete(b) \subseteq Concrete(GetState(p.db, id))
  /\ \A id \in ToSet(p.ids) \ ToSet(o.ids) :
       \E b \in B : Concrete(b) \subseteq Concrete(GetState(p.db, id))

(* To store nothing. *)
LEMMA GrownNothing ==
  ASSUME NEW o, OutcomeOK(o)
  PROVE  Grown(o, o, {})
  BY DEF Grown

(* To store B, and C after it. *)
LEMMA GrownTwice ==
  ASSUME NEW o, OutcomeOK(o), NEW p, NEW q, NEW B, NEW C, Grown(o, p, B), Grown(p, q, C)
  PROVE  Grown(o, q, B \cup C)
<1>1. \A id \in ToSet(o.ids) : id \in DOMAIN o.db.id2item
  BY SetOfSequence DEF OutcomeOK
<1>2. \A id \in ToSet(p.ids) : id \in DOMAIN p.db.id2item
  BY SetOfSequence DEF OutcomeOK, Grown
<1>3. \A id \in ToSet(p.ids) : id \in ToSet(q.ids) /\ GetState(q.db, id) = GetState(p.db, id)
  BY <1>2 DEF Grown
<1>4. \A id \in DOMAIN o.db.id2item :
        id \in DOMAIN q.db.id2item /\ GetState(q.db, id) = GetState(o.db, id)
  BY DEF Grown
<1>5. ASSUME NEW b \in B \cup C
      PROVE  \E id \in ToSet(q.ids) : Concrete(b) \subseteq Concrete(GetState(q.db, id))
  <2>1. CASE b \in B
    <3>1. PICK id \in ToSet(p.ids) : Concrete(b) \subseteq Concrete(GetState(p.db, id))
      BY <2>1 DEF Grown
    <3>2. QED
      BY <1>3, <3>1
  <2>2. CASE b \in C
    BY <2>2 DEF Grown
  <2>3. QED
    BY <2>1, <2>2
<1>6. ASSUME NEW id \in ToSet(q.ids) \ ToSet(o.ids)
      PROVE  \E b \in B \cup C : Concrete(b) \subseteq Concrete(GetState(q.db, id))
  <2>1. CASE id \in ToSet(p.ids)
    <3>1. PICK b \in B : Concrete(b) \subseteq Concrete(GetState(p.db, id))
      BY <2>1 DEF Grown
    <3>2. QED
      BY <1>3, <2>1, <3>1
  <2>2. CASE id \notin ToSet(p.ids)
    BY <2>2 DEF Grown
  <2>3. QED
    BY <2>1, <2>2
<1>7. OutcomeOK(q) /\ ToSet(o.ids) \subseteq ToSet(q.ids)
  BY DEF Grown
<1>8. QED
  BY <1>4, <1>5, <1>6, <1>7 DEF Grown

(* insertCheck on one blob *)
After(o, b) ==
  {[db |-> r.db, ids |-> Append(o.ids, r.id), missed |-> o.missed + r.missed] : r \in InsertCheck(o.db, b)}

(* To store one blob. *)
LEMMA GrownOnce ==
  ASSUME HitPolicy # "partial", NEW o, OutcomeOK(o), NEW b \in Blob, NEW p \in After(o, b)
  PROVE  Grown(o, p, {b})
<1>1. DatabaseOK(o.db) /\ o.ids \in Seq(DOMAIN o.db.id2item) /\ o.missed \in Nat
  BY DEF OutcomeOK
<1>2. PICK r \in InsertCheck(o.db, b) :
        p = [db |-> r.db, ids |-> Append(o.ids, r.id), missed |-> o.missed + r.missed]
  BY DEF After
<1>3. p.db = r.db /\ p.ids = Append(o.ids, r.id) /\ p.missed = o.missed + r.missed
  BY <1>2
<1>4. /\ DatabaseOK(r.db) /\ r.id \in DOMAIN r.db.id2item /\ r.missed \in Nat
      /\ r.fresh \in BOOLEAN
      /\ r.fresh => Extends(r.db, o.db, r.id, b)
      /\ ~ r.fresh => r.db = o.db
      /\ Concrete(b) \subseteq Concrete(GetState(r.db, r.id))
  BY <1>1, InsertCheckCorrect
<1>5. \A id \in DOMAIN o.db.id2item :
        id \in DOMAIN p.db.id2item /\ GetState(p.db, id) = GetState(o.db, id)
  BY <1>3, <1>4 DEF Extends
<1>6. o.ids \in Seq(DOMAIN p.db.id2item)
  <2>1. DOMAIN o.db.id2item \subseteq DOMAIN p.db.id2item
    BY <1>5
  <2>2. QED
    BY <1>1, <2>1
<1>7. p.ids \in Seq(DOMAIN p.db.id2item) /\ ToSet(p.ids) = ToSet(o.ids) \cup {r.id}
  <2> DEFINE T == DOMAIN p.db.id2item
  <2> HIDE DEF T
  <2>1. o.ids \in Seq(T) /\ r.id \in T
    BY <1>3, <1>4, <1>6 DEF T
  <2>2. /\ p.ids \in Seq(T) /\ Len(o.ids) \in Nat /\ Len(p.ids) = Len(o.ids) + 1
        /\ \A i \in 1 .. Len(o.ids) : p.ids[i] = o.ids[i]
        /\ p.ids[Len(o.ids) + 1] = r.id
    BY <1>3, <2>1, Appending
  <2>3. ToSet(p.ids) = ToSet(o.ids) \cup {r.id}
    BY <1>3, <2>1, SetAfterAppending
  <2>4. QED
    BY <2>2, <2>3 DEF T
<1>8. OutcomeOK(p)
  BY <1>1, <1>3, <1>4, <1>7 DEF OutcomeOK
<1>9. QED
  BY <1>3, <1>4, <1>5, <1>7, <1>8 DEF Grown

(* f tells the possible outcomes after each of the first m blobs. *)
Inserted(o, blobs, m, f) ==
  /\ f = [k \in 0 .. m |-> f[k]]
  /\ f[0] = {o}
  /\ \A k \in 1 .. m : f[k] = UNION {After(p, blobs[k]) : p \in f[k - 1]}

(* The outcomes after each of the blobs, as a recursive function tells them. *)
LEMMA InsertedExists ==
  ASSUME NEW o, NEW blobs \in Seq(Blob)
  PROVE  \E f : Inserted(o, blobs, Len(blobs), f)
<1> DEFINE n == Len(blobs)
           S == {m \in Nat : m <= n => \E f : Inserted(o, blobs, m, f)}
<1>1. n \in Nat
  OBVIOUS
<1>2. 0 \in S
  <2>1. Inserted(o, blobs, 0, [k \in 0 .. 0 |-> {o}])
    BY DEF Inserted
  <2>2. QED
    BY <2>1
<1>3. ASSUME NEW m \in Nat, m \in S PROVE m + 1 \in S
  <2>1. ASSUME m + 1 <= n PROVE \E f : Inserted(o, blobs, m + 1, f)
    <3>1. m <= n
      BY <1>1, <2>1
    <3>2. PICK f : Inserted(o, blobs, m, f)
      BY <1>3, <3>1
    <3> DEFINE next == UNION {After(p, blobs[m + 1]) : p \in f[m]}
               g == [k \in 0 .. m + 1 |-> IF k = m + 1 THEN next ELSE f[k]]
    <3>3. g = [k \in 0 .. m + 1 |-> g[k]] /\ g[m + 1] = next /\ \A k \in 0 .. m : g[k] = f[k]
      OBVIOUS
    <3> HIDE DEF g
    <3>4. ASSUME NEW k \in 1 .. m + 1 PROVE g[k] = UNION {After(p, blobs[k]) : p \in g[k - 1]}
      <4>0. k - 1 \in 0 .. m /\ (k # m + 1 => k \in 1 .. m /\ k \in 0 .. m) /\ m + 1 - 1 = m
        OBVIOUS
      <4>1. g[k - 1] = f[k - 1]
        BY <3>3, <4>0
      <4>2. CASE k = m + 1
        <5>1. k - 1 = m
          BY <4>2
        <5>2. g[k - 1] = f[m] /\ g[k] = next
          BY <3>3, <4>1, <4>2, <5>1
        <5>3. QED
          BY <4>2, <5>2
      <4>3. CASE k # m + 1
        <5>1. k \in 1 .. m /\ g[k] = f[k]
          BY <3>3, <4>0, <4>3
        <5>2. QED
          BY <3>2, <4>1, <5>1 DEF Inserted
      <4>4. QED
        BY <4>2, <4>3
    <3>5. g[0] = {o}
      <4>1. 0 \in 0 .. m
        OBVIOUS
      <4>2. QED
        BY <3>2, <3>3, <4>1 DEF Inserted
    <3>6. QED
      BY <3>3, <3>4, <3>5 DEF Inserted
  <2>2. QED
    BY <2>1
<1> HIDE DEF S
<1>4. Nat \subseteq S
  BY <1>2, <1>3, NumberInduction
<1>5. QED
  BY <1>1, <1>4 DEF S

(* Inserting blobs one by one: each outcome holds a cover of each of them. *)
LEMMA GrownByEach ==
  ASSUME HitPolicy # "partial", NEW o, OutcomeOK(o), NEW blobs \in Seq(Blob),
         NEW p \in InsertEach(o, blobs)
  PROVE  Grown(o, p, ToSet(blobs))
<1> DEFINE n == Len(blobs)
           F(f) == [k \in 0 .. n |-> IF k = 0 THEN {o}
                                     ELSE UNION {After(q, blobs[k]) : q \in f[k - 1]}]
<1>1. n \in Nat /\ \A i \in 1 .. n : blobs[i] \in Blob
  OBVIOUS
<1>2. PICK f : Inserted(o, blobs, n, f)
  BY InsertedExists
<1>3. f = F(f)
  <2>1. f = [k \in 0 .. n |-> f[k]]
    BY <1>2 DEF Inserted
  <2>2. \A k \in 0 .. n : f[k] = IF k = 0 THEN {o} ELSE UNION {After(q, blobs[k]) : q \in f[k - 1]}
    BY <1>1, <1>2 DEF Inserted
  <2>3. QED
    BY <2>1, <2>2
<1> DEFINE e == CHOOSE g : g = F(g)
<1>4. InsertEach(o, blobs) = e[n]
  BY DEF InsertEach, After
<1>5. e = F(e)
  BY <1>3
<1> HIDE DEF e
<1>6. e[0] = {o} /\ \A k \in 1 .. n : e[k] = UNION {After(q, blobs[k]) : q \in e[k - 1]}
  <2>1. 0 \in 0 .. n /\ \A k \in 1 .. n : k \in 0 .. n /\ k # 0
    BY <1>1
  <2>2. \A k \in 0 .. n : F(e)[k] = IF k = 0 THEN {o} ELSE UNION {After(q, blobs[k]) : q \in e[k - 1]}
    OBVIOUS
  <2>3. \A k \in 0 .. n : e[k] = IF k = 0 THEN {o} ELSE UNION {After(q, blobs[k]) : q \in e[k - 1]}
    BY <1>5, <2>2
  <2>4. e[0] = {o}
    BY <2>1, <2>3
  <2>5. \A k \in 1 .. n : e[k] = UNION {After(q, blobs[k]) : q \in e[k - 1]}
    BY <2>1, <2>3
  <2>6. QED
    BY <2>4, <2>5
<1> HIDE DEF F
<1> DEFINE Before(k) == {blobs[i] : i \in 1 .. k}
           S == {k \in Nat : k <= n => \A q \in e[k] : Grown(o, q, Before(k))}
<1>7. 0 \in S
  <2>1. Before(0) = {}
    OBVIOUS
  <2>2. QED
    BY <1>6, <2>1, GrownNothing
<1>8. ASSUME NEW k \in Nat, k \in S PROVE k + 1 \in S
  <2>1. ASSUME k + 1 <= n, NEW q \in e[k + 1] PROVE Grown(o, q, Before(k + 1))
    <3>1. k + 1 \in 1 .. n /\ (k + 1) - 1 = k /\ k <= n /\ blobs[k + 1] \in Blob
      BY <1>1, <2>1
    <3>2. PICK r \in e[k] : q \in After(r, blobs[k + 1])
      BY <1>6, <2>1, <3>1
    <3>3. Grown(o, r, Before(k))
      BY <1>8, <3>1
    <3>4. OutcomeOK(r)
      BY <3>3 DEF Grown
    <3>5. Grown(r, q, {blobs[k + 1]})
      BY <3>1, <3>2, <3>4, GrownOnce
    <3>6. Before(k + 1) = Before(k) \cup {blobs[k + 1]}
      BY <3>1
    <3> HIDE DEF Before
    <3>7. QED
      BY <3>3, <3>5, <3>6, GrownTwice
  <2>2. QED
    BY <2>1
<1> HIDE DEF S
<1>9. Nat \subseteq S
  BY <1>7, <1>8, NumberInduction
<1>10. Grown(o, p, Before(n))
  BY <1>1, <1>4, <1>9 DEF S
<1>11. Before(n) = ToSet(blobs)
  BY SetOfSequence
<1>12. QED
  BY <1>10, <1>11

(* the possible outcomes of advance for one edge of the automaton *)
Along(o, b, e) == UNION {InsertEach(o, blobs) : blobs \in Yields(b, e)}

(* f tells the possible outcomes after each of the first m edges. *)
Followed(o, b, edges, m, f) ==
  /\ f = [k \in 0 .. m |-> f[k]]
  /\ f[0] = {o}
  /\ \A k \in 1 .. m : f[k] = UNION {Along(p, b, edges[k]) : p \in f[k - 1]}

(* There is one such function. *)
LEMMA FollowedExists ==
  ASSUME NEW o, NEW b, NEW edges, NEW n \in Nat
  PROVE  \E f : Followed(o, b, edges, n, f)
<1> DEFINE S == {m \in Nat : m <= n => \E f : Followed(o, b, edges, m, f)}
<1>2. 0 \in S
  <2>1. Followed(o, b, edges, 0, [k \in 0 .. 0 |-> {o}])
    BY DEF Followed
  <2>2. QED
    BY <2>1
<1>3. ASSUME NEW m \in Nat, m \in S PROVE m + 1 \in S
  <2>1. ASSUME m + 1 <= n PROVE \E f : Followed(o, b, edges, m + 1, f)
    <3>1. m <= n
      BY <2>1
    <3>2. PICK f : Followed(o, b, edges, m, f)
      BY <1>3, <3>1
    <3> DEFINE next == UNION {Along(p, b, edges[m + 1]) : p \in f[m]}
               g == [k \in 0 .. m + 1 |-> IF k = m + 1 THEN next ELSE f[k]]
    <3>3. g = [k \in 0 .. m + 1 |-> g[k]] /\ g[m + 1] = next /\ \A k \in 0 .. m : g[k] = f[k]
      OBVIOUS
    <3> HIDE DEF g
    <3>4. ASSUME NEW k \in 1 .. m + 1 PROVE g[k] = UNION {Along(p, b, edges[k]) : p \in g[k - 1]}
      <4>0. k - 1 \in 0 .. m /\ (k # m + 1 => k \in 1 .. m /\ k \in 0 .. m) /\ m + 1 - 1 = m
        OBVIOUS
      <4>1. g[k - 1] = f[k - 1]
        BY <3>3, <4>0
      <4>2. CASE k = m + 1
        <5>1. k - 1 = m
          BY <4>2
        <5>2. g[k - 1] = f[m] /\ g[k] = next
          BY <3>3, <4>1, <4>2, <5>1
        <5>3. QED
          BY <4>2, <5>2
      <4>3. CASE k # m + 1
        <5>1. k \in 1 .. m /\ g[k] = f[k]
          BY <3>3, <4>0, <4>3
        <5>2. QED
          BY <3>2, <4>1, <5>1 DEF Followed
      <4>4. QED
        BY <4>2, <4>3
    <3>5. g[0] = {o}
      <4>1. 0 \in 0 .. m
        OBVIOUS
      <4>2. QED
        BY <3>2, <3>3, <4>1 DEF Followed
    <3>6. QED
      BY <3>3, <3>4, <3>5 DEF Followed
  <2>2. QED
    BY <2>1
<1> HIDE DEF S
<1>4. Nat \subseteq S
  BY <1>2, <1>3, NumberInduction
<1>5. QED
  BY <1>4 DEF S

(* everything advance yields for a blob *)
AllYielded(b) == UNION {Yielded(b, e) : e \in ToSet(ba.edges)}

(* before generate_successors stores anything *)
Nothing(db) == [db |-> db, ids |-> << >>, missed |-> 0]

(* The outcome that generate_successors begins with. *)
LEMMA NothingOK ==
  ASSUME NEW db, DatabaseOK(db)
  PROVE  /\ OutcomeOK(Nothing(db)) /\ Nothing(db).db = db
         /\ Nothing(db).ids = << >> /\ ToSet(Nothing(db).ids) = {}
<1>1. Nothing(db).db = db /\ Nothing(db).ids = << >> /\ Nothing(db).missed = 0
  BY DEF Nothing
<1>2. << >> \in Seq(DOMAIN db.id2item)
  OBVIOUS
<1>3. ToSet(<< >>) = {}
  BY <1>2, SetOfSequence
<1>4. QED
  BY <1>1, <1>2, <1>3 DEF OutcomeOK

(* generate_successors answers a cover of everything advance yields, and
   nothing but covers of it. *)
LEMMA GrownBySuccessors ==
  ASSUME HitPolicy # "partial", program \in Programs, ba \in Automata, DatabaseOK(knowns),
         NEW v, GetState(knowns, v) \in Blob, NEW p \in GenerateSuccessors(v)
  PROVE  Grown(Nothing(knowns), p, AllYielded(GetState(knowns, v)))
<1> DEFINE b == GetState(knowns, v)
           o == Nothing(knowns)
           edges == ba.edges
           n == Len(edges)
           F(f) == [k \in 0 .. n |-> IF k = 0 THEN {o}
                                     ELSE UNION {Along(q, b, edges[k]) : q \in f[k - 1]}]
<1>0. GenerateSuccessors(v) = (CHOOSE g : g = F(g))[n]
  BY DEF GenerateSuccessors, Along, Nothing
<1> HIDE DEF b, o
<1>1. /\ n \in Nat /\ ToSet(edges) = {edges[k] : k \in 1 .. n}
      /\ b \in Blob /\ OutcomeOK(o)
  <2> DEFINE T == [src : BaState, label : Seq(Literal), dst : BaState]
  <2>1. edges \in Seq(T)
    BY AutomataAssumption DEF Automaton
  <2> HIDE DEF T
  <2>2. n \in Nat /\ ToSet(edges) = {edges[k] : k \in 1 .. n}
    BY <2>1, SetOfSequence
  <2>3. QED
    BY <2>2, NothingOK DEF b, o
<1> HIDE DEF edges
<1>2. PICK f : Followed(o, b, edges, n, f)
  BY <1>1, FollowedExists
<1>3. f = F(f)
  <2>1. f = [k \in 0 .. n |-> f[k]]
    BY <1>2 DEF Followed
  <2>2. \A k \in 0 .. n : k = 0 \/ k \in 1 .. n
    BY <1>1
  <2>3. \A k \in 0 .. n : f[k] = IF k = 0 THEN {o} ELSE UNION {Along(q, b, edges[k]) : q \in f[k - 1]}
    BY <1>2, <2>2 DEF Followed
  <2>4. QED
    BY <2>1, <2>3
<1> DEFINE e == CHOOSE g : g = F(g)
<1>4. p \in e[n]
  BY <1>0
<1>5. e = F(e)
  BY <1>3
<1> HIDE DEF e
<1>6. e[0] = {o} /\ \A k \in 1 .. n : e[k] = UNION {Along(q, b, edges[k]) : q \in e[k - 1]}
  <2>1. 0 \in 0 .. n /\ \A k \in 1 .. n : k \in 0 .. n /\ k # 0
    BY <1>1
  <2>2. \A k \in 0 .. n : F(e)[k] = IF k = 0 THEN {o} ELSE UNION {Along(q, b, edges[k]) : q \in e[k - 1]}
    OBVIOUS
  <2>3. \A k \in 0 .. n : e[k] = IF k = 0 THEN {o} ELSE UNION {Along(q, b, edges[k]) : q \in e[k - 1]}
    BY <1>5, <2>2
  <2>4. e[0] = {o}
    BY <2>1, <2>3
  <2>5. \A k \in 1 .. n : e[k] = UNION {Along(q, b, edges[k]) : q \in e[k - 1]}
    BY <2>1, <2>3
  <2>6. QED
    BY <2>4, <2>5
<1> HIDE DEF F
<1> DEFINE Before(k) == UNION {Yielded(b, edges[i]) : i \in 1 .. k}
           S == {k \in Nat : k <= n => \A q \in e[k] : Grown(o, q, Before(k))}
<1>7. 0 \in S
  <2>1. Before(0) = {}
    OBVIOUS
  <2>2. Grown(o, o, Before(0))
    BY <1>1, <2>1, GrownNothing
  <2> HIDE DEF Before
  <2>3. \A q \in e[0] : Grown(o, q, Before(0))
    BY <1>6, <2>2
  <2>4. QED
    BY <2>3
<1>8. ASSUME NEW k \in Nat, k \in S PROVE k + 1 \in S
  <2>1. ASSUME k + 1 <= n, NEW q \in e[k + 1] PROVE Grown(o, q, Before(k + 1))
    <3>1. k + 1 \in 1 .. n /\ (k + 1) - 1 = k /\ k <= n
      BY <1>1, <2>1
    <3>2. PICK r \in e[k] : q \in Along(r, b, edges[k + 1])
      BY <1>6, <2>1, <3>1
    <3>3. PICK blobs \in Yields(b, edges[k + 1]) : q \in InsertEach(r, blobs)
      BY <3>2 DEF Along
    <3>4. edges[k + 1] \in ToSet(edges)
      BY <1>1, <3>1
    <3>5. blobs \in Seq(Blob) /\ ToSet(blobs) = Yielded(b, edges[k + 1])
      BY <1>1, <3>4, YieldsAll DEF edges
    <3>6. Grown(o, r, Before(k))
      BY <1>8, <3>1
    <3>7. OutcomeOK(r)
      BY <3>6 DEF Grown
    <3>8. Grown(r, q, Yielded(b, edges[k + 1]))
      BY <3>3, <3>5, <3>7, GrownByEach
    <3>9. Before(k + 1) = Before(k) \cup Yielded(b, edges[k + 1])
      <4>1. 1 .. k + 1 = (1 .. k) \cup {k + 1}
        OBVIOUS
      <4>2. QED
        BY <4>1
    <3> HIDE DEF Before
    <3>10. QED
      BY <1>1, <3>6, <3>8, <3>9, GrownTwice
  <2>2. QED
    BY <2>1
<1> HIDE DEF S
<1>9. Nat \subseteq S
  BY <1>7, <1>8, NumberInduction
<1>10. Grown(o, p, Before(n))
  BY <1>1, <1>4, <1>9 DEF S
<1>11. Before(n) = AllYielded(b)
  BY <1>1 DEF AllYielded, edges
<1>12. QED
  BY <1>10, <1>11 DEF o, b

-----------------------------------------------------------------------------
(* The search.                                                             *)

(* What is proved of the nested search, for the product's graph. *)
D == INSTANCE NestedDfsProofs WITH Vertex <- StateId, Answers <- Seq(StateId)

(* The assumption on the modes is that of the search. *)
LEMMA ModesOfSearch ==
  Modes \subseteq ([depth_bounded : BOOLEAN, max_depth : {D!Unlimited}]
                   \cup [depth_bounded : {TRUE}, max_depth : Nat])
  BY ModesAssumption DEF D!Unlimited

(* What is invariant in the search, from its theorems. *)
LEMMA SearchBegins == D!Init => D!IInv
  BY D!InitKeeps, InitialBoundAssumption, ModesOfSearch

LEMMA SearchGoesOn == D!IInv /\ [D!Next]_(D!vars) => D!IInv'
  BY D!StepKeeps, InitialBoundAssumption, ModesOfSearch

(* The search of Ltl is that of the proofs. *)
LEMMA SameSearch ==
  /\ Dfs!vars = D!vars
  /\ Dfs!Fresh(0) = D!Fresh(0)
  /\ \A v, c : Dfs!InHand(v, c) <=> D!InHand(v, c)
  /\ \A v, s, a : Dfs!Enter(v, s, a) <=> D!Enter(v, s, a)
<1>1. Dfs!vars = D!vars
  BY DEF Dfs!vars, D!vars
<1>2. \A d : Dfs!Fresh(d) = D!Fresh(d)
  BY DEF Dfs!Fresh, D!Fresh
<1>3. ASSUME NEW v, NEW c PROVE Dfs!InHand(v, c) <=> D!InHand(v, c)
  BY DEF Dfs!InHand, D!InHand, Dfs!Searching, D!Searching, Dfs!TooDeep, D!TooDeep,
         Dfs!Top, D!Top, Dfs!Current, D!Current, Dfs!Last, D!Last
<1>4. ASSUME NEW v, NEW s, NEW a PROVE Dfs!Enter(v, s, a) <=> D!Enter(v, s, a)
  BY <1>3 DEF Dfs!Enter, D!Enter, Dfs!AddSuccessors, D!AddSuccessors, Dfs!Fresh, D!Fresh,
         Dfs!UnchangedByOuter, D!UnchangedByOuter, Dfs!ToSet, D!ToSet
<1>5. QED
  BY <1>1, <1>2, <1>3, <1>4

(* So are its steps that only walk through the graph. *)
LEMMA SameWalk == Dfs!Walk => D!Walk
<1> USE DEF Dfs!Searching, D!Searching, Dfs!InnerSearching, D!InnerSearching, Dfs!Top, D!Top,
            Dfs!Current, D!Current, Dfs!PopBack, D!PopBack, Dfs!UnchangedByOuter, D!UnchangedByOuter,
            Dfs!UnchangedByInner, D!UnchangedByInner,
            Dfs!Last, D!Last, Dfs!Front, D!Front, Dfs!ToSet, D!ToSet
<1>1. Dfs!Retreat => D!Retreat
  BY DEF Dfs!Retreat, D!Retreat, Dfs!Unlimited, D!Unlimited, Dfs!Reset, D!Reset
<1>2. Dfs!CutOff => D!CutOff
  BY DEF Dfs!CutOff, D!CutOff, Dfs!TooDeep, D!TooDeep
<1>3. Dfs!InnerRetreat => D!InnerRetreat
  BY DEF Dfs!InnerRetreat, D!InnerRetreat
<1>4. Dfs!InnerReturn => D!InnerReturn
  BY DEF Dfs!InnerReturn, D!InnerReturn
<1>5. Dfs!Finish => D!Finish
  BY DEF Dfs!Finish, D!Finish
<1>6. ASSUME NEW v PROVE Dfs!Backtrack(v) => D!Backtrack(v)
  BY SameSearch DEF Dfs!Backtrack, D!Backtrack
<1>7. ASSUME NEW v PROVE Dfs!Skip(v) => D!Skip(v)
  BY SameSearch DEF Dfs!Skip, D!Skip
<1>8. ASSUME NEW v, NEW c PROVE Dfs!InnerInHand(v, c) => D!InnerInHand(v, c)
  BY DEF Dfs!InnerInHand, D!InnerInHand
<1>9. ASSUME NEW v PROVE Dfs!InnerEnter(v) => D!InnerEnter(v)
  BY <1>8 DEF Dfs!InnerEnter, D!InnerEnter
<1>10. ASSUME NEW v PROVE Dfs!InnerLeave(v) => D!InnerLeave(v)
  BY <1>8 DEF Dfs!InnerLeave, D!InnerLeave
<1>11. ASSUME NEW v PROVE Dfs!InnerSkip(v) => D!InnerSkip(v)
  BY <1>8 DEF Dfs!InnerSkip, D!InnerSkip
<1>12. QED
  BY <1>1, <1>2, <1>3, <1>4, <1>5, <1>6, <1>7, <1>9, <1>10, <1>11 DEF Dfs!Walk, D!Walk

(* What ProductStored says does not depend on the colours. *)
LEMMA SameEdgesKeepProduct ==
  ASSUME ProductStored, D!IInv, UNCHANGED <<program, ba, knowns, start_vertex, accepting, generated>>,
         DOMAIN graph' = DOMAIN graph,
         \A w \in DOMAIN graph : graph'[w].neighbors = graph[w].neighbors
  PROVE  ProductStored'
<1>1. /\ DOMAIN graph' = DOMAIN graph
      /\ \A w \in DOMAIN graph : graph'[w].neighbors = graph[w].neighbors
      /\ UNCHANGED <<program, ba, knowns, start_vertex, accepting, generated>>
  OBVIOUS
<1>2. generated \subseteq DOMAIN graph
  BY DEF D!IInv, D!TypeOK
<1>3. \A v \in generated : graph'[v].neighbors = graph[v].neighbors
  BY <1>1, <1>2
<1>4. ASSUME NEW v \in generated, NEW e \in ToSet(ba.edges) PROVE NeighborsCover(v, e)'
  <2>1. Yielded(GetState(knowns, v), e)' = Yielded(GetState(knowns, v), e)
    BY <1>1 DEF Yielded, Enabled, Step, UserPart
  <2>2. NeighborsCover(v, e)
    BY DEF ProductStored
  <2>3. QED
    BY <1>1, <1>3, <2>1, <2>2 DEF NeighborsCover
<1>5. \A v \in generated : \A w \in ToSet(graph'[v].neighbors) : GetState(knowns, w).sym # {}
  BY <1>3 DEF ProductStored
<1>6. QED
  BY <1>1, <1>4, <1>5 DEF ProductStored, IsAccepting

(* Every step but the entering of a vertex only colours the graph. *)
LEMMA WalkColors ==
  ASSUME D!IInv, D!Walk
  PROVE  D!OnlyColors
<1>1. D!TypeOK
  BY DEF D!IInv
<1>2. \A c \in {"WHITE", "GRAY", "BLACK"} : c \in D!Color
  BY DEF D!Color
<1>3. CASE D!Retreat
  <2>1. graph' = D!Reset(graph) \/ graph' = graph
    BY <1>3 DEF D!Retreat
  <2>2. UNCHANGED <<start_vertex, accepting, generated>>
    BY <1>3 DEF D!Retreat, D!UnchangedByOuter
  <2>3. QED
    BY <1>1, <2>1, <2>2, D!AllReset, D!SameGraph, InitialBoundAssumption, ModesOfSearch
<1>4. ASSUME D!CutOff \/ D!InnerRetreat \/ D!InnerReturn \/ D!Finish
             \/ \E v \in DOMAIN graph : D!Skip(v) \/ D!InnerSkip(v)
      PROVE  D!OnlyColors
  <2>1. UNCHANGED <<graph, start_vertex, accepting, generated>>
    BY <1>4 DEF D!CutOff, D!InnerRetreat, D!InnerReturn, D!Finish, D!Skip, D!InnerSkip,
                D!UnchangedByOuter, D!UnchangedByInner
  <2>2. QED
    BY <1>1, <2>1, D!SameGraph, InitialBoundAssumption, ModesOfSearch
<1>5. ASSUME NEW v \in DOMAIN graph, D!Backtrack(v) PROVE D!OnlyColors
  <2>1. graph' = [graph EXCEPT ![v].outer = "BLACK"] /\ UNCHANGED <<start_vertex, accepting, generated>>
    BY <1>5 DEF D!Backtrack
  <2>2. "BLACK" \in D!Color
    BY <1>2
  <2>3. QED
    BY <1>1, <2>1, <2>2, D!OuterColored, InitialBoundAssumption, ModesOfSearch
<1>6. ASSUME NEW v \in DOMAIN graph, D!InnerEnter(v) \/ D!InnerLeave(v) PROVE D!OnlyColors
  <2>1. PICK c \in D!Color : graph' = [graph EXCEPT ![v].inner = c]
    BY <1>2, <1>6 DEF D!InnerEnter, D!InnerLeave
  <2>2. UNCHANGED <<start_vertex, accepting, generated>>
    BY <1>6 DEF D!InnerEnter, D!InnerLeave, D!UnchangedByInner
  <2>3. QED
    BY <1>1, <2>1, <2>2, D!InnerColored, InitialBoundAssumption, ModesOfSearch
<1>7. QED
  BY <1>3, <1>4, <1>5, <1>6 DEF D!Walk

(* The operators on sequences of the search are those used here. *)
LEMMA SameSets ==
  /\ \A s : D!ToSet(s) = ToSet(s)
  /\ \A v : D!Neighbors(v) = ToSet(graph[v].neighbors)
  BY DEF D!ToSet, ToSet, D!Neighbors

(* The first state: the program's and the automaton's initial ones. *)
LEMMA FirstStored ==
  ASSUME Init
  PROVE  D!Init /\ ProductStored
<1> DEFINE b == InitialBlob(program, ba)
           id == NewId(EmptyDatabase, b)
<1>1. program \in Programs /\ ba \in Automata
  BY DEF Init
<1>2. b \in Blob
  <2>1. program.init.expl \in Location /\ program.init.sym \in Sym
    BY <1>1, ProgramsAssumption
  <2>2. ba.start \in BaState
    BY <1>1, AutomataAssumption DEF Automaton
  <2>3. <<program.init.expl, ba.start>> \in Expl
    BY <2>1, <2>2, ExplAssumption
  <2>4. QED
    BY <2>1, <2>3 DEF InitialBlob, Blob
<1>3. /\ knowns = Insert(EmptyDatabase, b) /\ start_vertex = id
      /\ accepting = {v \in {start_vertex} : IsAccepting(knowns, v)}
      /\ graph = [v \in {start_vertex} |-> Dfs!Fresh(0)]
      /\ generated = {}
  BY DEF Init
<1> HIDE DEF b
<1>4. DatabaseOK(knowns) /\ Extends(knowns, EmptyDatabase, id, b) /\ id \in StateId
  BY <1>2, <1>3, EmptyDatabaseOK, InsertCorrect
<1> HIDE DEF id
<1>5. DOMAIN graph = {start_vertex} /\ DOMAIN knowns.id2item = {start_vertex} /\ GetState(knowns, start_vertex) = b
  BY <1>3, <1>4, EmptyDatabaseOK DEF Extends
<1>6. IsFiniteSet(generated)
  BY <1>3, FS_EmptySet
<1>7. ProductStored
  BY <1>1, <1>3, <1>4, <1>5, <1>6 DEF ProductStored, b
<1>8. D!Init
  <2>1. graph = [v \in {start_vertex} |-> D!Fresh(0)] /\ start_vertex \in StateId
    BY <1>3, <1>4, SameSearch
  <2>2. accepting \in SUBSET {start_vertex}
    BY <1>3
  <2>3. QED
    BY <2>1, <2>2 DEF Init, D!Init
<1>9. QED
  BY <1>7, <1>8

(* A vertex without neighbours was given none because advance yields nothing
   for it. *)
LEMMA YieldsNothing ==
  ASSUME ProductStored, NEW v \in generated, graph[v].neighbors = << >>
  PROVE  AllYielded(GetState(knowns, v)) = {}
<1>1. ToSet(graph[v].neighbors) = {}
  <2>1. << >> \in Seq(StateId)
    OBVIOUS
  <2>2. ToSet(<< >>) = {}
    BY <2>1, SetOfSequence
  <2>3. QED
    BY <2>2
<1>2. \A e \in ToSet(ba.edges) : NeighborsCover(v, e)
  BY DEF ProductStored
<1>3. \A e \in ToSet(ba.edges) : Yielded(GetState(knowns, v), e) = {}
  BY <1>1, <1>2 DEF NeighborsCover
<1>4. QED
  BY <1>3 DEF AllYielded

(* What advance yields is not empty. *)
LEMMA YieldedFilled ==
  ASSUME NEW b, NEW c \in AllYielded(b)
  PROVE  c.sym # {} /\ Concrete(c) # {}
<1>1. c.sym # {}
  BY DEF AllYielded, Yielded, Enabled
<1>2. PICK d \in c.sym : TRUE
  BY <1>1
<1>3. <<c.expl, d>> \in Concrete(c)
  BY DEF Concrete
<1>4. QED
  BY <1>1, <1>3

(* The entering of a vertex whose successors are asked for. *)
LEMMA GenerateKeeps ==
  ASSUME HitPolicy # "partial", ProductStored, D!IInv, EnterGenerate
  PROVE  D!Next /\ ProductStored'
<1>1. PICK v \in DOMAIN graph :
        /\ Dfs!InHand(v, "WHITE")
        /\ graph[v].neighbors = << >>
        /\ \E o \in GenerateSuccessors(v) :
             /\ knowns' = o.db
             /\ Dfs!Enter(v, o.ids, {w \in ToSet(o.ids) \ DOMAIN graph : IsAccepting(o.db, w)})
  BY DEF EnterGenerate
<1>2. PICK o \in GenerateSuccessors(v) :
        /\ knowns' = o.db
        /\ Dfs!Enter(v, o.ids, {w \in ToSet(o.ids) \ DOMAIN graph : IsAccepting(o.db, w)})
  BY <1>1
<1>3. program' = program /\ ba' = ba
  BY DEF EnterGenerate
<1> DEFINE acc == {w \in ToSet(o.ids) \ DOMAIN graph : IsAccepting(o.db, w)}
           b == GetState(knowns, v)
           none == Nothing(knowns)
<1>4. /\ program \in Programs /\ ba \in Automata /\ DatabaseOK(knowns)
      /\ DOMAIN graph \subseteq DOMAIN knowns.id2item
      /\ v \in DOMAIN knowns.id2item /\ b \in Blob
  <2>1. DatabaseOK(knowns) /\ v \in DOMAIN knowns.id2item
    BY DEF ProductStored
  <2>2. QED
    BY <2>1, GetStateType DEF ProductStored
<1>5. /\ D!TypeOK /\ D!GraphIsReached /\ start_vertex \in DOMAIN graph /\ generated \subseteq DOMAIN graph
      /\ to_process \in Seq(Seq(StateId))
  BY DEF D!IInv, D!GraphIsReached, D!TypeOK, D!Stack
<1>6. /\ \A w \in DOMAIN graph : ToSet(graph[w].neighbors) \subseteq DOMAIN graph
      /\ D!Neighbors(v) \subseteq DOMAIN graph
      /\ v \notin generated => graph[v].neighbors = << >>
  BY <1>5, SameSets DEF D!GraphIsReached
<1>7. Grown(none, o, AllYielded(b)) /\ none.db = knowns /\ ToSet(none.ids) = {}
  BY <1>4, GrownBySuccessors, NothingOK
<1> HIDE DEF none, b
<1>8. /\ DatabaseOK(o.db) /\ o.ids \in Seq(DOMAIN o.db.id2item)
      /\ \A id \in DOMAIN knowns.id2item :
           id \in DOMAIN o.db.id2item /\ GetState(o.db, id) = GetState(knowns, id)
      /\ \A c \in AllYielded(b) : \E id \in ToSet(o.ids) : Concrete(c) \subseteq Concrete(GetState(o.db, id))
      /\ \A id \in ToSet(o.ids) : \E c \in AllYielded(b) : Concrete(c) \subseteq Concrete(GetState(o.db, id))
  BY <1>7 DEF Grown, OutcomeOK
<1>9. o.ids \in Seq(StateId) /\ ToSet(o.ids) \subseteq DOMAIN o.db.id2item
  <2>1. DOMAIN o.db.id2item \subseteq StateId
    BY <1>8, GetStateType
  <2>2. o.ids \in Seq(StateId)
    BY <1>8, <2>1
  <2>3. QED
    BY <1>8, <2>2, SetOfSequence
<1>10. D!Enter(v, o.ids, acc) /\ D!InHand(v, "WHITE")
  BY <1>1, <1>2, SameSearch
<1>11. D!MayAnswer(v, o.ids, acc)
  <2>1. ASSUME v \in generated PROVE o.ids = << >>
    <3>1. AllYielded(b) = {}
      BY <1>1, <2>1, YieldsNothing DEF b
    <3>2. ToSet(o.ids) = {}
      BY <1>8, <3>1
    <3>3. QED
      BY <1>9, <3>2, SetOfSequence
  <2>2. acc \subseteq D!ToSet(o.ids) \ DOMAIN graph
    BY SameSets
  <2>3. QED
    BY <1>1, <2>1, <2>2 DEF D!MayAnswer
<1>12. acc \in SUBSET StateId
  <2>1. ToSet(o.ids) \subseteq StateId
    BY <1>9, SetOfSequence
  <2>2. QED
    BY <2>1
<1> HIDE DEF acc
<1>13. D!Next
  BY <1>9, <1>10, <1>11, <1>12 DEF D!Next
<1>14. D!Entered(v)
  BY <1>5, <1>6, <1>9, <1>10, <1>11, D!EnterEffect, InitialBoundAssumption, ModesOfSearch
<1>15. /\ generated' = generated \cup {v} /\ accepting' = accepting \cup acc
       /\ start_vertex' = start_vertex
       /\ to_process' = Append(to_process, o.ids)
  BY <1>1, <1>10 DEF D!Enter, D!UnchangedByOuter
<1>16. graph'[v].neighbors = o.ids
  <2>1. to_process' = Append(to_process, graph'[v].neighbors) /\ graph'[v].neighbors \in Seq(StateId)
    BY <1>14 DEF D!Entered
  <2>2. \A q \in Seq(StateId) : Append(to_process, q)[Len(to_process) + 1] = q
    BY <1>5, Appending
  <2>3. QED
    BY <1>9, <1>15, <2>1, <2>2
<1>17. /\ DOMAIN graph' = DOMAIN graph \cup ToSet(o.ids)
       /\ \A w \in DOMAIN graph \ {v} : graph'[w] = graph[w]
  BY <1>14, <1>16, SameSets DEF D!Entered
<1>18. /\ DatabaseOK(knowns') /\ DOMAIN graph' \subseteq DOMAIN knowns'.id2item
       /\ GetState(knowns', start_vertex') = InitialBlob(program', ba')
  <2>1. GetState(knowns, start_vertex) = InitialBlob(program, ba)
    BY DEF ProductStored
  <2>2. GetState(knowns', start_vertex') = GetState(knowns, start_vertex)
    BY <1>2, <1>4, <1>5, <1>8, <1>15
  <2>3. InitialBlob(program', ba') = InitialBlob(program, ba)
    BY <1>3
  <2>4. DatabaseOK(knowns') /\ DOMAIN graph' \subseteq DOMAIN knowns'.id2item
    BY <1>2, <1>4, <1>8, <1>9, <1>17
  <2>5. QED
    BY <2>1, <2>2, <2>3, <2>4
<1>19. accepting' = {w \in DOMAIN graph' : IsAccepting(knowns, w)'}
  <2>1. accepting = {w \in DOMAIN graph : IsAccepting(knowns, w)}
    BY DEF ProductStored
  <2>2. \A w \in DOMAIN graph : IsAccepting(o.db, w) <=> IsAccepting(knowns, w)
    BY <1>4, <1>8 DEF IsAccepting
  <2>3. \A w : IsAccepting(knowns, w)' <=> IsAccepting(o.db, w)
    BY <1>2, <1>3 DEF IsAccepting, UserPart
  <2>4. acc = {w \in ToSet(o.ids) \ DOMAIN graph : IsAccepting(o.db, w)}
    BY DEF acc
  <2>5. QED
    BY <1>15, <1>17, <2>1, <2>2, <2>3, <2>4
<1>20. IsFiniteSet(generated')
  <2>1. IsFiniteSet(generated)
    BY DEF ProductStored
  <2>2. QED
    BY <1>15, <2>1, FS_AddElement
<1>21. ASSUME NEW u \in generated', NEW e \in ToSet(ba.edges) PROVE NeighborsCover(u, e)'
  <2>0. u \in DOMAIN graph
    BY <1>5, <1>15
  <2>1. GetState(knowns', u) = GetState(knowns, u)
    BY <1>2, <1>4, <1>8, <2>0
  <2>2. Yielded(GetState(knowns, u), e)' = Yielded(GetState(knowns, u), e)
    BY <1>3, <2>1 DEF Yielded, Enabled, Step, UserPart
  <2>3. ASSUME NEW c \in Yielded(GetState(knowns, u), e)
        PROVE  \E w \in ToSet(graph'[u].neighbors) : Concrete(c) \subseteq Concrete(GetState(knowns', w))
    <3>1. CASE u = v
      <4>1. c \in AllYielded(b)
        BY <2>3, <3>1 DEF AllYielded, b
      <4>2. QED
        BY <1>2, <1>8, <1>16, <3>1, <4>1
    <3>2. CASE u # v
      <4>1. u \in generated /\ graph'[u] = graph[u]
        BY <1>15, <1>17, <2>0, <3>2
      <4>2. NeighborsCover(u, e)
        BY <4>1 DEF ProductStored
      <4>3. PICK w \in ToSet(graph[u].neighbors) : Concrete(c) \subseteq Concrete(GetState(knowns, w))
        BY <2>3, <4>2 DEF NeighborsCover
      <4>4. w \in DOMAIN knowns.id2item
        BY <1>4, <1>6, <2>0, <4>3
      <4>5. QED
        BY <1>2, <1>8, <4>1, <4>3, <4>4
    <3>3. QED
      BY <3>1, <3>2
  <2>4. QED
    BY <2>2, <2>3 DEF NeighborsCover
<1>22. ASSUME NEW u \in generated', NEW w \in ToSet(graph'[u].neighbors)
       PROVE  GetState(knowns', w).sym # {}
  <2>1. CASE u = v
    <3>1. PICK c \in AllYielded(b) : Concrete(c) \subseteq Concrete(GetState(o.db, w))
      BY <1>8, <1>16, <1>22, <2>1
    <3>2. Concrete(GetState(o.db, w)) # {}
      BY <3>1, YieldedFilled
    <3>3. QED
      BY <1>2, <3>2 DEF Concrete
  <2>2. CASE u # v
    <3>1. u \in generated /\ u \in DOMAIN graph /\ graph'[u] = graph[u]
      BY <1>5, <1>15, <1>17, <2>2
    <3>2. GetState(knowns, w).sym # {}
      BY <1>22, <3>1 DEF ProductStored
    <3>3. w \in DOMAIN knowns.id2item
      BY <1>4, <1>6, <1>22, <3>1
    <3>4. QED
      BY <1>2, <1>8, <3>2, <3>3
  <2>3. QED
    BY <2>1, <2>2
<1>23. ProductStored'
  <2>1. program' \in Programs /\ ba' \in Automata
    BY <1>3, <1>4
  <2>2. (\A u \in generated : \A e \in ToSet(ba.edges) : NeighborsCover(u, e))'
    BY <1>3, <1>21
  <2>3. (\A u \in generated : \A w \in ToSet(graph[u].neighbors) : GetState(knowns, w).sym # {})'
    BY <1>22
  <2>4. DatabaseOK(knowns)' /\ (GetState(knowns, start_vertex) = InitialBlob(program, ba))'
    BY <1>18
  <2>5. (DOMAIN graph \subseteq DOMAIN knowns.id2item)' /\ IsFiniteSet(generated)'
    BY <1>18, <1>20
  <2>6. (accepting = {w \in DOMAIN graph : IsAccepting(knowns, w)})'
    BY <1>19
  <2>7. QED
    <3>1. (program \in Programs /\ ba \in Automata)'
      BY <2>1
    <3>2. (\A u \in generated : /\ \A e \in ToSet(ba.edges) : NeighborsCover(u, e)
                               /\ \A w \in ToSet(graph[u].neighbors) : GetState(knowns, w).sym # {})'
      BY <2>2, <2>3
    <3>3. QED
      BY <2>4, <2>5, <2>6, <3>1, <3>2 DEF ProductStored
<1>24. QED
  BY <1>13, <1>23

(* The entering of a vertex whose successors are known. *)
LEMMA KnownKeeps ==
  ASSUME ProductStored, D!IInv, EnterKnown
  PROVE  D!Next /\ ProductStored'
<1>1. PICK v \in DOMAIN graph : /\ Dfs!InHand(v, "WHITE")
                               /\ graph[v].neighbors # << >>
                               /\ Dfs!Enter(v, graph[v].neighbors, {})
  BY DEF EnterKnown
<1>2. UNCHANGED <<program, ba, knowns>>
  BY DEF EnterKnown
<1> DEFINE q == graph[v].neighbors
<1>3. /\ D!TypeOK /\ D!GraphIsReached /\ generated \subseteq DOMAIN graph
      /\ graph \in [DOMAIN graph -> D!VertexInfo] /\ q \in Seq(StateId)
  BY DEF D!IInv, D!TypeOK, D!VertexInfo
<1>4. v \in generated /\ D!Neighbors(v) \subseteq DOMAIN graph
  BY <1>1, <1>3 DEF D!GraphIsReached
<1>5. D!Enter(v, q, {}) /\ D!MayAnswer(v, q, {})
  BY <1>1, SameSearch DEF D!MayAnswer
<1>6. D!Next
  BY <1>3, <1>5 DEF D!Next
<1>7. D!Entered(v)
  BY <1>3, <1>4, <1>5, D!EnterEffect, InitialBoundAssumption, ModesOfSearch
<1>8. /\ generated' = generated /\ accepting' = accepting /\ start_vertex' = start_vertex
  BY <1>4, <1>5 DEF D!Enter, D!UnchangedByOuter
<1>9. graph'[v].neighbors = q
  BY <1>4, <1>7 DEF D!Entered
<1>10. DOMAIN graph' = DOMAIN graph
  BY <1>4, <1>7, <1>9, SameSets DEF D!Entered
<1>11. \A w \in DOMAIN graph : graph'[w].neighbors = graph[w].neighbors
  BY <1>7, <1>9 DEF D!Entered
<1>12. QED
  BY <1>2, <1>6, <1>8, <1>10, <1>11, SameEdgesKeepProduct DEF D!IInv

(* Every step is a step of the nested search and keeps what is stored. *)
LEMMA ProductStep ==
  ASSUME HitPolicy # "partial", D!IInv, ProductStored, [Next]_vars
  PROVE  [D!Next]_(D!vars) /\ ProductStored'
<1>1. CASE EnterGenerate
  BY <1>1, GenerateKeeps
<1>2. CASE EnterKnown
  BY <1>2, KnownKeeps
<1>3. CASE Walk
  <2>1. D!Walk /\ UNCHANGED <<program, ba, knowns>>
    BY <1>3, SameWalk DEF Walk
  <2>2. D!OnlyColors
    BY <2>1, WalkColors
  <2>3. /\ DOMAIN graph' = DOMAIN graph /\ UNCHANGED <<start_vertex, accepting, generated>>
        /\ \A w \in DOMAIN graph : graph'[w].neighbors = graph[w].neighbors
    BY <2>2 DEF D!OnlyColors
  <2>4. D!Next
    BY <2>1 DEF D!Next
  <2>5. QED
    BY <2>1, <2>3, <2>4, SameEdgesKeepProduct
<1>4. CASE UNCHANGED vars
  <2>1. UNCHANGED <<program, ba, knowns, D!vars>>
    BY <1>4 DEF vars, Dfs!vars, D!vars
  <2>2. UNCHANGED <<start_vertex, accepting, graph, generated>>
    BY <2>1 DEF D!vars
  <2>3. QED
    BY <2>1, <2>2, SameEdgesKeepProduct
<1>5. QED
  BY <1>1, <1>2, <1>3, <1>4 DEF Next

(* The LTL command is the nested search, with the answers generate_successors
   gives: ltl.tpp:80-176. *)
THEOREM SearchIsNested == HitPolicy # "partial" => (Spec => D!Init /\ [][D!Next]_(D!vars))
<1> SUFFICES ASSUME HitPolicy # "partial" PROVE Spec => D!Init /\ [][D!Next]_(D!vars)
  OBVIOUS
<1>1. Init => D!Init /\ D!IInv /\ ProductStored
  BY FirstStored, SearchBegins
<1>2. D!IInv /\ ProductStored /\ [Next]_vars => D!IInv' /\ ProductStored' /\ [D!Next]_(D!vars)
  BY ProductStep, SearchGoesOn
<1>3. QED
  BY <1>1, <1>2, PTL DEF Spec

(* What an automaton is made of. *)
LEMMA BaEdgeType ==
  ASSUME NEW a \in Automata, NEW e \in ToSet(a.edges)
  PROVE  /\ a.aps \in Seq(SUBSET Data) /\ a.start \in BaState
         /\ e.src \in BaState /\ e.dst \in BaState /\ e.label \in Seq(Literal)
<1> DEFINE T == [src : BaState, label : Seq(Literal), dst : BaState]
<1>1. a.aps \in Seq(SUBSET Data) /\ a.start \in BaState /\ a.edges \in Seq(T)
  BY AutomataAssumption DEF Automaton
<1> HIDE DEF T
<1>2. e \in T
  BY <1>1, SetOfSequence
<1>3. QED
  BY <1>1, <1>2 DEF T

(* The automaton's edges are taken as ltl2tgba means them. *)
LEMMA LabelMeant ==
  ASSUME LabelsAreRead, ba \in Automata, NEW e \in ToSet(ba.edges)
  PROVE  translate(ba.aps, e.label) = Meaning(ba.aps, e.label)
  BY LabelRead, BaEdgeType DEF LabelsAreRead

(* Where a step of the product leads. *)
LEMMA ProductSteps ==
  ASSUME program \in Programs, ba \in Automata
  PROVE  /\ Product \in [State -> SUBSET State]
         /\ \A c, d \in State : d \in Product[c] <=>
              \E edge \in program.edges, e \in ToSet(ba.edges) :
                /\ edge.src = c[1][1] /\ e.src = c[1][2] /\ d[1] = <<edge.dst, e.dst>>
                /\ c[2] \in Meaning(ba.aps, e.label) /\ <<c[2], d[2]>> \in edge.rel
<1> DEFINE F == [c \in Expl \X Data |->
     {d \in Expl \X Data :
        \E edge \in program.edges, e \in ToSet(ba.edges) :
          /\ edge.src = c[1][1] /\ e.src = c[1][2] /\ d[1] = <<edge.dst, e.dst>>
          /\ c[2] \in Meaning(ba.aps, e.label) /\ <<c[2], d[2]>> \in edge.rel}]
<1>1. Product = F
  BY Zenon DEF Product, Products
<1>2. F \in [State -> SUBSET State]
  BY DEF State
<1>3. \A c, d \in State : d \in F[c] <=>
              \E edge \in program.edges, e \in ToSet(ba.edges) :
                /\ edge.src = c[1][1] /\ e.src = c[1][2] /\ d[1] = <<edge.dst, e.dst>>
                /\ c[2] \in Meaning(ba.aps, e.label) /\ <<c[2], d[2]>> \in edge.rel
  BY DEF State
<1>4. QED
  BY <1>1, <1>2, <1>3

(* A step of the product from a state that a blob holds is one advance yields. *)
LEMMA StepYielded ==
  ASSUME LabelsAreRead, program \in Programs, ba \in Automata, NEW b \in Blob,
         NEW c \in Concrete(b), NEW d \in Product[c]
  PROVE  \E e \in ToSet(ba.edges) : \E n \in Yielded(b, e) : d \in Concrete(n)
<1>1. c \in State /\ c[1] = b.expl /\ c[2] \in b.sym /\ c[2] \in Data
  BY DEF Concrete, Blob, Sym, State
<1>2. d \in State
  BY <1>1, ProductSteps
<1>3. PICK edge \in program.edges, e \in ToSet(ba.edges) :
        /\ edge.src = c[1][1] /\ e.src = c[1][2] /\ d[1] = <<edge.dst, e.dst>>
        /\ c[2] \in Meaning(ba.aps, e.label) /\ <<c[2], d[2]>> \in edge.rel
  BY <1>1, <1>2, ProductSteps
<1>4. d = <<d[1], d[2]>> /\ d[2] \in Data
  BY <1>2 DEF State
<1>5. d[2] \in Post(edge, b.sym \cap translate(ba.aps, e.label))
  BY <1>1, <1>3, <1>4, LabelMeant DEF Post
<1> DEFINE n == Step(b, e, edge)
<1>6. n.expl = <<edge.dst, e.dst>> /\ n.sym = Post(edge, b.sym \cap translate(ba.aps, e.label))
  BY StepType
<1>7. n \in Yielded(b, e)
  BY <1>1, <1>3, <1>5, <1>6 DEF Yielded, Enabled, UserPart
<1>8. d \in Concrete(n)
  BY <1>3, <1>4, <1>5, <1>6 DEF Concrete
<1>9. QED
  BY <1>7, <1>8

(* What is stored for a vertex that was entered is a blob. *)
LEMMA EnteredStored ==
  ASSUME ProductStored, D!IInv
  PROVE  /\ program \in Programs /\ ba \in Automata
         /\ generated \subseteq DOMAIN graph
         /\ \A v \in DOMAIN graph : GetState(knowns, v) \in Blob /\ v \in StateId
<1>1. program \in Programs /\ ba \in Automata /\ DatabaseOK(knowns) /\ DOMAIN graph \subseteq DOMAIN knowns.id2item
  BY DEF ProductStored
<1>2. generated \subseteq DOMAIN graph
  BY DEF D!IInv, D!TypeOK
<1>3. QED
  BY <1>1, <1>2, GetStateType

(* No step of the product is lost. *)
LEMMA StoredSimulates ==
  ASSUME LabelsAreRead, ProductStored, D!IInv
  PROVE  GraphSimulates
<1> SUFFICES ASSUME NEW v \in generated, NEW c \in Concrete(GetState(knowns, v)), NEW d \in Product[c]
             PROVE  \E w \in ToSet(graph[v].neighbors) : d \in Concrete(GetState(knowns, w))
  BY DEF GraphSimulates
<1>1. PICK e \in ToSet(ba.edges) : \E n \in Yielded(GetState(knowns, v), e) : d \in Concrete(n)
  BY EnteredStored, StepYielded
<1>2. NeighborsCover(v, e)
  BY DEF ProductStored
<1>3. QED
  BY <1>1, <1>2 DEF NeighborsCover

-----------------------------------------------------------------------------
(* The verdicts.                                                           *)

(* What it means that the automaton accepts a run of the program. *)
LEMMA AcceptedMeans ==
  ASSUME program \in Programs, ba \in Automata
  PROVE  AcceptedRun <=>
           \E c \in Runs!Reach(Product, Concrete(InitialBlob(program, ba))) :
             c[1][2] \in ba.accepting /\ c \in Runs!Reach(Product, Product[c])
  BY Zenon DEF AcceptedRun, Accepted, Product

(* what the recorded edges lead to from a set of vertices *)
Led(S) == D!Abstract!Reach(D!Edges, S)

(* What they lead to is closed under them and the least such set. *)
LEMMA LedLeast ==
  ASSUME D!IInv, NEW S \in SUBSET DOMAIN graph
  PROVE  /\ S \subseteq Led(S) /\ Led(S) \subseteq DOMAIN graph
         /\ \A v \in Led(S) \cap generated : ToSet(graph[v].neighbors) \subseteq Led(S)
         /\ \A T \in SUBSET DOMAIN graph :
              S \subseteq T /\ (\A v \in T \cap generated : ToSet(graph[v].neighbors) \subseteq T) =>
                Led(S) \subseteq T
<1>1. /\ D!Edges \in D!Graph /\ DOMAIN D!Edges = generated
      /\ \A v \in generated : D!Edges[v] = ToSet(graph[v].neighbors)
      /\ generated \subseteq DOMAIN graph /\ DOMAIN graph \subseteq StateId
      /\ \A v \in DOMAIN graph : ToSet(graph[v].neighbors) \subseteq DOMAIN graph
  <2>1. D!TypeOK /\ D!GraphIsReached
    BY DEF D!IInv
  <2>2. /\ D!Edges \in D!Graph /\ DOMAIN D!Edges = generated
        /\ \A v \in generated : D!Edges[v] = D!Neighbors(v)
    BY <2>1, D!EdgesAreGraph, InitialBoundAssumption, ModesOfSearch
  <2>3. generated \subseteq DOMAIN graph /\ DOMAIN graph \subseteq StateId
    BY <2>1 DEF D!TypeOK
  <2>4. \A v \in DOMAIN graph : D!Neighbors(v) \subseteq DOMAIN graph
    BY <2>1 DEF D!GraphIsReached
  <2>5. QED
    BY <2>2, <2>3, <2>4, SameSets
<1>2. S \in SUBSET StateId
  BY <1>1
<1>3. /\ S \subseteq Led(S) /\ Led(S) \subseteq StateId
      /\ \A v \in Led(S) \cap DOMAIN D!Edges : D!Edges[v] \subseteq Led(S)
      /\ \A T \in SUBSET StateId :
           S \subseteq T /\ (\A v \in T \cap DOMAIN D!Edges : D!Edges[v] \subseteq T) => Led(S) \subseteq T
  BY <1>1, <1>2, D!ReachLeast, InitialBoundAssumption, ModesOfSearch DEF Led
<1> HIDE DEF Led
<1>4. ASSUME NEW T \in SUBSET DOMAIN graph, S \subseteq T,
             \A v \in T \cap generated : ToSet(graph[v].neighbors) \subseteq T
      PROVE  Led(S) \subseteq T
  <2>1. T \in SUBSET StateId
    BY <1>1
  <2>2. \A v \in T \cap DOMAIN D!Edges : D!Edges[v] \subseteq T
    BY <1>1, <1>4
  <2>3. QED
    BY <1>3, <1>4, <2>1, <2>2
<1>5. Led(S) \subseteq DOMAIN graph
  BY <1>1, <1>4
<1>6. \A v \in Led(S) \cap generated : ToSet(graph[v].neighbors) \subseteq Led(S)
  BY <1>1, <1>3
<1>7. QED
  BY <1>3, <1>4, <1>5, <1>6

(* What a part of what S leads to leads to. *)
LEMMA LedMonotone ==
  ASSUME D!IInv, NEW S \in SUBSET DOMAIN graph, NEW U \in SUBSET Led(S)
  PROVE  Led(U) \subseteq Led(S)
<1>1. Led(S) \in SUBSET DOMAIN graph /\ U \in SUBSET DOMAIN graph
  BY LedLeast
<1>2. \A v \in Led(S) \cap generated : ToSet(graph[v].neighbors) \subseteq Led(S)
  BY LedLeast
<1> HIDE DEF Led
<1>3. QED
  BY <1>1, <1>2, LedLeast

(* the concrete states some vertices stand for *)
Held(X) == {c \in State : \E v \in X : c \in Concrete(GetState(knowns, v))}

(* When every vertex was entered, no run leaves the graph. *)
LEMMA RunsAreHeld ==
  ASSUME program \in Programs, ba \in Automata, GraphSimulates, NEW X \in SUBSET generated,
         \A v \in X : ToSet(graph[v].neighbors) \subseteq X, NEW U \in SUBSET Held(X)
  PROVE  Runs!Reach(Product, U) \subseteq Held(X)
<1>1. Product \in [State -> SUBSET State]
  BY ProductSteps
<1>2. U \in SUBSET State /\ Held(X) \in SUBSET State
  BY DEF Held
<1>3. ASSUME NEW c \in Held(X) PROVE Product[c] \subseteq Held(X)
  <2>1. PICK v \in X : c \in Concrete(GetState(knowns, v))
    BY DEF Held
  <2>2. c \in State
    BY DEF Held
  <2>3. \A d \in Product[c] : d \in State /\ \E w \in X : d \in Concrete(GetState(knowns, w))
    BY <1>1, <2>1, <2>2 DEF GraphSimulates
  <2>4. QED
    BY <2>3 DEF Held
<1>4. QED
  BY <1>1, <1>2, <1>3, RunsLeast

(* What a vertex stands for are states of the product. *)
LEMMA ConcreteType ==
  ASSUME NEW b \in Blob
  PROVE  /\ Concrete(b) \in SUBSET State
         /\ \A c \in Concrete(b) : c[1] = b.expl /\ c[2] \in b.sym /\ c = <<c[1], c[2]>>
  BY DEF Concrete, Blob, Sym, State

(* A graph that was entered everywhere and holds no accepting cycle stands
   for no accepted run: the vertices that hold a state which a run comes back
   to are finitely many, and each leads to another of them. *)
LEMMA HoldsFollows ==
  ASSUME LabelsAreRead, ProductStored, D!IInv
  PROVE  HoldsIsSound
<1> SUFFICES ASSUME output = "holds", mode.max_depth = Dfs!Unlimited, AcceptedRun
             PROVE  FALSE
  BY DEF HoldsIsSound
<1>1. GraphSimulates /\ program \in Programs /\ ba \in Automata /\ generated \subseteq DOMAIN graph
  BY StoredSimulates, EnteredStored
<1>2. PICK c \in Runs!Reach(Product, Concrete(InitialBlob(program, ba))) :
        c[1][2] \in ba.accepting /\ c \in Runs!Reach(Product, Product[c])
  BY <1>1, AcceptedMeans
<1> DEFINE S == {start_vertex}
<1>3. /\ S \in SUBSET DOMAIN graph
      /\ \A v \in DOMAIN graph : ToSet(graph[v].neighbors) \subseteq DOMAIN graph
  BY SameSets DEF D!IInv, D!GraphIsReached
<1>4. /\ Led(S) \subseteq generated
      /\ ~ \E v \in accepting \cap Led(S) \cap generated : v \in Led(ToSet(graph[v].neighbors))
  <2>1. D!HoldsIsComplete
    BY D!HoldsKept, InitialBoundAssumption, ModesOfSearch
  <2>2. /\ D!Abstract!Reach(D!Edges, S) \subseteq DOMAIN D!Edges
        /\ ~ D!Abstract!AcceptingCycle(D!Edges, start_vertex)
    BY <2>1 DEF D!HoldsIsComplete, D!Abstract!HoldsIsComplete, D!Unlimited, Dfs!Unlimited
  <2>3. DOMAIN D!Edges = generated /\ \A v \in generated : D!Edges[v] = ToSet(graph[v].neighbors)
    BY D!EdgesAreGraph, SameSets, InitialBoundAssumption, ModesOfSearch DEF D!IInv
  <2>4. QED
    BY <2>2, <2>3 DEF Led, D!Abstract!AcceptingCycle
<1> DEFINE L == Led(S)
           Onward(v) == Led(ToSet(graph[v].neighbors))
           A == {v \in L : c \in Concrete(GetState(knowns, v))}
           R == {p \in A \X A : p[2] \in Onward(p[1])}
<1>5. /\ S \subseteq L /\ L \subseteq generated
      /\ \A v \in L : ToSet(graph[v].neighbors) \subseteq L
  BY <1>3, <1>4, LedLeast
<1>6. ASSUME NEW v \in L
      PROVE  /\ Onward(v) \subseteq L
             /\ ToSet(graph[v].neighbors) \subseteq Onward(v)
             /\ \A w \in Onward(v) : ToSet(graph[w].neighbors) \subseteq Onward(v)
  <2>1. ToSet(graph[v].neighbors) \in SUBSET DOMAIN graph /\ ToSet(graph[v].neighbors) \in SUBSET L
    BY <1>1, <1>3, <1>5
  <2>2. Onward(v) \subseteq L
    BY <1>3, <2>1, LedMonotone
  <2>3. QED
    BY <1>5, <2>1, <2>2, LedLeast
<1> HIDE DEF L, Onward
<1>7. A # {}
  <2>1. Concrete(InitialBlob(program, ba)) \subseteq Held(L)
    <3>1. GetState(knowns, start_vertex) = InitialBlob(program, ba) /\ start_vertex \in L
      BY <1>5 DEF ProductStored
    <3>2. GetState(knowns, start_vertex) \in Blob
      BY <1>3, EnteredStored
    <3>3. QED
      BY <3>1, <3>2, ConcreteType DEF Held
  <2>2. c \in Held(L)
    BY <1>1, <1>2, <1>5, <2>1, RunsAreHeld
  <2>3. QED
    BY <2>2 DEF Held
<1>8. IsFiniteSet(A)
  <2>1. IsFiniteSet(generated) /\ A \in SUBSET generated
    BY <1>5 DEF ProductStored
  <2>2. QED
    BY <2>1, FS_Subset
<1>9. ASSUME NEW v \in A PROVE \E w \in A : <<v, w>> \in R
  <2>1. v \in L /\ v \in generated /\ c \in Concrete(GetState(knowns, v))
    BY <1>5
  <2>2. c \in State
    BY <1>1, <2>1, EnteredStored, ConcreteType
  <2>3. Product[c] \subseteq Held(Onward(v))
    <3>1. Product[c] \subseteq State
      BY <1>1, <2>2, ProductSteps
    <3>2. QED
      BY <1>1, <1>6, <2>1, <3>1 DEF GraphSimulates, Held
  <2>4. Onward(v) \in SUBSET generated /\ \A w \in Onward(v) : ToSet(graph[w].neighbors) \subseteq Onward(v)
    BY <1>5, <1>6, <2>1
  <2>5. c \in Held(Onward(v))
    BY <1>1, <1>2, <2>3, <2>4, RunsAreHeld
  <2>6. PICK w \in Onward(v) : c \in Concrete(GetState(knowns, w))
    BY <2>5 DEF Held
  <2>7. QED
    BY <1>6, <2>1, <2>6
<1>10. ASSUME NEW u \in A, NEW v \in A, NEW w \in A, <<u, v>> \in R, <<v, w>> \in R
       PROVE  <<u, w>> \in R
  <2>1. u \in L /\ v \in L /\ v \in Onward(u) /\ w \in Onward(v)
    BY <1>10
  <2>2. ToSet(graph[v].neighbors) \in SUBSET Onward(u) /\ ToSet(graph[u].neighbors) \in SUBSET DOMAIN graph
    BY <1>1, <1>3, <1>5, <1>6, <2>1
  <2>3. Onward(v) \subseteq Onward(u)
    BY <2>2, LedMonotone DEF Onward
  <2>4. QED
    BY <2>1, <2>3
<1>11. PICK v \in A : <<v, v>> \in R
  <2> HIDE DEF A, R
  <2>1. QED
    BY <1>7, <1>8, <1>9, <1>10, FiniteCycle
<1>12. v \in L /\ v \in generated /\ v \in Onward(v) /\ c \in Concrete(GetState(knowns, v))
  BY <1>5, <1>11
<1>13. v \in accepting
  <2>1. GetState(knowns, v).expl = c[1]
    BY <1>1, <1>12, EnteredStored, ConcreteType
  <2>2. IsAccepting(knowns, v)
    BY <1>2, <2>1 DEF IsAccepting, UserPart
  <2>3. QED
    BY <1>1, <1>12, <2>2 DEF ProductStored
<1>14. QED
  BY <1>4, <1>12, <1>13 DEF L, Onward

(* Where nothing was dropped, every state a neighbour stands for is reached
   by a step from one the vertex stands for. *)
LEMMA StepBack ==
  ASSUME LabelsAreRead, ProductStored, D!IInv, NothingAbsorbed,
         NEW v \in generated, NEW w \in ToSet(graph[v].neighbors),
         NEW d \in Concrete(GetState(knowns, w))
  PROVE  d \in State /\ \E c \in Concrete(GetState(knowns, v)) : d \in Product[c]
<1> DEFINE b == GetState(knowns, v)
<1>1. program \in Programs /\ ba \in Automata /\ b \in Blob
  BY EnteredStored
<1>2. PICK e \in ToSet(ba.edges), edge \in program.edges :
        /\ e.src = UserPart(b) /\ edge.src = b.expl[1]
        /\ GetState(knowns, w) = Step(b, e, edge)
  BY DEF NothingAbsorbed
<1> HIDE DEF b
<1>3. /\ Step(b, e, edge) \in Blob
      /\ Step(b, e, edge).expl = <<edge.dst, e.dst>>
      /\ Step(b, e, edge).sym = Post(edge, b.sym \cap translate(ba.aps, e.label))
  BY <1>1, StepType
<1>4. /\ d \in State /\ d[1] = <<edge.dst, e.dst>>
      /\ d[2] \in Post(edge, b.sym \cap translate(ba.aps, e.label))
  BY <1>2, <1>3, ConcreteType
<1>5. PICK x \in b.sym \cap translate(ba.aps, e.label) : <<x, d[2]>> \in edge.rel
  BY <1>4 DEF Post
<1> DEFINE c == <<b.expl, x>>
<1>6. c \in Concrete(b) /\ c[1] = b.expl /\ c[2] = x
  BY <1>5 DEF Concrete
<1>7. c \in State
  BY <1>1, <1>6, ConcreteType
<1>8. x \in Meaning(ba.aps, e.label)
  BY <1>1, <1>5, LabelMeant
<1>9. d \in Product[c]
  BY <1>1, <1>2, <1>4, <1>5, <1>6, <1>7, <1>8, ProductSteps DEF UserPart
<1>10. QED
  BY <1>4, <1>6, <1>9 DEF b

(* An accepting cycle of the graph stands for an accepted run unless a state
   was dropped for a larger one: going back along the cycle from a state its
   accepting vertex stands for, one of these finitely many is met again. *)
LEMMA ViolationFollows ==
  ASSUME LabelsAreRead, ProductStored, D!IInv
  PROVE  ViolationIsRealOrAbsorbed
<1> SUFFICES ASSUME output = "violated", NothingAbsorbed PROVE AcceptedRun
  BY DEF ViolationIsRealOrAbsorbed
<1>1. program \in Programs /\ ba \in Automata /\ generated \subseteq DOMAIN graph
  BY EnteredStored
<1> DEFINE S == {start_vertex}
           I == Concrete(InitialBlob(program, ba))
<1>2. /\ S \in SUBSET DOMAIN graph
      /\ \A v \in DOMAIN graph : ToSet(graph[v].neighbors) \subseteq DOMAIN graph
  BY SameSets DEF D!IInv, D!GraphIsReached
<1>3. PICK v \in accepting \cap Led(S) \cap generated : v \in Led(ToSet(graph[v].neighbors))
  <2>1. D!ViolationIsReal
    BY D!ViolationKept, InitialBoundAssumption, ModesOfSearch
  <2>2. D!Abstract!AcceptingCycle(D!Edges, start_vertex)
    BY <2>1 DEF D!ViolationIsReal, D!Abstract!ViolationIsReal
  <2>3. DOMAIN D!Edges = generated /\ \A u \in generated : D!Edges[u] = ToSet(graph[u].neighbors)
    BY D!EdgesAreGraph, SameSets, InitialBoundAssumption, ModesOfSearch DEF D!IInv
  <2>4. QED
    BY <2>2, <2>3 DEF Led, D!Abstract!AcceptingCycle
<1> DEFINE b == GetState(knowns, v)
           A == Concrete(b)
           O == ToSet(graph[v].neighbors)
           Onward(c) == Runs!Reach(Product, Product[c])
<1>4. /\ b \in Blob /\ A \in SUBSET State /\ b.expl[2] \in ba.accepting
      /\ \A c \in A : c[1] = b.expl
  <2>1. b \in Blob
    BY <1>1, EnteredStored
  <2>2. IsAccepting(knowns, v)
    BY DEF ProductStored
  <2>3. QED
    BY <2>1, <2>2, ConcreteType DEF IsAccepting, UserPart
<1>5. O \in SUBSET DOMAIN graph
  BY <1>1, <1>2
<1>6. Product \in [State -> SUBSET State]
  BY <1>1, ProductSteps
<1>7. /\ I \in SUBSET State /\ I \subseteq Runs!Reach(Product, I)
      /\ \A c \in Runs!Reach(Product, I) : Product[c] \subseteq Runs!Reach(Product, I)
  <2>1. GetState(knowns, start_vertex) = InitialBlob(program, ba) /\ GetState(knowns, start_vertex) \in Blob
    BY <1>2, EnteredStored DEF ProductStored
  <2>2. I \in SUBSET State
    BY <2>1, ConcreteType
  <2>3. QED
    BY <1>6, <2>2, RunsLeast
<1>8. \A c \in State : /\ Onward(c) \in SUBSET State /\ Product[c] \subseteq Onward(c)
                       /\ \A d \in Onward(c) : Product[d] \subseteq Onward(c)
  <2>1. ASSUME NEW c \in State
        PROVE  /\ Onward(c) \in SUBSET State /\ Product[c] \subseteq Onward(c)
               /\ \A d \in Onward(c) : Product[d] \subseteq Onward(c)
    <3>1. Product[c] \in SUBSET State
      BY <1>6
    <3>2. QED
      BY <1>6, <3>1, RunsLeast
  <2>2. QED
    BY <2>1
<1>9. A \subseteq Runs!Reach(Product, I)
  <2> DEFINE T == {w \in Led(S) : Concrete(GetState(knowns, w)) \subseteq Runs!Reach(Product, I)}
  <2>1. S \subseteq T
    BY <1>2, <1>7, LedLeast DEF ProductStored
  <2>2. ASSUME NEW u \in T \cap generated PROVE ToSet(graph[u].neighbors) \subseteq T
    <3>1. ToSet(graph[u].neighbors) \subseteq Led(S)
      BY <1>2, LedLeast
    <3>2. ASSUME NEW w \in ToSet(graph[u].neighbors), NEW d \in Concrete(GetState(knowns, w))
          PROVE  d \in Runs!Reach(Product, I)
      <4>1. PICK c \in Concrete(GetState(knowns, u)) : d \in Product[c]
        BY <3>2, StepBack
      <4>2. QED
        BY <1>7, <4>1
    <3>3. QED
      BY <3>1, <3>2
  <2>3. T \in SUBSET DOMAIN graph
    BY <1>2, LedLeast
  <2> HIDE DEF T
  <2>4. Led(S) \subseteq T
    BY <1>2, <2>1, <2>2, <2>3, LedLeast
  <2>5. QED
    BY <2>4 DEF T
<1>10. \A d \in A : \E c \in A : d \in Onward(c)
  <2> DEFINE T == {w \in Led(O) : \A d \in Concrete(GetState(knowns, w)) :
                                    \E c \in A : d \in Onward(c)}
  <2>1. O \subseteq T
    <3>1. O \subseteq Led(O)
      BY <1>5, LedLeast
    <3>2. ASSUME NEW w \in O, NEW d \in Concrete(GetState(knowns, w))
          PROVE  \E c \in A : d \in Onward(c)
      <4>1. PICK c \in A : d \in Product[c]
        BY <3>2, StepBack
      <4>2. QED
        BY <1>4, <1>8, <4>1
    <3>3. QED
      BY <3>1, <3>2
  <2>2. ASSUME NEW u \in T \cap generated PROVE ToSet(graph[u].neighbors) \subseteq T
    <3>1. ToSet(graph[u].neighbors) \subseteq Led(O)
      BY <1>5, LedLeast
    <3>2. ASSUME NEW w \in ToSet(graph[u].neighbors), NEW d \in Concrete(GetState(knowns, w))
          PROVE  \E c \in A : d \in Onward(c)
      <4>1. PICK x \in Concrete(GetState(knowns, u)) : d \in Product[x]
        BY <3>2, StepBack
      <4>2. PICK c \in A : x \in Onward(c)
        BY <4>1
      <4>3. QED
        BY <1>4, <1>8, <4>1, <4>2
    <3>3. QED
      BY <3>1, <3>2
  <2>3. T \in SUBSET DOMAIN graph
    BY <1>5, LedLeast
  <2> HIDE DEF T
  <2>4. Led(O) \subseteq T
    BY <1>5, <2>1, <2>2, <2>3, LedLeast
  <2>5. QED
    BY <1>3, <2>4 DEF T
<1>11. A # {}
  <2> DEFINE T == {w \in Led(O) : GetState(knowns, w).sym # {}}
  <2>1. O \subseteq T
    BY <1>5, LedLeast DEF ProductStored
  <2>2. \A u \in T \cap generated : ToSet(graph[u].neighbors) \subseteq T
    BY <1>5, LedLeast DEF ProductStored
  <2>3. T \in SUBSET DOMAIN graph
    BY <1>5, LedLeast
  <2> HIDE DEF T
  <2>4. Led(O) \subseteq T
    BY <1>5, <2>1, <2>2, <2>3, LedLeast
  <2>5. PICK x \in b.sym : TRUE
    BY <1>3, <2>4 DEF T
  <2>6. <<b.expl, x>> \in Concrete(b)
    BY <2>5 DEF Concrete
  <2>7. QED
    BY <2>6
<1>12. IsFiniteSet(A)
  <2>1. IsFiniteSet(b.sym)
    BY <1>4, DataAssumption, FS_Subset DEF Blob, Sym
  <2>2. IsFiniteSet({b.expl})
    BY FS_Singleton
  <2>3. QED
    BY <2>1, <2>2, FS_Product DEF Concrete
<1> HIDE DEF A, Onward
<1> DEFINE R == {p \in A \X A : p[1] \in Onward(p[2])}
<1>13. \A d \in A : \E c \in A : <<d, c>> \in R
  BY <1>10
<1>14. ASSUME NEW x \in A, NEW y \in A, NEW z \in A, <<x, y>> \in R, <<y, z>> \in R
       PROVE  <<x, z>> \in R
  <2>1. x \in Onward(y) /\ y \in Onward(z) /\ y \in State /\ z \in State
    BY <1>4, <1>14
  <2>2. Product[y] \in SUBSET Onward(z) /\ Product[z] \in SUBSET State
    BY <1>6, <1>8, <2>1
  <2>3. Onward(y) \subseteq Onward(z)
    BY <1>6, <2>2, RunsMonotone DEF Onward
  <2>4. QED
    BY <2>1, <2>3
<1>15. PICK c \in A : <<c, c>> \in R
  <2> HIDE DEF R
  <2>1. QED
    BY <1>11, <1>12, <1>13, <1>14, FiniteCycle
<1>16. c \in Onward(c) /\ c[1][2] \in ba.accepting /\ c \in Runs!Reach(Product, I)
  BY <1>4, <1>9, <1>15
<1>17. QED
  BY <1>1, <1>16, AcceptedMeans DEF Onward

-----------------------------------------------------------------------------
(* The theorems, for the solver and the comparison of the command as it is
   built and for labels of the kind it reads. *)

(* What the proofs rest on: the invariant of the nested search, and what is
   stored for its vertices. *)
LEMMA LtlInvariant ==
  HitPolicy # "partial" => (Spec => [](D!IInv /\ ProductStored))
<1> SUFFICES ASSUME HitPolicy # "partial" PROVE Spec => [](D!IInv /\ ProductStored)
  OBVIOUS
<1>1. Init => D!IInv /\ ProductStored
  BY FirstStored, SearchBegins
<1>2. D!IInv /\ ProductStored /\ [Next]_vars => (D!IInv /\ ProductStored)'
  BY ProductStep, SearchGoesOn
<1>3. QED
  BY <1>1, <1>2, PTL DEF Spec

(* Every step of the product from a vertex that was entered leads into one of
   its neighbours, although states inside stored ones are dropped:
   ltl.tpp:40-78 with blobing.h:394-403. *)
THEOREM ProductKept ==
  HitPolicy # "partial" /\ LabelsAreRead => (Spec => []ProductInv)
<1> SUFFICES ASSUME HitPolicy # "partial", LabelsAreRead PROVE Spec => []ProductInv
  OBVIOUS
<1>1. D!IInv /\ ProductStored => ProductInv
  BY StoredSimulates DEF ProductInv
<1>2. Spec => [](D!IInv /\ ProductStored)
  BY LtlInvariant
<1>3. QED
  BY <1>1, <1>2, PTL

(* "Property holds!", printed by a search without a bound, is true: no run of
   the program is accepted by the automaton of the negated property. *)
THEOREM HoldsSound ==
  HitPolicy # "partial" /\ LabelsAreRead => (Spec => []HoldsIsSound)
<1> SUFFICES ASSUME HitPolicy # "partial", LabelsAreRead PROVE Spec => []HoldsIsSound
  OBVIOUS
<1>1. D!IInv /\ ProductStored => HoldsIsSound
  BY HoldsFollows
<1>2. Spec => [](D!IInv /\ ProductStored)
  BY LtlInvariant
<1>3. QED
  BY <1>1, <1>2, PTL

(* "Property violated!" is true of the program unless some state was dropped
   for a larger one: ltl.tpp:171-172. *)
THEOREM ViolationSound ==
  HitPolicy # "partial" /\ LabelsAreRead => (Spec => []ViolationIsRealOrAbsorbed)
<1> SUFFICES ASSUME HitPolicy # "partial", LabelsAreRead PROVE Spec => []ViolationIsRealOrAbsorbed
  OBVIOUS
<1>1. D!IInv /\ ProductStored => ViolationIsRealOrAbsorbed
  BY ViolationFollows
<1>2. Spec => [](D!IInv /\ ProductStored)
  BY LtlInvariant
<1>3. QED
  BY <1>1, <1>2, PTL
=============================================================================
