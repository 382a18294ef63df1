-------------------------- MODULE ExplorationProofs --------------------------
(***************************************************************************)
(* Theorems about Exploration, for every set of programs whose atomic      *)
(* sections are closed: all that advance yields stands for states that the *)
(* program's interleavings reach, the vectors of the states stay in step,  *)
(* and no assert of Control or MemoryLayout fails.                         *)
(***************************************************************************)
EXTENDS EvaluatorProofs

-----------------------------------------------------------------------------
(* What is yielded.                                                        *)

(* what has been yielded: to the callback states of N, to the stack states of Q *)
YieldOK(got, N, Q) ==
  /\ DOMAIN got = {"new", "pushed", "error"}
  /\ got.new \in Seq(N)
  /\ got.pushed \in Seq(Q)
  /\ got.error \in BOOLEAN

(* an outcome with valuations, and one that goes onto the stack *)
Arrives(o) == o.is_empty = FALSE
Quiet(o)   == o.is_empty = FALSE /\ o.is_observable = FALSE /\ o.state.error = FALSE

(* One call of restoringYield. *)
LEMMA RestoringYieldIs ==
  ASSUME NEW N, NEW Q, NEW got, YieldOK(got, N, Q),
         NEW o, o.is_empty \in BOOLEAN, o.is_observable \in BOOLEAN, o.state.error \in BOOLEAN,
         Arrives(o) => o.state \in N, Quiet(o) => o.state \in Q
  PROVE  YieldOK(restoringYield(got, o), N, Q)
<1> DEFINE r == restoringYield(got, o)
<1>1. CASE o.is_empty = TRUE
  <2>1. r = got
    BY <1>1 DEF restoringYield
  <2>2. QED
    BY <2>1
<1>2. CASE o.is_empty = FALSE /\ (o.is_observable \/ o.state.error)
  <2>1. r = [got EXCEPT !.new = InsertNew(@, o.state), !.error = @ \/ o.state.error]
    BY <1>2 DEF restoringYield
  <2>2. InsertNew(got.new, o.state) \in Seq(N)
    <3> DEFINE q == got.new
               x == o.state
    <3>1. q \in Seq(N) /\ x \in N
      BY <1>2 DEF YieldOK, Arrives
    <3> HIDE DEF q, x
    <3>2. Append(q, x) \in Seq(N)
      BY <3>1
    <3>3. InsertNew(q, x) \in {q, Append(q, x)}
      BY DEF InsertNew
    <3>4. QED
      BY <3>1, <3>2, <3>3 DEF q, x
  <2>3. DOMAIN got = {"new", "pushed", "error"}
    BY DEF YieldOK
  <2> DEFINE n == InsertNew(got.new, o.state)
             b == got.error \/ o.state.error
  <2>4. r = [got EXCEPT !.new = n, !.error = b] /\ b \in BOOLEAN
    BY <2>1, <2>3
  <2> HIDE DEF r, n, b
  <2>5. DOMAIN r = {"new", "pushed", "error"} /\ r.new = n /\ r.error = b /\ r.pushed = got.pushed
    BY <2>3, <2>4
  <2>6. QED
    BY <2>2, <2>4, <2>5 DEF YieldOK, r, n
<1>3. CASE o.is_empty = FALSE /\ ~ (o.is_observable \/ o.state.error)
  <2>1. r = [got EXCEPT !.pushed = Append(@, o.state)]
    BY <1>3 DEF restoringYield
  <2>2. Append(got.pushed, o.state) \in Seq(Q)
    <3> DEFINE q == got.pushed
               x == o.state
    <3>1. q \in Seq(Q) /\ x \in Q
      BY <1>3 DEF YieldOK, Quiet
    <3> HIDE DEF q, x
    <3>2. Append(q, x) \in Seq(Q)
      BY <3>1
    <3>3. QED
      BY <3>2 DEF q, x
  <2>3. DOMAIN got = {"new", "pushed", "error"}
    BY DEF YieldOK
  <2> DEFINE n == Append(got.pushed, o.state)
  <2>4. r = [got EXCEPT !.pushed = n]
    BY <2>1, <2>3
  <2> HIDE DEF r, n
  <2>5. DOMAIN r = {"new", "pushed", "error"} /\ r.new = got.new /\ r.error = got.error /\ r.pushed = n
    BY <2>3, <2>4
  <2>6. QED
    BY <2>2, <2>5 DEF YieldOK, r, n
<1>4. QED
  BY <1>1, <1>2, <1>3

(* f tells what has been yielded after each of the first m outcomes *)
Yielding(outcomes, m, f) ==
  /\ f = [k \in 0 .. m |-> f[k]]
  /\ f[0] = NothingYielded
  /\ \A k \in 1 .. m : f[k] = restoringYield(f[k - 1], outcomes[k])

(* There is such a function. *)
LEMMA YieldingExists ==
  ASSUME NEW outcomes, NEW n \in Nat
  PROVE  \E f : Yielding(outcomes, n, f)
<1> DEFINE S == {m \in Nat : \E f : Yielding(outcomes, m, f)}
<1>2. 0 \in S
  <2>1. Yielding(outcomes, 0, [k \in 0 .. 0 |-> NothingYielded])
    BY DEF Yielding
  <2>2. QED
    BY <2>1
<1>3. ASSUME NEW m \in Nat, m \in S PROVE m + 1 \in S
  <2>1. PICK f : Yielding(outcomes, m, f)
    BY <1>3
  <2> DEFINE next == restoringYield(f[m], outcomes[m + 1])
             g == [k \in 0 .. m + 1 |-> IF k = m + 1 THEN next ELSE f[k]]
  <2>3. g = [k \in 0 .. m + 1 |-> g[k]] /\ g[m + 1] = next /\ \A k \in 0 .. m : g[k] = f[k]
    OBVIOUS
  <2> HIDE DEF g
  <2>4. ASSUME NEW k \in 1 .. m + 1 PROVE g[k] = restoringYield(g[k - 1], outcomes[k])
    <3>0. k - 1 \in 0 .. m /\ (k # m + 1 => k \in 1 .. m /\ k \in 0 .. m) /\ m + 1 - 1 = m
      OBVIOUS
    <3>1. g[k - 1] = f[k - 1]
      BY <2>3, <3>0
    <3>2. CASE k = m + 1
      <4>1. k - 1 = m
        BY <3>2
      <4>2. g[k - 1] = f[m] /\ g[k] = next
        BY <2>3, <3>1, <3>2, <4>1
      <4>3. QED
        BY <3>2, <4>2
    <3>3. CASE k # m + 1
      <4>1. k \in 1 .. m /\ g[k] = f[k]
        BY <2>3, <3>0, <3>3
      <4>2. QED
        BY <2>1, <3>1, <4>1 DEF Yielding
    <3>4. QED
      BY <3>2, <3>3
  <2>5. g[0] = NothingYielded
    <3>1. 0 \in 0 .. m
      OBVIOUS
    <3>2. QED
      BY <2>1, <2>3, <3>1 DEF Yielding
  <2>6. Yielding(outcomes, m + 1, g)
    BY <2>3, <2>4, <2>5 DEF Yielding
  <2>7. QED
    BY <2>6
<1> HIDE DEF S
<1>4. Nat \subseteq S
  BY <1>2, <1>3, NumberInduction
<1>5. QED
  BY <1>4 DEF S

(* Whatever the outcomes are, the callback and the stack get their states. *)
LEMMA YieldAllIs ==
  ASSUME NEW N, NEW Q, NEW outcomes, Len(outcomes) \in Nat,
         \A k \in 1 .. Len(outcomes) :
           /\ outcomes[k].is_empty \in BOOLEAN
           /\ outcomes[k].is_observable \in BOOLEAN
           /\ outcomes[k].state.error \in BOOLEAN
           /\ Arrives(outcomes[k]) => outcomes[k].state \in N
           /\ Quiet(outcomes[k]) => outcomes[k].state \in Q
  PROVE  YieldOK(YieldAll(outcomes), N, Q)
<1> DEFINE n == Len(outcomes)
           F(f) == [k \in 0 .. n |-> IF k = 0 THEN NothingYielded ELSE restoringYield(f[k - 1], outcomes[k])]
<1>0. YieldAll(outcomes) = (CHOOSE g : g = F(g))[n]
  BY DEF YieldAll
<1>2. PICK f : Yielding(outcomes, n, f)
  BY YieldingExists
<1>3. f = F(f)
  <2>1. f = [k \in 0 .. n |-> f[k]]
    BY <1>2 DEF Yielding
  <2>2. \A k \in 0 .. n : k = 0 \/ k \in 1 .. n
    OBVIOUS
  <2>3. \A k \in 0 .. n : f[k] = IF k = 0 THEN NothingYielded ELSE restoringYield(f[k - 1], outcomes[k])
    BY <1>2, <2>2 DEF Yielding
  <2>4. QED
    BY <2>1, <2>3
<1> DEFINE e == CHOOSE g : g = F(g)
<1>4. YieldAll(outcomes) = e[n]
  BY <1>0
<1>5. e = F(e)
  BY <1>3
<1> HIDE DEF e
<1>6. e[0] = NothingYielded /\ \A k \in 1 .. n : e[k] = restoringYield(e[k - 1], outcomes[k])
  <2>1. 0 \in 0 .. n /\ \A k \in 1 .. n : k \in 0 .. n /\ k # 0
    OBVIOUS
  <2>2. \A k \in 0 .. n : F(e)[k] = IF k = 0 THEN NothingYielded ELSE restoringYield(e[k - 1], outcomes[k])
    OBVIOUS
  <2>3. \A k \in 0 .. n : e[k] = IF k = 0 THEN NothingYielded ELSE restoringYield(e[k - 1], outcomes[k])
    BY <1>5, <2>2
  <2>4. e[0] = NothingYielded
    BY <2>1, <2>3
  <2>5. \A k \in 1 .. n : e[k] = restoringYield(e[k - 1], outcomes[k])
    BY <2>1, <2>3
  <2>6. QED
    BY <2>4, <2>5
<1> HIDE DEF F, n
<1>n. n \in Nat
  BY DEF n
<1> DEFINE S == {k \in Nat : k <= n => YieldOK(e[k], N, Q)}
<1>7. 0 \in S
  <2>1. YieldOK(NothingYielded, N, Q)
    BY DEF YieldOK, NothingYielded
  <2>2. QED
    BY <1>6, <2>1
<1>8. ASSUME NEW k \in Nat, k \in S PROVE k + 1 \in S
  <2>1. ASSUME k + 1 <= n PROVE YieldOK(e[k + 1], N, Q)
    <3>1. k + 1 \in 1 .. n /\ (k + 1) - 1 = k /\ k <= n
      BY <1>n, <2>1
    <3>2. YieldOK(e[k], N, Q) /\ e[k + 1] = restoringYield(e[k], outcomes[k + 1])
      BY <1>6, <1>8, <3>1
    <3> DEFINE o == outcomes[k + 1]
    <3>3. /\ o.is_empty \in BOOLEAN /\ o.is_observable \in BOOLEAN /\ o.state.error \in BOOLEAN
          /\ (Arrives(o) => o.state \in N) /\ (Quiet(o) => o.state \in Q)
      BY <3>1 DEF n
    <3> HIDE DEF o
    <3>4. YieldOK(restoringYield(e[k], o), N, Q)
      BY <3>2, <3>3, RestoringYieldIs
    <3>5. QED
      BY <3>2, <3>4 DEF o
  <2>2. QED
    BY <2>1
<1> HIDE DEF S
<1>9. Nat \subseteq S
  BY <1>7, <1>8, NumberInduction
<1>10. YieldOK(e[n], N, Q)
  BY <1>n, <1>9 DEF S
<1>11. QED
  BY <1>4, <1>10

-----------------------------------------------------------------------------
(* What a program means.                                                   *)

(* f tells the states reached in at most k steps *)
Climbing(code, memory, m, f) ==
  /\ f = [k \in 0 .. m |-> f[k]]
  /\ f[0] = {Start(memory)}
  /\ \A k \in 1 .. m : f[k] = f[k - 1] \cup StepsFrom(code, f[k - 1])

(* There is such a function. *)
LEMMA ClimbingExists ==
  ASSUME NEW code, NEW memory, NEW n \in Nat
  PROVE  \E f : Climbing(code, memory, n, f)
<1> DEFINE S == {m \in Nat : \E f : Climbing(code, memory, m, f)}
<1>2. 0 \in S
  <2>1. Climbing(code, memory, 0, [k \in 0 .. 0 |-> {Start(memory)}])
    BY DEF Climbing
  <2>2. QED
    BY <2>1
<1>3. ASSUME NEW m \in Nat, m \in S PROVE m + 1 \in S
  <2>1. PICK f : Climbing(code, memory, m, f)
    BY <1>3
  <2> DEFINE next == f[m] \cup StepsFrom(code, f[m])
             g == [k \in 0 .. m + 1 |-> IF k = m + 1 THEN next ELSE f[k]]
  <2>3. g = [k \in 0 .. m + 1 |-> g[k]] /\ g[m + 1] = next /\ \A k \in 0 .. m : g[k] = f[k]
    OBVIOUS
  <2> HIDE DEF g
  <2>4. ASSUME NEW k \in 1 .. m + 1 PROVE g[k] = g[k - 1] \cup StepsFrom(code, g[k - 1])
    <3>0. k - 1 \in 0 .. m /\ (k # m + 1 => k \in 1 .. m /\ k \in 0 .. m) /\ m + 1 - 1 = m
      OBVIOUS
    <3>1. g[k - 1] = f[k - 1]
      BY <2>3, <3>0
    <3>2. CASE k = m + 1
      <4>1. k - 1 = m
        BY <3>2
      <4>2. g[k - 1] = f[m] /\ g[k] = next
        BY <2>3, <3>1, <3>2, <4>1
      <4>3. QED
        BY <3>2, <4>2
    <3>3. CASE k # m + 1
      <4>1. k \in 1 .. m /\ g[k] = f[k]
        BY <2>3, <3>0, <3>3
      <4>2. QED
        BY <2>1, <3>1, <4>1 DEF Climbing
    <3>4. QED
      BY <3>2, <3>3
  <2>5. g[0] = {Start(memory)}
    <3>1. 0 \in 0 .. m
      OBVIOUS
    <3>2. QED
      BY <2>1, <2>3, <3>1 DEF Climbing
  <2>6. Climbing(code, memory, m + 1, g)
    BY <2>3, <2>4, <2>5 DEF Climbing
  <2>7. QED
    BY <2>6
<1> HIDE DEF S
<1>4. Nat \subseteq S
  BY <1>2, <1>3, NumberInduction
<1>5. QED
  BY <1>4 DEF S

(* The state a program starts in is among those it reaches. *)
LEMMA StartIsReached ==
  ASSUME NEW code, NEW memory
  PROVE  Start(memory) \in ReachedStates(code, memory)
<1> DEFINE n == MaxSteps
           F(f) == [k \in 0 .. n |-> IF k = 0 THEN {Start(memory)}
                                     ELSE f[k - 1] \cup StepsFrom(code, f[k - 1])]
<1>n. n \in Nat
  BY MaxStepsAssumption
<1>0. ReachedStates(code, memory) = (CHOOSE g : g = F(g))[n]
  BY DEF ReachedStates
<1>2. PICK f : Climbing(code, memory, n, f)
  BY <1>n, ClimbingExists
<1>3. f = F(f)
  <2>1. f = [k \in 0 .. n |-> f[k]]
    BY <1>2 DEF Climbing
  <2>2. \A k \in 0 .. n : k = 0 \/ k \in 1 .. n
    BY <1>n
  <2>3. \A k \in 0 .. n : f[k] = IF k = 0 THEN {Start(memory)} ELSE f[k - 1] \cup StepsFrom(code, f[k - 1])
    BY <1>2, <2>2 DEF Climbing
  <2>4. QED
    BY <2>1, <2>3
<1> DEFINE e == CHOOSE g : g = F(g)
<1>4. ReachedStates(code, memory) = e[n]
  BY <1>0
<1>5. e = F(e)
  BY <1>3
<1> HIDE DEF e
<1>6. e[0] = {Start(memory)} /\ \A k \in 1 .. n : e[k] = e[k - 1] \cup StepsFrom(code, e[k - 1])
  <2>1. 0 \in 0 .. n /\ \A k \in 1 .. n : k \in 0 .. n /\ k # 0
    BY <1>n
  <2>2. \A k \in 0 .. n : F(e)[k] = IF k = 0 THEN {Start(memory)} ELSE e[k - 1] \cup StepsFrom(code, e[k - 1])
    OBVIOUS
  <2>3. \A k \in 0 .. n : e[k] = IF k = 0 THEN {Start(memory)} ELSE e[k - 1] \cup StepsFrom(code, e[k - 1])
    BY <1>5, <2>2
  <2>4. e[0] = {Start(memory)}
    BY <2>1, <2>3
  <2>5. \A k \in 1 .. n : e[k] = e[k - 1] \cup StepsFrom(code, e[k - 1])
    BY <2>1, <2>3
  <2>6. QED
    BY <2>4, <2>5
<1> HIDE DEF F, n
<1> DEFINE S == {k \in Nat : k <= n => Start(memory) \in e[k]}
<1>7. 0 \in S
  BY <1>6
<1>8. ASSUME NEW k \in Nat, k \in S PROVE k + 1 \in S
  <2>1. ASSUME k + 1 <= n PROVE Start(memory) \in e[k + 1]
    <3>1. k + 1 \in 1 .. n /\ (k + 1) - 1 = k /\ k <= n
      BY <1>n, <2>1
    <3>2. Start(memory) \in e[k]
      BY <1>8, <3>1
    <3>3. e[k + 1] = e[k] \cup StepsFrom(code, e[k])
      BY <1>6, <3>1
    <3>4. QED
      BY <3>2, <3>3
  <2>2. QED
    BY <2>1
<1> HIDE DEF S
<1>9. Nat \subseteq S
  BY <1>7, <1>8, NumberInduction
<1>10. Start(memory) \in e[n]
  BY <1>n, <1>9 DEF S
<1>11. QED
  BY <1>4, <1>10
Zero    == [v \in Var |-> 0]

(* the states the program reaches, from zeroes *)
Reached(code) == ReachedStates(code, Zero)

(* What the program means, and what the hypotheses say of it. *)
LEMMA MeaningIs ==
  ASSUME program \in Programs
  PROVE  /\ WellFormed(program)
         /\ Start(Zero) \in Reached(program)
         /\ StepsFrom(program, Reached(program)) \subseteq Reached(program)
         /\ ProgramsAreDisciplined => \A g \in Reached(program) : Disciplined(program, g)
         /\ Verdict.views = {View(g) : g \in Reached(program)}
<1> DEFINE d == [program |-> program, reached |-> Reached(program)]
           V(x) == [program |-> x.program,
                    views   |-> {View(g) : g \in x.reached},
                    finals  |-> {g \in x.reached : DOMAIN g.stack = {} /\ ~ g.err},
                    faulty  |-> \E g \in x.reached : g.err]
<1>1. d \in Meanings
  BY DEF Meanings, Reached, Zero
<1>p. d.program = program /\ d.reached = Reached(program)
  OBVIOUS
<1>2. \A x \in Meanings : x.program = program => x.reached = Reached(program)
  BY DEF Meanings, Reached, Zero
<1>3. Verdicts = {V(x) : x \in Meanings}
  BY DEF Verdicts
<1>4. \A x : V(x).program = x.program /\ V(x).views = {View(g) : g \in x.reached}
  OBVIOUS
<1> HIDE DEF V, d
<1>5. V(d) \in Verdicts /\ V(d).program = program
  BY <1>1, <1>3, <1>4, <1>p
<1>6. Verdict \in Verdicts /\ Verdict.program = program
  BY <1>5 DEF Verdict
<1>7. PICK x \in Meanings : Verdict = V(x)
  BY <1>3, <1>6
<1>8. x.reached = Reached(program)
  BY <1>2, <1>4, <1>6, <1>7
<1>9. Verdict.views = {View(g) : g \in Reached(program)}
  BY <1>4, <1>7, <1>8
<1>10. WellFormed(program)
  BY ProgramsAssumption
<1>11. Start(Zero) \in Reached(program)
  BY StartIsReached DEF Reached
<1>12. StepsFrom(program, Reached(program)) \subseteq Reached(program)
  BY <1>1, <1>p, StepsAssumption
<1>13. ProgramsAreDisciplined => \A g \in Reached(program) : Disciplined(program, g)
  BY <1>1, <1>p DEF ProgramsAreDisciplined
<1>14. QED
  BY <1>9, <1>10, <1>11, <1>12, <1>13

(* The state of initial() follows the start of the interleavings. *)
LEMMA InitialIs ==
  ASSUME NEW code, WellFormed(code)
  PROVE  LET s == InitialState(ZeroMemory)
         IN  /\ StateOK(code, s) /\ s.data = {Zero}
             /\ Follows(code, s, Start(Zero)) /\ Start(Zero).mem = Zero
             /\ Laid(s)
<1> DEFINE s == InitialState(ZeroMemory)
           b == [context |-> << >>, previous_bb |-> << >>, tids |-> << >>, next_free_tid |-> 0,
                 atomic_section |-> << >>, layout |-> << >>,
                 explicitData |-> [x \in Slot |-> 0], data |-> ZeroMemory, error |-> FALSE]
           X == << <<"main", 1>> >>
           g == Start(Zero)
<1>1. DOMAIN b = Fields
  BY DEF Fields
<1>2. /\ b.context = << >> /\ b.previous_bb = << >> /\ b.tids = << >> /\ b.next_free_tid = 0
      /\ b.atomic_section = << >> /\ b.layout = << >> /\ b.explicitData = [x \in Slot |-> 0]
      /\ b.data = ZeroMemory /\ b.error = FALSE
  OBVIOUS
<1>3. s = NewThread(b, "main")
  BY DEF InitialState
<1> HIDE DEF b
<1>4. /\ SameBut(b, s, {"context", "previous_bb", "tids", "next_free_tid", "layout"})
      /\ s.context = Append(<< >>, X) /\ s.previous_bb = Append(<< >>, NoPC)
      /\ s.tids = Append(<< >>, 0) /\ s.next_free_tid = (0 + 1) % TidRange
      /\ s.layout = Append(<< >>, <<"main">>)
  <2> DEFINE fn == "main"
             n == NewThread(b, fn)
  <2>1. s = n /\ X = << <<fn, 1>> >> /\ <<"main">> = <<fn>>
    BY <1>3
  <2> HIDE DEF fn, s, X
  <2>2. /\ SameBut(b, n, {"context", "previous_bb", "tids", "next_free_tid", "layout"})
        /\ n.context = Append(b.context, << <<fn, 1>> >>)
        /\ n.previous_bb = Append(b.previous_bb, NoPC)
        /\ n.tids = Append(b.tids, b.next_free_tid)
        /\ n.next_free_tid = (b.next_free_tid + 1) % TidRange
        /\ n.layout = Append(b.layout, <<fn>>)
    BY <1>1, NewThreadFields
  <2> HIDE DEF n
  <2>3. QED
    BY <1>2, <2>1, <2>2
<1>5. (0 + 1) % TidRange = 1 /\ 1 \in 0 .. TidRange - 1 /\ 0 \in 0 .. TidRange - 1
  BY DEF TidRange
<1>6. /\ DOMAIN s = Fields /\ s.atomic_section = << >> /\ s.explicitData = [x \in Slot |-> 0]
      /\ s.data = ZeroMemory /\ s.error = FALSE
  BY <1>2, <1>4 DEF SameBut
<1> HIDE DEF s
<1>7. "main" \in DOMAIN code
  BY DEF WellFormed
<1>8. /\ ThreadOK(code, X, NoPC) /\ X \in Seq(Positions(code)) /\ Last(X) = <<"main", 1>>
      /\ Instruction(code, <<"main", 1>>).op # "phi"
  BY <1>7, NewFrames
<1> HIDE DEF X
<1>9. Len(<< >>) = 0
  OBVIOUS
<1>10. ThreadsOK(code, << >>, << >>) /\ TidsOK(<< >>, Len(<< >>))
  BY <1>9 DEF ThreadsOK, TidsOK
<1>11. /\ ThreadsOK(code, s.context, s.previous_bb) /\ Len(s.context) = 1
       /\ TidsOK(s.tids, 1)
  <2>1. \A i \in 1 .. Len(<< >>) : << >>[i] < 0
    BY <1>9
  <2>2. /\ ThreadsOK(code, Append(<< >>, X), Append(<< >>, NoPC))
        /\ Len(Append(<< >>, X)) = Len(<< >>) + 1
        /\ TidsOK(Append(<< >>, 0), Len(<< >>) + 1)
    BY <1>5, <1>8, <1>10, <2>1, AddedThreads
  <2>3. QED
    BY <1>4, <1>9, <2>2
<1>12. s.data = {Zero} /\ Zero \in [Var -> Val]
  BY <1>6, ValAssumption DEF ZeroMemory, Zero
<1>13. StateOK(code, s)
  <2>1. StoreOK(s)
    BY <1>5, <1>6, <1>12 DEF StoreOK
  <2>2. SectionOK(<< >>, 1)
    BY <1>9 DEF SectionOK
  <2>3. QED
    BY <1>4, <1>5, <1>6, <1>11, <2>1, <2>2, StateIs
<1>14. Laid(s)
  <2>1. << >> \in Seq(Seq(Positions(code)))
    OBVIOUS
  <2>2. Append(LayoutOf(<< >>), <<"main">>) = LayoutOf(Append(<< >>, X))
    BY <1>7, <1>8, <2>1, LayoutAdded DEF X
  <2>3. LayoutOf(<< >>) = << >>
    BY <1>9 DEF LayoutOf
  <2>4. QED
    BY <1>4, <2>2, <2>3 DEF Laid
<1>15. /\ DOMAIN g = ViewFields
       /\ g.stack = [t \in {0} |-> << <<"main", 1>> >>] /\ g.came = [t \in {0} |-> <<0, Zero>>]
       /\ g.owner = NoThread /\ g.depth = 0 /\ g.slots = [x \in Slot |-> 0] /\ g.mem = Zero
       /\ g.next = 1 /\ g.err = FALSE
  BY DEF Start, ViewFields
<1> HIDE DEF g
<1>16. Agrees(code, s.context, s.previous_bb, s.tids, g.stack, g.came)
  <2> DEFINE f == [x \in {} |-> 0]
             n == 0
  <2>1. Agrees(code, << >>, << >>, << >>, f, f)
    <3>1. DOMAIN f = {} /\ f = [x \in {} |-> f[x]]
      OBVIOUS
    <3> HIDE DEF f
    <3>2. QED
      BY <3>1, NothingAgrees
  <2>2. Adding(f, g.stack, n, X) /\ Adding(f, g.came, n, <<0, Zero>>)
    BY <1>15 DEF Adding, X
  <2>3. \A i \in 1 .. Len(<< >>) : << >>[i] < n
    BY <1>9
  <2>4. NoPC \in Positions(code) \cup {NoPC} /\ n \in 0 .. TidRange - 1
    BY <1>5
  <2>5. Instruction(code, Last(X)).op # "phi"
    BY <1>8
  <2> HIDE DEF n, f
  <2>6. Agrees(code, Append(<< >>, X), Append(<< >>, NoPC), Append(<< >>, n), g.stack, g.came)
    BY <1>8, <1>10, <2>1, <2>2, <2>3, <2>4, <2>5, AddedAgrees
  <2>7. QED
    BY <1>4, <2>6 DEF n
<1>17. \A i \in 1 .. Len(s.context) : s.tids[i] < s.next_free_tid
  <2>1. Append(<< >>, 0)[1] = 0 /\ \A i \in 1 .. 1 : i = 1
    OBVIOUS
  <2>2. QED
    BY <1>4, <1>5, <1>11, <2>1
<1>18. Follows(code, s, g)
  BY <1>4, <1>5, <1>6, <1>9, <1>15, <1>16, <1>17 DEF Follows
<1>19. QED
  BY <1>12, <1>13, <1>14, <1>15, <1>18 DEF s, g

-----------------------------------------------------------------------------
(* One round of the traversal.                                             *)

(* s stands for states the program code reaches *)
Genuine(code, s) ==
  /\ StateOK(code, s)
  /\ s.data # {}
  /\ \A m \in s.data : \E g \in Reached(code) : g.mem = m /\ Follows(code, s, g)
  /\ NoThreadExits => Laid(s)

(* what the proofs need of a program *)
Sane(code) ==
  /\ WellFormed(code)
  /\ StepsFrom(code, Reached(code)) \subseteq Reached(code)
  /\ \A g \in Reached(code) : Disciplined(code, g)
  /\ NoThreadExits => \A f \in DOMAIN code : \A n \in DOMAIN code[f].body : code[f].body[n].op # "pthread_exit"

(* The programs under verification are, when sections are closed. *)
LEMMA ProgramIsSane ==
  ASSUME ProgramsAreDisciplined, program \in Programs
  PROVE  Sane(program)
<1>1. NoThreadExits => \A f \in DOMAIN program : \A n \in DOMAIN program[f].body :
        program[f].body[n].op # "pthread_exit"
  BY DEF NoThreadExits
<1>2. QED
  BY <1>1, MeaningIs DEF Sane

(* A thread that may move is ready to, on both sides. *)
LEMMA GenuineIsReady ==
  ASSUME NEW code, Sane(code), NEW s, Genuine(code, s), s.error = FALSE, NEW tid, May(s, tid)
  PROVE  /\ Ready(code, s, tid)
         /\ \E g : Follows(code, s, g)
         /\ \A g \in Reached(code) : Follows(code, s, g) => s.tids[tid] \in Runnable(g)
<1>1. WellFormed(code) /\ StateOK(code, s)
  BY DEF Sane, Genuine
<1>2. ASSUME NEW g \in Reached(code), Follows(code, s, g)
      PROVE  Ready(code, s, tid) /\ s.tids[tid] \in Runnable(g)
  <2>1. Disciplined(code, g)
    BY DEF Sane
  <2>2. QED
    BY <1>1, <1>2, <2>1, DisciplineIsReady
<1>3. \E g \in Reached(code) : Follows(code, s, g)
  BY DEF Genuine
<1>4. QED
  BY <1>2, <1>3

(* An outcome that is not empty is as genuine as the state it comes from. *)
LEMMA GenuineStep ==
  ASSUME NEW code, Sane(code), NEW s, Genuine(code, s), s.error = FALSE, NEW tid, May(s, tid),
         NEW o, Good(code, s, tid, o), o.is_empty = FALSE
  PROVE  Genuine(code, o.state)
<1> DEFINE r == o.state
           t == s.tids[tid]
<1>1. Ready(code, s, tid) /\ \A g \in Reached(code) : Follows(code, s, g) => t \in Runnable(g)
  BY GenuineIsReady
<1>2. o.is_empty = (r.data = {}) /\ StateOK(code, r) /\ Backed(code, s, tid, r)
      /\ (Current(code, s, tid).op # "pthread_exit" /\ Laid(s) => Laid(r))
  BY DEF Good
<1> HIDE DEF r
<1>3. r.data # {}
  BY <1>2
<1>4. ASSUME NEW m \in r.data PROVE \E g \in Reached(code) : g.mem = m /\ Follows(code, r, g)
  <2>1. PICK m0 \in s.data : \A g : Stands(code, s, tid, g) /\ g.mem = m0 =>
           \E h \in StepsOf(code, g, t) \cup {g} : h.mem = m /\ (h.next < TidRange => Follows(code, r, h))
    BY <1>2, <1>4 DEF Backed
  <2>2. PICK g \in Reached(code) : g.mem = m0 /\ Follows(code, s, g)
    BY <2>1 DEF Genuine
  <2>r. t \in Runnable(g)
    BY <1>1, <2>2
  <2>s. Stands(code, s, tid, g)
    BY <2>2, <2>r DEF Stands, Sane, Disciplined
  <2>3. PICK h \in StepsOf(code, g, t) \cup {g} : h.mem = m /\ (h.next < TidRange => Follows(code, r, h))
    BY <2>1, <2>2, <2>s
  <2>4. h \in Reached(code)
    <3>1. StepsOf(code, g, t) \subseteq StepsFrom(code, Reached(code))
      BY <2>2, <2>r DEF StepsFrom
    <3>2. QED
      BY <2>2, <2>3, <3>1 DEF Sane
  <2>5. h.next < TidRange
    BY <2>4 DEF Sane, Disciplined
  <2>6. QED
    BY <2>3, <2>4, <2>5
<1>5. ASSUME NoThreadExits PROVE Laid(r)
  <2>1. Laid(s)
    BY <1>5 DEF Genuine
  <2>2. GetPC(s, tid) \in Positions(code) /\ Current(code, s, tid) = Instruction(code, GetPC(s, tid))
    BY <1>1, ReadyFacts
  <2>3. GetPC(s, tid)[1] \in DOMAIN code /\ GetPC(s, tid)[2] \in DOMAIN code[GetPC(s, tid)[1]].body
    BY <2>2, PositionIs
  <2>4. Current(code, s, tid).op # "pthread_exit"
    BY <1>5, <2>2, <2>3 DEF Sane, Instruction
  <2>5. QED
    BY <1>2, <2>1, <2>4
<1>6. QED
  BY <1>2, <1>3, <1>4, <1>5 DEF Genuine, r

(* the threads that may move in s may move in r *)
Turns(s, r) == \A j : May(s, j) => May(r, j)

(* One round of the traversal: what is yielded is genuine, and what goes onto
   the stack, or is left behind, keeps the turns of the threads. *)
LEMMA RoundIs ==
  ASSUME NEW code, Sane(code), NEW s, Genuine(code, s), NEW tid, May(s, tid)
  PROVE  LET outcomes == Outcomes(code, s, tid)
             left     == IF outcomes = << >> THEN LeftBehind(code, s, tid) ELSE s
         IN  /\ Genuine(code, left) /\ Turns(s, left)
             /\ \E N, Q : /\ YieldOK(YieldAll(outcomes), N, Q)
                          /\ \A r \in N : Genuine(code, r)
                          /\ \A r \in Q : Genuine(code, r) /\ Turns(s, r)
<1> DEFINE outcomes == Outcomes(code, s, tid)
           left == IF outcomes = << >> THEN LeftBehind(code, s, tid) ELSE s
           N == {outcomes[k].state : k \in {k \in 1 .. Len(outcomes) : Arrives(outcomes[k])}}
           Q == {outcomes[k].state : k \in {k \in 1 .. Len(outcomes) : Quiet(outcomes[k])}}
<1>1. s.error \in BOOLEAN
  <2>1. StoreOK(s)
    BY StateIs DEF Genuine
  <2>2. QED
    BY <2>1 DEF StoreOK
<1>t. Turns(s, s)
  BY DEF Turns
<1>2. CASE s.error = TRUE
  <2>1. outcomes = << >> /\ Len(<< >>) = 0
    BY <1>2 DEF Outcomes
  <2>2. LeftBehind(code, s, tid) = s
    BY <1>2 DEF LeftBehind
  <2>3. left = s
    BY <2>2
  <2>4. YieldOK(YieldAll(<< >>), {}, {})
    BY <2>1, YieldAllIs
  <2> HIDE DEF left, outcomes
  <2>5. YieldOK(YieldAll(outcomes), {}, {})
    BY <2>1, <2>4
  <2>6. QED
    BY <1>t, <2>3, <2>5 DEF left, outcomes
<1>3. CASE s.error = FALSE
  <2>1. Ready(code, s, tid) /\ \E g : Follows(code, s, g)
    BY <1>3, GenuineIsReady
  <2>2. /\ AllGood(code, s, tid)
        /\ outcomes = << >> =>
              /\ Good(code, s, tid, Outcome(LeftBehind(code, s, tid), FALSE))
              /\ LeftBehind(code, s, tid).data = s.data /\ LeftBehind(code, s, tid).error = FALSE
    BY <2>1, OutcomesAreGood
  <2>3. Flagged(outcomes)
    BY <2>1, OutcomesAreFlagged
  <2> HIDE DEF outcomes
  <2>4. Len(outcomes) \in Nat /\ \A k \in 1 .. Len(outcomes) : Good(code, s, tid, outcomes[k])
    BY <2>2 DEF AllGood, outcomes
  <2>5. \A k \in 1 .. Len(outcomes) : Arrives(outcomes[k]) => Genuine(code, outcomes[k].state)
    BY <1>3, <2>4, GenuineStep DEF Arrives
  <2>6. \A k \in 1 .. Len(outcomes) : Quiet(outcomes[k]) =>
           Genuine(code, outcomes[k].state) /\ Turns(s, outcomes[k].state)
    <3>1. \A k \in 1 .. Len(outcomes) : Quiet(outcomes[k]) => Turns(s, outcomes[k].state)
      BY <2>4 DEF Quiet, Good, Turns
    <3>2. \A k \in 1 .. Len(outcomes) : Quiet(outcomes[k]) => Arrives(outcomes[k])
      BY DEF Quiet, Arrives
    <3>3. QED
      BY <2>5, <3>1, <3>2
  <2>7. \A k \in 1 .. Len(outcomes) :
           /\ outcomes[k].is_empty \in BOOLEAN
           /\ outcomes[k].is_observable \in BOOLEAN
           /\ outcomes[k].state.error \in BOOLEAN
           /\ Arrives(outcomes[k]) => outcomes[k].state \in N
           /\ Quiet(outcomes[k]) => outcomes[k].state \in Q
    <3>1. SUFFICES ASSUME NEW k \in 1 .. Len(outcomes)
                   PROVE  /\ outcomes[k].is_empty \in BOOLEAN
                          /\ outcomes[k].is_observable \in BOOLEAN
                          /\ outcomes[k].state.error \in BOOLEAN
      OBVIOUS
    <3> DEFINE o == outcomes[k]
    <3>2. Good(code, s, tid, o)
      BY <2>4
    <3>3. o.is_observable \in BOOLEAN
      BY <2>3 DEF Flagged
    <3> HIDE DEF o
    <3>4. o.is_empty \in BOOLEAN /\ StateOK(code, o.state)
      BY <3>2 DEF Good
    <3>5. StoreOK(o.state)
      BY <3>4, StateIs
    <3>6. o.state.error \in BOOLEAN
      BY <3>5 DEF StoreOK
    <3>7. QED
      BY <3>3, <3>4, <3>6 DEF o
  <2>8. (\A r \in N : Genuine(code, r)) /\ \A r \in Q : Genuine(code, r) /\ Turns(s, r)
    BY <2>5, <2>6
  <2> HIDE DEF N, Q
  <2>9. YieldOK(YieldAll(outcomes), N, Q)
    BY <2>4, <2>7, YieldAllIs
  <2>10. Genuine(code, left) /\ Turns(s, left)
    <3>1. CASE outcomes = << >>
      <4> DEFINE b == LeftBehind(code, s, tid)
                 o == Outcome(b, FALSE)
      <4>1. o.state = b /\ o.is_observable = FALSE /\ o.is_empty = (b.data = {})
        <5> HIDE DEF b
        <5>1. QED
          BY DEF Outcome
      <4>2. Good(code, s, tid, o) /\ b.data = s.data /\ b.error = FALSE
        BY <2>2, <3>1
      <4>3. s.data # {} /\ left = b
        BY <3>1 DEF Genuine
      <4> HIDE DEF o, b, left
      <4>4. o.is_empty = FALSE
        BY <4>1, <4>2, <4>3
      <4>5. Genuine(code, b)
        BY <1>3, <4>1, <4>2, <4>4, GenuineStep
      <4>6. Turns(s, b)
        BY <4>1, <4>2 DEF Good, Turns
      <4>7. QED
        BY <4>3, <4>5, <4>6
    <3>2. CASE outcomes # << >>
      <4>1. left = s
        BY <3>2
      <4>2. QED
        BY <1>t, <4>1
    <3>3. QED
      BY <3>1, <3>2
  <2>11. QED
    BY <2>8, <2>9, <2>10 DEF outcomes
<1>4. QED
  BY <1>1, <1>2, <1>3

-----------------------------------------------------------------------------
(* The invariant.                                                          *)

(* The inductive invariant.  The variables have their types; ... *)
Shape ==
  /\ program \in Programs
  /\ pc \in {"loop", "threads", "traverse", "end"}
  /\ error_found \in BOOLEAN
  /\ queue \in Seq(knowns)
  /\ allowed \in Seq(Nat)
  /\ \E T : to_do \in Seq(T)

(* ... all states around stand for states the program reaches, ... *)
AllGenuine ==
  /\ \A s \in knowns \cup {state} : Genuine(program, s)
  /\ \A n \in 1 .. Len(to_do) : Genuine(program, to_do[n])

(* the threads advance has still to traverse may move in s *)
MayAll(s) == \A k \in 1 .. Len(allowed) : May(s, allowed[k])

(* ... and the thread that is traversed may move in every state on the stack,
   the threads still to come in every state there and in the current one. *)
TurnsKept ==
  /\ pc \in {"threads", "traverse"} => MayAll(state)
  /\ pc = "traverse" => \A n \in 1 .. Len(to_do) : May(to_do[n], thread) /\ MayAll(to_do[n])

(* All parts of the invariant. *)
Sound == Shape /\ AllGenuine /\ TurnsKept

(* It holds at first. *)
LEMMA SoundInit == ProgramsAreDisciplined /\ Init => Sound
<1> SUFFICES ASSUME ProgramsAreDisciplined, Init PROVE Sound
  OBVIOUS
<1>1. /\ program \in Programs /\ state = InitialState(ZeroMemory) /\ knowns = {state}
      /\ queue = <<state>> /\ pc = "loop" /\ allowed = << >> /\ to_do = << >> /\ error_found = FALSE
  BY DEF Init
<1>2. Sane(program)
  BY <1>1, ProgramIsSane
<1>3. Genuine(program, state)
  <2>1. WellFormed(program) /\ Start(Zero) \in Reached(program)
    BY <1>1, MeaningIs
  <2> DEFINE s == InitialState(ZeroMemory)
             g == Start(Zero)
  <2>2. /\ StateOK(program, s) /\ s.data = {Zero}
        /\ Follows(program, s, g) /\ g.mem = Zero
        /\ Laid(s)
    BY <2>1, InitialIs
  <2> HIDE DEF s, g
  <2>3. Genuine(program, s)
    BY <2>1, <2>2 DEF Genuine, g
  <2>4. QED
    BY <1>1, <2>3 DEF s
<1>4. Len(<< >>) = 0
  OBVIOUS
<1>5. Shape
  <2>1. <<state>> \in Seq({state}) /\ << >> \in Seq({}) /\ << >> \in Seq(Nat)
    OBVIOUS
  <2>2. QED
    BY <1>1, <2>1 DEF Shape
<1>6. QED
  BY <1>1, <1>3, <1>4, <1>5 DEF Sound, AllGenuine, TurnsKept

(* The threads that are allowed may move. *)
LEMMA AllowedIs ==
  ASSUME NEW code, NEW s, StateOK(code, s)
  PROVE  /\ GetAllowedThreads(s) \in Seq(Nat)
         /\ \A k \in 1 .. Len(GetAllowedThreads(s)) : May(s, GetAllowedThreads(s)[k])
<1> DEFINE n == Len(s.context)
           a == s.atomic_section
           A == [i \in 1 .. n |-> i]
<1>1. ThreadsOK(code, s.context, s.previous_bb) /\ SectionOK(a, n)
  BY StateIs
<1>2. n \in Nat
  <2> DEFINE c == s.context
             SP == Seq(Positions(code))
  <2>1. c \in Seq(SP)
    BY <1>1 DEF ThreadsOK
  <2> HIDE DEF SP, c
  <2>2. Len(c) \in Nat
    BY <2>1
  <2>3. QED
    BY <2>2 DEF c
<1>3. CASE a = << >>
  <2>1. GetAllowedThreads(s) = A
    BY <1>3 DEF GetAllowedThreads, ThreadCount
  <2> HIDE DEF n, a
  <2>2. A \in [1 .. n -> Nat] /\ \A k \in 1 .. n : A[k] = k
    BY <1>2
  <2> HIDE DEF A
  <2>3. A \in Seq(Nat) /\ Len(A) = n
    BY <1>2, <2>2, FunctionAsSequence
  <2>4. \A k \in 1 .. n : May(s, A[k])
    BY <1>3, <2>2 DEF May, a, n
  <2>5. QED
    BY <2>1, <2>3, <2>4
<1>4. CASE a # << >>
  <2> DEFINE l == Last(a)
  <2>1. GetAllowedThreads(s) = <<l>>
    BY <1>4 DEF GetAllowedThreads
  <2>2. l \in 1 .. n
    <3> HIDE DEF a, n
    <3>1. QED
      BY <1>1, <1>2, <1>4, SectionIs
  <2>3. May(s, l)
    BY <2>2 DEF May
  <2> HIDE DEF l
  <2>4. l \in Nat
    BY <1>2, <2>2
  <2>5. <<l>> \in Seq(Nat) /\ Len(<<l>>) = 1 /\ <<l>>[1] = l /\ \A k \in 1 .. 1 : k = 1
    BY <2>4
  <2>6. QED
    BY <2>1, <2>3, <2>5
<1>5. QED
  BY <1>3, <1>4

(* Reading a state keeps it. *)
LEMMA SoundReadState == ASSUME Sound, ReadState PROVE Sound'
<1>1. /\ queue # << >> /\ state' = Head(queue) /\ queue' = Tail(queue)
      /\ allowed' = GetAllowedThreads(state') /\ pc' = "threads"
      /\ program' = program /\ knowns' = knowns /\ to_do' = to_do /\ error_found' = error_found
  BY DEF ReadState
<1>2. queue \in Seq(knowns)
  BY DEF Sound, Shape
<1>3. Head(queue) \in knowns /\ Tail(queue) \in Seq(knowns)
  BY <1>1, <1>2, FirstAndRest
<1>4. Genuine(program, state')
  BY <1>1, <1>3 DEF Sound, AllGenuine
<1>5. allowed' \in Seq(Nat) /\ \A k \in 1 .. Len(allowed') : May(state', allowed'[k])
  BY <1>1, <1>4, AllowedIs DEF Genuine
<1>6. Shape'
  BY <1>1, <1>3, <1>5 DEF Sound, Shape
<1>7. AllGenuine'
  BY <1>1, <1>4 DEF Sound, AllGenuine
<1>8. TurnsKept'
  BY <1>1, <1>5 DEF TurnsKept, MayAll
<1>9. QED
  BY <1>6, <1>7, <1>8 DEF Sound

(* Starting the traversal of a thread keeps it. *)
LEMMA SoundStart == ASSUME Sound, StartThreadTraversal PROVE Sound'
<1>1. /\ pc = "threads" /\ allowed # << >> /\ thread' = Head(allowed) /\ allowed' = Tail(allowed)
      /\ to_do' = <<state>> /\ pc' = "traverse"
      /\ program' = program /\ knowns' = knowns /\ queue' = queue /\ state' = state /\ error_found' = error_found
  BY DEF StartThreadTraversal
<1>2. allowed \in Seq(Nat) /\ \A k \in 1 .. Len(allowed) : May(state, allowed[k])
  BY <1>1 DEF Sound, Shape, TurnsKept, MayAll
<1>3. /\ thread' = allowed[1] /\ 1 \in 1 .. Len(allowed) /\ allowed' \in Seq(Nat)
      /\ Len(allowed') = Len(allowed) - 1
      /\ \A k \in 1 .. Len(allowed) - 1 : allowed'[k] = allowed[k + 1] /\ k + 1 \in 1 .. Len(allowed)
  BY <1>1, <1>2, FirstAndRest
<1>4. May(state, thread') /\ \A k \in 1 .. Len(allowed') : May(state, allowed'[k])
  BY <1>2, <1>3
<1>5. Len(<<state>>) = 1 /\ <<state>>[1] = state /\ (\A k \in 1 .. 1 : k = 1) /\ <<state>> \in Seq({state})
  OBVIOUS
<1>6. Shape'
  BY <1>1, <1>3, <1>5 DEF Sound, Shape
<1>7. AllGenuine'
  BY <1>1, <1>5 DEF Sound, AllGenuine
<1>8. TurnsKept'
  BY <1>1, <1>4, <1>5 DEF TurnsKept, MayAll
<1>9. QED
  BY <1>6, <1>7, <1>8 DEF Sound

(* Executing an instruction keeps it. *)
LEMMA SoundExecute == ASSUME ProgramsAreDisciplined, Sound, Execute PROVE Sound'
<1> DEFINE s == Last(to_do)
           outcomes == Outcomes(program, s, thread)
           got == YieldAll(outcomes)
           left == IF outcomes = << >> THEN LeftBehind(program, s, thread) ELSE s
<1>1. /\ pc = "traverse" /\ to_do # << >>
      /\ knowns' = knowns \cup ToSet(got.new) /\ queue' = queue \o got.new
      /\ error_found' = (error_found \/ got.error)
      /\ to_do' = Front(to_do) \o got.pushed
      /\ state' = left
      /\ program' = program /\ pc' = pc /\ allowed' = allowed /\ thread' = thread
  BY DEF Execute
<1>2. PICK T : to_do \in Seq(T)
  BY DEF Sound, Shape
<1>3. /\ Len(to_do) \in Nat \ {0} /\ s = to_do[Len(to_do)]
      /\ Front(to_do) \in Seq(T) /\ Len(Front(to_do)) = Len(to_do) - 1
      /\ \A k \in 1 .. Len(to_do) - 1 : Front(to_do)[k] = to_do[k]
  BY <1>1, <1>2, FrontAndLast
<1>4. Len(to_do) \in 1 .. Len(to_do) /\ \A k \in 1 .. Len(to_do) - 1 : k \in 1 .. Len(to_do)
  BY <1>3
<1>5. Genuine(program, s) /\ May(s, thread) /\ \A k \in 1 .. Len(allowed) : May(s, allowed[k])
  BY <1>1, <1>3, <1>4 DEF Sound, AllGenuine, TurnsKept, MayAll
<1>6. Sane(program)
  BY ProgramIsSane DEF Sound, Shape
<1> HIDE DEF s
<1>7. /\ Genuine(program, left) /\ Turns(s, left)
      /\ \E N, Q : /\ YieldOK(got, N, Q)
                   /\ \A r \in N : Genuine(program, r)
                   /\ \A r \in Q : Genuine(program, r) /\ Turns(s, r)
  BY <1>5, <1>6, RoundIs
<1> HIDE DEF got, left
<1>8. PICK N, Q : /\ YieldOK(got, N, Q)
                  /\ \A r \in N : Genuine(program, r)
                  /\ \A r \in Q : Genuine(program, r) /\ Turns(s, r)
  BY <1>7
<1>9. got.new \in Seq(N) /\ got.pushed \in Seq(Q) /\ got.error \in BOOLEAN
  BY <1>8 DEF YieldOK
<1>10. ToSet(got.new) \subseteq N /\ queue' \in Seq(knowns')
  <2> DEFINE q == queue
             x == got.new
             K == knowns \cup ToSet(x)
  <2>1. q \in Seq(knowns) /\ x \in Seq(N)
    BY <1>9 DEF Sound, Shape
  <2> HIDE DEF q, x
  <2>2. ToSet(x) = {x[k] : k \in 1 .. Len(x)} /\ ToSet(x) \subseteq N
    BY <2>1, SetOfSequence
  <2> HIDE DEF K
  <2>3. q \in Seq(K)
    <3>1. knowns \subseteq K
      BY DEF K
    <3>2. QED
      BY <2>1, <3>1
  <2>4. x \in Seq(K)
    <3>1. \A k \in 1 .. Len(x) : x[k] \in K
      BY <2>2 DEF K
    <3>2. QED
      BY <2>1, <3>1
  <2>5. q \o x \in Seq(K)
    BY <2>3, <2>4, Joining
  <2>6. QED
    BY <1>1, <2>2, <2>5 DEF q, x, K
<1>11. /\ \E U : to_do' \in Seq(U)
       /\ \A n \in 1 .. Len(to_do') :
            \/ \E k \in 1 .. Len(to_do) : to_do'[n] = to_do[k]
            \/ to_do'[n] \in Q
  <2> DEFINE f == Front(to_do)
             x == got.pushed
             U == T \cup Q
  <2>1. f \in Seq(T) /\ x \in Seq(Q)
    BY <1>3, <1>9
  <2>2. /\ Len(f) = Len(to_do) - 1 /\ (\A k \in 1 .. Len(to_do) - 1 : f[k] = to_do[k])
    BY <1>3
  <2> HIDE DEF f, x
  <2>3. T \subseteq U /\ Q \subseteq U
    OBVIOUS
  <2> HIDE DEF U
  <2>4. f \in Seq(U) /\ x \in Seq(U) /\ \A k \in 1 .. Len(x) : x[k] \in Q
    BY <2>1, <2>3
  <2>5. /\ f \o x \in Seq(U)
        /\ Len(f \o x) = Len(f) + Len(x)
        /\ \A k \in 1 .. Len(f) : (f \o x)[k] = f[k]
        /\ \A k \in 1 .. Len(f) + Len(x) : k \in 1 .. Len(f) \/ (k - Len(f) \in 1 .. Len(x) /\ (f \o x)[k] = x[k - Len(f)])
    BY <2>4, Joining
  <2>6. to_do' = f \o x
    BY <1>1 DEF f, x
  <2>7. ASSUME NEW n \in 1 .. Len(to_do')
        PROVE  \/ \E k \in 1 .. Len(to_do) : to_do'[n] = to_do[k]
               \/ to_do'[n] \in Q
    <3>1. n \in 1 .. Len(f) \/ (n - Len(f) \in 1 .. Len(x) /\ (f \o x)[n] = x[n - Len(f)])
      BY <2>5, <2>6
    <3>2. CASE n \in 1 .. Len(f)
      <4>1. n \in 1 .. Len(to_do) - 1
        BY <2>2, <3>2
      <4>2. to_do'[n] = to_do[n] /\ n \in 1 .. Len(to_do)
        BY <1>4, <2>2, <2>5, <2>6, <3>2, <4>1
      <4>3. QED
        BY <4>2
    <3>3. CASE n - Len(f) \in 1 .. Len(x) /\ (f \o x)[n] = x[n - Len(f)]
      BY <2>4, <2>6, <3>3
    <3>4. QED
      BY <3>1, <3>2, <3>3
  <2>8. QED
    BY <2>5, <2>6, <2>7
<1>12. Shape'
  <2>1. error_found' \in BOOLEAN
    BY <1>1, <1>9
  <2>2. QED
    BY <1>1, <1>10, <1>11, <2>1 DEF Sound, Shape
<1>13. AllGenuine'
  <2>1. \A x \in knowns' \cup {state'} : Genuine(program, x)
    BY <1>1, <1>7, <1>8, <1>10 DEF Sound, AllGenuine
  <2>2. \A n \in 1 .. Len(to_do') : Genuine(program, to_do'[n])
    BY <1>8, <1>11 DEF Sound, AllGenuine
  <2>3. QED
    BY <1>1, <2>1, <2>2 DEF AllGenuine
<1>14. TurnsKept'
  <2>1. \A k \in 1 .. Len(allowed) : May(state', allowed[k])
    BY <1>1, <1>5, <1>7 DEF Turns
  <2>2. ASSUME NEW n \in 1 .. Len(to_do')
        PROVE  May(to_do'[n], thread) /\ \A k \in 1 .. Len(allowed) : May(to_do'[n], allowed[k])
    <3>1. CASE \E k \in 1 .. Len(to_do) : to_do'[n] = to_do[k]
      BY <1>1, <3>1 DEF Sound, TurnsKept, MayAll
    <3>2. CASE to_do'[n] \in Q
      BY <1>5, <1>8, <3>2 DEF Turns
    <3>3. QED
      BY <1>11, <3>1, <3>2
  <2>3. QED
    BY <1>1, <2>1, <2>2 DEF TurnsKept, MayAll
<1>15. QED
  BY <1>12, <1>13, <1>14 DEF Sound

(* Every step keeps it. *)
LEMMA SoundNext == ProgramsAreDisciplined /\ Sound /\ [Next]_vars => Sound'
<1> SUFFICES ASSUME ProgramsAreDisciplined, Sound, [Next]_vars PROVE Sound'
  OBVIOUS
<1> USE DEF Sound, Shape, AllGenuine, TurnsKept, MayAll
<1>1. CASE ReadState
  BY <1>1, SoundReadState
<1>2. CASE StartThreadTraversal
  BY <1>2, SoundStart
<1>3. CASE Execute
  BY <1>3, SoundExecute
<1>4. CASE EndThreadTraversal
  BY <1>4 DEF EndThreadTraversal
<1>5. CASE EndAdvance
  BY <1>5 DEF EndAdvance
<1>6. CASE Finish
  BY <1>6 DEF Finish
<1>7. CASE UNCHANGED vars
  BY <1>7 DEF vars
<1>8. QED
  BY <1>1, <1>2, <1>3, <1>4, <1>5, <1>6, <1>7 DEF Next

-----------------------------------------------------------------------------
(* What follows from it.                                                   *)

(* The view of a state under a valuation is the view of what it follows. *)
LEMMA ViewsAgree ==
  ASSUME NEW code, NEW s, StateOK(code, s), NEW g, Follows(code, s, g)
  PROVE  View(g) = ViewOf(s, g.mem)
<1> DEFINE n == Len(s.context)
           t == s.tids
           a == s.atomic_section
           D == {t[i] : i \in DOMAIN t}
<1>1. ThreadsOK(code, s.context, s.previous_bb) /\ TidsOK(t, n) /\ SectionOK(a, n)
  BY StateIs
<1>2. n \in Nat
  <2> DEFINE c == s.context
             SP == Seq(Positions(code))
  <2>1. c \in Seq(SP)
    BY <1>1 DEF ThreadsOK
  <2> HIDE DEF SP, c
  <2>2. Len(c) \in Nat
    BY <2>1
  <2>3. QED
    BY <2>2 DEF c
<1>3. DOMAIN t = 1 .. n /\ D = Named(t) /\ \A i, j \in 1 .. n : t[i] = t[j] => i = j
  <2> HIDE DEF t, n
  <2> DEFINE R == 0 .. TidRange - 1
  <2>1. t \in Seq(R) /\ Len(t) = n /\ \A i, j \in 1 .. n : t[i] = t[j] => i = j
    BY <1>1 DEF TidsOK
  <2> HIDE DEF R
  <2>2. DOMAIN t = 1 .. n
    BY <2>1
  <2>3. QED
    BY <2>1, <2>2 DEF Named, D
<1>4. /\ g.stack = [x \in D |-> g.stack[x]]
      /\ \A i \in 1 .. n : g.stack[t[i]] = s.context[i]
  BY <1>3 DEF Follows, Agrees
<1>5. ASSUME NEW x \in D
      PROVE  g.stack[x] = s.context[CHOOSE i \in DOMAIN t : t[i] = x]
  <2> HIDE DEF n, t
  <2>1. \E i \in DOMAIN t : t[i] = x
    BY DEF D
  <2>2. PICK i \in DOMAIN t : i = CHOOSE k \in DOMAIN t : t[k] = x
    BY <2>1
  <2>3. t[i] = x
    BY <2>1, <2>2
  <2>4. QED
    BY <1>3, <1>4, <2>2, <2>3
<1>6. g.stack = [x \in D |-> s.context[CHOOSE i \in DOMAIN t : t[i] = x]]
  <2> DEFINE S == g.stack
             c(x) == s.context[CHOOSE i \in DOMAIN t : t[i] = x]
  <2>1. S = [x \in D |-> S[x]] /\ \A x \in D : S[x] = c(x)
    BY <1>4, <1>5
  <2> HIDE DEF S, c, D
  <2>2. S = [x \in D |-> c(x)]
    BY <2>1
  <2>3. QED
    BY <2>2 DEF S, c
<1>7. a # << >> => a[1] = Last(a)
  <2> HIDE DEF a, n
  <2>1. QED
    BY <1>1, <1>2, SectionIs
<1>8. g.owner = IF a = << >> THEN NoThread ELSE t[Last(a)]
  BY <1>7 DEF Follows
<1>9. g.depth = Len(a) /\ g.slots = s.explicitData /\ g.err = s.error
  BY DEF Follows
<1>10. ViewOf(s, g.mem) =
         [stack |-> g.stack, owner |-> g.owner, depth |-> g.depth,
          slots |-> g.slots, mem |-> g.mem, err |-> g.err]
  BY <1>6, <1>8, <1>9 DEF ViewOf
<1>11. QED
  BY <1>10 DEF View

(* So all that is stored is reached. *)
LEMMA SoundViews ==
  ASSUME ProgramsAreDisciplined, Sound
  PROVE  KnownsAreReached
<1>1. \A s \in knowns : Genuine(program, s)
  BY DEF Sound, AllGenuine
<1>2. Verdict.views = {View(g) : g \in Reached(program)}
  BY MeaningIs DEF Sound, Shape
<1>3. ASSUME NEW s \in knowns, NEW m \in s.data
      PROVE  ViewOf(s, m) \in Verdict.views
  <2>1. PICK g \in Reached(program) : g.mem = m /\ Follows(program, s, g)
    BY <1>1 DEF Genuine
  <2>2. View(g) = ViewOf(s, g.mem)
    BY <1>1, <2>1, ViewsAgree DEF Genuine
  <2>3. QED
    BY <1>2, <2>1, <2>2
<1>4. QED
  BY <1>3 DEF KnownsAreReached

(* All states are in order. *)
LEMMA SoundTypes ==
  ASSUME Sound
  PROVE  TypeOK
<1>1. queue \in Seq(knowns) /\ \E T : to_do \in Seq(T)
  BY DEF Sound, Shape
<1>2. ToSet(queue) \subseteq knowns
  BY <1>1, SetOfSequence
<1>3. ToSet(to_do) = {to_do[n] : n \in 1 .. Len(to_do)}
  BY <1>1, SetOfSequence
<1>4. \A s \in knowns \cup ToSet(queue) \cup ToSet(to_do) \cup {state} : Genuine(program, s)
  BY <1>2, <1>3 DEF Sound, AllGenuine
<1>5. \A s \in knowns \cup ToSet(queue) \cup ToSet(to_do) \cup {state} : StateOK(program, s)
  BY <1>4 DEF Genuine
<1>6. QED
  BY <1>5 DEF Sound, Shape, TypeOK

(* What Laid says, in the words of LayoutMatchesControl. *)
LEMMA LaidIs ==
  ASSUME NEW code, NEW s, StateOK(code, s), Laid(s), s.context # << >>
  PROVE  s.layout = [i \in DOMAIN s.context |-> [k \in DOMAIN s.context[i] |-> s.context[i][k][1]]]
<1> DEFINE c == s.context
           P == Positions(code)
           SP == Seq(P)
<1>1. c \in Seq(SP)
  BY StateIs DEF ThreadsOK
<1>2. s.layout = [i \in 1 .. Len(c) |-> [k \in 1 .. Len(c[i]) |-> c[i][k][1]]]
  BY DEF Laid, LayoutOf
<1> HIDE DEF c, P
<1>3. \A x \in SP : DOMAIN x = 1 .. Len(x)
  OBVIOUS
<1> HIDE DEF SP
<1>4. DOMAIN c = 1 .. Len(c) /\ \A i \in DOMAIN c : DOMAIN c[i] = 1 .. Len(c[i])
  BY <1>1, <1>3
<1>5. s.layout = [i \in DOMAIN c |-> [k \in DOMAIN c[i] |-> c[i][k][1]]]
  BY <1>2, <1>4
<1>6. QED
  BY <1>5 DEF c

(* Layout and control agree. *)
LEMMA SoundLayout ==
  ASSUME NoThreadExits, Sound
  PROVE  LayoutMatchesControl
<1>1. \A s \in knowns : StateOK(program, s) /\ Laid(s)
  BY DEF Sound, AllGenuine, Genuine
<1>2. QED
  BY <1>1, LaidIs DEF LayoutMatchesControl

(* The asserts hold where a thread is ready. *)
LEMMA ReadyAsserts ==
  ASSUME NEW code, NEW s, NEW tid, Ready(code, s, tid), Laid(s)
  PROVE  AssertsHold(code, s, tid)
<1> DEFINE n == Len(s.context)
           c == s.context
           a == s.atomic_section
           at == GetPC(s, tid)
           i == Current(code, s, tid)
<1>1. /\ tid \in 1 .. n /\ n \in Nat /\ ThreadsOK(code, c, s.previous_bb) /\ SectionOK(a, n)
      /\ ThreadOK(code, c[tid], s.previous_bb[tid]) /\ at \in Positions(code)
  BY ReadyFacts
<1>2. May(s, tid) /\ (Leaving(code, s, tid) => a # << >>)
  BY DEF Ready
<1>3. tid <= n /\ c # << >>
  <2> HIDE DEF c
  <2>1. c \in Seq(Seq(Positions(code))) /\ Len(c) = n
    BY <1>1 DEF ThreadsOK, c
  <2> HIDE DEF n
  <2>2. tid <= n /\ n # 0
    BY <1>1
  <2>3. Len(<< >>) = 0
    OBVIOUS
  <2>4. QED
    BY <2>1, <2>2, <2>3
<1>4. c[tid] # << >>
  BY <1>1 DEF ThreadOK, FramesOK
<1>5. at[2] \in DOMAIN code[at[1]].body
  BY <1>1, PositionIs
<1>6. a = << >> \/ Last(a) = tid
  BY <1>2 DEF May
<1>7. Len(s.layout) = n
  <2>1. c \in Seq(Seq(Positions(code))) /\ s.layout = LayoutOf(c)
    BY <1>1, <1>3 DEF ThreadsOK, Laid
  <2>2. QED
    BY <2>1, LayoutIs
<1>8. MayEnterAtomicSection(s, tid)
  BY <1>6 DEF MayEnterAtomicSection
<1>9. Leaving(code, s, tid) => MayLeaveAtomicSection(s, tid)
  BY <1>2, <1>6 DEF MayLeaveAtomicSection
<1>10. i.op = "atomic_end" \/ (i.op = "ret" /\ code[at[1]].atomic) => MayLeaveAtomicSection(s, tid)
  BY <1>9 DEF Leaving
<1> HIDE DEF i, at, c
<1>11. QED
  BY <1>3, <1>4, <1>5, <1>7, <1>8, <1>10 DEF AssertsHold, ThreadCount, i, at, c

(* So they hold whenever an instruction is executed. *)
LEMMA SoundAsserts ==
  ASSUME ProgramsAreDisciplined, NoThreadExits, Sound
  PROVE  NoAssertFails
<1> SUFFICES ASSUME pc = "traverse", to_do # << >>
             PROVE  AssertsHold(program, Last(to_do), thread)
  BY DEF NoAssertFails
<1> DEFINE s == Last(to_do)
<1>1. PICK T : to_do \in Seq(T)
  BY DEF Sound, Shape
<1>2. Len(to_do) \in 1 .. Len(to_do) /\ s = to_do[Len(to_do)]
  <2>1. Len(to_do) \in Nat \ {0} /\ s = to_do[Len(to_do)]
    BY <1>1, FrontAndLast
  <2>2. QED
    BY <2>1
<1> HIDE DEF s
<1>3. Genuine(program, s) /\ May(s, thread)
  BY <1>2 DEF Sound, AllGenuine, TurnsKept
<1>4. Sane(program)
  BY ProgramIsSane DEF Sound, Shape
<1>5. Laid(s) /\ s.error \in BOOLEAN
  BY <1>3, StateIs DEF Genuine, StoreOK
<1>6. CASE s.error = TRUE
  BY <1>6 DEF AssertsHold, s
<1>7. CASE s.error = FALSE
  <2>1. Ready(program, s, thread)
    BY <1>3, <1>4, <1>7, GenuineIsReady
  <2>2. QED
    BY <1>5, <2>1, ReadyAsserts DEF s
<1>8. QED
  BY <1>5, <1>6, <1>7

-----------------------------------------------------------------------------
(* The theorems.                                                           *)

(* The invariant of the exploration holds in every state, for every program
   whose atomic sections are closed. *)
THEOREM ExplorationStaysSound == ProgramsAreDisciplined => (Spec => []Sound)
<1> SUFFICES ASSUME ProgramsAreDisciplined PROVE Spec => []Sound
  OBVIOUS
<1>1. Init => Sound
  BY SoundInit
<1>2. Sound /\ [Next]_vars => Sound'
  BY SoundNext
<1>3. QED
  BY <1>1, <1>2, PTL DEF Spec

(* Every stored state stands for states that some interleaving of the
   program's threads reaches: advance invents nothing, whatever invisible steps
   it skips, for every program whose atomic sections are closed. *)
THEOREM StoredIsReached == ProgramsAreDisciplined => (Spec => []KnownsAreReached)
<1> SUFFICES ASSUME ProgramsAreDisciplined PROVE Spec => []KnownsAreReached
  OBVIOUS
<1>1. Sound => KnownsAreReached
  BY SoundViews
<1>2. QED
  BY <1>1, ExplorationStaysSound, PTL

(* Control and MemoryLayout name the same threads with the same frames, in
   every stored state, as long as no program calls pthread_exit. *)
THEOREM LayoutFollowsControl == ProgramsAreDisciplined /\ NoThreadExits => (Spec => []LayoutMatchesControl)
<1> SUFFICES ASSUME ProgramsAreDisciplined, NoThreadExits PROVE Spec => []LayoutMatchesControl
  OBVIOUS
<1>1. Sound => LayoutMatchesControl
  BY SoundLayout
<1>2. QED
  BY <1>1, ExplorationStaysSound, PTL

(* No assert of Control or of MemoryLayout fails: threads exist when they are
   advanced and own the sections they leave, for every program whose atomic
   sections are closed and that does not call pthread_exit. *)
THEOREM NoAssertCanFail == ProgramsAreDisciplined /\ NoThreadExits => (Spec => []NoAssertFails)
<1> SUFFICES ASSUME ProgramsAreDisciplined, NoThreadExits PROVE Spec => []NoAssertFails
  OBVIOUS
<1>1. Sound => NoAssertFails
  BY SoundAsserts
<1>2. QED
  BY <1>1, ExplorationStaysSound, PTL

(* Every state the exploration handles is in order, for every program whose
   atomic sections are closed. *)
THEOREM TypeCorrect == ProgramsAreDisciplined => (Spec => []TypeOK)
<1>1. Sound => TypeOK
  BY SoundTypes
<1>2. QED
  BY <1>1, ExplorationStaysSound, PTL
=============================================================================
