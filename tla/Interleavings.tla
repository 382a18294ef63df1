---------------------------- MODULE Interleavings ----------------------------
(***************************************************************************)
(* What a program under verification means, written without the            *)
(* evaluator: threads are named by their identifiers, memory has one       *)
(* valuation, a thread that must wait does not move, and any thread may    *)
(* move at any time unless another one is in an atomic section.  As LLVM   *)
(* demands, the PHI nodes of a block all read what was there when control  *)
(* left the block before.  The exploration of Exploration.tla is judged by *)
(* the states reached here.                                                *)
(***************************************************************************)
EXTENDS Evaluator

CONSTANT MaxSteps   \* bound: no program of the runs makes more steps to a state

ASSUME MaxStepsAssumption == MaxSteps \in Nat

NoThread == TidRange   \* no thread has this identifier

(* stack: the call stacks of the live threads; came: where each thread last
   jumped from, and the memory at that jump; owner, depth: who is in the
   atomic section and how deep *)
Start(memory) ==
  [stack |-> [t \in {0} |-> << <<"main", 1>> >>], came |-> [t \in {0} |-> <<0, memory>>],
   owner |-> NoThread, depth |-> 0, slots |-> [x \in Slot |-> 0], mem |-> memory,
   next |-> 1, err |-> FALSE]

Runnable(g) == IF g.err THEN {}
               ELSE {t \in DOMAIN g.stack : g.owner \in {NoThread, t}}

Here(g, t)      == Last(g.stack[t])
GoTo(g, t, n)   == [g EXCEPT !.stack[t] = Append(Front(@), <<Here(g, t)[1], n>>)]
GoOn(g, t)      == GoTo(g, t, Here(g, t)[2] + 1)
Jump(g, t, n)   == [GoTo(g, t, n) EXCEPT !.came[t] = <<Here(g, t)[2], g.mem>>]
Assign(g, moves) ==
  [g EXCEPT !.mem = [v \in Var |-> IF v \in DOMAIN moves THEN Read(g.mem, moves[v]) ELSE @[v]]]

Enter(g, t) == [g EXCEPT !.owner = t, !.depth = @ + 1]
Exited(g)   == [g EXCEPT !.depth = @ - 1, !.owner = IF g.depth = 1 THEN NoThread ELSE @]

Without(f, T) == [x \in DOMAIN f \ T |-> f[x]]
Ended(g, T)   == [g EXCEPT !.stack = Without(@, T), !.came = Without(@, T)]

Spawn(g, i) ==
  [Assign(g, i.moves) EXCEPT
     !.stack = [x \in DOMAIN @ \cup {g.next} |->
                  IF x = g.next THEN << <<i.function, 1>> >> ELSE @[x]],
     !.came  = [x \in DOMAIN @ \cup {g.next} |-> IF x = g.next THEN <<0, g.mem>> ELSE @[x]],
     !.slots[i.slot] = g.next,
     !.next  = @ + 1]

Call(code, g, t, i) ==
  LET called == [Assign(GoOn(g, t), i.moves) EXCEPT !.stack[t] = Append(@, <<i.function, 1>>)]
  IN  IF code[i.function].atomic THEN Enter(called, t) ELSE called

Return(code, g, t, i) ==
  LET left == IF code[Here(g, t)[1]].atomic THEN Exited(g) ELSE g
  IN  IF Len(g.stack[t]) = 1 THEN Ended(left, {t})
      ELSE [Assign(left, i.moves) EXCEPT !.stack[t] = Front(@)]

SwitchTarget(g, i) ==
  IF \E k \in DOMAIN i.cases : Read(g.mem, i.cond) = i.cases[k].value
  THEN i.cases[CHOOSE k \in DOMAIN i.cases : Read(g.mem, i.cond) = i.cases[k].value].target
  ELSE i.default

(* the operand of PHI node i for the block t came by, and its value then *)
Incoming(g, t, i)  == i.incoming[g.came[t][1]]
AtTheJump(g, t, i) == Read(g.came[t][2], Incoming(g, t, i))

(* the states one step of thread t leads to *)
StepsOf(code, g, t) ==
  LET i    == Instruction(code, Here(g, t))
      on   == GoOn(g, t)
      holds == Read(g.mem, i.cond) # 0
  IN  CASE i.op \in {"local", "load", "store"} -> {Assign(on, i.moves)}
        [] i.op = "phi"    -> {Assign(on, [v \in {i.to} |-> AtTheJump(g, t, i)])}
        [] i.op = "input"  -> {[on EXCEPT !.mem[i.to] = n] : n \in Val}
        [] i.op = "icmp"   -> {Assign(on, [v \in {i.to} |->
                                   IF Read(g.mem, i.a) = Read(g.mem, i.b) THEN 1 ELSE 0])}
        [] i.op = "jump"   -> {Jump(g, t, i.target)}
        [] i.op = "br"     -> {Jump(g, t, IF holds THEN i.on_true ELSE i.on_false)}
        [] i.op = "switch" -> {Jump(g, t, SwitchTarget(g, i))}
        [] i.op \in {"ignored", "ldv_"} -> {on}
        [] i.op = "assume" -> IF holds THEN {on} ELSE {}
        [] i.op = "assert" -> {IF holds THEN on ELSE [g EXCEPT !.err = TRUE]}
        [] i.op = "error"  -> {[on EXCEPT !.err = TRUE]}
        [] i.op = "create" -> {Spawn(on, i)}
        [] i.op = "join"   -> IF g.slots[i.slot] \in DOMAIN g.stack THEN {} ELSE {on}
        [] i.op = "lock"   -> IF g.slots[i.slot] # 0 THEN {} ELSE {[on EXCEPT !.slots[i.slot] = 1]}
        [] i.op = "unlock" -> {[on EXCEPT !.slots[i.slot] = 0]}
        [] i.op = "atomic_begin" -> {Enter(on, t)}
        [] i.op = "atomic_end"   -> {Exited(on)}
        [] i.op = "call"   -> {Call(code, g, t, i)}
        [] i.op = "ret"    -> {Return(code, g, t, i)}
        [] i.op = "pthread_exit" -> {Ended(on, {t})}
        [] i.op = "exit"   -> {[Ended(on, DOMAIN on.stack) EXCEPT !.owner = NoThread, !.depth = 0]}

StepsFrom(code, G) == UNION {UNION {StepsOf(code, g, t) : t \in Runnable(g)} : g \in G}

(* the states reached in at most MaxSteps steps *)
ReachedStates(code, memory) ==
  LET reached[n \in 0 .. MaxSteps] ==
        IF n = 0 THEN {Start(memory)}
        ELSE LET before == reached[n - 1] IN before \cup StepsFrom(code, before)
  IN  reached[MaxSteps]

(* what both sides know of a state: all but the jump a thread came by *)
View(g) == [stack |-> g.stack, owner |-> g.owner, depth |-> g.depth,
            slots |-> g.slots, mem |-> g.mem, err |-> g.err]

(* the view of a state of the evaluator under one of its valuations *)
ViewOf(s, m) ==
  [stack |-> [t \in {s.tids[i] : i \in DOMAIN s.tids} |->
                s.context[CHOOSE i \in DOMAIN s.tids : s.tids[i] = t]],
   owner |-> IF s.atomic_section = << >> THEN NoThread ELSE s.tids[Last(s.atomic_section)],
   depth |-> Len(s.atomic_section),
   slots |-> s.explicitData, mem |-> m, err |-> s.error]
=============================================================================
