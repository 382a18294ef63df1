----------------------------- MODULE Exploration -----------------------------
(***************************************************************************)
(* The reachability command down to single instructions: the loop of       *)
(* src/src/llvmsym/reachability.tpp reads a state, Evaluator::advance      *)
(* traverses the steps each allowed thread can make up to its next         *)
(* observable ones, and the states it yields are stored and queued.        *)
(*                                                                         *)
(* The database is the set of states met so far, as an exact solver under  *)
(* the equality of symbolic parts keeps it; Reachability.tla has the real  *)
(* one, with programs as bare edges.                                       *)
(***************************************************************************)
EXTENDS Interleavings

CONSTANTS
  Programs,  \* the programs under verification: functions from names to bodies
  Shared     \* the variables several threads can reach

ASSUME SharedAssumption == Shared \subseteq Var

(***************************************************************************)
(* What every well-formed LLVM module satisfies (the rules of LLVM's own   *)
(* verifier): operands exist, a block ends with a terminator and jumps     *)
(* stay in the function, a switch has no case twice, and PHI nodes stand   *)
(* in front of their block, with a value for each block that leads there.  *)
(***************************************************************************)
Terminators == {"jump", "br", "switch", "ret"}
Operations  == Terminators \cup
  {"local", "load", "store", "phi", "input", "icmp", "ignored", "ldv_", "assume", "assert",
   "error", "create", "join", "lock", "unlock", "atomic_begin", "atomic_end", "call",
   "pthread_exit", "exit"}

Targets(i) ==
  CASE i.op = "jump"   -> {i.target}
    [] i.op = "br"     -> {i.on_true, i.on_false}
    [] i.op = "switch" -> {i.cases[k].target : k \in DOMAIN i.cases} \cup {i.default}
    [] i.op \notin {"jump", "br", "switch"} -> {}

OperandsExist(code, i) ==
  /\ i.op \in {"local", "load", "store", "create", "call", "ret"} =>
       \A v \in DOMAIN i.moves : i.moves[v] \in Var \cup Val
  /\ i.op = "phi" => \A n \in DOMAIN i.incoming : i.incoming[n] \in Var \cup Val
  /\ i.op = "input" => i.to \in Var
  /\ i.op \in {"create", "call"} => i.function \in DOMAIN code
  /\ i.op \in {"create", "join", "lock", "unlock"} => i.slot \in Slot
  /\ i.op = "switch" =>
       /\ i.cases \in Seq(ToSet(i.cases))
       /\ \A k \in DOMAIN i.cases : i.cases[k].value \in Val
       /\ \A k, l \in DOMAIN i.cases : i.cases[k].value = i.cases[l].value => k = l

PhiInFront(body, n) == body[n].op = "phi" =>
  /\ n > 1
  /\ \/ body[n - 1].op \in Terminators
     \/ body[n - 1].op = "phi" /\ DOMAIN body[n - 1].incoming = DOMAIN body[n].incoming
  /\ \A k \in DOMAIN body : n \in Targets(body[k]) => k \in DOMAIN body[n].incoming

WellFormedBody(code, body) ==
  /\ body \in Seq(ToSet(body)) /\ body # << >>
  /\ body[Len(body)].op \in Terminators
  /\ \A n \in DOMAIN body :
       /\ body[n].op \in Operations
       /\ OperandsExist(code, body[n])
       /\ Targets(body[n]) \subseteq DOMAIN body
       /\ PhiInFront(body, n)

WellFormed(code) ==
  /\ "main" \in DOMAIN code
  /\ \A f \in DOMAIN code : code[f].atomic \in BOOLEAN /\ WellFormedBody(code, code[f].body)

ASSUME ProgramsAssumption == \A p \in Programs : WellFormed(p)

VARIABLES
  program,     \* the program being verified
  knowns,      \* the states stored
  queue,       \* reachability's to_do: states still to be advanced
  pc,          \* "loop", "threads" between threads, "traverse" inside, "end"
  state,       \* the evaluator's current state
  allowed,     \* the threads advance has still to traverse
  thread,      \* the thread being traversed
  to_do,       \* the stack of the traversal
  error_found

vars == <<program, knowns, queue, pc, state, allowed, thread, to_do, error_found>>

ZeroMemory == {[v \in Var |-> 0]}

Init ==
  /\ program \in Programs
  /\ state = InitialState(ZeroMemory)
  /\ knowns = {state}
  /\ queue = <<state>>
  /\ pc = "loop"
  /\ allowed = << >>
  /\ thread = 0
  /\ to_do = << >>
  /\ error_found = FALSE

(* take a state from the queue and start to advance it *)
ReadState ==
  /\ pc = "loop"
  /\ queue # << >>
  /\ ~ error_found
  /\ state' = Head(queue)
  /\ queue' = Tail(queue)
  /\ allowed' = GetAllowedThreads(state')
  /\ pc' = "threads"
  /\ UNCHANGED <<program, knowns, thread, to_do, error_found>>

(* the traversal of the next thread starts from whatever state is current *)
StartThreadTraversal ==
  /\ pc = "threads"
  /\ allowed # << >>
  /\ thread' = Head(allowed)
  /\ allowed' = Tail(allowed)
  /\ to_do' = <<state>>
  /\ pc' = "traverse"
  /\ UNCHANGED <<program, knowns, queue, state, error_found>>

(* variant: a state is old when one with the same control is known *)
InsertNewControl(q, s) ==
  IF \E t \in knowns \cup ToSet(q) : t.context = s.context /\ t.error = s.error
  THEN q ELSE Append(q, s)

(* insertCheck: new states are stored and queued in the order of the yields *)
InsertNew(q, s) == IF s \in knowns \/ s \in ToSet(q) THEN q ELSE Append(q, s)

(* restoringYield: an outcome without valuations is dropped, an observable
   or an error one goes to the callback, any other onto the stack *)
NothingYielded == [new |-> << >>, pushed |-> << >>, error |-> FALSE]
restoringYield(got, o) ==
  CASE o.is_empty -> got
    [] ~ o.is_empty /\ (o.is_observable \/ o.state.error) ->
         [got EXCEPT !.new = InsertNew(@, o.state), !.error = @ \/ o.state.error]
    [] ~ o.is_empty /\ ~ (o.is_observable \/ o.state.error) ->
         [got EXCEPT !.pushed = Append(@, o.state)]

YieldAll(outcomes) ==
  LET after[k \in 0 .. Len(outcomes)] ==
        IF k = 0 THEN NothingYielded ELSE restoringYield(after[k - 1], outcomes[k])
  IN  after[Len(outcomes)]

(***************************************************************************)
(* One round of the traversal: the state on top is executed, and restored  *)
(* after each outcome; an instruction without outcomes leaves its changes  *)
(* behind.                                                                 *)
(***************************************************************************)
Execute ==
  /\ pc = "traverse"
  /\ to_do # << >>
  /\ AssertsHold(program, Last(to_do), thread)
  /\ LET outcomes == Outcomes(program, Last(to_do), thread)
         got      == YieldAll(outcomes)
     IN  /\ knowns' = knowns \cup ToSet(got.new)
         /\ queue' = queue \o got.new
         /\ error_found' = (error_found \/ got.error)
         /\ to_do' = Front(to_do) \o got.pushed
         /\ state' = IF outcomes = << >> THEN LeftBehind(program, Last(to_do), thread)
                     ELSE Last(to_do)
  /\ UNCHANGED <<program, pc, allowed, thread>>

EndThreadTraversal ==
  /\ pc = "traverse"
  /\ to_do = << >>
  /\ pc' = "threads"
  /\ UNCHANGED <<program, knowns, queue, state, allowed, thread, to_do, error_found>>

(* advance returns *)
EndAdvance ==
  /\ pc = "threads"
  /\ allowed = << >>
  /\ pc' = "loop"
  /\ UNCHANGED <<program, knowns, queue, state, allowed, thread, to_do, error_found>>

(* the loop ends; "Safe." is printed unless an error was found *)
Finish ==
  /\ pc = "loop"
  /\ queue = << >> \/ error_found
  /\ pc' = "end"
  /\ UNCHANGED <<program, knowns, queue, state, allowed, thread, to_do, error_found>>

Next ==
  \/ ReadState
  \/ StartThreadTraversal
  \/ Execute
  \/ EndThreadTraversal
  \/ EndAdvance
  \/ Finish

Spec == Init /\ [][Next]_vars
FairSpec == Spec /\ WF_vars(Next)

-----------------------------------------------------------------------------
(* where control may be *)
Positions(code) == UNION {{f} \X DOMAIN code[f].body : f \in DOMAIN code}

(* a call stack: every frame but the last one is behind a call *)
FramesOK(code, frames) ==
  /\ frames # << >>
  /\ \A k \in 1 .. Len(frames) - 1 :
       frames[k][2] > 1 /\ code[frames[k][1]].body[frames[k][2] - 1].op = "call"

(* a PHI node finds the block control came from among those it knows *)
CameByEdge(code, at, from) ==
  Instruction(code, at).op = "phi" => from[2] \in DOMAIN Instruction(code, at).incoming

StateOK(code, s) ==
  /\ DOMAIN s = {"context", "previous_bb", "tids", "next_free_tid", "atomic_section", "layout",
                 "explicitData", "data", "error"}
  /\ s.context \in Seq(Seq(Positions(code)))
  /\ s.previous_bb \in Seq(Positions(code) \cup {NoPC}) /\ Len(s.previous_bb) = Len(s.context)
  /\ s.tids \in Seq(0 .. TidRange - 1) /\ Len(s.tids) = Len(s.context)
  /\ \A i, j \in DOMAIN s.tids : s.tids[i] = s.tids[j] => i = j
  /\ \A i \in DOMAIN s.context :
       /\ FramesOK(code, s.context[i])
       /\ CameByEdge(code, GetPC(s, i), s.previous_bb[i])
  /\ s.next_free_tid \in 0 .. TidRange - 1
  /\ s.atomic_section \in Seq(DOMAIN s.context)
  /\ \A k, l \in DOMAIN s.atomic_section : s.atomic_section[k] = s.atomic_section[l]
  /\ s.explicitData \in [Slot -> 0 .. TidRange - 1]
  /\ s.data \subseteq [Var -> Val]
  /\ s.error \in BOOLEAN

(***************************************************************************)
(* The vectors of every state are in step: one context, block and          *)
(* identifier for each thread, no identifier twice, no thread without      *)
(* frames, one thread in the atomic section (thread.h:26-43).  Control is  *)
(* at an instruction, and a PHI node is met by an edge it has a value for. *)
(***************************************************************************)
TypeOK ==
  /\ program \in Programs
  /\ pc \in {"loop", "threads", "traverse", "end"}
  /\ \A s \in knowns \cup ToSet(queue) \cup ToSet(to_do) \cup {state} : StateOK(program, s)
  /\ error_found \in BOOLEAN

(* No assert of Control or MemoryLayout fails: the thread that is advanced *)
(* exists, has an instruction to execute, and owns the atomic section it   *)
(* enters or leaves (thread.h:88-157, evaluator.h:170-181).                *)
NoAssertFails ==
  pc = "traverse" /\ to_do # << >> => AssertsHold(program, Last(to_do), thread)

(* Control and MemoryLayout agree on the threads and on their frames: the  *)
(* i-th thread of one is the i-th thread of the other.                     *)
LayoutMatchesControl ==
  \A s \in knowns : s.context # << >> =>
    s.layout = [i \in DOMAIN s.context |-> [k \in DOMAIN s.context[i] |-> s.context[i][k][1]]]

(* what the program means: the states its interleavings reach *)
Meanings == {[program |-> p, reached |-> ReachedStates(p, [v \in Var |-> 0])] : p \in Programs}

(* MaxSteps is large enough: no program goes further *)
ASSUME StepsAssumption == \A d \in Meanings : StepsFrom(d.program, d.reached) \subseteq d.reached

(***************************************************************************)
(* What Control has no assert for: a thread that ends is in no atomic      *)
(* section, and fewer than 2^16 threads are started.  What it has one for: *)
(* a section is left by the thread that is in it.  And what do_phi relies  *)
(* on, which executes the PHI nodes of a block one after another: none     *)
(* reads what one before it in the block has just written.                 *)
(***************************************************************************)
LeavesSection(code, g, t) ==
  LET i == Instruction(code, Here(g, t))
  IN  i.op = "atomic_end" \/ (i.op = "ret" /\ code[Here(g, t)[1]].atomic)

EndsThread(code, g, t) ==
  LET i == Instruction(code, Here(g, t))
  IN  i.op \in {"exit", "pthread_exit"} \/ (i.op = "ret" /\ Len(g.stack[t]) = 1)

PhiMayWait(code, g, t) ==
  LET i == Instruction(code, Here(g, t))
  IN  i.op = "phi" => AtTheJump(g, t, i) = Read(g.mem, Incoming(g, t, i))

Disciplined(code, g) ==
  /\ g.next < TidRange
  /\ \A t \in Runnable(g) :
       /\ LeavesSection(code, g, t) => g.owner = t
       /\ EndsThread(code, g, t) => g.depth = IF LeavesSection(code, g, t) THEN 1 ELSE 0
       /\ PhiMayWait(code, g, t)

ProgramsAreDisciplined == \A d \in Meanings : \A g \in d.reached : Disciplined(d.program, g)

(* pthread_exit leaves the thread's frames in the layout *)
NoThreadExits == \A p \in Programs : \A f \in DOMAIN p : \A n \in DOMAIN p[f].body :
  p[f].body[n].op # "pthread_exit"

Verdicts ==
  {[program |-> d.program,
    views   |-> {View(g) : g \in d.reached},
    finals  |-> {g \in d.reached : DOMAIN g.stack = {} /\ ~ g.err},
    faulty  |-> \E g \in d.reached : g.err] : d \in Meanings}
Verdict == CHOOSE d \in Verdicts : d.program = program

(* Every stored state stands for states some interleaving of the program's *)
(* threads reaches, whatever invisible steps of other threads it skipped.  *)
KnownsAreReached ==
  LET views == Verdict.views
  IN  \A s \in knowns : \A m \in s.data : ViewOf(s, m) \in views

(* "Safe." is printed only if no interleaving violates an assertion.       *)
SafeIsSound == pc = "end" /\ ~ error_found => ~ Verdict.faulty

(* After "Safe." every outcome of the program is known: whatever the       *)
(* shared variables may hold when all threads have ended, some stored      *)
(* state has it.                                                           *)
FinalsAreCovered ==
  pc = "end" /\ ~ error_found =>
    \A g \in Verdict.finals : \E s \in knowns :
      /\ s.context = << >>
      /\ \E m \in s.data : \A v \in Shared : m[v] = g.mem[v]

(* The command comes to an end: advance never follows invisible steps for  *)
(* ever, and the states of a program are finitely many.                    *)
Termination == <>(pc = "end")
=============================================================================
