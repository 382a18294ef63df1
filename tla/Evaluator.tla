------------------------------ MODULE Evaluator ------------------------------
(***************************************************************************)
(* The interpreter of LLVM instructions (src/src/llvmsym/evaluator.h).     *)
(* Executing the instruction a thread is at gives a sequence of outcomes,  *)
(* one for each call of yield, each with the state at the call and whether *)
(* it is observable and empty.  Between two yields the state is restored.  *)
(*                                                                         *)
(* A state is a record: the vectors of Control; layout, the functions      *)
(* whose frames MemoryLayout keeps for each thread; explicitData, the      *)
(* mutexes and thread handles; data, the valuations of the program's       *)
(* variables, as a set; error, the property.  A variable is one location   *)
(* of memory; how frames and segments lay it out is left out, so a         *)
(* function runs in one thread at a time here.                             *)
(*                                                                         *)
(* code maps each function to [atomic, body]: is_atomic_function, and its  *)
(* instructions, records with a field op.  An operand is a variable or a   *)
(* value.  moves maps variables to the operands stored in them.            *)
(***************************************************************************)
EXTENDS Control, FiniteSets

CONSTANTS
  Var,    \* the locations of memory, registers included
  Val,    \* what they hold
  Slot    \* the explicit locations: mutexes and thread handles

ASSUME ValAssumption == {0, 1} \subseteq Val /\ Var \cap Val = {}

Instruction(code, at) == code[at[1]].body[at[2]]
Current(code, s, tid) == Instruction(code, GetPC(s, tid))

(* deref: the operand's value under a valuation *)
Read(m, operand) == IF operand \in Var THEN m[operand] ELSE operand

(* implement_store for every variable of moves at once *)
Store(s, moves) ==
  [s EXCEPT !.data =
     {[v \in Var |-> IF v \in DOMAIN moves THEN Read(m, moves[v]) ELSE m[v]] : m \in @}]

(* prune with ICmp_Op EQ, and NE: the valuations that satisfy the condition.
   A state is a set of valuations here, so each operator is both the filter of
   the explicit store and the condition pushed onto the symbolic one. *)
PruneEQ(s, a, b) == [s EXCEPT !.data = {m \in @ : Read(m, a) = Read(m, b)}]
PruneNE(s, a, b) == [s EXCEPT !.data = {m \in @ : Read(m, a) # Read(m, b)}]

AmILonelyThread(s) == ThreadCount(s) = 1

(* a call of yield: the empty flag is what empty() answers *)
Outcome(s, is_observable) ==
  [state |-> s, is_observable |-> is_observable, is_empty |-> s.data = {}]

-----------------------------------------------------------------------------
(* the evaluator's enterFunction, leave and startThread: Control and layout *)
PushFrame(s, function, tid) ==
  [EnterFunction(s, function, tid) EXCEPT !.layout[tid] = Append(@, function)]

DropFrame(layout, tid) ==
  IF Len(layout[tid]) = 1 THEN RemoveAt(layout, tid)
  ELSE [layout EXCEPT ![tid] = Front(@)]

(* variant: the frames of a thread that ends stay in the layout *)
PopFrameOfControl(s, tid) ==
  IF LastFrame(s, tid) THEN Leave(s, tid)
  ELSE [Leave(s, tid) EXCEPT !.layout = DropFrame(@, tid)]

PopFrame(s, tid) == [Leave(s, tid) EXCEPT !.layout = DropFrame(@, tid)]

NewThread(s, function) ==
  [StartThread(s, function) EXCEPT !.layout = Append(@, <<function>>)]

-----------------------------------------------------------------------------
(* arithmetic, casts, pointers, select: data moves between registers *)
DoLocal(s, i, tid) == <<Outcome(AdvancePC(Store(s, i.moves), tid), FALSE)>>

(* variant: only stores are observable *)
DoLoadHidden(s, i, tid) ==
  <<Outcome(AdvancePC(Store(s, i.moves), tid), i.op = "store")>>

(* do_load and do_store, observable even for a lonely thread *)
DoLoadStore(s, i, tid) ==
  <<Outcome(AdvancePC(Store(s, i.moves), tid), TRUE)>>

(* do_phi: the operand that belongs to the block control came from *)
DoPhi(s, i, tid) ==
  <<Outcome(AdvancePC(Store(s, [v \in {i.to} |-> i.incoming[s.previous_bb[tid][2]]]), tid),
            FALSE)>>

(* implement_input: the variable may have any value *)
DoInput(s, i, tid) ==
  <<Outcome([AdvancePC(s, tid) EXCEPT
               !.data = {[m EXCEPT ![i.to] = n] : m \in s.data, n \in Val}], FALSE)>>

(* do_icmp with EQ: the result is 1 in the first outcome, 0 in the second *)
DoIcmp(s, snapshot, i, tid) ==
  <<Outcome(AdvancePC(Store(PruneEQ(s, i.a, i.b), [v \in {i.to} |-> 1]), tid), FALSE),
    Outcome(AdvancePC(Store(PruneNE(snapshot, i.a, i.b), [v \in {i.to} |-> 0]), tid), FALSE)>>

(* jumpTo, and what is yielded after it: a jump to a block whose address is
   not above the present one's is observable *)
Branch(code, s, i, tid, target) ==
  LET to == <<GetPC(s, tid)[1], target>>
  IN  Outcome(JumpTo(s, to, tid, Instruction(code, to).op = "phi"), target \in i.backward)

DoBreak(code, s, snapshot, i, tid) ==
  IF i.op = "jump" THEN <<Branch(code, s, i, tid, i.target)>>
  ELSE <<Branch(code, PruneEQ(s, i.cond, 1), i, tid, i.on_true),
         Branch(code, PruneEQ(snapshot, i.cond, 0), i, tid, i.on_false)>>

(* one outcome for each case, and the default for the other values *)
DoSwitch(code, s, snapshot, i, tid) ==
  [k \in 1 .. Len(i.cases) |->
     Branch(code, PruneEQ(IF k = 1 THEN s ELSE snapshot, i.cond, i.cases[k].value),
            i, tid, i.cases[k].target)]
  \o <<Branch(code,
              [snapshot EXCEPT !.data = {m \in @ : \A k \in 1 .. Len(i.cases) :
                                                     Read(m, i.cond) # i.cases[k].value}],
              i, tid, i.default)>>

(* do_return: the caller's location gets the returned value, if there is a
   caller, before the frame is dropped *)
DoReturn(code, s, i, tid) ==
  LET left == IF code[GetPC(s, tid)[1]].atomic THEN LeaveAtomicSection(s, tid) ELSE s
  IN  <<Outcome(PopFrame(IF LastFrame(s, tid) THEN left ELSE Store(left, i.moves), tid), TRUE)>>

-----------------------------------------------------------------------------
(* do_call of a function with a body: the arguments are read, the frame is
   pushed, the parameters get them.  Control has moved past the call. *)
CallDefined(code, s, i, tid) ==
  LET atomic  == code[i.function].atomic
      entered == IF atomic THEN EnterAtomicSection(s, tid) ELSE s
  IN  <<Outcome(PushFrame(Store(entered, i.moves), i.function, tid), atomic)>>

(* do_pthread_create: the handle gets the new thread's identifier *)
PthreadCreate(s, i) ==
  LET started == NewThread(s, i.function)
  IN  <<Outcome([Store(started, i.moves) EXCEPT !.explicitData[i.slot] = Last(started.tids)],
                TRUE)>>

(* stay is the state with control back at the call *)
PthreadJoin(s, stay, i) ==
  <<Outcome(IF HasTid(s, s.explicitData[i.slot]) THEN stay ELSE s, ~ AmILonelyThread(s))>>

(* variant: the lock is taken whether it is free or not *)
LockAlways(s, stay, i) ==
  <<Outcome([s EXCEPT !.explicitData[i.slot] = 1], ~ AmILonelyThread(s))>>

(* variant: taking a lock is an invisible step *)
LockHidden(s, stay, i) ==
  <<Outcome(IF s.explicitData[i.slot] # 0 THEN stay
            ELSE [s EXCEPT !.explicitData[i.slot] = 1], FALSE)>>

(* pthread_mutex_lock: a thread that finds the mutex taken stays at the call *)
MutexLock(s, stay, i) ==
  <<Outcome(IF s.explicitData[i.slot] # 0 THEN stay
            ELSE [s EXCEPT !.explicitData[i.slot] = 1], ~ AmILonelyThread(s))>>

MutexUnlock(s, i) == <<Outcome([s EXCEPT !.explicitData[i.slot] = 0], ~ AmILonelyThread(s))>>

(* exit and pthread_exit pop Control's frames only *)
Exit(s) ==
  <<Outcome([s EXCEPT !.context = << >>, !.previous_bb = << >>, !.tids = << >>], TRUE)>>
PthreadExit(s, tid) == <<Outcome(EraseThread(s, tid), TRUE)>>

(* assert: first the valuations that satisfy it, then, from the restored
   state, the ones that do not, as an error *)
DoAssert(s, snapshot, i, tid) ==
  <<Outcome(PruneNE(s, i.cond, 0), FALSE),
    Outcome([PruneEQ(snapshot, i.cond, 0) EXCEPT !.error = TRUE], TRUE)>>

(* do_call: control moves past the call first; an ldv_ function yields nothing *)
DoCall(code, s, snapshot, i, tid) ==
  LET past == AdvancePC(s, tid)
  IN  CASE i.op = "ignored"      -> <<Outcome(past, FALSE)>>
        [] i.op = "ldv_"         -> << >>
        [] i.op = "input"        -> DoInput(s, i, tid)
        [] i.op = "assume"       -> <<Outcome(PruneNE(past, i.cond, 0), FALSE)>>
        [] i.op = "create"       -> PthreadCreate(past, i)
        [] i.op = "join"         -> PthreadJoin(past, s, i)
        [] i.op = "exit"         -> Exit(past)
        [] i.op = "pthread_exit" -> PthreadExit(past, tid)
        [] i.op = "assert"       -> DoAssert(past, snapshot, i, tid)
        [] i.op = "error"        -> <<Outcome([past EXCEPT !.error = TRUE], TRUE)>>
        [] i.op = "lock"         -> MutexLock(past, s, i)
        [] i.op = "unlock"       -> MutexUnlock(past, i)
        [] i.op = "atomic_begin" -> <<Outcome(EnterAtomicSection(past, tid), ~ AmILonelyThread(s))>>
        [] i.op = "atomic_end"   -> <<Outcome(LeaveAtomicSection(past, tid), ~ AmILonelyThread(s))>>
        [] i.op = "call"         -> CallDefined(code, past, i, tid)

(* advance(yield, tid): an error state has no successors; the block control
   came from is forgotten unless a PHI node is next *)
Outcomes(code, s, tid) ==
  LET i     == Current(code, s, tid)
      fresh == IF i.op = "phi" THEN s ELSE [s EXCEPT !.previous_bb[tid] = NoPC]
  IN  CASE s.error                                  -> << >>
        [] ~ s.error /\ i.op = "local"              -> DoLocal(fresh, i, tid)
        [] ~ s.error /\ i.op \in {"load", "store"}  -> DoLoadStore(fresh, i, tid)
        [] ~ s.error /\ i.op = "phi"                -> DoPhi(fresh, i, tid)
        [] ~ s.error /\ i.op = "icmp"               -> DoIcmp(fresh, s, i, tid)
        [] ~ s.error /\ i.op \in {"jump", "br"}     -> DoBreak(code, fresh, s, i, tid)
        [] ~ s.error /\ i.op = "switch"             -> DoSwitch(code, fresh, s, i, tid)
        [] ~ s.error /\ i.op = "ret"                -> DoReturn(code, fresh, i, tid)
        [] OTHER                                    -> DoCall(code, fresh, s, i, tid)

(* the state that is left when no outcome has restored it *)
LeftBehind(code, s, tid) ==
  IF s.error THEN s ELSE AdvancePC([s EXCEPT !.previous_bb[tid] = NoPC], tid)

(* the asserts that executing the instruction of thread tid passes *)
AssertsHold(code, s, tid) ==
  s.error \/
  /\ tid <= ThreadCount(s)
  /\ s.context[tid] # << >>
  /\ GetPC(s, tid)[2] \in DOMAIN code[GetPC(s, tid)[1]].body
  /\ LET i == Current(code, s, tid)
     IN  /\ i.op = "atomic_begin" \/ (i.op = "call" /\ code[i.function].atomic)
              => MayEnterAtomicSection(s, tid)
         /\ i.op = "atomic_end" \/ (i.op = "ret" /\ code[GetPC(s, tid)[1]].atomic)
              => MayLeaveAtomicSection(s, tid)
         /\ i.op = "ret" => tid <= Len(s.layout)

(* initial(): main is the first thread; the globals are zero *)
InitialState(globals) ==
  NewThread([context |-> << >>, previous_bb |-> << >>, tids |-> << >>, next_free_tid |-> 0,
             atomic_section |-> << >>, layout |-> << >>,
             explicitData |-> [x \in Slot |-> 0], data |-> globals, error |-> FALSE],
            "main")
=============================================================================
