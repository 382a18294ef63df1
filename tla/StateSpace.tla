----------------------------- MODULE StateSpace -----------------------------
(***************************************************************************)
(* What the reachability command promises, free of identifiers, queues     *)
(* and symbolic sets: it may cover concrete states only by stepping from   *)
(* covered ones, says that an error is reachable only when it has covered  *)
(* one or is about to, and says "Safe." only when what it has covered is   *)
(* closed under the program's steps and holds no error.                    *)
(*                                                                         *)
(* A program is its initial multi-state and a set of edges: one for each   *)
(* way Evaluator::advance can get from an explicit part to another, with   *)
(* the relation between the valuations before and after.                   *)
(***************************************************************************)
EXTENDS Naturals

CONSTANTS
  Expl,      \* explicit parts of states
  Data,      \* valuations
  Errors,    \* the explicit parts whose error property is set
  Programs   \* the programs under verification

Edge    == [src : Expl, rel : SUBSET (Data \X Data), dst : Expl]
Program == [init : [expl : Expl, sym : SUBSET Data], edges : SUBSET Edge]

VARIABLES
  program,   \* the program being verified, fixed when the bitcode is read
  covered,   \* the concrete states met so far
  output     \* the verdicts printed so far

vars == <<program, covered, output>>

ConcreteState == Expl \X Data
ErrorState    == Errors \X Data

(* the concrete states one step away from those of S *)
Image(p, S) ==
  {t \in ConcreteState :
     \E e \in p.edges : \E d \in Data :
       /\ <<e.src, d>> \in S
       /\ t[1] = e.dst
       /\ <<d, t[2]>> \in e.rel}

InitialStates(p) == {p.init.expl} \X p.init.sym

(* S holds the initial states and whatever is one step away from S *)
Closed(p, S) == InitialStates(p) \subseteq S /\ Image(p, S) \subseteq S

(* the reachable concrete states: those in every closed set *)
Reach(p) == {s \in ConcreteState : \A S \in SUBSET ConcreteState : Closed(p, S) => s \in S}

-----------------------------------------------------------------------------
(* what is covered are states, what is printed verdicts *)
TypeOK ==
  /\ program \in Programs
  /\ covered \subseteq ConcreteState
  /\ output \subseteq {"error", "Safe", "exception"}

Init ==
  /\ program \in Programs
  /\ covered = InitialStates(program)
  /\ output = {}

(* cover some states one step away; report an error if one is covered *)
Explore ==
  /\ output \subseteq {"error"}
  /\ \E S \in SUBSET Image(program, covered) : covered' = covered \cup S
  /\ \/ output' = output
     \/ covered' \cap ErrorState # {} /\ output' = output \cup {"error"}
  /\ UNCHANGED program

ReportSafe ==
  /\ output = {}
  /\ Image(program, covered) \subseteq covered
  /\ covered \cap ErrorState = {}
  /\ output' = {"Safe"}
  /\ UNCHANGED <<program, covered>>

(* a solver exception ends the run; an error one step away may have been
   reported just before, though it will not be covered any more *)
Abort ==
  /\ output \subseteq {"error"}
  /\ \/ output' = output \cup {"exception"}
     \/ /\ Image(program, covered) \cap ErrorState # {}
        /\ output' = output \cup {"error", "exception"}
  /\ UNCHANGED <<program, covered>>

Next == Explore \/ ReportSafe \/ Abort

Spec == Init /\ [][Next]_vars

-----------------------------------------------------------------------------
(* "Safe." is printed only if no reachable concrete state is an error. *)
SafeIsSound == "Safe" \in output => Reach(program) \cap ErrorState = {}

(* "Error state is reachable" is printed only if one is. *)
ErrorIsReal == "error" \in output => Reach(program) \cap ErrorState # {}

(* nothing unreachable is ever covered *)
CoveredIsReachable == covered \subseteq Reach(program)
=============================================================================
