---------------------------- MODULE Valuations ----------------------------
(***************************************************************************)
(* What the values of a multi-state are for: a state stands for the set of *)
(* all memories the program can have there, and an instruction does to     *)
(* each of them what LLVM says.  There are no stores, no generations and   *)
(* no formulae.                                                            *)
(*                                                                         *)
(* A memory maps the cells that have a value to words.  A cell belongs to  *)
(* a frame, which is named and not numbered.                               *)
(***************************************************************************)
EXTENDS Words

CONSTANTS
  Frame,     \* the frames: [name -> sequence of the widths of its cells]
  GlobalInit \* what the cells of the frame "globals" hold at first

VARIABLES
  instr,     \* the last instruction executed
  memory     \* a set of memories

vars == <<instr, memory>>

Cell(frame, off)    == [type |-> "Cell", frame |-> frame, off |-> off]
Constant(value, bw) == [type |-> "Constant", value |-> value, bw |-> bw]

WidthOf(a)      == IF a.type = "Constant" THEN a.bw ELSE Frame[a.frame][a.off]
WordOf(a, m)    == IF a.type = "Constant" THEN a.value ELSE m[a]
Assign(m, c, w) == [d \in DOMAIN m \cup {c} |-> IF d = c THEN w ELSE m[d]]

(* the conditions an instruction and its outcome put on the memory *)
Satisfies(m, conditions) ==
  \A c \in conditions : Holds(c.op, WidthOf(c.a), WordOf(c.a, m), WordOf(c.b, m))

-----------------------------------------------------------------------------
Arithmetic(i, before) ==
  {Assign(m, i.res, Binary(i.op, WidthOf(i.a), WordOf(i.a, m), WordOf(i.b, m))) : m \in before}

Convert(i, before) ==
  {Assign(m, i.res, Cast(i.op, WidthOf(i.a), WidthOf(i.res), WordOf(i.a, m))) : m \in before}

Copy(i, before) == {Assign(m, i.res, WordOf(i.a, m)) : m \in before}

Select(i, before) == {Assign(m, i.res, WordOf(IF WordOf(i.c, m) # 0 THEN i.a ELSE i.b, m)) : m \in before}

(* a comparison has two outcomes, and each keeps the memories it is true of *)
Compare(i, before) ==
  {Assign(m, i.res, IF i.outcome THEN 1 ELSE 0) :
     m \in {m \in before : Holds(i.op, WidthOf(i.a), WordOf(i.a, m), WordOf(i.b, m)) = i.outcome}}

(* so has a branch, a switch, an assumption, an assertion *)
Decide(i, before) == {m \in before : Satisfies(m, i.conditions)}

Input(i, before) == {Assign(m, i.res, w) : m \in before, w \in Word(WidthOf(i.res))}

Call(i, before) ==
  LET params == {i.args[n].param : n \in DOMAIN i.args}
      Given(c) == (CHOOSE n \in DOMAIN i.args : i.args[n].param = c)
  IN  {[c \in DOMAIN m \cup params |-> IF c \in params THEN WordOf(i.args[Given(c)].arg, m) ELSE m[c]] :
         m \in before}

Return(i, before) ==
  {LET after == Assign(m, i.res, WordOf(i.a, m))
   IN  [c \in {c \in DOMAIN after : c.frame # i.frame} |-> after[c]] : m \in before}

(* what an instruction makes of the memories there were before it *)
PostOf(before, i) ==
  CASE i.do = "Arithmetic" -> Arithmetic(i, before)
    [] i.do = "Convert"    -> Convert(i, before)
    [] i.do = "Copy"       -> Copy(i, before)
    [] i.do = "Select"     -> Select(i, before)
    [] i.do = "Compare"    -> Compare(i, before)
    [] i.do = "Decide"     -> Decide(i, before)
    [] i.do = "Input"      -> Input(i, before)
    [] i.do = "Call"       -> Call(i, before)
    [] i.do = "Return"     -> Return(i, before)

Init ==
  /\ instr.do = "Start"
  /\ memory = {[c \in {Cell("globals", n) : n \in DOMAIN GlobalInit} |-> GlobalInit[c.off]]}

Next == memory' = PostOf(memory, instr')

Spec == Init /\ [][Next]_vars
=============================================================================
