------------------------------ MODULE Values ------------------------------
(***************************************************************************)
(* How the evaluator keeps values (evaluator.h, instructiondispatch.h).  A *)
(* state has two stores with the same cells, one of known words and one    *)
(* of formulae, and the layout has a flag for every cell that says which   *)
(* of them counts.  A handler sets the flag of its result and then writes  *)
(* to one of the stores or to both.                                        *)
(*                                                                         *)
(* One instruction of each of Menus is executed in turn, every one that    *)
(* can be; that makes the programs.  Which thread it belongs to only shows *)
(* in the frames its cells are in.                                         *)
(***************************************************************************)
EXTENDS ExplicitStore, SymbolicStore, TLC

CONSTANTS
  Frame,      \* the functions' frames and the globals: [name -> sequence of widths]
  Threads,    \* the frames there are at first, in the order of their segments: "globals" first
  GlobalInit, \* the initializers of the globals: a sequence of words
  Menus,      \* a sequence of sets of instructions
  WithGaps    \* whether the instructions the stores are known to get wrong are executed

VARIABLES
  state,      \* the members layout, explicitData and data of the evaluator's state
  segments,   \* the frame each segment belongs to
  written,    \* the cells that have a value
  instr,      \* the last instruction, with its outcome
  dropped,    \* store->empty(), what the handler told the callback: advance drops the state
  memory      \* history: the memories the state stands for, MemoryOf( state )

vars == <<state, segments, written, instr, dropped, memory>>

Cell(frame, off) == [type |-> "Cell", frame |-> frame, off |-> off]
WidthOf(a)       == IF a.type = "Constant" THEN a.bw ELSE Frame[a.frame][a.off]

-----------------------------------------------------------------------------
(* MemoryLayout::deref: a constant is itself, the name of a cell its address *)
AddressIn(segs, a) ==
  IF a.type = "Constant" THEN a
  ELSE Variable(CHOOSE s \in DOMAIN segs : segs[s] = a.frame, a.off)
Address(a) == AddressIn(segments, a)

isMultival(s, v) == v.type = "Variable" /\ s.layout[v.seg][v.off]
setMultival(s, v, flag) == [s EXCEPT !.layout[v.seg][v.off] = flag]

(* deref with expl2const: a known word is read at once *)
deref(s, a) ==
  LET v == Address(a) IN
  IF isMultival(s, v) THEN v ELSE Constant(get(s.explicitData, v), WidthOf(a))

(* load, store, phi, parameters and results: a known word goes to both stores *)
CopyTo(s, result, v) ==
  LET flagged == setMultival(s, result, isMultival(s, v)) IN
  IF isMultival(s, v)
  THEN [flagged EXCEPT !.data = implement_store(@, result, v)]
  ELSE [flagged EXCEPT !.explicitData = explicit_store(@, result, v),
                       !.data         = implement_store(@, result, v)]

(* store->prune( a, b, op ) of the store that counts *)
Pruned(s, multival, a, b, op) ==
  IF multival THEN [s EXCEPT !.data = prune(@, a, b, op)]
  ELSE [s EXCEPT !.explicitData = explicit_prune(@, a, b, op)]

(* store->empty(): only the store that was pruned is asked *)
isEmpty(s, multival) == IF multival THEN empty(s.data) ELSE s.explicitData.empty

icmp_negate ==
  [EQ  |-> "NE",  NE  |-> "EQ",  UGT |-> "ULE", UGE |-> "ULT", ULT |-> "UGE",
   ULE |-> "UGT", SGT |-> "SLE", SGE |-> "SLT", SLT |-> "SGE", SLE |-> "SGT"]

(* a new segment: its cells are F_DEFAULT, that is multival *)
addSegments(s, id, bit_widths) ==
  [layout       |-> InsertAt(s.layout, id, VectorOf(Len(bit_widths), TRUE)),
   explicitData |-> explicit_addSegment(s.explicitData, id, bit_widths),
   data         |-> addSegment(s.data, id, bit_widths)]

eraseSegments(s, id) ==
  [layout       |-> RemoveAt(s.layout, id),
   explicitData |-> explicit_eraseSegment(s.explicitData, id),
   data         |-> eraseSegment(s.data, id)]

-----------------------------------------------------------------------------
(* the memories a state stands for, over some cells *)
MemoryOf(s, segs, cells) ==
  LET unknown == {c \in cells : isMultival(s, AddressIn(segs, c))}
      name    == [c \in unknown |-> build_item(s.data, AddressIn(segs, c))]
      known   == [c \in cells \ unknown |-> get(s.explicitData, AddressIn(segs, c))]
  IN  IF s.explicitData.empty THEN {}
      ELSE {[c \in unknown |-> val[name[c]]] @@ known :
              val \in Represented(s.data, {name[c] : c \in unknown})}

(***************************************************************************)
(* What the stores are known to get wrong: the explicit store divides      *)
(* words without their sign and extends them with zeros, the formula of an *)
(* unsigned division is a signed one.                                      *)
(***************************************************************************)
Negative(a) ==
  \E m \in memory : Signed(IF a.type = "Constant" THEN a.value ELSE m[a], WidthOf(a)) < 0
KnownGap(i, multival) ==
  \/ i.op = "SDiv" /\ ~multival /\ (Negative(i.a) \/ Negative(i.b))
  \/ i.op = "UDiv" /\ multival /\ (Negative(i.a) \/ Negative(i.b))
  \/ i.op = "SExt" /\ ~multival /\ Negative(i.a)

Operands(i) ==
  CASE i.do \in {"Arithmetic", "Compare"} -> {i.a, i.b}
    [] i.do = "Select" -> {i.c, i.a, i.b}
    [] i.do = "Input"  -> {}
    [] i.do = "Call"   -> {i.args[n].arg : n \in DOMAIN i.args}
    [] OTHER -> {i.a}

(* instr.n counts the instructions *)
Ready(i) ==
  /\ ~dropped
  /\ i \in Menus[instr.n + 1]
  /\ \A a \in Operands(i) : a.type = "Constant" \/ a \in written
  /\ "res" \in DOMAIN i => \E s \in DOMAIN segments : segments[s] = i.res.frame

(* Evaluator::write and read, properties and control left out *)
WriteState(s) == WriteVectors(s.layout) \o explicit_writeData(s.explicitData) \o writeData(s.data)
NextData(got)     == Appended(got, readData(got.rest))
NextExplicit(got) == Appended(got, explicit_readData(got.rest))
StateOf(parts) == [layout |-> parts[1], explicitData |-> parts[2], data |-> parts[3]]
ReadState(mem) ==
  StateOf(NextData(NextExplicit(NextVectors(From(mem)))).value)

(***************************************************************************)
(* The state a handler yields, with the frames and the cells there are     *)
(* now.  An observable instruction's state is written into a blob and read *)
(* back before it is advanced, a state on advance's stack is copied; here  *)
(* every state goes through the blob.                                      *)
(***************************************************************************)
Yield(s, i, isempty, segs, cells) ==
  /\ state'    = ReadState(WriteState(s))
  /\ segments' = segs
  /\ written'  = cells
  /\ instr'    = [n |-> instr.n + 1] @@ i
  /\ dropped'  = isempty
  /\ memory'   = MemoryOf(s, segs, cells)

-----------------------------------------------------------------------------
(* execute, the case of binary arithmetics, and do_binary_arithmetic_op *)
ImplementBinary(s, op, result, a, b) ==
  LET multival == isMultival(s, a) \/ isMultival(s, b)
      flagged  == setMultival(s, result, multival)
  IN  IF multival THEN [flagged EXCEPT !.data = implement_binary(@, op, result, a, b)]
      ELSE [flagged EXCEPT !.explicitData = explicit_binary(@, op, result, a, b)]

Arithmetic(i) ==
  LET a == deref(state, i.a)
      b == deref(state, i.b)
      multival == isMultival(state, a) \/ isMultival(state, b)
  IN  /\ i.do = "Arithmetic" /\ Ready(i)
      /\ \A m \in memory :     \* what is undefined in LLVM is not executed
           LET WordIn(v) == IF v.type = "Constant" THEN v.value ELSE m[v]
           IN  Defined(i.op, WidthOf(i.a), WordIn(i.a), WordIn(i.b))
      /\ WithGaps \/ ~KnownGap(i, multival)
      /\ i.op = "SRem" => multival \/ WidthOf(i.a) \in MachineWidths
      /\ Yield(ImplementBinary(state, i.op, Address(i.res), a, b), i, FALSE, segments, written \cup {i.res})

(* do_cast: only the store that counts is written *)
Convert(i) ==
  LET a == deref(state, i.a)
      multival == isMultival(state, a)
      result   == Address(i.res)
      flagged  == setMultival(state, result, multival)
  IN  /\ i.do = "Convert" /\ Ready(i)
      /\ WithGaps \/ ~KnownGap(i, multival)
      /\ Yield(IF multival
               THEN [flagged EXCEPT !.data = implement_cast(@, i.op, result, a, WidthOf(i.res))]
               ELSE [flagged EXCEPT !.explicitData = explicit_store(@, result, a)], i, FALSE, segments, written \cup {i.res})

(* the end of do_load and do_store, do_phi *)
Copy(i) ==
  /\ i.do = "Copy" /\ Ready(i)
  /\ Yield(CopyTo(state, Address(i.res), deref(state, i.a)), i, FALSE, segments, written \cup {i.res})

(* do_ite: a condition that is not known ends the tool *)
Select(i) ==
  LET c == deref(state, i.c)
      v == deref(state, IF c.value # 0 THEN i.a ELSE i.b)
      multival == isMultival(state, v)
      flagged  == setMultival(state, Address(i.res), multival)
  IN  /\ i.do = "Select" /\ Ready(i)
      /\ c.type = "Constant"
      /\ Yield(IF multival
               THEN [flagged EXCEPT !.data = implement_store(@, Address(i.res), v)]
               ELSE [flagged EXCEPT !.explicitData = explicit_store(@, Address(i.res), v)], i, FALSE, segments, written \cup {i.res})

(* do_icmp: the result is known in either outcome *)
Compare(i, outcome) ==
  LET a == deref(state, i.a)
      b == deref(state, i.b)
      multival == isMultival(state, a) \/ isMultival(state, b)
      pruned   == Pruned(state, multival, a, b, IF outcome THEN i.op ELSE icmp_negate[i.op])
      result   == Constant(IF outcome THEN 1 ELSE 0, 1)
      stored   == CopyTo(pruned, Address(i.res), result)
  IN  /\ i.do = "Compare" /\ Ready(i)
      /\ i.op \in {"SGT", "SGE", "SLT", "SLE"} => multival \/ WidthOf(i.a) \in MachineWidths
      /\ Yield(stored, [outcome |-> outcome] @@ i, isEmpty(stored, multival),
               segments, written \cup {i.res})

(* prune, with a branch's, an assumption's or a switch's conditions in turn *)
Decide(i, conditions, conditional) ==
  LET c        == deref(state, i.a)
      multival == isMultival(state, c)
      after[n \in 0 .. Len(conditions)] ==
        IF n = 0 THEN state ELSE Pruned(after[n - 1], multival, c, conditions[n].b, conditions[n].op)
      pruned   == after[Len(conditions)]
  IN  /\ i.do = conditional /\ Ready(i)
      /\ Yield(pruned,
               [do |-> "Decide", conditions |-> {[op |-> conditions[n].op, a |-> i.a, b |-> conditions[n].b] :
                                                   n \in DOMAIN conditions}],
               isEmpty(pruned, multival), segments, written)

Is(word, bw)    == [op |-> "EQ", b |-> Constant(word, bw)]
IsNot(word, bw) == [op |-> "NE", b |-> Constant(word, bw)]

(* do_break with a condition, and the assertion, whose outcomes are the same two *)
Branch(i, outcome) == Decide(i, <<Is(IF outcome THEN 1 ELSE 0, 1)>>, "Branch")

Assume(i) == Decide(i, <<IsNot(0, WidthOf(i.a))>>, "Assume")

Assertion(i, holds) ==
  Decide(i, <<IF holds THEN IsNot(0, WidthOf(i.a)) ELSE Is(0, WidthOf(i.a))>>, "Assert")

(* do_switch: one outcome for each case, then the default *)
Switch(i) ==
  /\ i.do = "Switch"
  /\ \/ \E n \in DOMAIN i.cases : Decide(i, <<Is(i.cases[n], WidthOf(i.a))>>, "Switch")
     \/ Decide(i, [n \in DOMAIN i.cases |-> IsNot(i.cases[n], WidthOf(i.a))], "Switch")

(* do_call of an input function *)
Input(i) ==
  /\ i.do = "Input" /\ Ready(i)
  /\ Yield([setMultival(state, Address(i.res), TRUE) EXCEPT
              !.data = implement_input(@, Address(i.res))], i, FALSE, segments, written \cup {i.res})

(* do_call and enterFunction: the frame's segment follows those of its thread *)
Call(i) ==
  LET position == (CHOOSE s \in DOMAIN segments : segments[s] = i.caller) + 1
      args     == [n \in DOMAIN i.args |-> deref(state, i.args[n].arg)]
      after[n \in 0 .. Len(i.args)] ==
        IF n = 0 THEN addSegments(state, position, Frame[i.frame])
        ELSE CopyTo(after[n - 1], Variable(position, i.args[n].param.off), args[n])
  IN  /\ i.do = "Call" /\ Ready(i)
      /\ \A s \in DOMAIN segments : segments[s] # i.frame
      /\ Yield(after[Len(i.args)], i, FALSE, InsertAt(segments, position, i.frame),
               written \cup {i.args[n].param : n \in DOMAIN i.args})

(* do_return and leave: the result is copied before the frame goes *)
Return(i) ==
  LET copied   == CopyTo(state, Address(i.res), deref(state, i.a))
      position == CHOOSE s \in DOMAIN segments : segments[s] = i.frame
  IN  /\ i.do = "Return" /\ Ready(i)
      /\ Yield(eraseSegments(copied, position), i, FALSE, RemoveAt(segments, position),
               {c \in written : c.frame # i.frame} \cup {i.res})

-----------------------------------------------------------------------------
(* initial() and startThread: the initializers go to both stores *)
Initial ==
  LET with[n \in 0 .. Len(Threads)] ==
        IF n = 0 THEN [layout |-> << >>, explicitData |-> EmptyExplicit, data |-> EmptyStore]
        ELSE addSegments(with[n - 1], n, Frame[Threads[n]])
      set[n \in 0 .. Len(GlobalInit)] ==
        IF n = 0 THEN with[Len(Threads)]
        ELSE CopyTo(set[n - 1], Variable(1, n), Constant(GlobalInit[n], Frame["globals"][n]))
  IN  set[Len(GlobalInit)]

Init ==
  /\ state = Initial
  /\ segments = Threads
  /\ written = {Cell("globals", n) : n \in DOMAIN GlobalInit}
  /\ instr = [n |-> 0, do |-> "Start"]
  /\ dropped = FALSE
  /\ memory = MemoryOf(state, segments, written)

Execute(i) ==
  \/ Arithmetic(i) \/ Convert(i) \/ Copy(i) \/ Select(i) \/ Input(i)
  \/ \E outcome \in BOOLEAN : Compare(i, outcome) \/ Branch(i, outcome) \/ Assertion(i, outcome)
  \/ Assume(i) \/ Switch(i) \/ Call(i) \/ Return(i)

Next == instr.n < Len(Menus) /\ \E i \in Menus[instr.n + 1] : Execute(i)

Spec == Init /\ [][Next]_vars

-----------------------------------------------------------------------------
(***************************************************************************)
(* The three members of the state have the same cells with the same        *)
(* widths, the ones of the segment's frame; a known word fits its cell.    *)
(* The handlers index all three with one address and no check compares     *)
(* them.                                                                   *)
(***************************************************************************)
TypeOK ==
  /\ DOMAIN state.layout = DOMAIN segments
  /\ state.explicitData.bw = [s \in DOMAIN segments |-> Frame[segments[s]]]
  /\ state.data.bitWidths = state.explicitData.bw
  /\ \A s \in DOMAIN segments : \A off \in DOMAIN Frame[segments[s]] :
       /\ state.layout[s][off] \in BOOLEAN
       /\ state.explicitData.data[s][off] \in Word(Frame[segments[s]][off])
       /\ state.data.generations[s][off] \in 0 .. Generations - 1

(***************************************************************************)
(* However the code of frames and loops writes, copies and drops cells,    *)
(* the definitions stay a system that can be solved: one for a symbol, for *)
(* current generations of live segments, without a circle, and over widths *)
(* the solver accepts (Z3 throws on operands of different widths, which    *)
(* ends the tool).                                                         *)
(***************************************************************************)
DefinitionsOK ==
  /\ WellDefined(state.data)
  /\ \A f \in Formulae(state.data) : WellSorted(f)

(***************************************************************************)
(* A state is dropped only when no memory is left, and always then: the    *)
(* callback keeps no state that stands for nothing.  The handler asks one  *)
(* of the two stores, and a symbolic store without path condition answers  *)
(* at once.                                                                *)
(***************************************************************************)
EmptyIsExact == dropped <=> memory = {}

(***************************************************************************)
(* Whatever the instruction, the flags and the store it was left to, the   *)
(* memories a state stands for change as LLVM says, to the bit.            *)
(***************************************************************************)
LLVM == INSTANCE Valuations
ImplementsValuations == LLVM!Spec
=============================================================================
