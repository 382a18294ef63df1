------------------------------- MODULE Objects -------------------------------
(***************************************************************************)
(* What the layout of memory promises: every frame owns some objects - its *)
(* registers first, then what alloca made - and a cell refers to an object *)
(* whatever frames come and go around it.  A reference to an object that   *)
(* dies is left dangling.                                                  *)
(***************************************************************************)
EXTENDS Naturals, Sequences, SequencesExt

CONSTANTS
  Register, Cell,  \* the cells of a frame's first object, and of the others
  Globals,         \* the object of the global variables
  Null, Dangling   \* in a cell that holds no reference, or one to a dead object

VARIABLES
  frames,  \* for each thread the objects of each of its frames
  cells    \* for each live object what each of its cells refers to

vars == <<frames, cells>>

(* what the cells of some objects hold *)
Held(mem, objects) == UNION {Range(mem[o]) : o \in objects}

(* after is before with one of the references put in a cell of one of the
   objects *)
Stored(before, after, objects, refs) ==
  /\ DOMAIN after = DOMAIN before
  /\ \E o \in objects :
       /\ \A other \in DOMAIN before \ {o} : after[other] = before[other]
       /\ \E c \in DOMAIN before[o] :
            after[o] = [before[o] EXCEPT ![c] = after[o][c]] /\ after[o][c] \in refs

Made(mem, o, own) ==
  [x \in DOMAIN mem \cup {o} |-> IF x = o THEN [c \in own |-> Null] ELSE mem[x]]

Surviving(ref, dead) == IF ref \in dead THEN Dangling ELSE ref

Left(mem, dead) ==
  [o \in DOMAIN mem \ dead |-> [c \in DOMAIN mem[o] |-> Surviving(mem[o][c], dead)]]

(* the objects that live, those a step makes, and the registers of a thread *)
Live(owned)  == {Globals} \cup UNION {UNION {ToSet(o) : o \in ToSet(t)} : t \in ToSet(owned)}
Fresh        == Live(frames') \ Live(frames)
Registers(t) == {Last(frames[t])[1]}

-----------------------------------------------------------------------------
Init ==
  /\ \E o \in DOMAIN cells \ {Globals} :
       DOMAIN cells = {Globals, o} /\ frames = << << <<o>> >> >>
  /\ Held(cells, DOMAIN cells) = {Null}

(* a cell gets a reference that is held somewhere, or one to the globals *)
Assign ==
  /\ UNCHANGED frames
  /\ \E before \in {cells}, after \in {cells'} :
       Stored(before, after, DOMAIN before, Held(before, DOMAIN before) \cup {Globals})

(* a thread: its handle, a number, is stored somewhere, and its parameter
   may be a reference of the thread that makes it *)
Spawned(made, after, o, maker) ==
  LET unset == [after EXCEPT ![o] = made[o]]
  IN  /\ Stored(made, unset, DOMAIN made, {Null})
      /\ after = unset \/ Stored(unset, after, {o}, Held(unset, maker))

Spawn ==
  \E o \in Fresh, t \in DOMAIN frames :
    /\ frames' = Append(frames, << <<o>> >>)
    /\ \E made \in {Made(cells, o, Register)}, after \in {cells'} :
         DOMAIN after = DOMAIN made /\ Spawned(made, after, o, Registers(t))

(* a frame whose parameter may be a reference of the caller *)
Call ==
  \E o \in Fresh, t \in DOMAIN frames :
    /\ frames' = [frames EXCEPT ![t] = Append(@, <<o>>)]
    /\ \E made \in {Made(cells, o, Register)}, after \in {cells'} :
         Stored(made, after, {o}, Held(made, Registers(t)))

(* a register of the frame refers to the new object *)
Allocate ==
  \E o \in Fresh, t \in DOMAIN frames :
    /\ frames' = [frames EXCEPT ![t] = Append(Front(@), Append(Last(@), o))]
    /\ \E made \in {Made(cells, o, Cell)}, after \in {cells'} :
         Stored(made, after, Registers(t), {o})

(* the last frame of a thread is left, and the thread ends with its first
   frame; a register of the caller may get a reference from a register *)
LeftFrame(t, before, after) ==
  LET dead == ToSet(Last(frames[t]))
      left == Left(before, dead)
  IN  \/ after = left
      \/ /\ Len(frames[t]) > 1
         /\ LET returned == {Surviving(ref, dead) : ref \in Held(before, Registers(t))}
                caller   == {Last(Front(frames[t]))[1]}
            IN  Stored(left, after, caller, returned)

Leave ==
  \E t \in DOMAIN frames :
    /\ frames' = IF Len(frames[t]) = 1 THEN RemoveAt(frames, t)
                 ELSE [frames EXCEPT ![t] = Front(@)]
    /\ \E before \in {cells}, after \in {cells'} : LeftFrame(t, before, after)

Next == Assign \/ Leave \/ Spawn \/ Call \/ Allocate

Spec == Init /\ [][Next]_vars
=============================================================================
