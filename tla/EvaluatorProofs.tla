--------------------------- MODULE EvaluatorProofs ---------------------------
(***************************************************************************)
(* What executing an instruction does, for every well-formed program:      *)
(* whatever the instruction is, each of its outcomes is a state in order,  *)
(* its valuations are those some interleaving's step leads to, and control *)
(* and layout stay in step (OutcomesAreGood).                              *)
(***************************************************************************)
EXTENDS Exploration, SequenceLemmas

-----------------------------------------------------------------------------
(* Programs.                                                               *)

(* A position is a function with the number of one of its instructions. *)
LEMMA PositionIs ==
  ASSUME NEW code, NEW at
  PROVE  at \in Positions(code) <=>
           at = <<at[1], at[2]>> /\ at[1] \in DOMAIN code /\ at[2] \in DOMAIN code[at[1]].body
<1>1. ASSUME at \in Positions(code)
      PROVE  at = <<at[1], at[2]>> /\ at[1] \in DOMAIN code /\ at[2] \in DOMAIN code[at[1]].body
  <2>1. PICK f \in DOMAIN code : at \in {f} \X DOMAIN code[f].body
    BY <1>1 DEF Positions
  <2>2. at = <<at[1], at[2]>> /\ at[1] = f /\ at[2] \in DOMAIN code[f].body
    BY <2>1
  <2>3. QED
    BY <2>2
<1>2. ASSUME at = <<at[1], at[2]>>, at[1] \in DOMAIN code, at[2] \in DOMAIN code[at[1]].body
      PROVE  at \in Positions(code)
  <2>1. <<at[1], at[2]>> \in {at[1]} \X DOMAIN code[at[1]].body
    BY <1>2
  <2>2. at \in {at[1]} \X DOMAIN code[at[1]].body
    BY <2>1, <1>2
  <2>3. QED
    BY <1>2, <2>2 DEF Positions
<1>3. QED
  BY <1>1, <1>2

(* The number of a position makes it. *)
LEMMA MakePosition ==
  ASSUME NEW code, NEW f \in DOMAIN code, NEW n \in DOMAIN code[f].body
  PROVE  <<f, n>> \in Positions(code) /\ Instruction(code, <<f, n>>) = code[f].body[n]
<1>1. <<f, n>>[1] = f /\ <<f, n>>[2] = n
  OBVIOUS
<1>2. QED
  BY <1>1, PositionIs DEF Instruction

(* The instruction at a position is one of the language, and not the last of
   its function unless it ends a block. *)
LEMMA WellFormedAt ==
  ASSUME NEW code, WellFormed(code), NEW at \in Positions(code)
  PROVE  LET body == code[at[1]].body IN
         /\ at[1] \in DOMAIN code /\ at[2] \in DOMAIN body /\ at[2] \in Nat /\ at[2] >= 1
         /\ DOMAIN body = 1 .. Len(body) /\ Len(body) \in Nat
         /\ Instruction(code, at) = body[at[2]]
         /\ Instruction(code, at).op \in Operations
         /\ OperandsExist(code, Instruction(code, at))
         /\ PhiInFront(body, at[2])
         /\ Targets(Instruction(code, at)) \subseteq DOMAIN body
         /\ Instruction(code, at).op \notin Terminators => at[2] + 1 \in DOMAIN body
<1> DEFINE body == code[at[1]].body
<1>1. at[1] \in DOMAIN code /\ at[2] \in DOMAIN body
  BY PositionIs
<1>2. WellFormedBody(code, body)
  BY <1>1 DEF WellFormed
<1>3. body \in Seq(ToSet(body))
  BY <1>2 DEF WellFormedBody
<1>4. DOMAIN body = 1 .. Len(body) /\ Len(body) \in Nat
  BY <1>3
<1>5. at[2] \in Nat /\ at[2] >= 1
  BY <1>1, <1>4
<1>6. Instruction(code, at) = body[at[2]]
  BY DEF Instruction
<1>7. /\ body[at[2]].op \in Operations
      /\ OperandsExist(code, body[at[2]])
      /\ Targets(body[at[2]]) \subseteq DOMAIN body
      /\ PhiInFront(body, at[2])
      /\ body[Len(body)].op \in Terminators
  BY <1>1, <1>2 DEF WellFormedBody
<1>8. ASSUME body[at[2]].op \notin Terminators PROVE at[2] + 1 \in DOMAIN body
  <2>1. at[2] # Len(body)
    BY <1>7, <1>8
  <2>2. QED
    BY <1>1, <1>4, <1>5, <2>1
<1>9. QED
  BY <1>1, <1>4, <1>5, <1>6, <1>7, <1>8

(* one instruction further on *)
After(at) == <<at[1], at[2] + 1>>

(* Behind an instruction that does not end a block there is another one; it
   is a PHI node only if this one is, and knows the same blocks. *)
LEMMA AfterIs ==
  ASSUME NEW code, WellFormed(code), NEW at \in Positions(code),
         Instruction(code, at).op \notin Terminators
  PROVE  /\ After(at) \in Positions(code)
         /\ Instruction(code, After(at)).op = "phi" =>
              /\ Instruction(code, at).op = "phi"
              /\ DOMAIN Instruction(code, at).incoming = DOMAIN Instruction(code, After(at)).incoming
<1> DEFINE body == code[at[1]].body
           n == at[2]
<1>1. /\ at[1] \in DOMAIN code /\ n \in Nat /\ n + 1 \in DOMAIN body
      /\ Instruction(code, at) = body[n]
  BY WellFormedAt
<1>2. After(at) \in Positions(code) /\ Instruction(code, After(at)) = body[n + 1]
  BY <1>1, MakePosition DEF After
<1>3. PhiInFront(body, n + 1)
  BY <1>1 DEF WellFormed, WellFormedBody
<1>4. n + 1 - 1 = n
  BY <1>1
<1>5. body[n + 1].op = "phi" => body[n].op = "phi" /\ DOMAIN body[n].incoming = DOMAIN body[n + 1].incoming
  BY <1>1, <1>3, <1>4 DEF PhiInFront
<1>6. QED
  BY <1>1, <1>2, <1>5

(* A jump leads to an instruction; a PHI node there knows the block. *)
LEMMA TargetIs ==
  ASSUME NEW code, WellFormed(code), NEW at \in Positions(code),
         NEW n \in Targets(Instruction(code, at))
  PROVE  /\ <<at[1], n>> \in Positions(code)
         /\ CameByEdge(code, <<at[1], n>>, at)
<1> DEFINE body == code[at[1]].body
<1>1. /\ at[1] \in DOMAIN code /\ at[2] \in DOMAIN body /\ n \in DOMAIN body
      /\ Instruction(code, at) = body[at[2]]
  BY WellFormedAt
<1>2. <<at[1], n>> \in Positions(code) /\ Instruction(code, <<at[1], n>>) = body[n]
  BY <1>1, MakePosition
<1>3. PhiInFront(body, n)
  BY <1>1 DEF WellFormed, WellFormedBody
<1>4. body[n].op = "phi" => at[2] \in DOMAIN body[n].incoming
  BY <1>1, <1>3 DEF PhiInFront
<1>5. QED
  BY <1>2, <1>4 DEF CameByEdge

(* A function does not begin with a PHI node, and none comes behind a call. *)
LEMMA NoPhiAtEntry ==
  ASSUME NEW code, WellFormed(code), NEW f \in DOMAIN code
  PROVE  <<f, 1>> \in Positions(code) /\ Instruction(code, <<f, 1>>).op # "phi"
<1> DEFINE body == code[f].body
<1>1. WellFormedBody(code, body)
  BY DEF WellFormed
<1>2. body \in Seq(ToSet(body)) /\ body # << >>
  BY <1>1 DEF WellFormedBody
<1>3. 1 \in DOMAIN body
  BY <1>2
<1>4. PhiInFront(body, 1)
  BY <1>1, <1>3 DEF WellFormedBody
<1>5. body[1].op # "phi"
  BY <1>4 DEF PhiInFront
<1>6. <<f, 1>> \in Positions(code) /\ Instruction(code, <<f, 1>>) = body[1]
  BY <1>3, MakePosition
<1>7. QED
  BY <1>5, <1>6

(* What comes behind a call is no PHI node. *)
LEMMA NoPhiBehindCall ==
  ASSUME NEW code, WellFormed(code), NEW at \in Positions(code),
         code[at[1]].body[at[2] - 1].op = "call"
  PROVE  Instruction(code, at).op # "phi"
<1>1. PhiInFront(code[at[1]].body, at[2]) /\ Instruction(code, at) = code[at[1]].body[at[2]]
  BY WellFormedAt
<1>2. QED
  BY <1>1 DEF PhiInFront, Terminators

-----------------------------------------------------------------------------
(* The fields of states, and what each operation changes.                  *)

(* the fields of a state of the evaluator, and of the interleavings *)
Fields == {"context", "previous_bb", "tids", "next_free_tid", "atomic_section", "layout",
           "explicitData", "data", "error"}
ViewFields == {"stack", "came", "owner", "depth", "slots", "mem", "next", "err"}

(* r is s but for the fields of F *)
SameBut(s, r, F) ==
  /\ DOMAIN s = Fields /\ DOMAIN r = Fields
  /\ "context" \notin F => r.context = s.context
  /\ "previous_bb" \notin F => r.previous_bb = s.previous_bb
  /\ "tids" \notin F => r.tids = s.tids
  /\ "next_free_tid" \notin F => r.next_free_tid = s.next_free_tid
  /\ "atomic_section" \notin F => r.atomic_section = s.atomic_section
  /\ "layout" \notin F => r.layout = s.layout
  /\ "explicitData" \notin F => r.explicitData = s.explicitData
  /\ "data" \notin F => r.data = s.data
  /\ "error" \notin F => r.error = s.error

(* a stack of frames one instruction further, and valuations after a store *)
Behind(frames) == Append(Front(frames), After(Last(frames)))
Stored(data, moves) == {[v \in Var |-> IF v \in DOMAIN moves THEN Read(m, moves[v]) ELSE m[v]] : m \in data}

(* What the operations of Control and of the stores change. *)
LEMMA AdvanceFields ==
  ASSUME NEW s, DOMAIN s = Fields, NEW tid
  PROVE  /\ SameBut(s, AdvancePC(s, tid), {"context"})
         /\ AdvancePC(s, tid).context = [s.context EXCEPT ![tid] = Behind(s.context[tid])]
<1>1. SameBut(s, AdvancePC(s, tid), {"context"})
  BY DEF SameBut, Fields, AdvancePC
<1>2. AdvancePC(s, tid).context = [s.context EXCEPT ![tid] = Behind(s.context[tid])]
  BY DEF Fields, AdvancePC, Behind, After, GetPC
<1>3. QED
  BY <1>1, <1>2

(* The block the thread came from is forgotten. *)
LEMMA ForgetFields ==
  ASSUME NEW s, DOMAIN s = Fields, NEW tid
  PROVE  /\ SameBut(s, [s EXCEPT !.previous_bb[tid] = NoPC], {"previous_bb"})
         /\ [s EXCEPT !.previous_bb[tid] = NoPC].previous_bb = [s.previous_bb EXCEPT ![tid] = NoPC]
BY DEF SameBut, Fields

(* A store changes the data only. *)
LEMMA StoreFields ==
  ASSUME NEW s, DOMAIN s = Fields, NEW moves
  PROVE  /\ SameBut(s, Store(s, moves), {"data"})
         /\ Store(s, moves).data = Stored(s.data, moves)
BY DEF SameBut, Fields, Store, Stored

(* So does a condition. *)
LEMMA PruneFields ==
  ASSUME NEW s, DOMAIN s = Fields, NEW a, NEW b
  PROVE  /\ SameBut(s, PruneEQ(s, a, b), {"data"})
         /\ PruneEQ(s, a, b).data = {m \in s.data : Read(m, a) = Read(m, b)}
         /\ SameBut(s, PruneNE(s, a, b), {"data"})
         /\ PruneNE(s, a, b).data = {m \in s.data : Read(m, a) # Read(m, b)}
BY DEF SameBut, Fields, PruneEQ, PruneNE

(* the thread is at position to, and remembers where it came from or forgets it *)
LeapTo(s, r, to, tid, b) ==
  /\ SameBut(s, r, {"context", "previous_bb"})
  /\ r.context = [s.context EXCEPT ![tid] = Append(Front(@), to)]
  /\ r.previous_bb = [s.previous_bb EXCEPT ![tid] = IF b THEN Last(s.context[tid]) ELSE NoPC]

(* A jump. *)
LEMMA JumpFields ==
  ASSUME NEW s, DOMAIN s = Fields, NEW tid, NEW to, NEW b
  PROVE  LeapTo(s, JumpTo(s, to, tid, b), to, tid, b)
<1>1. SameBut(s, JumpTo(s, to, tid, b), {"context", "previous_bb"})
  BY DEF SameBut, Fields, JumpTo
<1>2. JumpTo(s, to, tid, b).context = [s.context EXCEPT ![tid] = Append(Front(@), to)]
  BY DEF Fields, JumpTo
<1>3. JumpTo(s, to, tid, b).previous_bb =
              [s.previous_bb EXCEPT ![tid] = IF b THEN Last(s.context[tid]) ELSE NoPC]
  BY DEF Fields, JumpTo, GetPC
<1>4. QED
  BY <1>1, <1>2, <1>3 DEF LeapTo

(* Entering and leaving an atomic section. *)
LEMMA SectionFields ==
  ASSUME NEW s, DOMAIN s = Fields, NEW tid
  PROVE  /\ SameBut(s, EnterAtomicSection(s, tid), {"atomic_section"})
         /\ EnterAtomicSection(s, tid).atomic_section = Append(s.atomic_section, tid)
         /\ SameBut(s, LeaveAtomicSection(s, tid), {"atomic_section"})
         /\ LeaveAtomicSection(s, tid).atomic_section = Front(s.atomic_section)
BY DEF SameBut, Fields, EnterAtomicSection, LeaveAtomicSection

(* a frame of f is pushed on the stack of the thread *)
Pushed(s, r, f, tid) ==
  /\ SameBut(s, r, {"context", "layout"})
  /\ r.context = [s.context EXCEPT ![tid] = Append(@, <<f, 1>>)]
  /\ r.layout = [s.layout EXCEPT ![tid] = Append(@, f)]

(* A call. *)
LEMMA PushFields ==
  ASSUME NEW s, DOMAIN s = Fields, NEW f, NEW tid
  PROVE  Pushed(s, PushFrame(s, f, tid), f, tid)
<1>1. SameBut(s, PushFrame(s, f, tid), {"context", "layout"})
  BY DEF SameBut, Fields, PushFrame, EnterFunction
<1>2. PushFrame(s, f, tid).context = [s.context EXCEPT ![tid] = Append(@, <<f, 1>>)]
  BY DEF Fields, PushFrame, EnterFunction
<1>3. PushFrame(s, f, tid).layout = [s.layout EXCEPT ![tid] = Append(@, f)]
  BY DEF Fields, PushFrame, EnterFunction
<1>4. QED
  BY <1>1, <1>2, <1>3 DEF Pushed

(* The end of a thread, in Control. *)
LEMMA EraseFields ==
  ASSUME NEW s, DOMAIN s = Fields, NEW tid
  PROVE  /\ SameBut(s, EraseThread(s, tid), {"context", "previous_bb", "tids"})
         /\ EraseThread(s, tid).context = RemoveAt(s.context, tid)
         /\ EraseThread(s, tid).previous_bb = RemoveAt(s.previous_bb, tid)
         /\ EraseThread(s, tid).tids = RemoveAt(s.tids, tid)
<1>1. SameBut(s, EraseThread(s, tid), {"context", "previous_bb", "tids"})
  BY DEF SameBut, Fields, EraseThread
<1>2. EraseThread(s, tid).context = RemoveAt(s.context, tid)
  BY DEF Fields, EraseThread
<1>3. EraseThread(s, tid).previous_bb = RemoveAt(s.previous_bb, tid)
  BY DEF Fields, EraseThread
<1>4. EraseThread(s, tid).tids = RemoveAt(s.tids, tid)
  BY DEF Fields, EraseThread
<1>5. QED
  BY <1>1, <1>2, <1>3, <1>4

(* A return from the last frame of a thread. *)
LEMMA PopLastFields ==
  ASSUME NEW s, DOMAIN s = Fields, NEW tid, LastFrame(s, tid)
  PROVE  /\ SameBut(s, PopFrame(s, tid), {"context", "previous_bb", "tids", "layout"})
         /\ PopFrame(s, tid).context = RemoveAt(s.context, tid)
         /\ PopFrame(s, tid).previous_bb = RemoveAt(s.previous_bb, tid)
         /\ PopFrame(s, tid).tids = RemoveAt(s.tids, tid)
         /\ PopFrame(s, tid).layout = DropFrame(s.layout, tid)
<1> DEFINE r == EraseThread(s, tid)
<1>1. /\ SameBut(s, r, {"context", "previous_bb", "tids"})
      /\ r.context = RemoveAt(s.context, tid)
      /\ r.previous_bb = RemoveAt(s.previous_bb, tid)
      /\ r.tids = RemoveAt(s.tids, tid)
  BY EraseFields
<1>2. PopFrame(s, tid) = [r EXCEPT !.layout = DropFrame(@, tid)]
  BY DEF PopFrame, Leave
<1> HIDE DEF r
<1>3. DOMAIN r = Fields
  BY <1>1 DEF SameBut
<1>4. /\ SameBut(r, [r EXCEPT !.layout = DropFrame(@, tid)], {"layout"})
      /\ [r EXCEPT !.layout = DropFrame(@, tid)].layout = DropFrame(r.layout, tid)
  BY <1>3 DEF SameBut, Fields
<1>5. QED
  BY <1>1, <1>2, <1>4 DEF SameBut

(* A return from another one. *)
LEMMA PopFields ==
  ASSUME NEW s, DOMAIN s = Fields, NEW tid, ~ LastFrame(s, tid)
  PROVE  /\ SameBut(s, PopFrame(s, tid), {"context", "layout"})
         /\ PopFrame(s, tid).context = [s.context EXCEPT ![tid] = Front(@)]
         /\ PopFrame(s, tid).layout = DropFrame(s.layout, tid)
<1>1. SameBut(s, PopFrame(s, tid), {"context", "layout"})
  BY DEF SameBut, Fields, PopFrame, Leave
<1>2. PopFrame(s, tid).context = [s.context EXCEPT ![tid] = Front(@)]
  BY DEF Fields, PopFrame, Leave
<1>3. PopFrame(s, tid).layout = DropFrame(s.layout, tid)
  BY DEF Fields, PopFrame, Leave
<1>4. QED
  BY <1>1, <1>2, <1>3

(* The start of a thread, in Control. *)
LEMMA StartFields ==
  ASSUME NEW s, DOMAIN s = Fields, NEW f
  PROVE  /\ SameBut(s, StartThread(s, f), {"context", "previous_bb", "tids", "next_free_tid"})
         /\ StartThread(s, f).context = Append(s.context, << <<f, 1>> >>)
         /\ StartThread(s, f).previous_bb = Append(s.previous_bb, NoPC)
         /\ StartThread(s, f).tids = Append(s.tids, s.next_free_tid)
         /\ StartThread(s, f).next_free_tid = (s.next_free_tid + 1) % TidRange
<1>1. SameBut(s, StartThread(s, f), {"context", "previous_bb", "tids", "next_free_tid"})
  BY DEF SameBut, Fields, StartThread
<1>2. StartThread(s, f).context = Append(s.context, << <<f, 1>> >>)
  BY DEF Fields, StartThread
<1>3. StartThread(s, f).previous_bb = Append(s.previous_bb, NoPC)
  BY DEF Fields, StartThread
<1>4. StartThread(s, f).tids = Append(s.tids, s.next_free_tid)
  BY DEF Fields, StartThread
<1>5. StartThread(s, f).next_free_tid = (s.next_free_tid + 1) % TidRange
  BY DEF Fields, StartThread
<1>6. QED
  BY <1>1, <1>2, <1>3, <1>4, <1>5

(* And in the layout. *)
LEMMA NewThreadFields ==
  ASSUME NEW s, DOMAIN s = Fields, NEW f
  PROVE  /\ SameBut(s, NewThread(s, f), {"context", "previous_bb", "tids", "next_free_tid", "layout"})
         /\ NewThread(s, f).context = Append(s.context, << <<f, 1>> >>)
         /\ NewThread(s, f).previous_bb = Append(s.previous_bb, NoPC)
         /\ NewThread(s, f).tids = Append(s.tids, s.next_free_tid)
         /\ NewThread(s, f).next_free_tid = (s.next_free_tid + 1) % TidRange
         /\ NewThread(s, f).layout = Append(s.layout, <<f>>)
<1> DEFINE r == StartThread(s, f)
<1>1. /\ SameBut(s, r, {"context", "previous_bb", "tids", "next_free_tid"})
      /\ r.context = Append(s.context, << <<f, 1>> >>)
      /\ r.previous_bb = Append(s.previous_bb, NoPC)
      /\ r.tids = Append(s.tids, s.next_free_tid)
      /\ r.next_free_tid = (s.next_free_tid + 1) % TidRange
  BY StartFields
<1>2. NewThread(s, f) = [r EXCEPT !.layout = Append(@, <<f>>)]
  BY DEF NewThread
<1> HIDE DEF r
<1>3. DOMAIN r = Fields
  BY <1>1 DEF SameBut
<1>4. /\ SameBut(r, [r EXCEPT !.layout = Append(@, <<f>>)], {"layout"})
      /\ [r EXCEPT !.layout = Append(@, <<f>>)].layout = Append(r.layout, <<f>>)
  BY <1>3 DEF SameBut, Fields
<1>5. QED
  BY <1>1, <1>2, <1>4 DEF SameBut

(* h is g but for the fields of F *)
Alike(g, h, F) ==
  /\ DOMAIN g = ViewFields /\ DOMAIN h = ViewFields
  /\ "stack" \notin F => h.stack = g.stack
  /\ "came" \notin F => h.came = g.came
  /\ "owner" \notin F => h.owner = g.owner
  /\ "depth" \notin F => h.depth = g.depth
  /\ "slots" \notin F => h.slots = g.slots
  /\ "mem" \notin F => h.mem = g.mem
  /\ "next" \notin F => h.next = g.next
  /\ "err" \notin F => h.err = g.err

(* a valuation after assignments *)
Given(m, moves) == [v \in Var |-> IF v \in DOMAIN moves THEN Read(m, moves[v]) ELSE m[v]]

(* The same for what the interleavings are made of. *)
LEMMA GoToFields ==
  ASSUME NEW g, DOMAIN g = ViewFields, NEW t, NEW n
  PROVE  /\ Alike(g, GoTo(g, t, n), {"stack"})
         /\ GoTo(g, t, n).stack = [g.stack EXCEPT ![t] = Append(Front(@), <<Last(g.stack[t])[1], n>>)]
BY DEF Alike, ViewFields, GoTo, Here

(* One instruction further. *)
LEMMA GoOnFields ==
  ASSUME NEW g, DOMAIN g = ViewFields, NEW t
  PROVE  /\ Alike(g, GoOn(g, t), {"stack"})
         /\ GoOn(g, t).stack = [g.stack EXCEPT ![t] = Behind(g.stack[t])]
<1>1. Alike(g, GoOn(g, t), {"stack"})
  BY DEF Alike, ViewFields, GoOn, GoTo
<1>2. GoOn(g, t).stack = [g.stack EXCEPT ![t] = Behind(g.stack[t])]
  BY DEF ViewFields, GoOn, GoTo, Here, Behind, After
<1>3. QED
  BY <1>1, <1>2

(* thread t has jumped to instruction n of its function *)
JumpedView(g, h, t, n) ==
  /\ Alike(g, h, {"stack", "came"})
  /\ h.stack = [g.stack EXCEPT ![t] = Append(Front(@), <<Last(g.stack[t])[1], n>>)]
  /\ h.came = [g.came EXCEPT ![t] = <<Last(g.stack[t])[2], g.mem>>]

(* A jump. *)
LEMMA JumpViewFields ==
  ASSUME NEW g, DOMAIN g = ViewFields, NEW t, NEW n
  PROVE  JumpedView(g, Jump(g, t, n), t, n)
<1> DEFINE h == GoTo(g, t, n)
           Z == <<Last(g.stack[t])[2], g.mem>>
<1>1. /\ Alike(g, h, {"stack"})
      /\ h.stack = [g.stack EXCEPT ![t] = Append(Front(@), <<Last(g.stack[t])[1], n>>)]
  BY GoToFields
<1>2. Jump(g, t, n) = [h EXCEPT !.came[t] = Z]
  BY DEF Jump, Here
<1> HIDE DEF h, Z
<1>3. DOMAIN h = ViewFields
  BY <1>1 DEF Alike
<1>4. /\ Alike(h, [h EXCEPT !.came[t] = Z], {"came"})
      /\ [h EXCEPT !.came[t] = Z].came = [h.came EXCEPT ![t] = Z]
  BY <1>3 DEF Alike, ViewFields
<1>5. h.came = g.came
  BY <1>1 DEF Alike, ViewFields
<1>6. Jump(g, t, n).came = [g.came EXCEPT ![t] = Z]
  BY <1>2, <1>4, <1>5
<1>7. /\ Alike(g, Jump(g, t, n), {"stack", "came"})
      /\ Jump(g, t, n).stack = h.stack
  BY <1>1, <1>2, <1>4 DEF Alike, ViewFields
<1>8. QED
  BY <1>1, <1>6, <1>7 DEF JumpedView, Z

(* Assignments. *)
LEMMA AssignFields ==
  ASSUME NEW g, DOMAIN g = ViewFields, NEW moves
  PROVE  /\ Alike(g, Assign(g, moves), {"mem"})
         /\ Assign(g, moves).mem = Given(g.mem, moves)
BY DEF Alike, ViewFields, Assign, Given

(* Entering an atomic section. *)
LEMMA EnterFields ==
  ASSUME NEW g, DOMAIN g = ViewFields, NEW t
  PROVE  /\ Alike(g, Enter(g, t), {"owner", "depth"})
         /\ Enter(g, t).owner = t
         /\ Enter(g, t).depth = g.depth + 1
<1>1. Alike(g, Enter(g, t), {"owner", "depth"})
  BY DEF Alike, ViewFields, Enter
<1>2. Enter(g, t).owner = t
  BY DEF ViewFields, Enter
<1>3. Enter(g, t).depth = g.depth + 1
  BY DEF ViewFields, Enter
<1>4. QED
  BY <1>1, <1>2, <1>3

(* Leaving one. *)
LEMMA ExitedFields ==
  ASSUME NEW g, DOMAIN g = ViewFields
  PROVE  /\ Alike(g, Exited(g), {"owner", "depth"})
         /\ Exited(g).owner = IF g.depth = 1 THEN NoThread ELSE g.owner
         /\ Exited(g).depth = g.depth - 1
<1>1. Alike(g, Exited(g), {"owner", "depth"})
  BY DEF Alike, ViewFields, Exited
<1>2. Exited(g).owner = IF g.depth = 1 THEN NoThread ELSE g.owner
  BY DEF ViewFields, Exited
<1>3. Exited(g).depth = g.depth - 1
  BY DEF ViewFields, Exited
<1>4. QED
  BY <1>1, <1>2, <1>3

(* The end of threads. *)
LEMMA EndedFields ==
  ASSUME NEW g, DOMAIN g = ViewFields, NEW T
  PROVE  /\ Alike(g, Ended(g, T), {"stack", "came"})
         /\ Ended(g, T).stack = [x \in DOMAIN g.stack \ T |-> g.stack[x]]
         /\ Ended(g, T).came = [x \in DOMAIN g.came \ T |-> g.came[x]]
<1>1. Alike(g, Ended(g, T), {"stack", "came"})
  BY DEF Alike, ViewFields, Ended
<1>2. Ended(g, T).stack = [x \in DOMAIN g.stack \ T |-> g.stack[x]]
  BY DEF ViewFields, Ended, Without
<1>3. Ended(g, T).came = [x \in DOMAIN g.came \ T |-> g.came[x]]
  BY DEF ViewFields, Ended, Without
<1>4. QED
  BY <1>1, <1>2, <1>3

(* a thread with function i.function has been started *)
Spawned(g, h, i) ==
  /\ Alike(g, h, {"stack", "came", "slots", "next", "mem"})
  /\ h.stack = [x \in DOMAIN g.stack \cup {g.next} |->
                  IF x = g.next THEN << <<i.function, 1>> >> ELSE g.stack[x]]
  /\ h.came = [x \in DOMAIN g.came \cup {g.next} |-> IF x = g.next THEN <<0, g.mem>> ELSE g.came[x]]
  /\ h.slots = [g.slots EXCEPT ![i.slot] = g.next]
  /\ h.next = g.next + 1
  /\ h.mem = Given(g.mem, i.moves)

(* The start of a thread. *)
LEMMA SpawnFields ==
  ASSUME NEW g, DOMAIN g = ViewFields, NEW i
  PROVE  Spawned(g, Spawn(g, i), i)
<1> DEFINE h == Assign(g, i.moves)
<1>1. /\ Alike(g, h, {"mem"})
      /\ h.mem = Given(g.mem, i.moves)
  BY AssignFields
<1>2. Spawn(g, i) =
       [h EXCEPT
         !.stack = [x \in DOMAIN @ \cup {g.next} |->
                      IF x = g.next THEN << <<i.function, 1>> >> ELSE @[x]],
         !.came  = [x \in DOMAIN @ \cup {g.next} |-> IF x = g.next THEN <<0, g.mem>> ELSE @[x]],
         !.slots[i.slot] = g.next,
         !.next  = @ + 1]
  BY DEF Spawn
<1> HIDE DEF h
<1>3. DOMAIN h = ViewFields
  BY <1>1 DEF Alike
<1>h. h.stack = g.stack /\ h.came = g.came /\ h.slots = g.slots /\ h.next = g.next
  BY <1>1 DEF Alike
<1>4. Alike(h, Spawn(g, i), {"stack", "came", "slots", "next", "mem"})
  BY <1>2, <1>3 DEF Alike, ViewFields
<1>5. Spawn(g, i).stack = [x \in DOMAIN g.stack \cup {g.next} |->
                                   IF x = g.next THEN << <<i.function, 1>> >> ELSE g.stack[x]]
  BY <1>2, <1>3, <1>h DEF ViewFields
<1>6. Spawn(g, i).came = [x \in DOMAIN g.came \cup {g.next} |-> IF x = g.next THEN <<0, g.mem>> ELSE g.came[x]]
  BY <1>2, <1>3, <1>h DEF ViewFields
<1>7. Spawn(g, i).slots = [g.slots EXCEPT ![i.slot] = g.next]
  BY <1>2, <1>3, <1>h DEF ViewFields
<1>8. Spawn(g, i).next = g.next + 1
  BY <1>2, <1>3, <1>h DEF ViewFields
<1>9. Spawn(g, i).mem = h.mem
  BY <1>2, <1>3 DEF ViewFields
<1>10. QED
  BY <1>1, <1>4, <1>5, <1>6, <1>7, <1>8, <1>9 DEF Alike, Spawned

-----------------------------------------------------------------------------
(* The parts of a state that is in order.                                  *)

(* StateOK by parts: a thread, the threads, their identifiers, the owner of
   the atomic section, and the stores. *)
ThreadOK(code, frames, from) ==
  /\ frames \in Seq(Positions(code))
  /\ FramesOK(code, frames)
  /\ from \in Positions(code) \cup {NoPC}
  /\ CameByEdge(code, Last(frames), from)
ThreadsOK(code, c, p) ==
  /\ c \in Seq(Seq(Positions(code)))
  /\ p \in Seq(Positions(code) \cup {NoPC})
  /\ Len(p) = Len(c)
  /\ \A i \in 1 .. Len(c) : ThreadOK(code, c[i], p[i])
TidsOK(t, n) ==
  /\ t \in Seq(0 .. TidRange - 1)
  /\ Len(t) = n
  /\ \A i, j \in 1 .. n : t[i] = t[j] => i = j
SectionOK(a, n) ==
  /\ a \in Seq(1 .. n)
  /\ \A k, l \in 1 .. Len(a) : a[k] = a[l]
StoreOK(s) ==
  /\ s.explicitData \in [Slot -> 0 .. TidRange - 1]
  /\ s.data \subseteq [Var -> Val]
  /\ s.error \in BOOLEAN

(* Identifiers of threads have 16 bits. *)
LEMMA TidRangeIs == TidRange \in Nat /\ TidRange > 1
BY SMT DEF TidRange

(* A state is in order if its parts are. *)
LEMMA StateIs ==
  ASSUME NEW code, NEW s
  PROVE  StateOK(code, s) <=>
           /\ DOMAIN s = Fields
           /\ ThreadsOK(code, s.context, s.previous_bb)
           /\ TidsOK(s.tids, Len(s.context))
           /\ s.next_free_tid \in 0 .. TidRange - 1
           /\ SectionOK(s.atomic_section, Len(s.context))
           /\ StoreOK(s)
<1> DEFINE P == Positions(code)
<1> HIDE DEF P
<1>1. ASSUME s.context \in Seq(Seq(P)) PROVE DOMAIN s.context = 1 .. Len(s.context) /\ Len(s.context) \in Nat
  BY <1>1
<1>2. ASSUME s.tids \in Seq(0 .. TidRange - 1) PROVE DOMAIN s.tids = 1 .. Len(s.tids)
  BY <1>2
<1>3. ASSUME NEW n, s.atomic_section \in Seq(1 .. n) PROVE DOMAIN s.atomic_section = 1 .. Len(s.atomic_section)
  BY <1>3
<1>4. ASSUME s.context \in Seq(Seq(P)), NEW i \in 1 .. Len(s.context) PROVE s.context[i] \in Seq(P)
  BY <1>4
<1>5. ASSUME s.previous_bb \in Seq(P \cup {NoPC}), Len(s.previous_bb) = Len(s.context), NEW i \in 1 .. Len(s.context)
      PROVE  s.previous_bb[i] \in P \cup {NoPC}
  BY <1>5
<1>6. ASSUME StateOK(code, s)
      PROVE  /\ DOMAIN s = Fields
             /\ ThreadsOK(code, s.context, s.previous_bb)
             /\ TidsOK(s.tids, Len(s.context))
             /\ s.next_free_tid \in 0 .. TidRange - 1
             /\ SectionOK(s.atomic_section, Len(s.context))
             /\ StoreOK(s)
  <2>1. DOMAIN s = Fields /\ StoreOK(s) /\ s.next_free_tid \in 0 .. TidRange - 1
    BY <1>6 DEF StateOK, Fields, StoreOK
  <2>2. s.context \in Seq(Seq(P)) /\ s.previous_bb \in Seq(P \cup {NoPC}) /\ Len(s.previous_bb) = Len(s.context)
    BY <1>6 DEF StateOK, P
  <2>3. ASSUME NEW i \in 1 .. Len(s.context) PROVE ThreadOK(code, s.context[i], s.previous_bb[i])
    <3>1. FramesOK(code, s.context[i]) /\ CameByEdge(code, GetPC(s, i), s.previous_bb[i])
      BY <1>6, <2>2, <1>1 DEF StateOK
    <3>2. QED
      BY <3>1, <2>2, <1>4, <1>5 DEF ThreadOK, GetPC, P
  <2>4. ThreadsOK(code, s.context, s.previous_bb)
    BY <2>2, <2>3 DEF ThreadsOK, P
  <2>5. TidsOK(s.tids, Len(s.context))
    BY <1>6, <1>2 DEF StateOK, TidsOK
  <2>6. SectionOK(s.atomic_section, Len(s.context))
    BY <1>6, <1>1, <1>3, <2>2 DEF StateOK, SectionOK
  <2>7. QED
    BY <2>1, <2>4, <2>5, <2>6
<1>7. ASSUME /\ DOMAIN s = Fields
             /\ ThreadsOK(code, s.context, s.previous_bb)
             /\ TidsOK(s.tids, Len(s.context))
             /\ s.next_free_tid \in 0 .. TidRange - 1
             /\ SectionOK(s.atomic_section, Len(s.context))
             /\ StoreOK(s)
      PROVE  StateOK(code, s)
  <2>1. s.context \in Seq(Seq(P)) /\ s.previous_bb \in Seq(P \cup {NoPC}) /\ Len(s.previous_bb) = Len(s.context)
    BY <1>7 DEF ThreadsOK, P
  <2>2. \A i \in DOMAIN s.context : FramesOK(code, s.context[i]) /\ CameByEdge(code, GetPC(s, i), s.previous_bb[i])
    BY <1>7, <1>1, <2>1 DEF ThreadsOK, ThreadOK, GetPC
  <2>3. s.tids \in Seq(0 .. TidRange - 1) /\ Len(s.tids) = Len(s.context)
        /\ \A i, j \in DOMAIN s.tids : s.tids[i] = s.tids[j] => i = j
    BY <1>7, <1>2 DEF TidsOK
  <2>4. s.atomic_section \in Seq(DOMAIN s.context)
        /\ \A k, l \in DOMAIN s.atomic_section : s.atomic_section[k] = s.atomic_section[l]
    BY <1>7, <1>1, <1>3, <2>1 DEF SectionOK
  <2>5. QED
    BY <1>7, <2>1, <2>2, <2>3, <2>4 DEF StateOK, Fields, StoreOK, P
<1>8. QED
  BY <1>6, <1>7

(* The threads stay in order when the frames of one change, ... *)
LEMMA ChangedThreads ==
  ASSUME NEW code, NEW c, NEW p, ThreadsOK(code, c, p), NEW i \in 1 .. Len(c),
         NEW X, NEW Y, ThreadOK(code, X, Y)
  PROVE  /\ ThreadsOK(code, [c EXCEPT ![i] = X], [p EXCEPT ![i] = Y])
         /\ Len([c EXCEPT ![i] = X]) = Len(c)
<1> DEFINE P == Positions(code)
           SP == Seq(P)
           d == [c EXCEPT ![i] = X]
           q == [p EXCEPT ![i] = Y]
<1>1. c \in Seq(SP) /\ p \in Seq(P \cup {NoPC}) /\ Len(p) = Len(c)
  BY DEF ThreadsOK
<1>2. X \in SP /\ Y \in P \cup {NoPC}
  BY DEF ThreadOK
<1> HIDE DEF P, SP
<1>3. d \in Seq(SP) /\ Len(d) = Len(c) /\ d[i] = X /\ \A k \in 1 .. Len(c) : k # i => d[k] = c[k]
  BY <1>1, <1>2
<1>4. q \in Seq(P \cup {NoPC}) /\ Len(q) = Len(c) /\ q[i] = Y /\ \A k \in 1 .. Len(c) : k # i => q[k] = p[k]
  BY <1>1, <1>2
<1>5. \A k \in 1 .. Len(c) : ThreadOK(code, c[k], p[k])
  BY DEF ThreadsOK
<1> HIDE DEF d, q
<1>6. \A k \in 1 .. Len(d) : ThreadOK(code, d[k], q[k])
  BY <1>3, <1>4, <1>5
<1>7. ThreadsOK(code, d, q)
  BY <1>3, <1>4, <1>6 DEF ThreadsOK, P, SP
<1>8. QED
  BY <1>3, <1>7 DEF d, q

(* ... when one ends, ... *)
LEMMA DroppedThreads ==
  ASSUME NEW code, NEW c, NEW p, ThreadsOK(code, c, p), NEW i \in 1 .. Len(c),
         NEW t, TidsOK(t, Len(c))
  PROVE  /\ ThreadsOK(code, RemoveAt(c, i), RemoveAt(p, i))
         /\ Len(RemoveAt(c, i)) = Len(c) - 1
         /\ TidsOK(RemoveAt(t, i), Len(c) - 1)
<1> DEFINE P == Positions(code)
           SP == Seq(P)
           d == RemoveAt(c, i)
           q == RemoveAt(p, i)
           u == RemoveAt(t, i)
           T == 0 .. TidRange - 1
           PN == P \cup {NoPC}
<1>1. c \in Seq(SP) /\ p \in Seq(PN) /\ Len(p) = Len(c) /\ t \in Seq(T) /\ Len(t) = Len(c)
  BY DEF ThreadsOK, TidsOK
<1>5. \A k \in 1 .. Len(c) : ThreadOK(code, c[k], p[k])
  BY DEF ThreadsOK
<1>d. \A k, l \in 1 .. Len(c) : t[k] = t[l] => k = l
  BY DEF TidsOK
<1> HIDE DEF P, SP, T, PN
<1>n. Len(c) \in Nat
  BY <1>1
<1>3. d \in Seq(SP) /\ Len(d) = Len(c) - 1 /\ \A k \in 1 .. Len(c) - 1 : d[k] = IF k < i THEN c[k] ELSE c[k + 1]
  BY <1>1, Removing
<1>p. i \in 1 .. Len(p) /\ i \in 1 .. Len(t)
  BY <1>1
<1>4. q \in Seq(PN) /\ Len(q) = Len(p) - 1 /\ \A k \in 1 .. Len(p) - 1 : q[k] = IF k < i THEN p[k] ELSE p[k + 1]
  BY <1>1, <1>p, Removing
<1>6. u \in Seq(T) /\ Len(u) = Len(t) - 1 /\ \A k \in 1 .. Len(t) - 1 : u[k] = IF k < i THEN t[k] ELSE t[k + 1]
  BY <1>1, <1>p, Removing
<1> HIDE DEF d, q, u
<1>7. \A k \in 1 .. Len(d) : ThreadOK(code, d[k], q[k])
  <2>1. TAKE k \in 1 .. Len(d)
  <2>2. CASE k < i
    BY <2>2, <1>1, <1>3, <1>4, <1>5, <1>n
  <2>3. CASE ~ k < i
    <3>1. k + 1 \in 1 .. Len(c) /\ k \in 1 .. Len(c) - 1
      BY <1>n, <1>3
    <3>2. d[k] = c[k + 1] /\ q[k] = p[k + 1]
      BY <2>3, <3>1, <1>1, <1>3, <1>4
    <3>3. QED
      BY <3>1, <3>2, <1>5
  <2>4. QED
    BY <2>2, <2>3
<1>8. ThreadsOK(code, d, q)
  BY <1>1, <1>3, <1>4, <1>7 DEF ThreadsOK, P, SP, PN
<1>9. \A k, l \in 1 .. Len(c) - 1 : u[k] = u[l] => k = l
  <2>1. TAKE k, l \in 1 .. Len(c) - 1
  <2>2. u[k] = (IF k < i THEN t[k] ELSE t[k + 1]) /\ u[l] = (IF l < i THEN t[l] ELSE t[l + 1])
    BY <1>1, <1>6
  <2>3. k \in 1 .. Len(c) /\ k + 1 \in 1 .. Len(c) /\ l \in 1 .. Len(c) /\ l + 1 \in 1 .. Len(c)
    BY <1>n
  <2>4. QED
    BY <2>2, <2>3, <1>d, <1>n
<1>10. TidsOK(u, Len(c) - 1)
  BY <1>1, <1>6, <1>9 DEF TidsOK, T
<1>11. QED
  BY <1>3, <1>8, <1>10 DEF d, q, u

(* ... and when one starts. *)
LEMMA AddedThreads ==
  ASSUME NEW code, NEW c, NEW p, ThreadsOK(code, c, p), NEW X, NEW Y, ThreadOK(code, X, Y),
         NEW t, TidsOK(t, Len(c)), NEW n \in 0 .. TidRange - 1, \A i \in 1 .. Len(c) : t[i] < n
  PROVE  /\ ThreadsOK(code, Append(c, X), Append(p, Y))
         /\ Len(Append(c, X)) = Len(c) + 1
         /\ TidsOK(Append(t, n), Len(c) + 1)
<1> DEFINE P == Positions(code)
           SP == Seq(P)
           d == Append(c, X)
           q == Append(p, Y)
           u == Append(t, n)
           T == 0 .. TidRange - 1
           PN == P \cup {NoPC}
<1>1. c \in Seq(SP) /\ p \in Seq(PN) /\ Len(p) = Len(c) /\ t \in Seq(T) /\ Len(t) = Len(c) /\ n \in T
  BY DEF ThreadsOK, TidsOK
<1>5. \A k \in 1 .. Len(c) : ThreadOK(code, c[k], p[k])
  BY DEF ThreadsOK
<1>d. \A k, l \in 1 .. Len(c) : t[k] = t[l] => k = l
  BY DEF TidsOK
<1>2. X \in SP /\ Y \in PN
  BY DEF ThreadOK
<1>t. TidRange \in Nat
  BY TidRangeIs
<1> HIDE DEF P, SP, T, PN
<1>v. n \in T /\ \A i \in 1 .. Len(c) : t[i] \in T
  BY <1>1
<1>u. n \in Nat /\ \A i \in 1 .. Len(c) : t[i] \in Nat
  BY <1>v, <1>t DEF T
<1>n. Len(c) \in Nat
  BY <1>1
<1>3. d \in Seq(SP) /\ Len(d) = Len(c) + 1 /\ (\A k \in 1 .. Len(c) : d[k] = c[k]) /\ d[Len(c) + 1] = X
  BY <1>1, <1>2, Appending
<1>4. q \in Seq(PN) /\ Len(q) = Len(c) + 1 /\ (\A k \in 1 .. Len(c) : q[k] = p[k]) /\ q[Len(c) + 1] = Y
  BY <1>1, <1>2, Appending
<1>6. u \in Seq(T) /\ Len(u) = Len(c) + 1 /\ (\A k \in 1 .. Len(c) : u[k] = t[k]) /\ u[Len(c) + 1] = n
  BY <1>1, <1>2, Appending
<1> HIDE DEF d, q, u
<1>7. \A k \in 1 .. Len(d) : ThreadOK(code, d[k], q[k])
  <2>1. TAKE k \in 1 .. Len(d)
  <2>2. k \in 1 .. Len(c) \/ k = Len(c) + 1
    BY <1>3, <1>n
  <2>3. QED
    BY <2>2, <1>3, <1>4, <1>5
<1>8. ThreadsOK(code, d, q)
  BY <1>3, <1>4, <1>7 DEF ThreadsOK, P, SP, PN
<1>9. \A k, l \in 1 .. Len(c) + 1 : u[k] = u[l] => k = l
  <2>1. TAKE k, l \in 1 .. Len(c) + 1
  <2>2. (k \in 1 .. Len(c) \/ k = Len(c) + 1) /\ (l \in 1 .. Len(c) \/ l = Len(c) + 1)
    BY <1>n
  <2>3. QED
    BY <2>2, <1>6, <1>d, <1>u
<1>10. TidsOK(u, Len(c) + 1)
  BY <1>6, <1>9 DEF TidsOK, T
<1>11. QED
  BY <1>3, <1>8, <1>10 DEF d, q, u

-----------------------------------------------------------------------------
(* States of the evaluator and of the interleavings.                       *)

(* the identifiers of the live threads *)
Named(t) == {t[i] : i \in 1 .. Len(t)}

(* stack and came hold, by identifier, what the vectors hold by index *)
Agrees(code, c, p, t, stack, came) ==
  /\ stack = [x \in Named(t) |-> stack[x]]
  /\ came = [x \in Named(t) |-> came[x]]
  /\ \A i \in 1 .. Len(c) :
       /\ stack[t[i]] = c[i]
       /\ Instruction(code, Last(c[i])).op = "phi" => came[t[i]][1] = p[i][2]

(* g is what the state s of the evaluator stands for, under one valuation *)
Follows(code, s, g) ==
  /\ DOMAIN g = ViewFields
  /\ Agrees(code, s.context, s.previous_bb, s.tids, g.stack, g.came)
  /\ \A i \in 1 .. Len(s.context) : s.tids[i] < s.next_free_tid
  /\ g.owner = IF s.atomic_section = << >> THEN NoThread ELSE s.tids[s.atomic_section[1]]
  /\ g.depth = Len(s.atomic_section)
  /\ g.slots = s.explicitData
  /\ g.next = s.next_free_tid
  /\ g.err = s.error

(* Both sides still agree when the frames of a thread change on both, ... *)
LEMMA ChangedAgrees ==
  ASSUME NEW code, NEW c, NEW p, ThreadsOK(code, c, p), NEW t, TidsOK(t, Len(c)),
         NEW i \in 1 .. Len(c), NEW stack, NEW came, Agrees(code, c, p, t, stack, came),
         NEW X, NEW Y, NEW Z, Instruction(code, Last(X)).op = "phi" => Z[1] = Y[2]
  PROVE  Agrees(code, [c EXCEPT ![i] = X], [p EXCEPT ![i] = Y], t,
                [stack EXCEPT ![t[i]] = X], [came EXCEPT ![t[i]] = Z])
<1> DEFINE P == Positions(code)
           SP == Seq(P)
           PN == P \cup {NoPC}
           d == [c EXCEPT ![i] = X]
           q == [p EXCEPT ![i] = Y]
           N == Named(t)
           T == 0 .. TidRange - 1
           S2 == [stack EXCEPT ![t[i]] = X]
           C2 == [came EXCEPT ![t[i]] = Z]
<1>1. c \in Seq(SP) /\ p \in Seq(PN) /\ Len(p) = Len(c) /\ t \in Seq(T) /\ Len(t) = Len(c)
  BY DEF ThreadsOK, TidsOK
<1>2. \A k, l \in 1 .. Len(c) : t[k] = t[l] => k = l
  BY DEF TidsOK
<1>3. stack = [x \in N |-> stack[x]] /\ came = [x \in N |-> came[x]]
  BY DEF Agrees
<1>4. \A k \in 1 .. Len(c) : stack[t[k]] = c[k] /\ (Instruction(code, Last(c[k])).op = "phi" => came[t[k]][1] = p[k][2])
  BY DEF Agrees
<1>5. \A k \in 1 .. Len(c) : t[k] \in N
  BY <1>1 DEF Named
<1> HIDE DEF P, SP, PN, N, T
<1>6. S2 = [x \in N |-> S2[x]] /\ C2 = [x \in N |-> C2[x]]
  BY <1>3
<1>7. \A x \in N : x # t[i] => S2[x] = stack[x] /\ C2[x] = came[x]
  BY <1>3
<1>8. S2[t[i]] = X /\ C2[t[i]] = Z
  BY <1>3, <1>5
<1>9. DOMAIN c = 1 .. Len(c) /\ DOMAIN p = 1 .. Len(c) /\ Len(c) \in Nat
  BY <1>1
<1>10. d[i] = X /\ q[i] = Y /\ \A k \in 1 .. Len(c) : k # i => d[k] = c[k] /\ q[k] = p[k]
  BY <1>9
<1>11. Len(d) = Len(c)
  BY <1>1, <1>9
<1> HIDE DEF d, q, S2, C2
<1>12. \A k \in 1 .. Len(d) : S2[t[k]] = d[k] /\ (Instruction(code, Last(d[k])).op = "phi" => C2[t[k]][1] = q[k][2])
  <2>1. TAKE k \in 1 .. Len(d)
  <2>2. CASE k = i
    BY <2>2, <1>8, <1>10
  <2>3. CASE k # i
    <3>1. t[k] # t[i] /\ t[k] \in N /\ d[k] = c[k] /\ q[k] = p[k] /\ k \in 1 .. Len(c)
      BY <2>3, <1>11, <1>2, <1>5, <1>10
    <3>2. S2[t[k]] = stack[t[k]] /\ C2[t[k]] = came[t[k]]
      BY <3>1, <1>7
    <3>3. QED
      BY <3>1, <3>2, <1>4
  <2>4. QED
    BY <2>2, <2>3
<1>13. Agrees(code, d, q, t, S2, C2)
  BY <1>6, <1>12 DEF Agrees, N
<1>14. QED
  BY <1>13 DEF d, q, S2, C2

(* e is f without x, and with X for n *)
Dropping(f, e, x)  == e = [y \in DOMAIN f \ {x} |-> f[y]]
Adding(f, e, n, X) == e = [y \in DOMAIN f \cup {n} |-> IF y = n THEN X ELSE f[y]]

(* ... when a thread ends, ... *)
LEMMA DroppedAgrees ==
  ASSUME NEW code, NEW c, NEW p, ThreadsOK(code, c, p), NEW t, TidsOK(t, Len(c)),
         NEW i \in 1 .. Len(c), NEW stack, NEW came, Agrees(code, c, p, t, stack, came),
         NEW S2, Dropping(stack, S2, t[i]), NEW C2, Dropping(came, C2, t[i])
  PROVE  Agrees(code, RemoveAt(c, i), RemoveAt(p, i), RemoveAt(t, i), S2, C2)
<1> DEFINE P == Positions(code)
           SP == Seq(P)
           PN == P \cup {NoPC}
           d == RemoveAt(c, i)
           q == RemoveAt(p, i)
           u == RemoveAt(t, i)
           N == Named(t)
           M == Named(u)
           T == 0 .. TidRange - 1
<1>e. S2 = [x \in DOMAIN stack \ {t[i]} |-> stack[x]] /\ C2 = [x \in DOMAIN came \ {t[i]} |-> came[x]]
  BY DEF Dropping
<1>1. c \in Seq(SP) /\ p \in Seq(PN) /\ Len(p) = Len(c) /\ t \in Seq(T) /\ Len(t) = Len(c)
  BY DEF ThreadsOK, TidsOK
<1>2. \A k, l \in 1 .. Len(c) : t[k] = t[l] => k = l
  BY DEF TidsOK
<1>3. stack = [x \in N |-> stack[x]] /\ came = [x \in N |-> came[x]]
  BY DEF Agrees
<1>4. \A k \in 1 .. Len(c) : stack[t[k]] = c[k] /\ (Instruction(code, Last(c[k])).op = "phi" => came[t[k]][1] = p[k][2])
  BY DEF Agrees
<1> HIDE DEF P, SP, PN, T
<1>n. Len(c) \in Nat /\ i \in 1 .. Len(p) /\ i \in 1 .. Len(t)
  BY <1>1
<1>5. Len(d) = Len(c) - 1 /\ \A k \in 1 .. Len(c) - 1 : d[k] = IF k < i THEN c[k] ELSE c[k + 1]
  BY <1>1, <1>n, Removing
<1>6. \A k \in 1 .. Len(c) - 1 : q[k] = IF k < i THEN p[k] ELSE p[k + 1]
  BY <1>1, <1>n, Removing
<1>7. Len(u) = Len(c) - 1 /\ \A k \in 1 .. Len(c) - 1 : u[k] = IF k < i THEN t[k] ELSE t[k + 1]
  BY <1>1, <1>n, Removing
<1> HIDE DEF d, q, u
<1>8. M = N \ {t[i]}
  <2>1. ASSUME NEW x \in M PROVE x \in N \ {t[i]}
    <3>1. PICK k \in 1 .. Len(u) : x = u[k]
      BY DEF Named
    <3>2. k \in 1 .. Len(c) - 1 /\ k \in 1 .. Len(c) /\ k + 1 \in 1 .. Len(c)
      BY <1>7, <1>n
    <3>3. x = t[IF k < i THEN k ELSE k + 1] /\ (IF k < i THEN k ELSE k + 1) # i
          /\ (IF k < i THEN k ELSE k + 1) \in 1 .. Len(c)
      BY <3>1, <3>2, <1>7, <1>n
    <3>4. QED
      BY <3>3, <1>2, <1>1 DEF Named
  <2>2. ASSUME NEW x \in N \ {t[i]} PROVE x \in M
    <3>1. PICK k \in 1 .. Len(t) : x = t[k]
      BY DEF Named
    <3>2. k # i /\ k \in 1 .. Len(c)
      BY <3>1, <1>1
    <3>3. CASE k < i
      <4>1. k \in 1 .. Len(c) - 1
        BY <3>2, <3>3, <1>n
      <4>2. x = u[k]
        BY <4>1, <3>1, <3>3, <1>7
      <4>3. QED
        BY <4>1, <4>2, <1>7 DEF Named
    <3>4. CASE ~ k < i
      <4>1. k - 1 \in 1 .. Len(c) - 1 /\ ~ (k - 1 < i) /\ (k - 1) + 1 = k
        BY <3>2, <3>4, <1>n
      <4>2. x = u[k - 1]
        BY <4>1, <3>1, <1>7
      <4>3. QED
        BY <4>1, <4>2, <1>7 DEF Named
    <3>5. QED
      BY <3>3, <3>4
  <2>3. QED
    BY <2>1, <2>2
<1> HIDE DEF M
<1>9. DOMAIN stack = N /\ DOMAIN came = N
  BY <1>3
<1>10. S2 = [x \in M |-> S2[x]] /\ C2 = [x \in M |-> C2[x]]
  BY <1>e, <1>8, <1>9
<1>11. \A x \in M : S2[x] = stack[x] /\ C2[x] = came[x]
  BY <1>e, <1>8, <1>9
<1>12. \A k \in 1 .. Len(d) : S2[u[k]] = d[k] /\ (Instruction(code, Last(d[k])).op = "phi" => C2[u[k]][1] = q[k][2])
  <2>1. TAKE k \in 1 .. Len(d)
  <2>2. k \in 1 .. Len(c) - 1 /\ k \in 1 .. Len(c) /\ k + 1 \in 1 .. Len(c) /\ u[k] \in M
    BY <1>5, <1>7, <1>n DEF M, Named
  <2>3. S2[u[k]] = stack[u[k]] /\ C2[u[k]] = came[u[k]]
    BY <2>2, <1>11
  <2>4. CASE k < i
    BY <2>2, <2>3, <2>4, <1>4, <1>5, <1>6, <1>7
  <2>5. CASE ~ k < i
    <3>1. u[k] = t[k + 1] /\ d[k] = c[k + 1] /\ q[k] = p[k + 1]
      BY <2>2, <2>5, <1>5, <1>6, <1>7
    <3>2. QED
      BY <2>2, <2>3, <3>1, <1>4
  <2>6. QED
    BY <2>4, <2>5
<1>13. Agrees(code, d, q, u, S2, C2)
  BY <1>10, <1>12 DEF Agrees, M
<1>14. QED
  BY <1>13 DEF d, q, u

(* ... when one starts, ... *)
LEMMA AddedAgrees ==
  ASSUME NEW code, NEW c, NEW p, ThreadsOK(code, c, p), NEW t, TidsOK(t, Len(c)),
         NEW stack, NEW came, Agrees(code, c, p, t, stack, came),
         NEW n \in 0 .. TidRange - 1, \A i \in 1 .. Len(c) : t[i] < n,
         NEW X \in Seq(Positions(code)), NEW Y \in Positions(code) \cup {NoPC}, NEW Z,
         Instruction(code, Last(X)).op # "phi",
         NEW S2, Adding(stack, S2, n, X), NEW C2, Adding(came, C2, n, Z)
  PROVE  Agrees(code, Append(c, X), Append(p, Y), Append(t, n), S2, C2)
<1> DEFINE P == Positions(code)
           SP == Seq(P)
           PN == P \cup {NoPC}
           d == Append(c, X)
           q == Append(p, Y)
           u == Append(t, n)
           N == Named(t)
           M == Named(u)
           T == 0 .. TidRange - 1
<1>e. /\ S2 = [x \in DOMAIN stack \cup {n} |-> IF x = n THEN X ELSE stack[x]]
      /\ C2 = [x \in DOMAIN came \cup {n} |-> IF x = n THEN Z ELSE came[x]]
  BY DEF Adding
<1>1. c \in Seq(SP) /\ p \in Seq(PN) /\ Len(p) = Len(c) /\ t \in Seq(T) /\ Len(t) = Len(c) /\ n \in T
  BY DEF ThreadsOK, TidsOK
<1>2. X \in SP /\ Y \in PN
  OBVIOUS
<1>3. stack = [x \in N |-> stack[x]] /\ came = [x \in N |-> came[x]]
  BY DEF Agrees
<1>4. \A k \in 1 .. Len(c) : stack[t[k]] = c[k] /\ (Instruction(code, Last(c[k])).op = "phi" => came[t[k]][1] = p[k][2])
  BY DEF Agrees
<1>t. TidRange \in Nat
  BY TidRangeIs
<1> HIDE DEF P, SP, PN, T
<1>v. n \in T /\ \A k \in 1 .. Len(c) : t[k] \in T
  BY <1>1
<1>u. \A k \in 1 .. Len(c) : t[k] # n
  BY <1>v, <1>t DEF T
<1>n. Len(c) \in Nat
  BY <1>1
<1>5. Len(d) = Len(c) + 1 /\ (\A k \in 1 .. Len(c) : d[k] = c[k]) /\ d[Len(c) + 1] = X
  BY <1>1, <1>2, Appending
<1>6. (\A k \in 1 .. Len(c) : q[k] = p[k]) /\ q[Len(c) + 1] = Y
  BY <1>1, <1>2, Appending
<1>7. Len(u) = Len(c) + 1 /\ (\A k \in 1 .. Len(c) : u[k] = t[k]) /\ u[Len(c) + 1] = n
  BY <1>1, Appending
<1> HIDE DEF d, q, u
<1>s. \A k \in 1 .. Len(c) + 1 : k \in 1 .. Len(c) \/ k = Len(c) + 1
  BY <1>n
<1>r. \A k \in 1 .. Len(c) : k \in 1 .. Len(c) + 1
  BY <1>n
<1>q. Len(c) + 1 \in 1 .. Len(c) + 1
  BY <1>n
<1>8. M = N \cup {n}
  <2>1. ASSUME NEW x \in M PROVE x \in N \cup {n}
    <3>1. PICK k \in 1 .. Len(c) + 1 : x = u[k]
      BY <1>7 DEF Named
    <3>2. QED
      BY <3>1, <1>s, <1>7, <1>1 DEF Named
  <2>2. ASSUME NEW x \in N PROVE x \in M
    <3>1. PICK k \in 1 .. Len(c) : x = t[k]
      BY <1>1 DEF Named
    <3>2. x = u[k] /\ k \in 1 .. Len(u)
      BY <3>1, <1>r, <1>7
    <3>3. QED
      BY <3>2 DEF Named
  <2>3. n \in M
    BY <1>q, <1>7 DEF Named
  <2>4. QED
    BY <2>1, <2>2, <2>3
<1>9. DOMAIN stack = N /\ DOMAIN came = N /\ \A k \in 1 .. Len(c) : t[k] \in N
  BY <1>3, <1>1 DEF Named
<1> HIDE DEF M, N
<1>10. S2 = [x \in M |-> S2[x]] /\ C2 = [x \in M |-> C2[x]]
  BY <1>e, <1>8, <1>9
<1>11. \A k \in 1 .. Len(c) : S2[t[k]] = stack[t[k]] /\ C2[t[k]] = came[t[k]]
  BY <1>e, <1>9, <1>u
<1>o. S2[n] = X
  BY <1>e
<1>12. \A k \in 1 .. Len(d) : S2[u[k]] = d[k] /\ (Instruction(code, Last(d[k])).op = "phi" => C2[u[k]][1] = q[k][2])
  <2>1. TAKE k \in 1 .. Len(d)
  <2>2. CASE k \in 1 .. Len(c)
    BY <2>2, <1>4, <1>5, <1>6, <1>7, <1>11
  <2>3. CASE k = Len(c) + 1
    BY <2>3, <1>5, <1>7, <1>o
  <2>4. QED
    BY <2>2, <2>3, <1>s, <1>5
<1>13. Agrees(code, d, q, u, S2, C2)
  BY <1>10, <1>12 DEF Agrees, M
<1>14. QED
  BY <1>13 DEF d, q, u

(* ... and when there is none. *)
LEMMA NothingAgrees ==
  ASSUME NEW code, NEW stack, NEW came, DOMAIN stack = {}, DOMAIN came = {},
         stack = [x \in {} |-> stack[x]], came = [x \in {} |-> came[x]]
  PROVE  Agrees(code, << >>, << >>, << >>, stack, came)
<1>1. Named(<< >>) = {}
  BY DEF Named
<1>2. 1 .. Len(<< >>) = {}
  OBVIOUS
<1>3. QED
  BY <1>1, <1>2 DEF Agrees

-----------------------------------------------------------------------------
(* The frames of a thread.                                                 *)

(* What a stack of frames is made of. *)
LEMMA FramesIs ==
  ASSUME NEW code, NEW frames, NEW from, ThreadOK(code, frames, from)
  PROVE  /\ frames # << >> /\ frames \in Seq(Positions(code))
         /\ Len(frames) \in Nat \ {0} /\ Last(frames) = frames[Len(frames)]
         /\ Last(frames) \in Positions(code)
         /\ Front(frames) \in Seq(Positions(code)) /\ Len(Front(frames)) = Len(frames) - 1
         /\ \A k \in 1 .. Len(frames) - 1 : Front(frames)[k] = frames[k]
         /\ \A k \in 1 .. Len(frames) - 1 :
              frames[k][2] > 1 /\ code[frames[k][1]].body[frames[k][2] - 1].op = "call"
<1> DEFINE P == Positions(code)
<1>1. frames \in Seq(P) /\ frames # << >>
        /\ \A k \in 1 .. Len(frames) - 1 :
             frames[k][2] > 1 /\ code[frames[k][1]].body[frames[k][2] - 1].op = "call"
  BY DEF ThreadOK, FramesOK
<1> HIDE DEF P
<1>2. /\ Len(frames) \in Nat \ {0}
      /\ Last(frames) = frames[Len(frames)] /\ Last(frames) \in P
      /\ Front(frames) \in Seq(P)
      /\ Len(Front(frames)) = Len(frames) - 1
      /\ \A i \in 1 .. Len(frames) - 1 : Front(frames)[i] = frames[i]
  BY <1>1, FrontAndLast
<1>3. QED
  BY <1>1, <1>2 DEF P

(* The last frame is replaced. *)
LEMMA ReplacedFrame ==
  ASSUME NEW code, NEW frames, NEW from, ThreadOK(code, frames, from),
         NEW to \in Positions(code), NEW new \in Positions(code) \cup {NoPC},
         CameByEdge(code, to, new)
  PROVE  /\ ThreadOK(code, Append(Front(frames), to), new)
         /\ Last(Append(Front(frames), to)) = to
         /\ Len(Append(Front(frames), to)) = Len(frames)
         /\ \A k \in 1 .. Len(frames) - 1 : Append(Front(frames), to)[k] = frames[k]
         /\ Append(Front(frames), to)[Len(frames)] = to
<1> DEFINE P == Positions(code)
           F == Front(frames)
           X == Append(F, to)
<1>1. /\ Len(frames) \in Nat \ {0} /\ F \in Seq(P) /\ Len(F) = Len(frames) - 1
      /\ \A k \in 1 .. Len(frames) - 1 : F[k] = frames[k]
      /\ \A k \in 1 .. Len(frames) - 1 :
           frames[k][2] > 1 /\ code[frames[k][1]].body[frames[k][2] - 1].op = "call"
  BY FramesIs
<1> HIDE DEF P, F
<1>2. to \in P
  BY DEF P
<1>3. /\ X \in Seq(P) /\ X # << >> /\ Len(X) = Len(F) + 1
      /\ \A k \in 1 .. Len(F) : X[k] = F[k]
      /\ X[Len(F) + 1] = to
  BY <1>1, <1>2, Appending
<1>4. Last(X) = X[Len(X)]
  BY DEF Last
<1> HIDE DEF X
<1>5. Len(X) = Len(frames) /\ Last(X) = to /\ X[Len(frames)] = to
  BY <1>1, <1>3, <1>4
<1>6. \A k \in 1 .. Len(frames) - 1 : X[k] = frames[k]
  BY <1>1, <1>3
<1>7. FramesOK(code, X)
  BY <1>1, <1>3, <1>5, <1>6 DEF FramesOK
<1>8. ThreadOK(code, X, new)
  BY <1>3, <1>5, <1>7 DEF ThreadOK, P
<1>9. QED
  BY <1>5, <1>6, <1>8 DEF X, F

(* A stack of frames is in order behind an instruction that is no terminator, ... *)
LEMMA BehindIs ==
  ASSUME NEW code, WellFormed(code), NEW frames, NEW from, ThreadOK(code, frames, from),
         Instruction(code, Last(frames)).op \notin Terminators,
         NEW new \in {from, NoPC}, Instruction(code, Last(frames)).op = "phi" => new = from
  PROVE  /\ ThreadOK(code, Behind(frames), new)
         /\ Last(Behind(frames)) = After(Last(frames))
         /\ Len(Behind(frames)) = Len(frames)
         /\ \A k \in 1 .. Len(frames) - 1 : Behind(frames)[k] = frames[k]
         /\ Behind(frames)[Len(frames)] = After(Last(frames))
         /\ Instruction(code, Last(Behind(frames))).op = "phi" =>
              Instruction(code, Last(frames)).op = "phi" /\ new = from
<1>1. Last(frames) \in Positions(code)
  BY FramesIs
<1>2. /\ After(Last(frames)) \in Positions(code)
      /\ Instruction(code, After(Last(frames))).op = "phi" =>
           /\ Instruction(code, Last(frames)).op = "phi"
           /\ DOMAIN Instruction(code, Last(frames)).incoming
              = DOMAIN Instruction(code, After(Last(frames))).incoming
  BY <1>1, AfterIs
<1>3. CameByEdge(code, Last(frames), from) /\ from \in Positions(code) \cup {NoPC}
  BY DEF ThreadOK
<1>4. CameByEdge(code, After(Last(frames)), new)
  BY <1>2, <1>3 DEF CameByEdge
<1>5. new \in Positions(code) \cup {NoPC}
  BY <1>3
<1>6. QED
  BY <1>2, <1>4, <1>5, ReplacedFrame DEF Behind

(* ... when the thread stays where it is, ... *)
LEMMA StayIs ==
  ASSUME NEW code, NEW frames, NEW from, ThreadOK(code, frames, from),
         Instruction(code, Last(frames)).op # "phi"
  PROVE  ThreadOK(code, frames, NoPC)
BY DEF ThreadOK, CameByEdge

(* ... behind a jump, ... *)
LEMMA JumpIs ==
  ASSUME NEW code, WellFormed(code), NEW frames, NEW from, ThreadOK(code, frames, from),
         NEW n \in Targets(Instruction(code, Last(frames))),
         NEW to, to = <<Last(frames)[1], n>>,
         NEW new, new = IF Instruction(code, to).op = "phi" THEN Last(frames) ELSE NoPC
  PROVE  /\ ThreadOK(code, Append(Front(frames), to), new)
         /\ Last(Append(Front(frames), to)) = to
         /\ Len(Append(Front(frames), to)) = Len(frames)
         /\ \A k \in 1 .. Len(frames) - 1 : Append(Front(frames), to)[k] = frames[k]
         /\ Append(Front(frames), to)[Len(frames)] = to
<1>1. Last(frames) \in Positions(code)
  BY FramesIs
<1>2. to \in Positions(code) /\ CameByEdge(code, to, Last(frames))
  BY <1>1, TargetIs
<1>3. CameByEdge(code, to, new)
  BY <1>2 DEF CameByEdge
<1>4. new \in Positions(code) \cup {NoPC}
  BY <1>1
<1>5. QED
  BY <1>2, <1>3, <1>4, ReplacedFrame

(* ... at the start of a thread, ... *)
LEMMA NewFrames ==
  ASSUME NEW code, WellFormed(code), NEW f \in DOMAIN code
  PROVE  /\ ThreadOK(code, << <<f, 1>> >>, NoPC)
         /\ << <<f, 1>> >> \in Seq(Positions(code)) /\ Len(<< <<f, 1>> >>) = 1
         /\ Last(<< <<f, 1>> >>) = <<f, 1>>
         /\ Instruction(code, <<f, 1>>).op # "phi"
<1> DEFINE P == Positions(code)
           a == <<f, 1>>
           X == << a >>
<1>1. a \in P /\ Instruction(code, a).op # "phi"
  BY NoPhiAtEntry
<1> HIDE DEF P, a
<1>2. X \in Seq(P) /\ Len(X) = 1 /\ X[1] = a /\ X # << >>
  BY <1>1
<1>3. Last(X) = a
  BY <1>2 DEF Last
<1> HIDE DEF X
<1>4. FramesOK(code, X)
  BY <1>2 DEF FramesOK
<1>5. CameByEdge(code, Last(X), NoPC)
  BY <1>1, <1>3 DEF CameByEdge
<1>6. ThreadOK(code, X, NoPC)
  BY <1>2, <1>4, <1>5 DEF ThreadOK, P
<1>7. QED
  BY <1>1, <1>2, <1>3, <1>6 DEF X, a, P

(* ... in a function that was called, ... *)
LEMMA CallIs ==
  ASSUME NEW code, WellFormed(code), NEW frames, NEW from, ThreadOK(code, frames, from),
         Instruction(code, Last(frames)).op = "call", NEW f \in DOMAIN code,
         NEW new \in Positions(code) \cup {NoPC}
  PROVE  /\ ThreadOK(code, Append(Behind(frames), <<f, 1>>), new)
         /\ Last(Append(Behind(frames), <<f, 1>>)) = <<f, 1>>
         /\ Instruction(code, <<f, 1>>).op # "phi"
         /\ Len(Append(Behind(frames), <<f, 1>>)) = Len(frames) + 1
         /\ \A k \in 1 .. Len(frames) - 1 : Append(Behind(frames), <<f, 1>>)[k] = frames[k]
         /\ Append(Behind(frames), <<f, 1>>)[Len(frames)] = After(Last(frames))
         /\ Append(Behind(frames), <<f, 1>>)[Len(frames) + 1] = <<f, 1>>
<1> DEFINE P == Positions(code)
           a == <<f, 1>>
           B == Behind(frames)
           X == Append(B, a)
           at == Last(frames)
           n == Len(frames)
<1>1. a \in P /\ Instruction(code, a).op # "phi"
  BY NoPhiAtEntry
<1>2. /\ ThreadOK(code, B, NoPC) /\ Len(B) = n
      /\ \A k \in 1 .. n - 1 : B[k] = frames[k]
      /\ B[n] = After(at)
  BY BehindIs DEF Terminators
<1>3. B \in Seq(P) /\ n \in Nat \ {0} /\ at \in P
  BY <1>2, FramesIs
<1>4. at[2] \in Nat /\ at[2] >= 1 /\ Instruction(code, at) = code[at[1]].body[at[2]]
  BY <1>3, WellFormedAt
<1>5. After(at)[1] = at[1] /\ After(at)[2] = at[2] + 1
  BY DEF After
<1>6. After(at)[2] > 1 /\ After(at)[2] - 1 = at[2]
  BY <1>4, <1>5
<1>7. code[After(at)[1]].body[After(at)[2] - 1].op = "call"
  BY <1>4, <1>5, <1>6
<1>8. \A k \in 1 .. n - 1 : frames[k][2] > 1 /\ code[frames[k][1]].body[frames[k][2] - 1].op = "call"
  BY FramesIs
<1> HIDE DEF P, a, B, at, n
<1>9. /\ X \in Seq(P) /\ X # << >> /\ Len(X) = Len(B) + 1
      /\ \A k \in 1 .. Len(B) : X[k] = B[k]
      /\ X[Len(B) + 1] = a
  BY <1>1, <1>3, Appending
<1>10. Last(X) = X[Len(X)]
  BY DEF Last
<1> HIDE DEF X
<1>11. Last(X) = a /\ Len(X) = n + 1 /\ X[n + 1] = a /\ X[n] = After(at)
  BY <1>2, <1>3, <1>9, <1>10
<1>12. \A k \in 1 .. n - 1 : X[k] = frames[k]
  BY <1>2, <1>3, <1>9
<1>13. \A k \in 1 .. n : X[k][2] > 1 /\ code[X[k][1]].body[X[k][2] - 1].op = "call"
  <2>1. TAKE k \in 1 .. n
  <2>2. k \in 1 .. n - 1 \/ k = n
    BY <1>3
  <2>3. QED
    BY <2>2, <1>6, <1>7, <1>8, <1>11, <1>12
<1>14. Len(X) - 1 = n
  BY <1>3, <1>11
<1>15. FramesOK(code, X)
  BY <1>9, <1>13, <1>14 DEF FramesOK
<1>16. CameByEdge(code, Last(X), new)
  BY <1>1, <1>11 DEF CameByEdge
<1>17. ThreadOK(code, X, new)
  BY <1>9, <1>15, <1>16 DEF ThreadOK, P
<1>18. QED
  BY <1>1, <1>11, <1>12, <1>17 DEF X, B, a, at, n

(* ... and behind the call when the function returns. *)
LEMMA ReturnIs ==
  ASSUME NEW code, WellFormed(code), NEW frames, NEW from, ThreadOK(code, frames, from),
         Len(frames) # 1, NEW new \in Positions(code) \cup {NoPC}
  PROVE  /\ ThreadOK(code, Front(frames), new)
         /\ Instruction(code, Last(Front(frames))).op # "phi"
<1> DEFINE P == Positions(code)
           F == Front(frames)
           n == Len(frames)
<1>1. /\ n \in Nat \ {0} /\ F \in Seq(P) /\ Len(F) = n - 1
      /\ \A k \in 1 .. n - 1 : F[k] = frames[k]
      /\ \A k \in 1 .. n - 1 :
           frames[k][2] > 1 /\ code[frames[k][1]].body[frames[k][2] - 1].op = "call"
  BY FramesIs
<1> HIDE DEF P, F, n
<1>n. n # 1
  BY DEF n
<1>2. \A k \in 1 .. n - 1 : F[k][2] > 1 /\ code[F[k][1]].body[F[k][2] - 1].op = "call"
  BY <1>1
<1>3. F # << >> /\ n - 1 \in 1 .. n - 1 /\ \A k \in 1 .. Len(F) - 1 : k \in 1 .. n - 1
  BY <1>1, <1>n
<1>4. FramesOK(code, F)
  BY <1>2, <1>3 DEF FramesOK
<1>5. Last(F) = F[n - 1] /\ Last(F) \in P
  BY <1>1, <1>3, FrontAndLast
<1>6. Instruction(code, Last(F)).op # "phi"
  BY <1>2, <1>3, <1>5, NoPhiBehindCall DEF P
<1>7. ThreadOK(code, F, new)
  BY <1>1, <1>4, <1>6 DEF ThreadOK, CameByEdge, P
<1>8. QED
  BY <1>6, <1>7 DEF F

-----------------------------------------------------------------------------
(* What an outcome should be.                                              *)

(* thread i may move *)
May(s, i) == i \in 1 .. Len(s.context) /\ (s.atomic_section = << >> \/ Last(s.atomic_section) = i)

(* the layout that belongs to the stacks of Control *)
LayoutOf(c) == [i \in 1 .. Len(c) |-> [k \in 1 .. Len(c[i]) |-> c[i][k][1]]]
Laid(s) == s.context # << >> => s.layout = LayoutOf(s.context)

(* the instruction leaves an atomic section; it ends the thread *)
Leaving(code, s, tid) ==
  \/ Current(code, s, tid).op = "atomic_end"
  \/ Current(code, s, tid).op = "ret" /\ code[GetPC(s, tid)[1]].atomic
Ending(code, s, tid) ==
  \/ Current(code, s, tid).op \in {"exit", "pthread_exit"}
  \/ Current(code, s, tid).op = "ret" /\ Len(s.context[tid]) = 1

(* all that the instructions take for granted of the state they start in *)
Ready(code, s, tid) ==
  /\ WellFormed(code) /\ StateOK(code, s) /\ s.error = FALSE
  /\ May(s, tid)
  /\ \A i \in 1 .. Len(s.context) : s.tids[i] < s.next_free_tid
  /\ Leaving(code, s, tid) => s.atomic_section # << >>
  /\ Ending(code, s, tid) => Len(s.atomic_section) = IF Leaving(code, s, tid) THEN 1 ELSE 0

(* g is what s stands for, and a PHI node the thread is at may wait for those
   before it *)
Stands(code, s, tid, g) == Follows(code, s, g) /\ PhiMayWait(code, g, s.tids[tid])

(* every valuation of r comes from one of s by a step of the interleavings, or
   by none *)
Backed(code, s, tid, r) ==
  \A m \in r.data : \E m0 \in s.data : \A g :
    Stands(code, s, tid, g) /\ g.mem = m0 =>
      \E h \in StepsOf(code, g, s.tids[tid]) \cup {g} :
         h.mem = m /\ (h.next < TidRange => Follows(code, r, h))

(* What an outcome of an instruction should be: in order, backed by the
   interleavings, and with threads and layout in step.  If it goes onto the
   stack, the threads that may move still may. *)
Good(code, s, tid, o) ==
  /\ o.is_empty = (o.state.data = {})
  /\ StateOK(code, o.state)
  /\ Backed(code, s, tid, o.state)
  /\ o.is_observable = FALSE /\ o.state.error = FALSE => \A i : May(s, i) => May(o.state, i)
  /\ Current(code, s, tid).op # "pthread_exit" /\ Laid(s) => Laid(o.state)

(* What Ready says of the parts of a state. *)
LEMMA ReadyFacts ==
  ASSUME NEW code, NEW s, NEW tid, Ready(code, s, tid)
  PROVE  /\ WellFormed(code) /\ DOMAIN s = Fields /\ s.error = FALSE
         /\ tid \in 1 .. Len(s.context) /\ tid \in Nat /\ Len(s.context) \in Nat
         /\ ThreadsOK(code, s.context, s.previous_bb)
         /\ TidsOK(s.tids, Len(s.context))
         /\ s.next_free_tid \in 0 .. TidRange - 1
         /\ SectionOK(s.atomic_section, Len(s.context))
         /\ StoreOK(s)
         /\ ThreadOK(code, s.context[tid], s.previous_bb[tid])
         /\ GetPC(s, tid) = Last(s.context[tid]) /\ GetPC(s, tid) \in Positions(code)
         /\ Current(code, s, tid) = Instruction(code, Last(s.context[tid]))
<1> DEFINE SP == Seq(Positions(code))
<1>1. WellFormed(code) /\ StateOK(code, s) /\ s.error = FALSE /\ tid \in 1 .. Len(s.context)
  BY DEF Ready, May
<1>2. /\ DOMAIN s = Fields
      /\ ThreadsOK(code, s.context, s.previous_bb)
      /\ TidsOK(s.tids, Len(s.context))
      /\ s.next_free_tid \in 0 .. TidRange - 1
      /\ SectionOK(s.atomic_section, Len(s.context))
      /\ StoreOK(s)
  BY <1>1, StateIs
<1>3. s.context \in Seq(SP) /\ ThreadOK(code, s.context[tid], s.previous_bb[tid])
  BY <1>1, <1>2 DEF ThreadsOK
<1> HIDE DEF SP
<1>4. Len(s.context) \in Nat /\ tid \in Nat
  BY <1>1, <1>3
<1>5. Last(s.context[tid]) \in Positions(code)
  BY <1>3, FramesIs
<1>6. QED
  BY <1>1, <1>2, <1>3, <1>4, <1>5 DEF GetPC, Current

(* An atomic section holds one thread. *)
LEMMA SectionIs ==
  ASSUME NEW n \in Nat, NEW a, SectionOK(a, n)
  PROVE  /\ Len(a) \in Nat /\ (a = << >> <=> Len(a) = 0)
         /\ a # << >> =>
              /\ a[1] = Last(a) /\ Last(a) \in 1 .. n
              /\ Front(a) \in Seq(1 .. n) /\ Len(Front(a)) = Len(a) - 1
              /\ SectionOK(Front(a), n)
              /\ Front(a) # << >> => Front(a)[1] = a[1]
<1> DEFINE N == 1 .. n
<1>1. a \in Seq(N) /\ \A k, l \in 1 .. Len(a) : a[k] = a[l]
  BY DEF SectionOK
<1> HIDE DEF N
<1>2. Len(a) \in Nat /\ (a = << >> <=> Len(a) = 0)
  BY <1>1
<1>3. ASSUME a # << >>
      PROVE  /\ a[1] = Last(a) /\ Last(a) \in N
             /\ Front(a) \in Seq(N) /\ Len(Front(a)) = Len(a) - 1
             /\ \A k, l \in 1 .. Len(Front(a)) : Front(a)[k] = Front(a)[l]
             /\ Front(a) # << >> => Front(a)[1] = a[1]
  <2>1. /\ Len(a) \in Nat \ {0}
         /\ Last(a) = a[Len(a)] /\ Last(a) \in N
         /\ Front(a) \in Seq(N)
         /\ Len(Front(a)) = Len(a) - 1
         /\ \A i \in 1 .. Len(a) - 1 : Front(a)[i] = a[i]
    BY <1>1, <1>3, FrontAndLast
  <2>2. 1 \in 1 .. Len(a) /\ Len(a) \in 1 .. Len(a)
    BY <2>1
  <2>3. a[1] = Last(a)
    BY <1>1, <2>1, <2>2
  <2>4. \A k, l \in 1 .. Len(Front(a)) : Front(a)[k] = Front(a)[l]
    <3>1. \A k \in 1 .. Len(Front(a)) : k \in 1 .. Len(a) /\ Front(a)[k] = a[k]
      BY <2>1
    <3>2. QED
      BY <3>1, <1>1
  <2>5. Front(a) # << >> => Front(a)[1] = a[1]
    <3>1. HAVE Front(a) # << >>
    <3>2. Len(Front(a)) # 0
      BY <3>1, <2>1
    <3>3. 1 \in 1 .. Len(a) - 1
      BY <3>2, <2>1
    <3>4. QED
      BY <3>3, <2>1
  <2>6. QED
    BY <2>1, <2>3, <2>4, <2>5
<1>4. QED
  BY <1>2, <1>3 DEF SectionOK, N

(* What the discipline of the interleavings says about a state. *)
LEMMA DisciplineIsReady ==
  ASSUME NEW code, WellFormed(code), NEW s, StateOK(code, s), s.error = FALSE, NEW tid, May(s, tid),
         NEW g, Follows(code, s, g), Disciplined(code, g)
  PROVE  Ready(code, s, tid) /\ s.tids[tid] \in Runnable(g)
<1> DEFINE t == s.tids[tid]
           n == Len(s.context)
           T == 0 .. TidRange - 1
           SP == Seq(Positions(code))
<1>1. /\ ThreadsOK(code, s.context, s.previous_bb)
      /\ TidsOK(s.tids, n)
      /\ SectionOK(s.atomic_section, n)
  BY StateIs
<1>2. tid \in 1 .. n /\ (s.atomic_section = << >> \/ Last(s.atomic_section) = tid)
  BY DEF May
<1>3. s.context \in Seq(SP) /\ s.tids \in Seq(T) /\ Len(s.tids) = n
      /\ \A i, j \in 1 .. n : s.tids[i] = s.tids[j] => i = j
  BY <1>1 DEF ThreadsOK, TidsOK
<1> HIDE DEF SP
<1>4. n \in Nat
  BY <1>3
<1>5. Agrees(code, s.context, s.previous_bb, s.tids, g.stack, g.came)
      /\ (\A i \in 1 .. n : s.tids[i] < s.next_free_tid)
      /\ g.owner = (IF s.atomic_section = << >> THEN NoThread ELSE s.tids[s.atomic_section[1]])
      /\ g.depth = Len(s.atomic_section)
      /\ g.err = FALSE
  BY DEF Follows
<1>6. g.stack[t] = s.context[tid] /\ t \in DOMAIN g.stack
  <2>1. g.stack = [x \in Named(s.tids) |-> g.stack[x]] /\ g.stack[t] = s.context[tid]
    BY <1>2, <1>5 DEF Agrees
  <2>2. t \in Named(s.tids)
    BY <1>2, <1>3 DEF Named
  <2>3. QED
    BY <2>1, <2>2
<1>7. s.atomic_section # << >> => s.atomic_section[1] = tid
  BY <1>1, <1>2, <1>4, SectionIs
<1>8. g.owner \in {NoThread, t}
  BY <1>5, <1>7
<1>9. t \in Runnable(g)
  BY <1>5, <1>6, <1>8 DEF Runnable
<1>10. /\ LeavesSection(code, g, t) => g.owner = t
       /\ EndsThread(code, g, t) => g.depth = IF LeavesSection(code, g, t) THEN 1 ELSE 0
  BY <1>9 DEF Disciplined
<1>11. LeavesSection(code, g, t) = Leaving(code, s, tid) /\ EndsThread(code, g, t) = Ending(code, s, tid)
  BY <1>6 DEF LeavesSection, EndsThread, Leaving, Ending, Here, GetPC, Current
<1>t. t \in T /\ TidRange \in Nat
  BY <1>2, <1>3, TidRangeIs
<1>12. t # NoThread
  BY <1>t DEF NoThread
<1>13. Leaving(code, s, tid) => s.atomic_section # << >>
  BY <1>5, <1>10, <1>11, <1>12
<1>14. Ending(code, s, tid) => Len(s.atomic_section) = IF Leaving(code, s, tid) THEN 1 ELSE 0
  BY <1>5, <1>10, <1>11
<1>15. QED
  BY <1>5, <1>9, <1>13, <1>14 DEF Ready

-----------------------------------------------------------------------------

-----------------------------------------------------------------------------
(* Steps to the next instruction.                                          *)

(* the thread is at the next instruction *)
Stepped(code, s, r, tid) ==
  /\ DOMAIN r = Fields
  /\ r.context = [s.context EXCEPT ![tid] = Behind(s.context[tid])]
  /\ r.previous_bb \in {s.previous_bb, [s.previous_bb EXCEPT ![tid] = NoPC]}
  /\ Current(code, s, tid).op = "phi" => r.previous_bb = s.previous_bb
  /\ r.tids = s.tids
  /\ r.next_free_tid = s.next_free_tid
  /\ r.layout = s.layout

(* the same in the interleavings *)
SteppedView(g, h, t) ==
  /\ DOMAIN h = ViewFields
  /\ h.stack = [g.stack EXCEPT ![t] = Behind(g.stack[t])]
  /\ h.came = g.came
  /\ h.next = g.next

(* The layout does not see where in its function a frame is. *)
LEMMA SameLayout ==
  ASSUME NEW code, NEW c, NEW p, ThreadsOK(code, c, p), NEW i \in 1 .. Len(c), NEW X,
         Len(X) = Len(c[i]), \A k \in 1 .. Len(c[i]) : X[k][1] = c[i][k][1]
  PROVE  LayoutOf([c EXCEPT ![i] = X]) = LayoutOf(c)
<1> DEFINE SP == Seq(Positions(code))
           d == [c EXCEPT ![i] = X]
<1>1. c \in Seq(SP)
  BY DEF ThreadsOK
<1> HIDE DEF SP
<1>2. d[i] = X /\ \A k \in 1 .. Len(c) : k # i => d[k] = c[k]
  BY <1>1
<1>3. Len(d) = Len(c)
  BY <1>1
<1> HIDE DEF d
<1>4. \A j \in 1 .. Len(c) : [k \in 1 .. Len(d[j]) |-> d[j][k][1]] = [k \in 1 .. Len(c[j]) |-> c[j][k][1]]
  <2>1. TAKE j \in 1 .. Len(c)
  <2>2. CASE j = i
    BY <2>2, <1>2
  <2>3. CASE j # i
    BY <2>3, <1>2
  <2>4. QED
    BY <2>2, <2>3
<1>5. LayoutOf(d) = LayoutOf(c)
  BY <1>3, <1>4 DEF LayoutOf
<1>6. QED
  BY <1>5 DEF d

(* An element replaced by itself. *)
LEMMA SameElement ==
  ASSUME NEW code, NEW c, NEW p, ThreadsOK(code, c, p), NEW i \in 1 .. Len(c)
  PROVE  p = [p EXCEPT ![i] = p[i]] /\ c = [c EXCEPT ![i] = c[i]]
<1> DEFINE PN == Positions(code) \cup {NoPC}
           SP == Seq(Positions(code))
<1>1. p \in Seq(PN) /\ c \in Seq(SP)
  BY DEF ThreadsOK
<1> HIDE DEF PN, SP
<1>2. QED
  BY <1>1

(* A step to the next instruction leaves the state in order, ... *)
LEMMA SteppedIsOK ==
  ASSUME NEW code, NEW s, NEW tid, Ready(code, s, tid), Current(code, s, tid).op \notin Terminators,
         NEW r, Stepped(code, s, r, tid), SectionOK(r.atomic_section, Len(s.context)), StoreOK(r)
  PROVE  /\ StateOK(code, r)
         /\ Len(r.context) = Len(s.context)
         /\ Laid(s) => Laid(r)
<1> DEFINE f == s.context[tid]
           new == IF r.previous_bb = s.previous_bb THEN s.previous_bb[tid] ELSE NoPC
<1>1. /\ WellFormed(code) /\ tid \in 1 .. Len(s.context) /\ Len(s.context) \in Nat
      /\ ThreadsOK(code, s.context, s.previous_bb) /\ TidsOK(s.tids, Len(s.context))
      /\ s.next_free_tid \in 0 .. TidRange - 1
      /\ ThreadOK(code, f, s.previous_bb[tid])
      /\ Current(code, s, tid) = Instruction(code, Last(f))
  BY ReadyFacts
<1>p. s.previous_bb = [s.previous_bb EXCEPT ![tid] = s.previous_bb[tid]]
  BY <1>1, SameElement
<1>q. /\ r.previous_bb = [s.previous_bb EXCEPT ![tid] = new]
      /\ new \in {s.previous_bb[tid], NoPC}
      /\ Current(code, s, tid).op = "phi" => new = s.previous_bb[tid]
  BY <1>p DEF Stepped
<1>2. /\ ThreadOK(code, Behind(f), new)
      /\ Len(Behind(f)) = Len(f)
      /\ \A k \in 1 .. Len(f) - 1 : Behind(f)[k] = f[k]
      /\ Behind(f)[Len(f)] = After(Last(f))
  <2> DEFINE from == s.previous_bb[tid]
  <2>1. /\ WellFormed(code) /\ ThreadOK(code, f, from)
        /\ Instruction(code, Last(f)).op \notin Terminators
        /\ new \in {from, NoPC}
        /\ Instruction(code, Last(f)).op = "phi" => new = from
    BY <1>1, <1>q
  <2> HIDE DEF new, f, from
  <2>2. QED
    BY <2>1, BehindIs
<1>3. /\ DOMAIN r = Fields
      /\ r.context = [s.context EXCEPT ![tid] = Behind(f)]
      /\ r.previous_bb = [s.previous_bb EXCEPT ![tid] = new]
      /\ r.tids = s.tids /\ r.next_free_tid = s.next_free_tid /\ r.layout = s.layout
  BY <1>q DEF Stepped
<1>4. ThreadsOK(code, r.context, r.previous_bb) /\ Len(r.context) = Len(s.context)
  BY <1>1, <1>2, <1>3, ChangedThreads
<1>5. StateOK(code, r)
  BY <1>1, <1>3, <1>4, StateIs
<1>6. Len(f) \in Nat \ {0} /\ Last(f) = f[Len(f)]
  BY <1>1, FramesIs
<1>7. \A k \in 1 .. Len(f) : Behind(f)[k][1] = f[k][1]
  <2> DEFINE n == Len(f)
             X == Behind(f)
  <2>1. n \in Nat \ {0} /\ (\A k \in 1 .. n - 1 : X[k] = f[k]) /\ X[n] = After(f[n])
    BY <1>2, <1>6
  <2>2. After(f[n])[1] = f[n][1]
    BY DEF After
  <2> HIDE DEF X, f, n
  <2>3. ASSUME NEW k \in 1 .. n PROVE X[k][1] = f[k][1]
    <3>1. k \in 1 .. n - 1 \/ k = n
      BY <2>1
    <3>2. QED
      BY <2>1, <2>2, <3>1
  <2>4. QED
    BY <2>3 DEF n, X
<1>8. LayoutOf(r.context) = LayoutOf(s.context)
  <2> DEFINE c == s.context
             X == Behind(f)
  <2>1. /\ ThreadsOK(code, c, s.previous_bb) /\ tid \in 1 .. Len(c)
        /\ Len(X) = Len(c[tid]) /\ \A k \in 1 .. Len(c[tid]) : X[k][1] = c[tid][k][1]
    BY <1>1, <1>2, <1>7
  <2>2. r.context = [c EXCEPT ![tid] = X]
    BY <1>3
  <2> HIDE DEF c, X
  <2>3. LayoutOf([c EXCEPT ![tid] = X]) = LayoutOf(c)
    BY <2>1, SameLayout
  <2>4. QED
    BY <2>2, <2>3 DEF c
<1>9. s.context # << >>
  BY <1>1
<1>10. Laid(s) => Laid(r)
  BY <1>3, <1>8, <1>9 DEF Laid
<1>11. QED
  BY <1>4, <1>5, <1>10

(* ... and the interleavings follow it. *)
LEMMA SteppedFollows ==
  ASSUME NEW code, NEW s, NEW tid, Ready(code, s, tid), Current(code, s, tid).op \notin Terminators,
         NEW r, Stepped(code, s, r, tid),
         NEW g, Follows(code, s, g), NEW h, SteppedView(g, h, s.tids[tid]),
         h.owner = IF r.atomic_section = << >> THEN NoThread ELSE s.tids[r.atomic_section[1]],
         h.depth = Len(r.atomic_section), h.slots = r.explicitData, h.err = r.error
  PROVE  Follows(code, r, h)
<1> DEFINE f == s.context[tid]
           t == s.tids[tid]
           new == IF r.previous_bb = s.previous_bb THEN s.previous_bb[tid] ELSE NoPC
<1>1. /\ WellFormed(code) /\ tid \in 1 .. Len(s.context) /\ Len(s.context) \in Nat
      /\ ThreadsOK(code, s.context, s.previous_bb) /\ TidsOK(s.tids, Len(s.context))
      /\ ThreadOK(code, f, s.previous_bb[tid])
      /\ Current(code, s, tid) = Instruction(code, Last(f))
  <2>1. /\ WellFormed(code) /\ tid \in 1 .. Len(s.context) /\ Len(s.context) \in Nat
        /\ ThreadsOK(code, s.context, s.previous_bb) /\ TidsOK(s.tids, Len(s.context))
    BY ReadyFacts
  <2>2. ThreadOK(code, s.context[tid], s.previous_bb[tid])
    BY ReadyFacts
  <2>3. Current(code, s, tid) = Instruction(code, Last(s.context[tid]))
    BY DEF Current, GetPC
  <2>4. QED
    BY <2>1, <2>2, <2>3
<1>p. s.previous_bb = [s.previous_bb EXCEPT ![tid] = s.previous_bb[tid]]
  BY <1>1, SameElement
<1>q. /\ r.previous_bb = [s.previous_bb EXCEPT ![tid] = new]
      /\ new \in {s.previous_bb[tid], NoPC}
      /\ Current(code, s, tid).op = "phi" => new = s.previous_bb[tid]
  BY <1>p DEF Stepped
<1>2. /\ ThreadOK(code, Behind(f), new)
      /\ Instruction(code, Last(Behind(f))).op = "phi" =>
              Instruction(code, Last(f)).op = "phi" /\ new = s.previous_bb[tid]
  <2> DEFINE from == s.previous_bb[tid]
  <2>1. /\ WellFormed(code) /\ ThreadOK(code, f, from)
        /\ Instruction(code, Last(f)).op \notin Terminators
        /\ new \in {from, NoPC}
        /\ Instruction(code, Last(f)).op = "phi" => new = from
    BY <1>1, <1>q
  <2> HIDE DEF new, f, from
  <2>2. /\ ThreadOK(code, Behind(f), new)
        /\ Instruction(code, Last(Behind(f))).op = "phi" =>
              Instruction(code, Last(f)).op = "phi" /\ new = from
    BY <2>1, BehindIs
  <2>3. QED
    BY <2>2 DEF from
<1>3. /\ r.context = [s.context EXCEPT ![tid] = Behind(f)]
      /\ r.previous_bb = [s.previous_bb EXCEPT ![tid] = new]
      /\ r.tids = s.tids /\ r.next_free_tid = s.next_free_tid
  BY <1>q DEF Stepped
<1>4. /\ Agrees(code, s.context, s.previous_bb, s.tids, g.stack, g.came)
      /\ \A i \in 1 .. Len(s.context) : s.tids[i] < s.next_free_tid
      /\ g.next = s.next_free_tid
  BY DEF Follows
<1>5. g.stack[t] = f /\ (Instruction(code, Last(f)).op = "phi" => g.came[t][1] = s.previous_bb[tid][2])
  BY <1>1, <1>4 DEF Agrees
<1>6. Instruction(code, Last(Behind(f))).op = "phi" => g.came[t][1] = new[2]
  BY <1>2, <1>5
<1>7. Agrees(code, r.context, r.previous_bb, s.tids, [g.stack EXCEPT ![t] = Behind(f)],
             [g.came EXCEPT ![t] = g.came[t]])
  <2> DEFINE X == Behind(f)
             Z == g.came[t]
  <2>1. Instruction(code, Last(X)).op = "phi" => Z[1] = new[2]
    BY <1>6
  <2> HIDE DEF X, Z, new
  <2>2. Agrees(code, [s.context EXCEPT ![tid] = X], [s.previous_bb EXCEPT ![tid] = new], s.tids,
               [g.stack EXCEPT ![t] = X], [g.came EXCEPT ![t] = Z])
    BY <1>1, <1>4, <2>1, ChangedAgrees
  <2>3. QED
    BY <2>2, <1>3 DEF X, Z
<1>8. [g.came EXCEPT ![t] = g.came[t]] = g.came
  BY <1>4 DEF Agrees
<1>9. h.stack = [g.stack EXCEPT ![t] = Behind(f)] /\ h.came = g.came /\ h.next = g.next /\ DOMAIN h = ViewFields
  BY <1>5 DEF SteppedView
<1>10. Agrees(code, r.context, r.previous_bb, r.tids, h.stack, h.came)
  BY <1>3, <1>7, <1>8, <1>9
<1>11. Len(r.context) = Len(s.context)
  BY <1>1, <1>2, <1>3, ChangedThreads
<1>12. \A i \in 1 .. Len(r.context) : r.tids[i] < r.next_free_tid
  BY <1>3, <1>4, <1>11
<1>13. QED
  BY <1>3, <1>4, <1>9, <1>10, <1>12 DEF Follows

(* the two together *)
SteppedTo(s, r, g, h, tid) ==
  /\ SteppedView(g, h, s.tids[tid])
  /\ h.owner = IF r.atomic_section = << >> THEN NoThread ELSE s.tids[r.atomic_section[1]]
  /\ h.depth = Len(r.atomic_section)
  /\ h.slots = r.explicitData
  /\ h.err = r.error

(* What an outcome holds. *)
LEMMA OutcomeIs ==
  ASSUME NEW r, NEW obs
  PROVE  Outcome(r, obs).state = r /\ Outcome(r, obs).is_observable = obs
         /\ Outcome(r, obs).is_empty = (r.data = {})
BY DEF Outcome

(* A step that leaves the thread at the next instruction is good if the data
   come from steps of the interleavings. *)
LEMMA SteppedIsGood ==
  ASSUME NEW code, NEW s, NEW tid, Ready(code, s, tid), Current(code, s, tid).op \notin Terminators,
         NEW r, Stepped(code, s, r, tid), SectionOK(r.atomic_section, Len(s.context)), StoreOK(r),
         NEW obs, obs = FALSE /\ r.error = FALSE => \A i : May(s, i) => May(r, i),
         \A m \in r.data : \E m0 \in s.data : \A g :
           Stands(code, s, tid, g) /\ g.mem = m0 =>
             \E h \in StepsOf(code, g, s.tids[tid]) : h.mem = m /\ SteppedTo(s, r, g, h, tid)
  PROVE  Good(code, s, tid, Outcome(r, obs))
<1>1. StateOK(code, r) /\ (Laid(s) => Laid(r))
  BY SteppedIsOK
<1>2. Backed(code, s, tid, r)
  <2>1. SUFFICES ASSUME NEW m \in r.data
                 PROVE  \E m0 \in s.data : \A g : Stands(code, s, tid, g) /\ g.mem = m0 =>
                          \E h \in StepsOf(code, g, s.tids[tid]) \cup {g} :
                             h.mem = m /\ (h.next < TidRange => Follows(code, r, h))
    BY DEF Backed
  <2>2. PICK m0 \in s.data : \A g :
           Stands(code, s, tid, g) /\ g.mem = m0 =>
             \E h \in StepsOf(code, g, s.tids[tid]) : h.mem = m /\ SteppedTo(s, r, g, h, tid)
    OBVIOUS
  <2>3. ASSUME NEW g, Stands(code, s, tid, g), g.mem = m0
        PROVE  \E h \in StepsOf(code, g, s.tids[tid]) \cup {g} :
                   h.mem = m /\ (h.next < TidRange => Follows(code, r, h))
    <3>1. PICK h \in StepsOf(code, g, s.tids[tid]) : h.mem = m /\ SteppedTo(s, r, g, h, tid)
      BY <2>2, <2>3
    <3>2. Follows(code, r, h)
      BY <2>3, <3>1, SteppedFollows DEF SteppedTo, Stands
    <3>3. QED
      BY <3>1, <3>2
  <2>4. QED
    BY <2>3
<1>3. QED
  BY <1>1, <1>2, OutcomeIs DEF Good

(* The thread of the evaluator in the interleavings. *)
LEMMA ViewIs ==
  ASSUME NEW code, NEW s, NEW tid, Ready(code, s, tid), NEW g, Follows(code, s, g)
  PROVE  /\ DOMAIN g = ViewFields
         /\ g.stack[s.tids[tid]] = s.context[tid]
         /\ Here(g, s.tids[tid]) = GetPC(s, tid)
         /\ Instruction(code, Here(g, s.tids[tid])) = Current(code, s, tid)
         /\ Current(code, s, tid).op = "phi" => g.came[s.tids[tid]][1] = s.previous_bb[tid][2]
         /\ g.owner = IF s.atomic_section = << >> THEN NoThread ELSE s.tids[s.atomic_section[1]]
         /\ g.depth = Len(s.atomic_section)
         /\ g.slots = s.explicitData
         /\ g.err = s.error
<1>1. tid \in 1 .. Len(s.context) /\ Current(code, s, tid) = Instruction(code, Last(s.context[tid]))
      /\ GetPC(s, tid) = Last(s.context[tid])
  BY ReadyFacts
<1>2. /\ DOMAIN g = ViewFields
      /\ g.stack[s.tids[tid]] = s.context[tid]
      /\ Instruction(code, Last(s.context[tid])).op = "phi" => g.came[s.tids[tid]][1] = s.previous_bb[tid][2]
  BY <1>1 DEF Follows, Agrees
<1>3. QED
  BY <1>1, <1>2 DEF Follows, Here

(* What an operand may be. *)
LEMMA ReadIn ==
  ASSUME NEW m \in [Var -> Val], NEW o \in Var \cup Val
  PROVE  Read(m, o) \in Val
BY DEF Read

(* What a store may leave. *)
LEMMA StoredIn ==
  ASSUME NEW data, data \subseteq [Var -> Val], NEW moves,
         \A v \in DOMAIN moves : moves[v] \in Var \cup Val
  PROVE  /\ Stored(data, moves) \subseteq [Var -> Val]
         /\ \A m \in Stored(data, moves) : \E m0 \in data : m = Given(m0, moves)
<1>1. ASSUME NEW m \in Stored(data, moves)
      PROVE  m \in [Var -> Val] /\ \E m0 \in data : m = Given(m0, moves)
  <2>1. PICK m0 \in data : m = [v \in Var |-> IF v \in DOMAIN moves THEN Read(m0, moves[v]) ELSE m0[v]]
    BY DEF Stored
  <2>2. m0 \in [Var -> Val]
    OBVIOUS
  <2>3. \A v \in Var : (IF v \in DOMAIN moves THEN Read(m0, moves[v]) ELSE m0[v]) \in Val
    BY <2>2, ReadIn
  <2>4. QED
    BY <2>1, <2>3 DEF Given
<1>2. QED
  BY <1>1

(* the state before the step, with the block the thread came from forgotten *)
Fresh(code, s, x, tid) ==
  /\ SameBut(s, x, {"previous_bb", "data"})
  /\ x.previous_bb \in {s.previous_bb, [s.previous_bb EXCEPT ![tid] = NoPC]}
  /\ Current(code, s, tid).op = "phi" => x.previous_bb = s.previous_bb

(* The handlers start from such a state. *)
LEMMA FreshIs ==
  ASSUME NEW code, NEW s, NEW tid, Ready(code, s, tid)
  PROVE  /\ Current(code, s, tid).op # "phi" => Fresh(code, s, [s EXCEPT !.previous_bb[tid] = NoPC], tid)
         /\ Current(code, s, tid).op # "phi" => [s EXCEPT !.previous_bb[tid] = NoPC].data = s.data
         /\ Fresh(code, s, s, tid)
<1>1. DOMAIN s = Fields /\ tid \in 1 .. Len(s.context) /\ ThreadsOK(code, s.context, s.previous_bb)
  BY ReadyFacts
<1> DEFINE x == [s EXCEPT !.previous_bb[tid] = NoPC]
<1>2. SameBut(s, x, {"previous_bb"}) /\ x.previous_bb = [s.previous_bb EXCEPT ![tid] = NoPC]
  BY <1>1, ForgetFields
<1> HIDE DEF x
<1>3. x.data = s.data /\ SameBut(s, x, {"previous_bb", "data"})
  BY <1>2 DEF SameBut
<1>4. ASSUME Current(code, s, tid).op # "phi" PROVE Fresh(code, s, x, tid)
  BY <1>2, <1>3, <1>4 DEF Fresh
<1>6. SameBut(s, s, {"previous_bb", "data"})
  BY <1>1 DEF SameBut
<1>7. Fresh(code, s, s, tid)
  BY <1>6 DEF Fresh
<1>8. QED
  BY <1>3, <1>4, <1>7 DEF x

(* the fields a step of data leaves alone *)
Calm(s, r) ==
  /\ r.atomic_section = s.atomic_section
  /\ r.explicitData = s.explicitData
  /\ r.error = s.error

(* From there to the next instruction. *)
LEMMA AdvancedIs ==
  ASSUME NEW code, NEW s, NEW x, NEW tid, Fresh(code, s, x, tid)
  PROVE  /\ Stepped(code, s, AdvancePC(x, tid), tid) /\ Calm(s, AdvancePC(x, tid))
         /\ AdvancePC(x, tid).data = x.data
<1>1. DOMAIN x = Fields
  BY DEF Fresh, SameBut
<1>2. /\ SameBut(x, AdvancePC(x, tid), {"context"})
      /\ AdvancePC(x, tid).context = [x.context EXCEPT ![tid] = Behind(x.context[tid])]
  BY <1>1, AdvanceFields
<1>3. QED
  BY <1>2 DEF Fresh, SameBut, Stepped, Calm

(* A store keeps all but the data. *)
LEMMA StoredFresh ==
  ASSUME NEW code, NEW s, NEW x, NEW tid, Fresh(code, s, x, tid), NEW moves
  PROVE  Fresh(code, s, Store(x, moves), tid) /\ Store(x, moves).data = Stored(x.data, moves)
<1>1. DOMAIN x = Fields
  BY DEF Fresh, SameBut
<1>2. SameBut(x, Store(x, moves), {"data"}) /\ Store(x, moves).data = Stored(x.data, moves)
  BY <1>1, StoreFields
<1>3. QED
  BY <1>2 DEF Fresh, SameBut

(* So does a condition. *)
LEMMA PrunedFresh ==
  ASSUME NEW code, NEW s, NEW x, NEW tid, Fresh(code, s, x, tid), NEW a, NEW b
  PROVE  /\ Fresh(code, s, PruneEQ(x, a, b), tid) /\ Fresh(code, s, PruneNE(x, a, b), tid)
         /\ PruneEQ(x, a, b).data = {m \in x.data : Read(m, a) = Read(m, b)}
         /\ PruneNE(x, a, b).data = {m \in x.data : Read(m, a) # Read(m, b)}
<1>1. DOMAIN x = Fields
  BY DEF Fresh, SameBut
<1>2. /\ SameBut(x, PruneEQ(x, a, b), {"data"})
         /\ PruneEQ(x, a, b).data = {m \in x.data : Read(m, a) = Read(m, b)}
         /\ SameBut(x, PruneNE(x, a, b), {"data"})
         /\ PruneNE(x, a, b).data = {m \in x.data : Read(m, a) # Read(m, b)}
  BY <1>1, PruneFields
<1>3. QED
  BY <1>2 DEF Fresh, SameBut

(* thread t has gone on to the next instruction; its step has changed memory *)
Onward(g, h, t) ==
  /\ Alike(g, h, {"stack", "mem"})
  /\ h.stack = [g.stack EXCEPT ![t] = Behind(g.stack[t])]

(* A step that changes the data only. *)
LEMMA CalmStep ==
  ASSUME NEW code, NEW s, NEW tid, Ready(code, s, tid), Current(code, s, tid).op \notin Terminators,
         NEW r, Stepped(code, s, r, tid), Calm(s, r), r.data \subseteq [Var -> Val],
         NEW obs,
         \A m \in r.data : \E m0 \in s.data : \A g :
           Stands(code, s, tid, g) /\ g.mem = m0 =>
             \E h \in StepsOf(code, g, s.tids[tid]) :
               h.mem = m /\ Onward(g, h, s.tids[tid])
  PROVE  Good(code, s, tid, Outcome(r, obs))
<1>1. SectionOK(s.atomic_section, Len(s.context)) /\ StoreOK(s)
  BY ReadyFacts
<1>2. SectionOK(r.atomic_section, Len(s.context)) /\ StoreOK(r)
  BY <1>1 DEF Calm, StoreOK
<1>3. Len(r.context) = Len(s.context)
  BY <1>2, SteppedIsOK
<1>4. \A i : May(s, i) => May(r, i)
  BY <1>3 DEF May, Calm
<1>5. ASSUME NEW g, Follows(code, s, g), NEW h, Onward(g, h, s.tids[tid])
      PROVE  SteppedTo(s, r, g, h, tid)
  <2>1. SteppedView(g, h, s.tids[tid])
    BY <1>5 DEF Alike, SteppedView, Onward
  <2>2. h.owner = g.owner /\ h.depth = g.depth /\ h.slots = g.slots /\ h.err = g.err
    BY <1>5 DEF Alike, Onward
  <2>3. QED
    BY <1>5, <2>1, <2>2, ViewIs DEF Calm, SteppedTo
<1>6. \A m \in r.data : \E m0 \in s.data : \A g :
           Stands(code, s, tid, g) /\ g.mem = m0 =>
             \E h \in StepsOf(code, g, s.tids[tid]) : h.mem = m /\ SteppedTo(s, r, g, h, tid)
  BY <1>5 DEF Stands
<1>7. QED
  BY <1>2, <1>4, <1>6, SteppedIsGood

-----------------------------------------------------------------------------
(* Instructions on data.                                                   *)

(* the outcomes of an instruction are good; only an ldv_ call has none *)
AllGood(code, s, tid) ==
  /\ Len(Outcomes(code, s, tid)) \in Nat
  /\ Current(code, s, tid).op # "ldv_" => Len(Outcomes(code, s, tid)) # 0
  /\ \A k \in 1 .. Len(Outcomes(code, s, tid)) : Good(code, s, tid, Outcomes(code, s, tid)[k])

(* Handlers with one outcome, ... *)
LEMMA OneOutcome ==
  ASSUME NEW code, NEW s, NEW tid, NEW o, Outcomes(code, s, tid) = <<o>>, Good(code, s, tid, o)
  PROVE  AllGood(code, s, tid)
BY DEF AllGood

(* ... and with two. *)
LEMMA TwoOutcomes ==
  ASSUME NEW code, NEW s, NEW tid, NEW o, NEW p, Outcomes(code, s, tid) = <<o, p>>,
         Good(code, s, tid, o), Good(code, s, tid, p)
  PROVE  AllGood(code, s, tid)
<1>1. Len(<<o, p>>) = 2 /\ <<o, p>>[1] = o /\ <<o, p>>[2] = p
  OBVIOUS
<1>2. \A k \in 1 .. 2 : k = 1 \/ k = 2
  OBVIOUS
<1>3. QED
  BY <1>1, <1>2 DEF AllGood

(* Assignments on the way to the next instruction. *)
LEMMA GivenView ==
  ASSUME NEW g, DOMAIN g = ViewFields, NEW t, NEW moves
  PROVE  /\ Onward(g, Assign(GoOn(g, t), moves), t)
         /\ Assign(GoOn(g, t), moves).mem = Given(g.mem, moves)
<1>1. Alike(g, GoOn(g, t), {"stack"}) /\ GoOn(g, t).stack = [g.stack EXCEPT ![t] = Behind(g.stack[t])]
  BY GoOnFields
<1>2. DOMAIN GoOn(g, t) = ViewFields
  BY <1>1 DEF Alike
<1>3. /\ Alike(GoOn(g, t), Assign(GoOn(g, t), moves), {"mem"})
      /\ Assign(GoOn(g, t), moves).mem = Given(GoOn(g, t).mem, moves)
  BY <1>2, AssignFields
<1>4. QED
  BY <1>1, <1>3 DEF Alike, Onward

(* The operands of the present instruction exist. *)
LEMMA OperandsAre ==
  ASSUME NEW code, NEW s, NEW tid, Ready(code, s, tid)
  PROVE  /\ OperandsExist(code, Current(code, s, tid))
         /\ s.data \subseteq [Var -> Val]
         /\ Current(code, s, tid).op \in Operations
         /\ Targets(Current(code, s, tid)) \subseteq DOMAIN code[GetPC(s, tid)[1]].body
         /\ GetPC(s, tid)[1] \in DOMAIN code
         /\ GetPC(s, tid)[2] \in DOMAIN code[GetPC(s, tid)[1]].body
<1>1. WellFormed(code) /\ GetPC(s, tid) \in Positions(code) /\ StoreOK(s)
  BY ReadyFacts
<1>2. QED
  BY <1>1, WellFormedAt DEF Current, StoreOK

(* A store on the way to the next instruction. *)
LEMMA StoringGood ==
  ASSUME NEW code, NEW s, NEW tid, Ready(code, s, tid), NEW x, Fresh(code, s, x, tid), x.data \subseteq s.data,
         Current(code, s, tid).op \notin Terminators, NEW moves, NEW obs,
         \A v \in DOMAIN moves : moves[v] \in Var \cup Val,
         \A g : \A m \in x.data : Stands(code, s, tid, g) /\ g.mem = m =>
            \E w : Given(m, w) = Given(m, moves) /\ Assign(GoOn(g, s.tids[tid]), w) \in StepsOf(code, g, s.tids[tid])
  PROVE  Good(code, s, tid, Outcome(AdvancePC(Store(x, moves), tid), obs))
<1> DEFINE y == Store(x, moves)
           r == AdvancePC(y, tid)
           t == s.tids[tid]
<1>1. Fresh(code, s, y, tid) /\ y.data = Stored(x.data, moves)
  BY StoredFresh
<1> HIDE DEF y
<1>2. Stepped(code, s, r, tid) /\ Calm(s, r) /\ r.data = Stored(x.data, moves)
  BY <1>1, AdvancedIs
<1> HIDE DEF r
<1>3. s.data \subseteq [Var -> Val]
  BY OperandsAre
<1>x. x.data \subseteq [Var -> Val]
  BY <1>3
<1>y. /\ Stored(x.data, moves) \subseteq [Var -> Val]
      /\ \A m \in Stored(x.data, moves) : \E m0 \in x.data : m = Given(m0, moves)
  BY <1>x, StoredIn
<1>4. r.data \subseteq [Var -> Val] /\ \A m \in r.data : \E m0 \in x.data : m = Given(m0, moves)
  BY <1>2, <1>y
<1>5. ASSUME NEW m \in r.data
      PROVE  \E m0 \in s.data : \A g : Stands(code, s, tid, g) /\ g.mem = m0 =>
               \E h \in StepsOf(code, g, t) : h.mem = m /\ Onward(g, h, t)
  <2>1. PICK m0 \in x.data : m = Given(m0, moves)
    BY <1>4, <1>5
  <2>2. ASSUME NEW g, Stands(code, s, tid, g), g.mem = m0
        PROVE  \E h \in StepsOf(code, g, t) : h.mem = m /\ Onward(g, h, t)
    <3>1. PICK w : Given(m0, w) = Given(m0, moves) /\ Assign(GoOn(g, t), w) \in StepsOf(code, g, t)
      BY <2>2
    <3>2. DOMAIN g = ViewFields
      BY <2>2 DEF Follows, Stands
    <3> DEFINE h == Assign(GoOn(g, t), w)
    <3> HIDE DEF t
    <3>3. /\ Onward(g, h, t)
          /\ h.mem = Given(g.mem, w)
      BY <3>2, GivenView
    <3> HIDE DEF h
    <3>4. h \in StepsOf(code, g, t) /\ h.mem = m
      BY <2>1, <2>2, <3>1, <3>3 DEF h
    <3>5. QED
      BY <3>3, <3>4
  <2>3. QED
    BY <2>2
<1>6. Good(code, s, tid, Outcome(r, obs))
  BY <1>2, <1>4, <1>5, CalmStep
<1>7. QED
  BY <1>6 DEF r, y

(* Arithmetic, load and store. *)
LEMMA MovesGood ==
  ASSUME NEW code, NEW s, NEW tid, Ready(code, s, tid),
         Current(code, s, tid).op \in {"local", "load", "store"}
  PROVE  AllGood(code, s, tid)
<1> DEFINE i == Current(code, s, tid)
           t == s.tids[tid]
           x == [s EXCEPT !.previous_bb[tid] = NoPC]
           r == AdvancePC(Store(x, i.moves), tid)
<1>1. s.error = FALSE
  BY DEF Ready
<1>2. Fresh(code, s, x, tid) /\ x.data = s.data
  BY FreshIs
<1>3. \A v \in DOMAIN i.moves : i.moves[v] \in Var \cup Val
  BY OperandsAre DEF OperandsExist
<1>4. i.op \notin Terminators
  BY DEF Terminators
<1>5. ASSUME NEW g, Follows(code, s, g) PROVE Assign(GoOn(g, t), i.moves) \in StepsOf(code, g, t)
  <2>1. Instruction(code, Here(g, t)) = i
    BY <1>5, ViewIs
  <2>2. QED
    BY <2>1 DEF StepsOf
<1>6. ASSUME NEW obs PROVE Good(code, s, tid, Outcome(r, obs))
  <2> HIDE DEF x, i, t
  <2>1. \A g : \A m \in x.data : Follows(code, s, g) /\ g.mem = m =>
            \E w : Given(m, w) = Given(m, i.moves) /\ Assign(GoOn(g, t), w) \in StepsOf(code, g, t)
    BY <1>5
  <2>2. QED
    BY <1>2, <1>3, <1>4, <2>1, StoringGood DEF i, t, Stands
<1>7. CASE i.op = "local"
  <2>1. Outcomes(code, s, tid) = <<Outcome(r, FALSE)>>
    BY <1>1, <1>7 DEF Outcomes, DoLocal
  <2> HIDE DEF r
  <2>2. QED
    BY <2>1, <1>6, OneOutcome
<1>8. CASE i.op \in {"load", "store"}
  <2>1. Outcomes(code, s, tid) = <<Outcome(r, TRUE)>>
    BY <1>1, <1>8 DEF Outcomes, DoLoadStore
  <2> HIDE DEF r
  <2>2. QED
    BY <2>1, <1>6, OneOutcome
<1>9. QED
  BY <1>7, <1>8

(* PHI nodes: both sides came by the same block, and what the interleavings
   read at the jump is still there. *)
LEMMA PhiGood ==
  ASSUME NEW code, NEW s, NEW tid, Ready(code, s, tid), Current(code, s, tid).op = "phi"
  PROVE  AllGood(code, s, tid)
<1> DEFINE i == Current(code, s, tid)
           t == s.tids[tid]
           n == s.previous_bb[tid][2]
           op == i.incoming[n]
           moves == [v \in {i.to} |-> op]
           r == AdvancePC(Store(s, moves), tid)
<1>1. s.error = FALSE
  BY DEF Ready
<1>2. Fresh(code, s, s, tid)
  BY FreshIs
<1>3. n \in DOMAIN i.incoming
  <2>1. /\ ThreadOK(code, s.context[tid], s.previous_bb[tid])
        /\ i = Instruction(code, Last(s.context[tid]))
    BY ReadyFacts
  <2>2. QED
    BY <2>1 DEF ThreadOK, CameByEdge
<1>4. op \in Var \cup Val /\ s.data \subseteq [Var -> Val]
  BY <1>3, OperandsAre DEF OperandsExist
<1>5. i.op \notin Terminators
  BY DEF Terminators
<1>6. ASSUME NEW g, NEW m \in s.data, Stands(code, s, tid, g), g.mem = m
      PROVE  \E w : Given(m, w) = Given(m, moves) /\ Assign(GoOn(g, t), w) \in StepsOf(code, g, t)
  <2> DEFINE w == [v \in {i.to} |-> AtTheJump(g, t, i)]
  <2>1. Instruction(code, Here(g, t)) = i /\ g.came[t][1] = n
    BY <1>6, ViewIs DEF Stands
  <2>2. AtTheJump(g, t, i) = Read(m, op)
    BY <1>6, <2>1 DEF Stands, PhiMayWait, Incoming
  <2>3. Assign(GoOn(g, t), w) \in StepsOf(code, g, t)
    BY <2>1 DEF StepsOf
  <2>4. Given(m, w) = Given(m, moves)
    <3> HIDE DEF op, n, t, i
    <3>1. Read(m, op) \in Val
      BY <1>4, ReadIn
    <3>2. Read(m, Read(m, op)) = Read(m, op)
      BY <3>1, ValAssumption DEF Read
    <3>3. QED
      BY <2>2, <3>2 DEF Given
  <2>5. QED
    BY <2>3, <2>4
<1>7. Outcomes(code, s, tid) = <<Outcome(r, FALSE)>>
  BY <1>1 DEF Outcomes, DoPhi
<1>8. \A v \in DOMAIN moves : moves[v] \in Var \cup Val
  BY <1>4
<1> HIDE DEF moves, op, n, t, i
<1>9. Good(code, s, tid, Outcome(r, FALSE))
  BY <1>2, <1>5, <1>6, <1>8, StoringGood DEF i, t
<1> HIDE DEF r
<1>10. QED
  BY <1>7, <1>9, OneOutcome

(* Comparisons: each outcome keeps the valuations with its result. *)
LEMMA IcmpGood ==
  ASSUME NEW code, NEW s, NEW tid, Ready(code, s, tid), Current(code, s, tid).op = "icmp"
  PROVE  AllGood(code, s, tid)
<1> DEFINE i == Current(code, s, tid)
           t == s.tids[tid]
           f == [s EXCEPT !.previous_bb[tid] = NoPC]
           x == PruneEQ(f, i.a, i.b)
           y == PruneNE(s, i.a, i.b)
           one == [v \in {i.to} |-> 1]
           zero == [v \in {i.to} |-> 0]
           r == AdvancePC(Store(x, one), tid)
           q == AdvancePC(Store(y, zero), tid)
<1>1. s.error = FALSE
  BY DEF Ready
<1>2. Fresh(code, s, f, tid) /\ f.data = s.data /\ Fresh(code, s, s, tid)
  BY FreshIs
<1>3. i.op \notin Terminators
  BY DEF Terminators
<1>4. Outcomes(code, s, tid) = <<Outcome(r, FALSE), Outcome(q, FALSE)>>
  BY <1>1 DEF Outcomes, DoIcmp
<1>5. (\A v \in DOMAIN one : one[v] \in Var \cup Val) /\ (\A v \in DOMAIN zero : zero[v] \in Var \cup Val)
  BY ValAssumption
<1>6. ASSUME NEW g, Follows(code, s, g)
      PROVE  Assign(GoOn(g, t), [v \in {i.to} |-> IF Read(g.mem, i.a) = Read(g.mem, i.b) THEN 1 ELSE 0])
             \in StepsOf(code, g, t)
  <2>1. Instruction(code, Here(g, t)) = i
    BY <1>6, ViewIs
  <2>2. QED
    BY <2>1 DEF StepsOf
<1> HIDE DEF f
<1>7. Fresh(code, s, x, tid) /\ Fresh(code, s, y, tid)
      /\ x.data = {m \in s.data : Read(m, i.a) = Read(m, i.b)}
      /\ y.data = {m \in s.data : Read(m, i.a) # Read(m, i.b)}
  BY <1>2, PrunedFresh
<1>8. \A g : \A m \in x.data : Follows(code, s, g) /\ g.mem = m =>
        \E w : Given(m, w) = Given(m, one) /\ Assign(GoOn(g, t), w) \in StepsOf(code, g, t)
  <2>1. SUFFICES ASSUME NEW g, NEW m \in x.data, Follows(code, s, g), g.mem = m
                 PROVE  \E w : Given(m, w) = Given(m, one) /\ Assign(GoOn(g, t), w) \in StepsOf(code, g, t)
    OBVIOUS
  <2>2. [v \in {i.to} |-> IF Read(g.mem, i.a) = Read(g.mem, i.b) THEN 1 ELSE 0] = one
    BY <1>7, <2>1
  <2>3. QED
    BY <2>1, <2>2, <1>6
<1>9. \A g : \A m \in y.data : Follows(code, s, g) /\ g.mem = m =>
        \E w : Given(m, w) = Given(m, zero) /\ Assign(GoOn(g, t), w) \in StepsOf(code, g, t)
  <2>1. SUFFICES ASSUME NEW g, NEW m \in y.data, Follows(code, s, g), g.mem = m
                 PROVE  \E w : Given(m, w) = Given(m, zero) /\ Assign(GoOn(g, t), w) \in StepsOf(code, g, t)
    OBVIOUS
  <2>2. [v \in {i.to} |-> IF Read(g.mem, i.a) = Read(g.mem, i.b) THEN 1 ELSE 0] = zero
    BY <1>7, <2>1
  <2>3. QED
    BY <2>1, <2>2, <1>6
<1>10. x.data \subseteq s.data /\ y.data \subseteq s.data
  BY <1>7
<1> HIDE DEF x, y, one, zero, t, i
<1>11. Good(code, s, tid, Outcome(r, FALSE))
  BY <1>3, <1>5, <1>7, <1>8, <1>10, StoringGood DEF t, i, Stands
<1>12. Good(code, s, tid, Outcome(q, FALSE))
  BY <1>3, <1>5, <1>7, <1>9, <1>10, StoringGood DEF t, i, Stands
<1> HIDE DEF r, q
<1>13. QED
  BY <1>4, <1>11, <1>12, TwoOutcomes

(* Thread t at the next instruction, memory unchanged. *)
LEMMA OnIs ==
  ASSUME NEW g, DOMAIN g = ViewFields, NEW t
  PROVE  Onward(g, GoOn(g, t), t) /\ GoOn(g, t).mem = g.mem /\ DOMAIN GoOn(g, t) = ViewFields
<1>1. Alike(g, GoOn(g, t), {"stack"}) /\ GoOn(g, t).stack = [g.stack EXCEPT ![t] = Behind(g.stack[t])]
  BY GoOnFields
<1>2. QED
  BY <1>1 DEF Alike, Onward

(* Calls that keep or drop valuations. *)
LEMMA PassingGood ==
  ASSUME NEW code, NEW s, NEW tid, Ready(code, s, tid), Current(code, s, tid).op \notin Terminators,
         NEW r, Stepped(code, s, r, tid), Calm(s, r), r.data \subseteq s.data, NEW obs,
         \A g : \A m \in r.data : Follows(code, s, g) /\ g.mem = m =>
           GoOn(g, s.tids[tid]) \in StepsOf(code, g, s.tids[tid])
  PROVE  Good(code, s, tid, Outcome(r, obs))
<1>1. s.data \subseteq [Var -> Val]
  BY OperandsAre
<1>2. ASSUME NEW m \in r.data
      PROVE  \E m0 \in s.data : \A g : Follows(code, s, g) /\ g.mem = m0 =>
               \E h \in StepsOf(code, g, s.tids[tid]) : h.mem = m /\ Onward(g, h, s.tids[tid])
  <2>1. ASSUME NEW g, Follows(code, s, g), g.mem = m
        PROVE  \E h \in StepsOf(code, g, s.tids[tid]) : h.mem = m /\ Onward(g, h, s.tids[tid])
    <3>1. DOMAIN g = ViewFields
      BY <2>1 DEF Follows
    <3>2. GoOn(g, s.tids[tid]) \in StepsOf(code, g, s.tids[tid])
      BY <2>1
    <3>3. QED
      BY <2>1, <3>1, <3>2, OnIs
  <2>2. QED
    BY <2>1
<1>3. QED
  BY <1>1, <1>2, CalmStep DEF Stands

(* Calls that are ignored. *)
LEMMA IgnoredGood ==
  ASSUME NEW code, NEW s, NEW tid, Ready(code, s, tid), Current(code, s, tid).op = "ignored"
  PROVE  AllGood(code, s, tid)
<1> DEFINE i == Current(code, s, tid)
           t == s.tids[tid]
           f == [s EXCEPT !.previous_bb[tid] = NoPC]
           r == AdvancePC(f, tid)
<1>1. s.error = FALSE
  BY DEF Ready
<1>2. Fresh(code, s, f, tid) /\ f.data = s.data
  BY FreshIs
<1>3. i.op \notin Terminators
  BY DEF Terminators
<1>4. Outcomes(code, s, tid) = <<Outcome(r, FALSE)>>
  BY <1>1 DEF Outcomes, DoCall
<1> HIDE DEF f
<1>5. Stepped(code, s, r, tid) /\ Calm(s, r) /\ r.data = s.data
  BY <1>2, AdvancedIs
<1>6. \A g : \A m \in r.data : Follows(code, s, g) /\ g.mem = m => GoOn(g, t) \in StepsOf(code, g, t)
  <2>1. SUFFICES ASSUME NEW g, NEW m \in r.data, Follows(code, s, g), g.mem = m
                 PROVE  GoOn(g, t) \in StepsOf(code, g, t)
    OBVIOUS
  <2>2. Instruction(code, Here(g, t)) = i
    BY <2>1, ViewIs
  <2>3. QED
    BY <2>2 DEF StepsOf
<1> HIDE DEF r
<1>7. Good(code, s, tid, Outcome(r, FALSE))
  BY <1>3, <1>5, <1>6, PassingGood
<1>8. QED
  BY <1>4, <1>7, OneOutcome

(* A condition after the step. *)
LEMMA PrunedStepped ==
  ASSUME NEW code, NEW s, NEW p, NEW tid, Stepped(code, s, p, tid), Calm(s, p), NEW a, NEW b
  PROVE  /\ Stepped(code, s, PruneNE(p, a, b), tid) /\ Calm(s, PruneNE(p, a, b))
         /\ PruneNE(p, a, b).data = {m \in p.data : Read(m, a) # Read(m, b)}
<1>1. DOMAIN p = Fields
  BY DEF Stepped
<1>2. /\ SameBut(p, PruneNE(p, a, b), {"data"})
      /\ PruneNE(p, a, b).data = {m \in p.data : Read(m, a) # Read(m, b)}
  BY <1>1, PruneFields
<1>3. QED
  BY <1>2 DEF Stepped, Calm, SameBut

(* assume drops valuations, as the interleavings stop. *)
LEMMA AssumeGood ==
  ASSUME NEW code, NEW s, NEW tid, Ready(code, s, tid), Current(code, s, tid).op = "assume"
  PROVE  AllGood(code, s, tid)
<1> DEFINE i == Current(code, s, tid)
           t == s.tids[tid]
           f == [s EXCEPT !.previous_bb[tid] = NoPC]
           p == AdvancePC(f, tid)
           r == PruneNE(p, i.cond, 0)
<1>1. s.error = FALSE
  BY DEF Ready
<1>2. Fresh(code, s, f, tid) /\ f.data = s.data
  BY FreshIs
<1>3. i.op \notin Terminators
  BY DEF Terminators
<1>4. Outcomes(code, s, tid) = <<Outcome(r, FALSE)>>
  BY <1>1 DEF Outcomes, DoCall
<1> HIDE DEF f
<1>5. Stepped(code, s, p, tid) /\ Calm(s, p) /\ p.data = s.data
  BY <1>2, AdvancedIs
<1> HIDE DEF p
<1>6. Stepped(code, s, r, tid) /\ Calm(s, r) /\ r.data = {m \in s.data : Read(m, i.cond) # Read(m, 0)}
  BY <1>5, PrunedStepped
<1>z. \A m : Read(m, 0) = 0
  BY ValAssumption DEF Read
<1>7. \A g : \A m \in r.data : Follows(code, s, g) /\ g.mem = m => GoOn(g, t) \in StepsOf(code, g, t)
  <2>1. SUFFICES ASSUME NEW g, NEW m \in r.data, Follows(code, s, g), g.mem = m
                 PROVE  GoOn(g, t) \in StepsOf(code, g, t)
    OBVIOUS
  <2>2. Instruction(code, Here(g, t)) = i
    BY <2>1, ViewIs
  <2>3. Read(g.mem, i.cond) # 0
    BY <2>1, <1>6, <1>z
  <2>4. QED
    BY <2>2, <2>3 DEF StepsOf
<1> HIDE DEF r
<1>8. r.data \subseteq s.data
  BY <1>6
<1>9. Good(code, s, tid, Outcome(r, FALSE))
  BY <1>3, <1>6, <1>7, <1>8, PassingGood
<1>10. QED
  BY <1>4, <1>9, OneOutcome

(* An unknown value may be any. *)
LEMMA InputGood ==
  ASSUME NEW code, NEW s, NEW tid, Ready(code, s, tid), Current(code, s, tid).op = "input"
  PROVE  AllGood(code, s, tid)
<1> DEFINE i == Current(code, s, tid)
           t == s.tids[tid]
           f == [s EXCEPT !.previous_bb[tid] = NoPC]
           p == AdvancePC(f, tid)
           any == {[m EXCEPT ![i.to] = n] : m \in f.data, n \in Val}
           r == [p EXCEPT !.data = any]
<1>1. s.error = FALSE
  BY DEF Ready
<1>2. Fresh(code, s, f, tid) /\ f.data = s.data
  BY FreshIs
<1>3. i.op \notin Terminators
  BY DEF Terminators
<1>4. Outcomes(code, s, tid) = <<Outcome(r, FALSE)>>
  <2>1. Outcomes(code, s, tid) = DoInput(f, i, tid)
    BY <1>1 DEF Outcomes, DoCall
  <2>2. DoInput(f, i, tid) = <<Outcome(r, FALSE)>>
    BY DEF DoInput
  <2> HIDE DEF f, r
  <2>3. QED
    BY <2>1, <2>2
<1> HIDE DEF f
<1>5. Stepped(code, s, p, tid) /\ Calm(s, p)
  BY <1>2, AdvancedIs
<1> HIDE DEF p
<1>6. SameBut(p, r, {"data"}) /\ r.data = any
  BY <1>5 DEF Stepped, SameBut, Fields
<1>7. i.to \in Var /\ s.data \subseteq [Var -> Val]
  BY OperandsAre DEF OperandsExist
<1> HIDE DEF r
<1>8. Stepped(code, s, r, tid) /\ Calm(s, r)
  BY <1>5, <1>6 DEF Stepped, Calm, SameBut
<1>9. r.data \subseteq [Var -> Val]
  BY <1>2, <1>6, <1>7
<1>10. ASSUME NEW m \in r.data
       PROVE  \E m0 \in s.data : \A g : Stands(code, s, tid, g) /\ g.mem = m0 =>
               \E h \in StepsOf(code, g, t) : h.mem = m /\ Onward(g, h, t)
  <2>1. PICK m0 \in s.data, n \in Val : m = [m0 EXCEPT ![i.to] = n]
    BY <1>2, <1>6
  <2>2. ASSUME NEW g, Follows(code, s, g), g.mem = m0
        PROVE  \E h \in StepsOf(code, g, t) : h.mem = m /\ Onward(g, h, t)
    <3> DEFINE on == GoOn(g, t)
               h == [on EXCEPT !.mem[i.to] = n]
    <3>1. Instruction(code, Here(g, t)) = i /\ DOMAIN g = ViewFields
      BY <2>2, ViewIs
    <3>2. h \in StepsOf(code, g, t)
      BY <3>1 DEF StepsOf
    <3>3. Onward(g, on, t) /\ on.mem = g.mem /\ DOMAIN on = ViewFields
      BY <3>1, OnIs
    <3> HIDE DEF on
    <3>4. Alike(on, h, {"mem"}) /\ h.mem = [on.mem EXCEPT ![i.to] = n]
      BY <3>3 DEF Alike, ViewFields
    <3> HIDE DEF h
    <3>5. Onward(g, h, t)
      BY <3>3, <3>4 DEF Onward, Alike
    <3>6. h.mem = m
      BY <2>1, <2>2, <3>3, <3>4
    <3>7. QED
      BY <3>2, <3>5, <3>6
  <2>3. QED
    BY <2>2 DEF Stands
<1>11. Good(code, s, tid, Outcome(r, FALSE))
  BY <1>3, <1>8, <1>9, <1>10, CalmStep
<1>12. QED
  BY <1>4, <1>11, OneOutcome

-----------------------------------------------------------------------------
(* Steps that leave the thread where it is.                                *)

(* the thread stays where it is *)
Stayed(code, s, r, tid) ==
  /\ SameBut(s, r, {"previous_bb", "data", "error"})
  /\ r.previous_bb \in {s.previous_bb, [s.previous_bb EXCEPT ![tid] = NoPC]}
  /\ Current(code, s, tid).op = "phi" => r.previous_bb = s.previous_bb

(* A thread that stays leaves the state in order, ... *)
LEMMA StayedIsOK ==
  ASSUME NEW code, NEW s, NEW tid, Ready(code, s, tid), NEW r, Stayed(code, s, r, tid), StoreOK(r)
  PROVE  /\ StateOK(code, r)
         /\ Len(r.context) = Len(s.context)
         /\ Laid(s) => Laid(r)
<1> DEFINE f == s.context[tid]
           new == IF r.previous_bb = s.previous_bb THEN s.previous_bb[tid] ELSE NoPC
<1>1. /\ WellFormed(code) /\ tid \in 1 .. Len(s.context) /\ Len(s.context) \in Nat
      /\ ThreadsOK(code, s.context, s.previous_bb) /\ TidsOK(s.tids, Len(s.context))
      /\ SectionOK(s.atomic_section, Len(s.context))
      /\ s.next_free_tid \in 0 .. TidRange - 1
      /\ ThreadOK(code, f, s.previous_bb[tid])
      /\ Current(code, s, tid) = Instruction(code, Last(f))
  BY ReadyFacts
<1>2. s.previous_bb = [s.previous_bb EXCEPT ![tid] = s.previous_bb[tid]]
      /\ s.context = [s.context EXCEPT ![tid] = f]
  BY <1>1, SameElement
<1>3. r.previous_bb = [s.previous_bb EXCEPT ![tid] = new]
  BY <1>2 DEF Stayed
<1>4. ThreadOK(code, f, new)
  BY <1>1, StayIs DEF Stayed
<1>5. /\ DOMAIN r = Fields /\ r.context = s.context
      /\ r.tids = s.tids /\ r.next_free_tid = s.next_free_tid /\ r.layout = s.layout
      /\ r.atomic_section = s.atomic_section
  BY DEF Stayed, SameBut
<1> HIDE DEF f, new
<1>6. ThreadsOK(code, [s.context EXCEPT ![tid] = f], [s.previous_bb EXCEPT ![tid] = new])
  BY <1>1, <1>4, ChangedThreads
<1>7. ThreadsOK(code, r.context, r.previous_bb)
  BY <1>2, <1>3, <1>5, <1>6
<1>8. StateOK(code, r)
  BY <1>1, <1>5, <1>7, StateIs
<1>9. QED
  BY <1>5, <1>8 DEF Laid

(* ... and the interleavings follow it without a step. *)
LEMMA StayedFollows ==
  ASSUME NEW code, NEW s, NEW tid, Ready(code, s, tid), NEW r, Stayed(code, s, r, tid),
         NEW g, Follows(code, s, g), NEW h, Alike(g, h, {"mem", "err"}), h.err = r.error
  PROVE  Follows(code, r, h)
<1> DEFINE f == s.context[tid]
           t == s.tids[tid]
           N == Len(s.context)
<1>1. /\ tid \in 1 .. N /\ N \in Nat
      /\ ThreadsOK(code, s.context, s.previous_bb)
      /\ Current(code, s, tid) = Instruction(code, Last(f))
  BY ReadyFacts
<1>2. /\ r.context = s.context
      /\ r.tids = s.tids /\ r.next_free_tid = s.next_free_tid /\ r.explicitData = s.explicitData
      /\ r.atomic_section = s.atomic_section
  BY DEF Stayed, SameBut
<1>3. /\ Agrees(code, s.context, s.previous_bb, s.tids, g.stack, g.came)
      /\ \A i \in 1 .. N : s.tids[i] < s.next_free_tid
  BY DEF Follows
<1>4. \A i \in 1 .. N : Instruction(code, Last(s.context[i])).op = "phi" => r.previous_bb[i] = s.previous_bb[i]
  <2> DEFINE PN == Positions(code) \cup {NoPC}
             p == s.previous_bb
             q == [p EXCEPT ![tid] = NoPC]
  <2>1. p \in Seq(PN) /\ Len(p) = N
    BY <1>1 DEF ThreadsOK
  <2>2. r.previous_bb \in {p, q}
        /\ (Instruction(code, Last(s.context[tid])).op = "phi" => r.previous_bb = p)
    BY <1>1 DEF Stayed
  <2> HIDE DEF PN, p, N
  <2>3. \A i \in 1 .. N : i # tid => q[i] = p[i]
    BY <2>1
  <2> HIDE DEF q
  <2>4. QED
    BY <2>2, <2>3 DEF p
<1>5. Agrees(code, r.context, r.previous_bb, r.tids, g.stack, g.came)
  BY <1>2, <1>3, <1>4 DEF Agrees
<1>6. QED
  BY <1>2, <1>3, <1>5 DEF Follows, Alike

(* A step of the evaluator that the interleavings do not make, or one that
   finds the assertion false. *)
LEMMA StayedIsGood ==
  ASSUME NEW code, NEW s, NEW tid, Ready(code, s, tid), NEW r, Stayed(code, s, r, tid),
         r.data \subseteq s.data, r.error \in BOOLEAN, NEW obs,
         \A g : \A m \in r.data : Follows(code, s, g) /\ g.mem = m =>
            \E h \in StepsOf(code, g, s.tids[tid]) \cup {g} : Alike(g, h, {"err"}) /\ h.err = r.error
  PROVE  Good(code, s, tid, Outcome(r, obs))
<1>1. StoreOK(r)
  BY ReadyFacts DEF StoreOK, Stayed, SameBut
<1>2. StateOK(code, r) /\ Len(r.context) = Len(s.context) /\ (Laid(s) => Laid(r))
  BY <1>1, StayedIsOK
<1>3. \A i : May(s, i) => May(r, i)
  BY <1>2 DEF May, Stayed, SameBut
<1>4. ASSUME NEW m \in r.data, NEW g, Follows(code, s, g), g.mem = m
      PROVE  \E h \in StepsOf(code, g, s.tids[tid]) \cup {g} : h.mem = m /\ Follows(code, r, h)
  <2>1. PICK h \in StepsOf(code, g, s.tids[tid]) \cup {g} : Alike(g, h, {"err"}) /\ h.err = r.error
    BY <1>4
  <2>2. Alike(g, h, {"mem", "err"}) /\ h.mem = m
    BY <1>4, <2>1 DEF Alike
  <2>3. QED
    BY <1>4, <2>1, <2>2, StayedFollows
<1>5. Backed(code, s, tid, r)
  BY <1>4 DEF Backed, Stands
<1>6. QED
  BY <1>2, <1>3, <1>5, OutcomeIs DEF Good

-----------------------------------------------------------------------------
(* Calls of library functions.                                             *)

(* the state behind a call, the block the thread came from forgotten *)
Past(s, tid) == AdvancePC([s EXCEPT !.previous_bb[tid] = NoPC], tid)

(* It is at the next instruction, its data are those of s. *)
LEMMA PastIs ==
  ASSUME NEW code, NEW s, NEW tid, Ready(code, s, tid), Current(code, s, tid).op # "phi"
  PROVE  /\ Stepped(code, s, Past(s, tid), tid) /\ Calm(s, Past(s, tid))
         /\ Past(s, tid).data = s.data
         /\ DOMAIN Past(s, tid) = Fields
         /\ Past(s, tid).tids = s.tids
<1> DEFINE f == [s EXCEPT !.previous_bb[tid] = NoPC]
<1>1. Fresh(code, s, f, tid) /\ f.data = s.data
  BY FreshIs
<1> HIDE DEF f
<1>2. Stepped(code, s, AdvancePC(f, tid), tid) /\ Calm(s, AdvancePC(f, tid)) /\ AdvancePC(f, tid).data = s.data
  BY <1>1, AdvancedIs
<1>3. QED
  BY <1>2 DEF Past, f, Stepped

(* It has as many threads. *)
LEMMA PastLength ==
  ASSUME NEW code, NEW s, NEW tid, Ready(code, s, tid), Current(code, s, tid).op # "phi"
  PROVE  /\ Len(Past(s, tid).context) = Len(s.context)
         /\ [s EXCEPT !.previous_bb[tid] = NoPC].context = s.context
         /\ [s EXCEPT !.previous_bb[tid] = NoPC].tids = s.tids
<1> DEFINE f == [s EXCEPT !.previous_bb[tid] = NoPC]
           p == Past(s, tid)
<1>1. DOMAIN s = Fields /\ ThreadsOK(code, s.context, s.previous_bb)
  BY ReadyFacts
<1>2. f.context = s.context /\ f.tids = s.tids
  BY <1>1 DEF Fields
<1>p. Stepped(code, s, p, tid)
  BY PastIs
<1> HIDE DEF p
<1>3. p.context = [s.context EXCEPT ![tid] = Behind(s.context[tid])]
  BY <1>p DEF Stepped
<1> DEFINE SP == Seq(Positions(code))
<1>4. s.context \in Seq(SP)
  BY <1>1 DEF ThreadsOK
<1> HIDE DEF SP
<1>5. Len(p.context) = Len(s.context)
  BY <1>3, <1>4
<1>6. QED
  BY <1>2, <1>5 DEF p

(* the instructions that do_call interprets *)
CallOps == {"ignored", "ldv_", "input", "assume", "create", "join", "exit", "pthread_exit", "assert", "error",
            "lock", "unlock", "atomic_begin", "atomic_end", "call"}

(* Their outcomes are those of do_call. *)
LEMMA OutcomesOfCall ==
  ASSUME NEW code, NEW s, NEW tid, s.error = FALSE, Current(code, s, tid).op \in CallOps
  PROVE  Outcomes(code, s, tid) = DoCall(code, [s EXCEPT !.previous_bb[tid] = NoPC], s, Current(code, s, tid), tid)
BY DEF Outcomes, CallOps

(* A call of the error function. *)
LEMMA ErrorGood ==
  ASSUME NEW code, NEW s, NEW tid, Ready(code, s, tid), Current(code, s, tid).op = "error"
  PROVE  AllGood(code, s, tid)
<1> DEFINE i == Current(code, s, tid)
           t == s.tids[tid]
           p == Past(s, tid)
           r == [p EXCEPT !.error = TRUE]
<1>1. s.error = FALSE
  BY DEF Ready
<1>2. i.op \notin Terminators
  BY DEF Terminators
<1>3. Outcomes(code, s, tid) = <<Outcome(r, TRUE)>>
  BY <1>1 DEF Outcomes, DoCall, Past
<1>4. Stepped(code, s, p, tid) /\ Calm(s, p) /\ p.data = s.data /\ DOMAIN p = Fields
  BY PastIs
<1> HIDE DEF p
<1>5. SameBut(p, r, {"error"}) /\ r.error = TRUE
  BY <1>4 DEF SameBut, Fields
<1> HIDE DEF r
<1>6. Stepped(code, s, r, tid) /\ r.atomic_section = s.atomic_section /\ r.explicitData = s.explicitData
      /\ r.data = s.data
  BY <1>4, <1>5 DEF Stepped, Calm, SameBut
<1>7. SectionOK(r.atomic_section, Len(s.context)) /\ StoreOK(r)
  BY <1>5, <1>6, ReadyFacts DEF StoreOK
<1>8. ASSUME NEW m \in r.data, NEW g, Follows(code, s, g), g.mem = m
      PROVE  \E h \in StepsOf(code, g, t) : h.mem = m /\ SteppedTo(s, r, g, h, tid)
  <2> DEFINE on == GoOn(g, t)
             h == [on EXCEPT !.err = TRUE]
  <2>1. Instruction(code, Here(g, t)) = i /\ DOMAIN g = ViewFields
    BY <1>8, ViewIs
  <2>2. h \in StepsOf(code, g, t)
    BY <2>1 DEF StepsOf
  <2>3. Onward(g, on, t) /\ on.mem = g.mem /\ DOMAIN on = ViewFields
    BY <2>1, OnIs
  <2> HIDE DEF on
  <2>4. Alike(on, h, {"err"}) /\ h.err = TRUE
    BY <2>3 DEF Alike, ViewFields
  <2> HIDE DEF h
  <2>5. SteppedView(g, h, t)
    BY <2>3, <2>4 DEF Onward, Alike, SteppedView
  <2>6. h.owner = g.owner /\ h.depth = g.depth /\ h.slots = g.slots /\ h.mem = m
    BY <1>8, <2>3, <2>4 DEF Onward, Alike
  <2>7. g.owner = (IF s.atomic_section = << >> THEN NoThread ELSE s.tids[s.atomic_section[1]])
        /\ g.depth = Len(s.atomic_section) /\ g.slots = s.explicitData
    BY <1>8, ViewIs
  <2>8. SteppedTo(s, r, g, h, tid)
    BY <1>5, <1>6, <2>4, <2>5, <2>6, <2>7 DEF SteppedTo
  <2>9. QED
    BY <2>2, <2>6, <2>8
<1>9. \A m \in r.data : \E m0 \in s.data : \A g :
           Stands(code, s, tid, g) /\ g.mem = m0 =>
             \E h \in StepsOf(code, g, t) : h.mem = m /\ SteppedTo(s, r, g, h, tid)
  BY <1>6, <1>8 DEF Stands
<1>10. Good(code, s, tid, Outcome(r, TRUE))
  BY <1>2, <1>6, <1>7, <1>9, SteppedIsGood
<1>11. QED
  BY <1>3, <1>10, OneOutcome

(* Lock and unlock: a slot is given a value. *)
LEMMA SlotGood ==
  ASSUME NEW code, NEW s, NEW tid, Ready(code, s, tid), Current(code, s, tid).op \in {"lock", "unlock"},
         NEW k, NEW n \in {0, 1}, NEW obs,
         \A g : Follows(code, s, g) =>
           [GoOn(g, s.tids[tid]) EXCEPT !.slots[k] = n] \in StepsOf(code, g, s.tids[tid])
  PROVE  Good(code, s, tid, Outcome([Past(s, tid) EXCEPT !.explicitData[k] = n], obs))
<1> DEFINE i == Current(code, s, tid)
           t == s.tids[tid]
           p == Past(s, tid)
           r == [p EXCEPT !.explicitData[k] = n]
<1>1. i.op \notin Terminators
  BY DEF Terminators
<1>4. Stepped(code, s, p, tid) /\ Calm(s, p) /\ p.data = s.data /\ DOMAIN p = Fields
  BY PastIs
<1> HIDE DEF p
<1>5. SameBut(p, r, {"explicitData"}) /\ r.explicitData = [p.explicitData EXCEPT ![k] = n]
  BY <1>4 DEF SameBut, Fields
<1> HIDE DEF r
<1>6. Stepped(code, s, r, tid) /\ r.atomic_section = s.atomic_section /\ r.error = s.error
      /\ r.data = s.data /\ r.explicitData = [s.explicitData EXCEPT ![k] = n]
  BY <1>4, <1>5 DEF Stepped, Calm, SameBut
<1>r. n \in 0 .. TidRange - 1
  BY TidRangeIs
<1>s. SectionOK(s.atomic_section, Len(s.context)) /\ StoreOK(s) /\ s.error = FALSE
  BY ReadyFacts
<1>7. SectionOK(r.atomic_section, Len(s.context)) /\ StoreOK(r)
  BY <1>s, <1>6, <1>r DEF StoreOK
<1>8. ASSUME NEW m \in r.data, NEW g, Follows(code, s, g), g.mem = m
      PROVE  \E h \in StepsOf(code, g, t) : h.mem = m /\ SteppedTo(s, r, g, h, tid)
  <2> DEFINE on == GoOn(g, t)
             h == [on EXCEPT !.slots[k] = n]
  <2>1. DOMAIN g = ViewFields
    BY <1>8, ViewIs
  <2>2. h \in StepsOf(code, g, t)
    BY <1>8
  <2>3. Onward(g, on, t) /\ on.mem = g.mem /\ DOMAIN on = ViewFields
    BY <2>1, OnIs
  <2> HIDE DEF on
  <2>4. Alike(on, h, {"slots"}) /\ h.slots = [on.slots EXCEPT ![k] = n]
    BY <2>3 DEF Alike, ViewFields
  <2> HIDE DEF h
  <2>5. SteppedView(g, h, t)
    BY <2>3, <2>4 DEF Onward, Alike, SteppedView
  <2>6. h.owner = g.owner /\ h.depth = g.depth /\ h.err = g.err /\ h.mem = m /\ on.slots = g.slots
    BY <1>8, <2>3, <2>4 DEF Onward, Alike
  <2>7. g.owner = (IF s.atomic_section = << >> THEN NoThread ELSE s.tids[s.atomic_section[1]])
        /\ g.depth = Len(s.atomic_section) /\ g.slots = s.explicitData /\ g.err = s.error
    BY <1>8, ViewIs
  <2>8. h.slots = r.explicitData
    BY <1>6, <2>4, <2>6, <2>7
  <2>9. SteppedTo(s, r, g, h, tid)
    BY <1>6, <2>5, <2>6, <2>7, <2>8 DEF SteppedTo
  <2>10. QED
    BY <2>2, <2>6, <2>9
<1>9. \A m \in r.data : \E m0 \in s.data : \A g :
           Stands(code, s, tid, g) /\ g.mem = m0 =>
             \E h \in StepsOf(code, g, t) : h.mem = m /\ SteppedTo(s, r, g, h, tid)
  BY <1>6, <1>8 DEF Stands
<1>10. Len(r.context) = Len(s.context)
  BY <1>1, <1>6, <1>7, SteppedIsOK
<1>11. \A j : May(s, j) => May(r, j)
  BY <1>6, <1>10 DEF May
<1>12. Good(code, s, tid, Outcome(r, obs))
  BY <1>1, <1>6, <1>7, <1>9, <1>11, SteppedIsGood
<1>13. QED
  BY <1>12 DEF r, p

(* A thread that must wait stays at the call. *)
LEMMA WaitingGood ==
  ASSUME NEW code, NEW s, NEW tid, Ready(code, s, tid), Current(code, s, tid).op # "phi", NEW obs
  PROVE  Good(code, s, tid, Outcome([s EXCEPT !.previous_bb[tid] = NoPC], obs))
<1> DEFINE f == [s EXCEPT !.previous_bb[tid] = NoPC]
<1>1. Fresh(code, s, f, tid) /\ f.data = s.data
  BY FreshIs
<1>2. SameBut(s, f, {"previous_bb"})
  BY ReadyFacts, ForgetFields
<1> HIDE DEF f
<1>3. Stayed(code, s, f, tid) /\ f.error = s.error
  BY <1>1, <1>2 DEF Fresh, Stayed, SameBut
<1>4. s.error = FALSE
  BY ReadyFacts
<1>5. \A g : \A m \in f.data : Follows(code, s, g) /\ g.mem = m =>
        \E h \in StepsOf(code, g, s.tids[tid]) \cup {g} : Alike(g, h, {"err"}) /\ h.err = f.error
  BY <1>3 DEF Alike, Follows
<1>6. Good(code, s, tid, Outcome(f, obs))
  BY <1>1, <1>3, <1>4, <1>5, StayedIsGood
<1>7. QED
  BY <1>6 DEF f

(* Locking a mutex, and waiting for it. *)
LEMMA LockGood ==
  ASSUME NEW code, NEW s, NEW tid, Ready(code, s, tid), Current(code, s, tid).op = "lock"
  PROVE  AllGood(code, s, tid)
<1> DEFINE i == Current(code, s, tid)
           t == s.tids[tid]
           f == [s EXCEPT !.previous_bb[tid] = NoPC]
           p == Past(s, tid)
           r == [p EXCEPT !.explicitData[i.slot] = 1]
           obs == ~ AmILonelyThread(f)
           o == IF p.explicitData[i.slot] # 0 THEN f ELSE r
<1>1. s.error = FALSE
  BY DEF Ready
<1>2. Outcomes(code, s, tid) = <<Outcome(o, obs)>>
  <2>1. Outcomes(code, s, tid) = DoCall(code, f, s, i, tid)
    BY <1>1, OutcomesOfCall DEF CallOps
  <2>2. DoCall(code, f, s, i, tid) = MutexLock(p, f, i)
    BY DEF DoCall, Past
  <2>a. AmILonelyThread(p) = AmILonelyThread(f)
    <3>1. Len(p.context) = Len(s.context) /\ f.context = s.context
      BY PastLength
    <3>2. QED
      BY <3>1 DEF AmILonelyThread, ThreadCount
  <2>3. MutexLock(p, f, i) = <<Outcome(o, obs)>>
    <3> HIDE DEF p, f
    <3>1. QED
      BY <2>a DEF MutexLock
  <2> HIDE DEF f, p, o
  <2>4. QED
    BY <2>1, <2>2, <2>3
<1>3. Good(code, s, tid, Outcome(o, obs))
  <2>1. CASE p.explicitData[i.slot] # 0
    <3>1. o = f
      BY <2>1
    <3> HIDE DEF o, obs
    <3>2. QED
      BY <3>1, WaitingGood
  <2>2. CASE p.explicitData[i.slot] = 0
    <3>1. o = r
      BY <2>2
    <3>2. s.explicitData[i.slot] = 0
      BY <2>2, PastIs DEF Calm
    <3>3. ASSUME NEW g, Follows(code, s, g)
          PROVE  [GoOn(g, t) EXCEPT !.slots[i.slot] = 1] \in StepsOf(code, g, t)
      <4>1. Instruction(code, Here(g, t)) = i /\ g.slots = s.explicitData
        BY <3>3, ViewIs
      <4>2. g.slots[i.slot] = 0
        BY <3>2, <4>1
      <4>3. QED
        BY <4>1, <4>2 DEF StepsOf
    <3> HIDE DEF obs
    <3>4. Good(code, s, tid, Outcome(r, obs))
      BY <3>3, SlotGood
    <3>5. QED
      BY <3>1, <3>4
  <2>3. QED
    BY <2>1, <2>2
<1> HIDE DEF o, obs
<1>4. QED
  BY <1>2, <1>3, OneOutcome

(* Unlocking it. *)
LEMMA UnlockGood ==
  ASSUME NEW code, NEW s, NEW tid, Ready(code, s, tid), Current(code, s, tid).op = "unlock"
  PROVE  AllGood(code, s, tid)
<1> DEFINE i == Current(code, s, tid)
           t == s.tids[tid]
           f == [s EXCEPT !.previous_bb[tid] = NoPC]
           p == Past(s, tid)
           r == [p EXCEPT !.explicitData[i.slot] = 0]
           obs == ~ AmILonelyThread(p)
<1>1. s.error = FALSE
  BY DEF Ready
<1>2. Outcomes(code, s, tid) = <<Outcome(r, obs)>>
  <2>1. Outcomes(code, s, tid) = DoCall(code, f, s, i, tid)
    BY <1>1, OutcomesOfCall DEF CallOps
  <2>2. DoCall(code, f, s, i, tid) = MutexUnlock(p, i)
    BY DEF DoCall, Past
  <2>3. MutexUnlock(p, i) = <<Outcome(r, obs)>>
    BY DEF MutexUnlock
  <2> HIDE DEF f, p, r, obs
  <2>4. QED
    BY <2>1, <2>2, <2>3
<1>3. ASSUME NEW g, Follows(code, s, g)
      PROVE  [GoOn(g, t) EXCEPT !.slots[i.slot] = 0] \in StepsOf(code, g, t)
  <2>1. Instruction(code, Here(g, t)) = i
    BY <1>3, ViewIs
  <2>2. QED
    BY <2>1 DEF StepsOf
<1> HIDE DEF obs
<1>4. Good(code, s, tid, Outcome(r, obs))
  BY <1>3, SlotGood
<1> HIDE DEF r
<1>5. QED
  BY <1>2, <1>4, OneOutcome

(* Joining a thread, and waiting for it. *)
LEMMA JoinGood ==
  ASSUME NEW code, NEW s, NEW tid, Ready(code, s, tid), Current(code, s, tid).op = "join"
  PROVE  AllGood(code, s, tid)
<1> DEFINE i == Current(code, s, tid)
           t == s.tids[tid]
           f == [s EXCEPT !.previous_bb[tid] = NoPC]
           p == Past(s, tid)
           obs == ~ AmILonelyThread(p)
           o == IF HasTid(p, p.explicitData[i.slot]) THEN f ELSE p
<1>1. s.error = FALSE
  BY DEF Ready
<1>2. Outcomes(code, s, tid) = <<Outcome(o, obs)>>
  <2>1. Outcomes(code, s, tid) = DoCall(code, f, s, i, tid)
    BY <1>1, OutcomesOfCall DEF CallOps
  <2>2. DoCall(code, f, s, i, tid) = PthreadJoin(p, f, i)
    BY DEF DoCall, Past
  <2>3. PthreadJoin(p, f, i) = <<Outcome(o, obs)>>
    BY DEF PthreadJoin
  <2> HIDE DEF f, p, o, obs
  <2>4. QED
    BY <2>1, <2>2, <2>3
<1>p. Stepped(code, s, p, tid) /\ Calm(s, p) /\ p.data = s.data /\ p.tids = s.tids
  BY PastIs
<1>3. Good(code, s, tid, Outcome(o, obs))
  <2>1. CASE HasTid(p, p.explicitData[i.slot])
    <3>1. o = f
      BY <2>1
    <3> HIDE DEF o, obs
    <3>2. QED
      BY <3>1, WaitingGood
  <2>2. CASE ~ HasTid(p, p.explicitData[i.slot])
    <3>1. o = p
      BY <2>2
    <3> HIDE DEF p
    <3>2. s.explicitData[i.slot] \notin Named(s.tids)
      <4>1. TidsOK(s.tids, Len(s.context)) /\ p.explicitData = s.explicitData
        BY ReadyFacts, <1>p DEF Calm
      <4>2. DOMAIN s.tids = 1 .. Len(s.tids)
        BY <4>1 DEF TidsOK
      <4>3. QED
        BY <2>2, <4>1, <4>2, <1>p DEF HasTid, Named
    <3>3. ASSUME NEW g, Follows(code, s, g) PROVE GoOn(g, t) \in StepsOf(code, g, t)
      <4>1. Instruction(code, Here(g, t)) = i /\ g.slots = s.explicitData
        BY <3>3, ViewIs
      <4>2. DOMAIN g.stack = Named(s.tids)
        <5>1. g.stack = [x \in Named(s.tids) |-> g.stack[x]]
          BY <3>3 DEF Follows, Agrees
        <5>2. QED
          BY <5>1
      <4>3. g.slots[i.slot] \notin DOMAIN g.stack
        BY <3>2, <4>1, <4>2
      <4>4. QED
        BY <4>1, <4>3 DEF StepsOf
    <3>4. i.op \notin Terminators
      BY DEF Terminators
    <3> HIDE DEF obs
    <3>5. Good(code, s, tid, Outcome(p, obs))
      BY <1>p, <3>3, <3>4, PassingGood
    <3>6. QED
      BY <3>1, <3>5
  <2>3. QED
    BY <2>1, <2>2
<1> HIDE DEF o, obs
<1>4. QED
  BY <1>2, <1>3, OneOutcome

(* An assertion: one outcome where it holds, one with the error. *)
LEMMA AssertGood ==
  ASSUME NEW code, NEW s, NEW tid, Ready(code, s, tid), Current(code, s, tid).op = "assert"
  PROVE  AllGood(code, s, tid)
<1> DEFINE i == Current(code, s, tid)
           t == s.tids[tid]
           f == [s EXCEPT !.previous_bb[tid] = NoPC]
           p == Past(s, tid)
           r == PruneNE(p, i.cond, 0)
           x == PruneEQ(s, i.cond, 0)
           q == [x EXCEPT !.error = TRUE]
<1>1. s.error = FALSE /\ DOMAIN s = Fields
  BY ReadyFacts
<1>2. Outcomes(code, s, tid) = <<Outcome(r, FALSE), Outcome(q, TRUE)>>
  <2>1. Outcomes(code, s, tid) = DoCall(code, f, s, i, tid)
    BY <1>1, OutcomesOfCall DEF CallOps
  <2>2. DoCall(code, f, s, i, tid) = DoAssert(p, s, i, tid)
    BY DEF DoCall, Past
  <2>3. DoAssert(p, s, i, tid) = <<Outcome(r, FALSE), Outcome(q, TRUE)>>
    BY DEF DoAssert
  <2> HIDE DEF f, p, r, q
  <2>4. QED
    BY <2>1, <2>2, <2>3
<1>3. Stepped(code, s, p, tid) /\ Calm(s, p) /\ p.data = s.data
  BY PastIs
<1> HIDE DEF p
<1>4. Stepped(code, s, r, tid) /\ Calm(s, r) /\ r.data = {m \in s.data : Read(m, i.cond) # Read(m, 0)}
  BY <1>3, PrunedStepped
<1>5. SameBut(s, x, {"data"}) /\ x.data = {m \in s.data : Read(m, i.cond) = Read(m, 0)}
  BY <1>1, PruneFields
<1>z. \A m : Read(m, 0) = 0
  BY ValAssumption DEF Read
<1> HIDE DEF r, x
<1>6. SameBut(x, q, {"error"}) /\ q.error = TRUE
  BY <1>5 DEF SameBut, Fields
<1> HIDE DEF q
<1>7. Good(code, s, tid, Outcome(r, FALSE))
  <2>1. i.op \notin Terminators
    BY DEF Terminators
  <2>2. ASSUME NEW g, NEW m \in r.data, Follows(code, s, g), g.mem = m
        PROVE  GoOn(g, t) \in StepsOf(code, g, t)
    <3>1. Instruction(code, Here(g, t)) = i
      BY <2>2, ViewIs
    <3>2. Read(g.mem, i.cond) # 0
      BY <2>2, <1>4, <1>z
    <3>3. QED
      BY <3>1, <3>2 DEF StepsOf
  <2>3. r.data \subseteq s.data
    BY <1>4
  <2>4. QED
    BY <1>4, <2>1, <2>2, <2>3, PassingGood
<1>8. Good(code, s, tid, Outcome(q, TRUE))
  <2>1. Stayed(code, s, q, tid) /\ q.data \subseteq s.data /\ q.error \in BOOLEAN
    BY <1>5, <1>6 DEF Stayed, SameBut
  <2>2. ASSUME NEW g, NEW m \in q.data, Follows(code, s, g), g.mem = m
        PROVE  \E h \in StepsOf(code, g, t) \cup {g} : Alike(g, h, {"err"}) /\ h.err = q.error
    <3> DEFINE h == [g EXCEPT !.err = TRUE]
    <3>1. Instruction(code, Here(g, t)) = i /\ DOMAIN g = ViewFields
      BY <2>2, ViewIs
    <3>2. Read(g.mem, i.cond) = 0
      BY <2>2, <1>5, <1>6, <1>z DEF SameBut
    <3>3. h \in StepsOf(code, g, t)
      BY <3>1, <3>2 DEF StepsOf
    <3>4. Alike(g, h, {"err"}) /\ h.err = TRUE
      BY <3>1 DEF Alike, ViewFields
    <3> HIDE DEF h
    <3>5. QED
      BY <3>3, <3>4, <1>6
  <2>3. QED
    BY <2>1, <2>2, StayedIsGood
<1>9. QED
  BY <1>2, <1>7, <1>8, TwoOutcomes

-----------------------------------------------------------------------------
(* Atomic sections.                                                        *)

(* The thread that moves enters an atomic section. *)
LEMMA EnteredIs ==
  ASSUME NEW code, NEW s, NEW tid, Ready(code, s, tid)
  PROVE  LET b == Append(s.atomic_section, tid) IN
         /\ SectionOK(b, Len(s.context)) /\ b # << >>
         /\ b[1] = tid /\ Last(b) = tid
         /\ Len(b) = Len(s.atomic_section) + 1
<1> DEFINE a == s.atomic_section
           N == 1 .. Len(s.context)
<1>1. SectionOK(a, Len(s.context)) /\ tid \in N
  BY ReadyFacts
<1>6. a \in Seq(N) /\ \A k, l \in 1 .. Len(a) : a[k] = a[l]
  BY <1>1 DEF SectionOK
<1> HIDE DEF a, N
<1>7. /\ Append(a, tid) \in Seq(N) /\ Append(a, tid) # << >>
      /\ Len(a) \in Nat /\ Len(Append(a, tid)) = Len(a) + 1
      /\ \A k \in 1 .. Len(a) : Append(a, tid)[k] = a[k]
      /\ Append(a, tid)[Len(a) + 1] = tid
  BY <1>1, <1>6, Appending
<1>8. a = << >> \/ Last(a) = tid
  BY DEF Ready, May, a
<1>9. \A k \in 1 .. Len(a) : a[k] = tid
  <2>1. TAKE k \in 1 .. Len(a)
  <2>2. a # << >> /\ Len(a) \in 1 .. Len(a) /\ Last(a) = a[Len(a)]
    BY <1>7 DEF Last
  <2>3. QED
    BY <2>2, <1>6, <1>8
<1>10. \A k \in 1 .. Len(a) + 1 : Append(a, tid)[k] = tid
  <2>1. TAKE k \in 1 .. Len(a) + 1
  <2>2. k \in 1 .. Len(a) \/ k = Len(a) + 1
    BY <1>7
  <2>3. QED
    BY <2>2, <1>7, <1>9
<1>11. SectionOK(Append(a, tid), Len(s.context))
  BY <1>7, <1>10 DEF SectionOK, N
<1>12. 1 \in 1 .. Len(a) + 1 /\ Len(a) + 1 \in 1 .. Len(a) + 1
  BY <1>7
<1>13. Append(a, tid)[1] = tid /\ Last(Append(a, tid)) = tid /\ Append(a, tid) # << >>
  BY <1>7, <1>10, <1>12 DEF Last
<1>14. QED
  BY <1>7, <1>11, <1>13 DEF a

(* Entering an atomic section. *)
LEMMA BeginGood ==
  ASSUME NEW code, NEW s, NEW tid, Ready(code, s, tid), Current(code, s, tid).op = "atomic_begin"
  PROVE  AllGood(code, s, tid)
<1> DEFINE i == Current(code, s, tid)
           t == s.tids[tid]
           f == [s EXCEPT !.previous_bb[tid] = NoPC]
           p == Past(s, tid)
           r == EnterAtomicSection(p, tid)
           obs == ~ AmILonelyThread(f)
           a == s.atomic_section
           N == 1 .. Len(s.context)
<1>1. s.error = FALSE /\ SectionOK(a, Len(s.context)) /\ StoreOK(s) /\ tid \in N /\ Len(s.context) \in Nat
  BY ReadyFacts
<1>2. Outcomes(code, s, tid) = <<Outcome(r, obs)>>
  <2>1. Outcomes(code, s, tid) = DoCall(code, f, s, i, tid)
    BY <1>1, OutcomesOfCall DEF CallOps
  <2>2. DoCall(code, f, s, i, tid) = <<Outcome(r, obs)>>
    BY DEF DoCall, Past
  <2> HIDE DEF f, r, obs
  <2>3. QED
    BY <2>1, <2>2
<1>3. Stepped(code, s, p, tid) /\ Calm(s, p) /\ p.data = s.data /\ DOMAIN p = Fields
  BY PastIs
<1>l. f.context = s.context
  BY PastLength
<1>o. obs = FALSE <=> Len(s.context) = 1
  BY <1>l DEF AmILonelyThread, ThreadCount
<1> HIDE DEF p, obs
<1>4. SameBut(p, r, {"atomic_section"}) /\ r.atomic_section = Append(p.atomic_section, tid)
  BY <1>3, SectionFields
<1> HIDE DEF r
<1>5. /\ Stepped(code, s, r, tid) /\ r.explicitData = s.explicitData /\ r.error = s.error /\ r.data = s.data
      /\ r.atomic_section = Append(a, tid)
  BY <1>3, <1>4 DEF Stepped, Calm, SameBut
<1>6. /\ SectionOK(Append(a, tid), Len(s.context)) /\ Append(a, tid) # << >>
      /\ Append(a, tid)[1] = tid /\ Last(Append(a, tid)) = tid
      /\ Len(Append(a, tid)) = Len(a) + 1
  BY EnteredIs
<1> HIDE DEF a, N
<1>11. SectionOK(r.atomic_section, Len(s.context))
  BY <1>5, <1>6
<1>13. r.atomic_section[1] = tid /\ Last(r.atomic_section) = tid /\ r.atomic_section # << >>
  BY <1>5, <1>6
<1>14. StoreOK(r)
  BY <1>1, <1>5 DEF StoreOK
<1>15. i.op \notin Terminators
  BY DEF Terminators
<1>16. Len(r.context) = Len(s.context)
  <2>1. Stepped(code, s, r, tid)
    BY <1>5
  <2>2. QED
    BY <1>11, <1>14, <1>15, <2>1, SteppedIsOK
<1>17. obs = FALSE => \A j : May(s, j) => May(r, j)
  <2>1. SUFFICES ASSUME obs = FALSE, NEW j, May(s, j) PROVE May(r, j)
    OBVIOUS
  <2>2. j = tid
    <3>1. Len(s.context) = 1
      BY <2>1, <1>o
    <3>2. j \in 1 .. 1 /\ tid \in 1 .. 1
      BY <2>1, <3>1, <1>1 DEF May, N
    <3>3. QED
      BY <3>2
  <2>3. QED
    BY <2>1, <2>2, <1>13, <1>16 DEF May
<1>18. ASSUME NEW m \in r.data, NEW g, Follows(code, s, g), g.mem = m
       PROVE  \E h \in StepsOf(code, g, t) : h.mem = m /\ SteppedTo(s, r, g, h, tid)
  <2> DEFINE on == GoOn(g, t)
             h == Enter(on, t)
  <2>1. Instruction(code, Here(g, t)) = i /\ DOMAIN g = ViewFields
    BY <1>18, ViewIs
  <2>2. h \in StepsOf(code, g, t)
    BY <2>1 DEF StepsOf
  <2>3. Onward(g, on, t) /\ on.mem = g.mem /\ DOMAIN on = ViewFields
    BY <2>1, OnIs
  <2> HIDE DEF on
  <2>4. Alike(on, h, {"owner", "depth"}) /\ h.owner = t /\ h.depth = on.depth + 1
    BY <2>3, EnterFields
  <2> HIDE DEF h
  <2>5. SteppedView(g, h, t)
    BY <2>3, <2>4 DEF Onward, Alike, SteppedView
  <2>6. h.slots = g.slots /\ h.err = g.err /\ h.mem = m /\ on.depth = g.depth
    BY <1>18, <2>3, <2>4 DEF Onward, Alike
  <2>7. g.depth = Len(a) /\ g.slots = s.explicitData /\ g.err = s.error
    BY <1>18, ViewIs DEF a
  <2>8. h.depth = Len(r.atomic_section)
    BY <1>5, <1>6, <2>4, <2>6, <2>7
  <2>9. h.owner = IF r.atomic_section = << >> THEN NoThread ELSE s.tids[r.atomic_section[1]]
    BY <1>13, <2>4
  <2>10. SteppedTo(s, r, g, h, tid)
    BY <1>5, <2>5, <2>6, <2>7, <2>8, <2>9 DEF SteppedTo
  <2>11. QED
    BY <2>2, <2>6, <2>10
<1>19. \A m \in r.data : \E m0 \in s.data : \A g :
           Stands(code, s, tid, g) /\ g.mem = m0 =>
             \E h \in StepsOf(code, g, t) : h.mem = m /\ SteppedTo(s, r, g, h, tid)
  BY <1>5, <1>18 DEF Stands
<1>20. Good(code, s, tid, Outcome(r, obs))
  BY <1>5, <1>11, <1>14, <1>15, <1>17, <1>19, SteppedIsGood
<1>21. QED
  BY <1>2, <1>20, OneOutcome

(* Leaving a section, on both sides. *)
LEMMA LeftIs ==
  ASSUME NEW code, NEW s, NEW tid, Ready(code, s, tid), Leaving(code, s, tid),
         NEW g, Follows(code, s, g)
  PROVE  /\ SectionOK(Front(s.atomic_section), Len(s.context))
         /\ Front(s.atomic_section) # << >> => Front(s.atomic_section)[1] = tid /\ Last(Front(s.atomic_section)) = tid
         /\ (IF g.depth = 1 THEN NoThread ELSE g.owner)
            = IF Front(s.atomic_section) = << >> THEN NoThread ELSE s.tids[Front(s.atomic_section)[1]]
         /\ g.depth - 1 = Len(Front(s.atomic_section))
<1> DEFINE a == s.atomic_section
           b == Front(a)
           n == Len(s.context)
<1>1. SectionOK(a, n) /\ n \in Nat
  BY ReadyFacts
<1>2. a # << >> /\ Last(a) = tid
  BY DEF Ready, May
<1>3. g.depth = Len(a) /\ g.owner = IF a = << >> THEN NoThread ELSE s.tids[a[1]]
  BY ViewIs
<1> HIDE DEF a, n
<1>4. /\ a[1] = tid /\ Len(a) \in Nat
      /\ Len(b) = Len(a) - 1
      /\ SectionOK(b, n)
      /\ b # << >> => b[1] = a[1]
  BY <1>1, <1>2, SectionIs
<1> HIDE DEF b
<1>5. Len(b) \in Nat /\ (b = << >> <=> Len(b) = 0) /\ (b # << >> => b[1] = Last(b))
  BY <1>1, <1>4, SectionIs
<1>6. g.depth = 1 <=> b = << >>
  BY <1>3, <1>4, <1>5
<1>7. QED
  BY <1>2, <1>3, <1>4, <1>5, <1>6 DEF b, a, n

(* Leaving it. *)
LEMMA EndGood ==
  ASSUME NEW code, NEW s, NEW tid, Ready(code, s, tid), Current(code, s, tid).op = "atomic_end",
         NEW g0, Follows(code, s, g0)
  PROVE  AllGood(code, s, tid)
<1> DEFINE i == Current(code, s, tid)
           t == s.tids[tid]
           f == [s EXCEPT !.previous_bb[tid] = NoPC]
           p == Past(s, tid)
           r == LeaveAtomicSection(p, tid)
           obs == ~ AmILonelyThread(f)
           a == s.atomic_section
<1>1. s.error = FALSE /\ StoreOK(s) /\ tid \in 1 .. Len(s.context) /\ Len(s.context) \in Nat
  BY ReadyFacts
<1>2. Outcomes(code, s, tid) = <<Outcome(r, obs)>>
  <2>1. Outcomes(code, s, tid) = DoCall(code, f, s, i, tid)
    BY <1>1, OutcomesOfCall DEF CallOps
  <2>2. DoCall(code, f, s, i, tid) = <<Outcome(r, obs)>>
    BY DEF DoCall, Past
  <2> HIDE DEF f, r, obs
  <2>3. QED
    BY <2>1, <2>2
<1>3. Stepped(code, s, p, tid) /\ Calm(s, p) /\ p.data = s.data /\ DOMAIN p = Fields
  BY PastIs
<1>l. f.context = s.context
  BY PastLength
<1>o. obs = FALSE <=> Len(s.context) = 1
  BY <1>l DEF AmILonelyThread, ThreadCount
<1> HIDE DEF p, obs
<1>4. SameBut(p, r, {"atomic_section"}) /\ r.atomic_section = Front(p.atomic_section)
  BY <1>3, SectionFields
<1> HIDE DEF r
<1>5. /\ Stepped(code, s, r, tid) /\ r.explicitData = s.explicitData /\ r.error = s.error /\ r.data = s.data
      /\ r.atomic_section = Front(a)
  BY <1>3, <1>4 DEF Stepped, Calm, SameBut
<1>6. Leaving(code, s, tid)
  BY DEF Leaving
<1> HIDE DEF a
<1>7. /\ SectionOK(Front(a), Len(s.context))
      /\ Front(a) # << >> => Front(a)[1] = tid /\ Last(Front(a)) = tid
  BY <1>6, LeftIs DEF a
<1>14. StoreOK(r) /\ SectionOK(r.atomic_section, Len(s.context))
  BY <1>1, <1>5, <1>7 DEF StoreOK
<1>15. i.op \notin Terminators
  BY DEF Terminators
<1>16. Len(r.context) = Len(s.context)
  BY <1>5, <1>14, <1>15, SteppedIsOK
<1>17. obs = FALSE => \A j : May(s, j) => May(r, j)
  <2>1. SUFFICES ASSUME obs = FALSE, NEW j, May(s, j) PROVE May(r, j)
    OBVIOUS
  <2>2. j = tid
    <3>1. Len(s.context) = 1
      BY <2>1, <1>o
    <3>2. j \in 1 .. 1 /\ tid \in 1 .. 1
      BY <2>1, <3>1, <1>1 DEF May
    <3>3. QED
      BY <3>2
  <2>3. QED
    BY <2>1, <2>2, <1>5, <1>7, <1>16 DEF May
<1>18. ASSUME NEW m \in r.data, NEW g, Follows(code, s, g), g.mem = m
       PROVE  \E h \in StepsOf(code, g, t) : h.mem = m /\ SteppedTo(s, r, g, h, tid)
  <2> DEFINE on == GoOn(g, t)
             h == Exited(on)
  <2>1. Instruction(code, Here(g, t)) = i /\ DOMAIN g = ViewFields
    BY <1>18, ViewIs
  <2>2. h \in StepsOf(code, g, t)
    BY <2>1 DEF StepsOf
  <2>3. Onward(g, on, t) /\ on.mem = g.mem /\ DOMAIN on = ViewFields
    BY <2>1, OnIs
  <2> HIDE DEF on
  <2>4. Alike(on, h, {"owner", "depth"}) /\ h.owner = (IF on.depth = 1 THEN NoThread ELSE on.owner)
        /\ h.depth = on.depth - 1
    BY <2>3, ExitedFields
  <2> HIDE DEF h
  <2>5. SteppedView(g, h, t)
    BY <2>3, <2>4 DEF Onward, Alike, SteppedView
  <2>6. h.slots = g.slots /\ h.err = g.err /\ h.mem = m /\ on.depth = g.depth /\ on.owner = g.owner
    BY <1>18, <2>3, <2>4 DEF Onward, Alike
  <2>7. g.slots = s.explicitData /\ g.err = s.error
    BY <1>18, ViewIs
  <2>8. /\ (IF g.depth = 1 THEN NoThread ELSE g.owner) = IF Front(a) = << >> THEN NoThread ELSE s.tids[Front(a)[1]]
        /\ g.depth - 1 = Len(Front(a))
    BY <1>6, <1>18, LeftIs DEF a
  <2>9. h.owner = IF r.atomic_section = << >> THEN NoThread ELSE s.tids[r.atomic_section[1]]
    BY <1>5, <2>4, <2>6, <2>8
  <2>10. h.depth = Len(r.atomic_section)
    BY <1>5, <2>4, <2>6, <2>8
  <2>11. SteppedTo(s, r, g, h, tid)
    BY <1>5, <2>5, <2>6, <2>7, <2>9, <2>10 DEF SteppedTo
  <2>12. QED
    BY <2>2, <2>6, <2>11
<1>19. \A m \in r.data : \E m0 \in s.data : \A g :
           Stands(code, s, tid, g) /\ g.mem = m0 =>
             \E h \in StepsOf(code, g, t) : h.mem = m /\ SteppedTo(s, r, g, h, tid)
  BY <1>5, <1>18 DEF Stands
<1>20. Good(code, s, tid, Outcome(r, obs))
  BY <1>5, <1>14, <1>15, <1>17, <1>19, SteppedIsGood
<1>21. QED
  BY <1>2, <1>20, OneOutcome

-----------------------------------------------------------------------------
(* Jumps.                                                                  *)

(* the thread is at instruction n of its function *)
Jumped(code, s, r, tid, n) ==
  LET to == <<Last(s.context[tid])[1], n>>
  IN  /\ SameBut(s, r, {"context", "previous_bb", "data"})
      /\ r.context = [s.context EXCEPT ![tid] = Append(Front(s.context[tid]), to)]
      /\ r.previous_bb = [s.previous_bb EXCEPT ![tid] =
           IF Instruction(code, to).op = "phi" THEN Last(s.context[tid]) ELSE NoPC]

(* A jump leaves the state in order, ... *)
LEMMA JumpedIsOK ==
  ASSUME NEW code, NEW s, NEW tid, Ready(code, s, tid), NEW n \in Targets(Current(code, s, tid)),
         NEW r, Jumped(code, s, r, tid, n), StoreOK(r)
  PROVE  /\ StateOK(code, r)
         /\ Len(r.context) = Len(s.context)
         /\ Laid(s) => Laid(r)
<1> DEFINE f == s.context[tid]
           to == <<Last(f)[1], n>>
           new == IF Instruction(code, to).op = "phi" THEN Last(f) ELSE NoPC
           X == Append(Front(f), to)
<1>1. /\ WellFormed(code) /\ tid \in 1 .. Len(s.context) /\ Len(s.context) \in Nat
      /\ ThreadsOK(code, s.context, s.previous_bb) /\ TidsOK(s.tids, Len(s.context))
      /\ SectionOK(s.atomic_section, Len(s.context))
      /\ s.next_free_tid \in 0 .. TidRange - 1
      /\ ThreadOK(code, f, s.previous_bb[tid])
      /\ Current(code, s, tid) = Instruction(code, Last(f))
  BY ReadyFacts
<1>2. /\ ThreadOK(code, X, new)
      /\ Len(X) = Len(f)
      /\ \A k \in 1 .. Len(f) - 1 : X[k] = f[k]
      /\ X[Len(f)] = to
  BY <1>1, JumpIs
<1>3. /\ DOMAIN r = Fields
      /\ r.context = [s.context EXCEPT ![tid] = X]
      /\ r.previous_bb = [s.previous_bb EXCEPT ![tid] = new]
      /\ r.tids = s.tids /\ r.next_free_tid = s.next_free_tid /\ r.layout = s.layout
      /\ r.atomic_section = s.atomic_section
  BY DEF Jumped, SameBut
<1> HIDE DEF X, new
<1>4. ThreadsOK(code, r.context, r.previous_bb) /\ Len(r.context) = Len(s.context)
  BY <1>1, <1>2, <1>3, ChangedThreads
<1>5. StateOK(code, r)
  BY <1>1, <1>3, <1>4, StateIs
<1>6. Len(f) \in Nat \ {0} /\ Last(f) = f[Len(f)]
  BY <1>1, FramesIs
<1>7. \A k \in 1 .. Len(f) : X[k][1] = f[k][1]
  <2>1. TAKE k \in 1 .. Len(f)
  <2>2. k \in 1 .. Len(f) - 1 \/ k = Len(f)
    BY <1>6
  <2>3. QED
    BY <2>2, <1>2, <1>6
<1>8. LayoutOf(r.context) = LayoutOf(s.context)
  <2> HIDE DEF f, to
  <2>1. LayoutOf([s.context EXCEPT ![tid] = X]) = LayoutOf(s.context)
    BY <1>1, <1>2, <1>7, SameLayout DEF f
  <2>2. QED
    BY <2>1, <1>3
<1>9. s.context # << >>
  BY <1>1
<1>10. Laid(s) => Laid(r)
  BY <1>3, <1>8, <1>9 DEF Laid
<1>11. QED
  BY <1>4, <1>5, <1>10

(* ... and the interleavings follow it. *)
LEMMA JumpedFollows ==
  ASSUME NEW code, NEW s, NEW tid, Ready(code, s, tid), NEW n \in Targets(Current(code, s, tid)),
         NEW r, Jumped(code, s, r, tid, n), StoreOK(r), NEW g, Follows(code, s, g)
  PROVE  Follows(code, r, Jump(g, s.tids[tid], n)) /\ Jump(g, s.tids[tid], n).mem = g.mem
<1> DEFINE f == s.context[tid]
           t == s.tids[tid]
           to == <<Last(f)[1], n>>
           new == IF Instruction(code, to).op = "phi" THEN Last(f) ELSE NoPC
           X == Append(Front(f), to)
           Z == <<Last(f)[2], g.mem>>
           h == Jump(g, t, n)
<1>1. /\ WellFormed(code) /\ tid \in 1 .. Len(s.context) /\ Len(s.context) \in Nat
      /\ ThreadsOK(code, s.context, s.previous_bb) /\ TidsOK(s.tids, Len(s.context))
      /\ ThreadOK(code, f, s.previous_bb[tid])
      /\ Current(code, s, tid) = Instruction(code, Last(f))
  BY ReadyFacts
<1>2. Last(X) = to
  BY <1>1, JumpIs
<1>3. Instruction(code, Last(X)).op = "phi" => Z[1] = new[2]
  BY <1>2
<1>4. /\ r.context = [s.context EXCEPT ![tid] = X]
      /\ r.previous_bb = [s.previous_bb EXCEPT ![tid] = new]
      /\ r.tids = s.tids /\ r.next_free_tid = s.next_free_tid
      /\ r.atomic_section = s.atomic_section /\ r.explicitData = s.explicitData /\ r.error = s.error
  BY DEF Jumped, SameBut
<1>5. /\ Agrees(code, s.context, s.previous_bb, s.tids, g.stack, g.came)
      /\ \A i \in 1 .. Len(s.context) : s.tids[i] < s.next_free_tid
  BY DEF Follows
<1>6. DOMAIN g = ViewFields /\ g.stack[t] = f
  BY ViewIs
<1>7. /\ Alike(g, h, {"stack", "came"})
      /\ h.stack = [g.stack EXCEPT ![t] = X]
      /\ h.came = [g.came EXCEPT ![t] = Z]
  <2>1. /\ Alike(g, h, {"stack", "came"})
        /\ h.stack = [g.stack EXCEPT ![t] = Append(Front(@), <<Last(g.stack[t])[1], n>>)]
        /\ h.came = [g.came EXCEPT ![t] = <<Last(g.stack[t])[2], g.mem>>]
    <3>1. JumpedView(g, h, t, n)
      BY <1>6, JumpViewFields
    <3> HIDE DEF h, t
    <3>2. QED
      BY <3>1 DEF JumpedView
  <2>2. QED
    BY <2>1, <1>6
<1> HIDE DEF h, X, Z, new
<1>8. Agrees(code, [s.context EXCEPT ![tid] = X], [s.previous_bb EXCEPT ![tid] = new], s.tids,
             [g.stack EXCEPT ![t] = X], [g.came EXCEPT ![t] = Z])
  BY <1>1, <1>3, <1>5, ChangedAgrees
<1>9. Agrees(code, r.context, r.previous_bb, r.tids, h.stack, h.came)
  BY <1>4, <1>7, <1>8
<1>10. Len(r.context) = Len(s.context)
  BY JumpedIsOK
<1>11. Follows(code, r, h) /\ h.mem = g.mem
  BY <1>4, <1>5, <1>7, <1>9, <1>10 DEF Follows, Alike
<1>12. QED
  BY <1>11 DEF h

(* An outcome of a branch is a jump. *)
LEMMA BranchIs ==
  ASSUME NEW code, NEW s, NEW tid, Ready(code, s, tid), NEW x, Fresh(code, s, x, tid),
         NEW i, NEW n
  PROVE  \E r, obs : /\ Branch(code, x, i, tid, n) = Outcome(r, obs)
                     /\ Jumped(code, s, r, tid, n) /\ r.data = x.data
<1> DEFINE to == <<Last(s.context[tid])[1], n>>
           b == Instruction(code, to).op = "phi"
           v == IF b THEN Last(s.context[tid]) ELSE NoPC
           p == s.previous_bb
           r == JumpTo(x, to, tid, b)
           obs == n \in i.backward
<1>1. x.context = s.context /\ DOMAIN x = Fields /\ SameBut(s, x, {"previous_bb", "data"})
      /\ x.previous_bb \in {p, [p EXCEPT ![tid] = NoPC]}
  BY DEF Fresh, SameBut
<1>2. Branch(code, x, i, tid, n) = Outcome(r, obs)
  BY <1>1 DEF Branch, GetPC
<1>3. /\ SameBut(x, r, {"context", "previous_bb"})
      /\ r.context = [x.context EXCEPT ![tid] = Append(Front(@), to)]
      /\ r.previous_bb = [x.previous_bb EXCEPT ![tid] = IF b THEN Last(x.context[tid]) ELSE NoPC]
  <2> HIDE DEF b, to
  <2>1. LeapTo(x, r, to, tid, b)
    BY <1>1, JumpFields
  <2> HIDE DEF r
  <2>2. QED
    BY <2>1 DEF LeapTo
<1>4. r.previous_bb = [x.previous_bb EXCEPT ![tid] = v]
  BY <1>1, <1>3
<1>5. [x.previous_bb EXCEPT ![tid] = v] = [p EXCEPT ![tid] = v]
  <2> DEFINE PN == Positions(code) \cup {NoPC}
  <2>1. p \in Seq(PN) /\ tid \in 1 .. Len(p)
    BY ReadyFacts DEF ThreadsOK
  <2> HIDE DEF v, p, PN
  <2>2. [[p EXCEPT ![tid] = NoPC] EXCEPT ![tid] = v] = [p EXCEPT ![tid] = v]
    BY <2>1
  <2>3. QED
    BY <1>1, <2>2
<1>6. r.context = [s.context EXCEPT ![tid] = Append(Front(s.context[tid]), to)]
  BY <1>1, <1>3
<1>7. SameBut(s, r, {"context", "previous_bb", "data"}) /\ r.data = x.data
  BY <1>1, <1>3 DEF SameBut
<1> HIDE DEF r
<1>8. Jumped(code, s, r, tid, n)
  BY <1>4, <1>5, <1>6, <1>7 DEF Jumped
<1>9. QED
  BY <1>2, <1>7, <1>8

(* It is good if its valuations are those that take it. *)
LEMMA BranchGood ==
  ASSUME NEW code, NEW s, NEW tid, Ready(code, s, tid), NEW n \in Targets(Current(code, s, tid)),
         NEW x, Fresh(code, s, x, tid), x.data \subseteq s.data, NEW i,
         \A g : \A m \in x.data : Follows(code, s, g) /\ g.mem = m =>
           Jump(g, s.tids[tid], n) \in StepsOf(code, g, s.tids[tid])
  PROVE  Good(code, s, tid, Branch(code, x, i, tid, n))
<1>1. PICK r, obs : /\ Branch(code, x, i, tid, n) = Outcome(r, obs)
                    /\ Jumped(code, s, r, tid, n) /\ r.data = x.data
  BY BranchIs
<1>2. StoreOK(s)
  BY ReadyFacts
<1>3. StoreOK(r)
  BY <1>1, <1>2 DEF StoreOK, Jumped, SameBut
<1>4. StateOK(code, r) /\ Len(r.context) = Len(s.context) /\ (Laid(s) => Laid(r))
  BY <1>1, <1>3, JumpedIsOK
<1>5. r.atomic_section = s.atomic_section
  BY <1>1 DEF Jumped, SameBut
<1>6. \A j : May(s, j) => May(r, j)
  BY <1>4, <1>5 DEF May
<1>7. ASSUME NEW m \in r.data, NEW g, Follows(code, s, g), g.mem = m
      PROVE  \E h \in StepsOf(code, g, s.tids[tid]) \cup {g} : h.mem = m /\ Follows(code, r, h)
  <2>1. Jump(g, s.tids[tid], n) \in StepsOf(code, g, s.tids[tid])
    BY <1>1, <1>7
  <2>2. Follows(code, r, Jump(g, s.tids[tid], n)) /\ Jump(g, s.tids[tid], n).mem = m
    BY <1>1, <1>3, <1>7, JumpedFollows
  <2>3. QED
    BY <2>1, <2>2
<1>8. Backed(code, s, tid, r)
  BY <1>1, <1>7 DEF Backed, Stands
<1>9. Good(code, s, tid, Outcome(r, obs))
  BY <1>4, <1>6, <1>8, OutcomeIs DEF Good
<1>10. QED
  BY <1>1, <1>9

(* Jumps and conditional branches. *)
LEMMA BreakGood ==
  ASSUME NEW code, NEW s, NEW tid, Ready(code, s, tid), Current(code, s, tid).op \in {"jump", "br"}
  PROVE  AllGood(code, s, tid)
<1> DEFINE i == Current(code, s, tid)
           t == s.tids[tid]
           f == [s EXCEPT !.previous_bb[tid] = NoPC]
           x == PruneEQ(f, i.cond, 1)
           y == PruneEQ(s, i.cond, 0)
<1>1. s.error = FALSE
  BY DEF Ready
<1>2. Fresh(code, s, f, tid) /\ f.data = s.data /\ Fresh(code, s, s, tid)
  BY FreshIs
<1>z. \A m : Read(m, 0) = 0 /\ Read(m, 1) = 1
  BY ValAssumption DEF Read
<1>3. Outcomes(code, s, tid) = DoBreak(code, f, s, i, tid)
  BY <1>1 DEF Outcomes
<1>4. CASE i.op = "jump"
  <2>1. DoBreak(code, f, s, i, tid) = <<Branch(code, f, i, tid, i.target)>>
    BY <1>4 DEF DoBreak
  <2>2. i.target \in Targets(i)
    BY <1>4 DEF Targets
  <2>3. ASSUME NEW g, Follows(code, s, g) PROVE Jump(g, t, i.target) \in StepsOf(code, g, t)
    <3>1. Instruction(code, Here(g, t)) = i
      BY <2>3, ViewIs
    <3>2. QED
      BY <3>1, <1>4 DEF StepsOf
  <2> HIDE DEF f
  <2>4. Good(code, s, tid, Branch(code, f, i, tid, i.target))
    BY <1>2, <2>2, <2>3, BranchGood
  <2>5. QED
    BY <1>3, <2>1, <2>4, OneOutcome
<1>5. CASE i.op = "br"
  <2>1. DoBreak(code, f, s, i, tid) = <<Branch(code, x, i, tid, i.on_true), Branch(code, y, i, tid, i.on_false)>>
    BY <1>5 DEF DoBreak
  <2>2. i.on_true \in Targets(i) /\ i.on_false \in Targets(i)
    BY <1>5 DEF Targets
  <2> HIDE DEF f
  <2>3. Fresh(code, s, x, tid) /\ Fresh(code, s, y, tid)
        /\ x.data = {m \in s.data : Read(m, i.cond) = Read(m, 1)}
        /\ y.data = {m \in s.data : Read(m, i.cond) = Read(m, 0)}
    BY <1>2, PrunedFresh
  <2>4. ASSUME NEW g, NEW m \in x.data, Follows(code, s, g), g.mem = m
        PROVE  Jump(g, t, i.on_true) \in StepsOf(code, g, t)
    <3>1. Instruction(code, Here(g, t)) = i
      BY <2>4, ViewIs
    <3>2. Read(g.mem, i.cond) # 0
      BY <2>3, <2>4, <1>z
    <3>3. QED
      BY <3>1, <3>2, <1>5 DEF StepsOf
  <2>5. ASSUME NEW g, NEW m \in y.data, Follows(code, s, g), g.mem = m
        PROVE  Jump(g, t, i.on_false) \in StepsOf(code, g, t)
    <3>1. Instruction(code, Here(g, t)) = i
      BY <2>5, ViewIs
    <3>2. Read(g.mem, i.cond) = 0
      BY <2>3, <2>5, <1>z
    <3>3. QED
      BY <3>1, <3>2, <1>5 DEF StepsOf
  <2>6. x.data \subseteq s.data /\ y.data \subseteq s.data
    BY <2>3
  <2> HIDE DEF x, y
  <2>7. Good(code, s, tid, Branch(code, x, i, tid, i.on_true))
    BY <2>2, <2>3, <2>4, <2>6, BranchGood
  <2>8. Good(code, s, tid, Branch(code, y, i, tid, i.on_false))
    BY <2>2, <2>3, <2>5, <2>6, BranchGood
  <2>9. QED
    BY <1>3, <2>1, <2>7, <2>8, TwoOutcomes
<1>6. QED
  BY <1>4, <1>5

(* A switch: one outcome for each case, and the default. *)
LEMMA SwitchGood ==
  ASSUME NEW code, NEW s, NEW tid, Ready(code, s, tid), Current(code, s, tid).op = "switch"
  PROVE  AllGood(code, s, tid)
<1> DEFINE i == Current(code, s, tid)
           t == s.tids[tid]
           n == Len(i.cases)
           f == [s EXCEPT !.previous_bb[tid] = NoPC]
           x(k) == PruneEQ(IF k = 1 THEN f ELSE s, i.cond, i.cases[k].value)
           B(k) == Branch(code, x(k), i, tid, i.cases[k].target)
           y == [s EXCEPT !.data = {m \in @ : \A k \in 1 .. Len(i.cases) : Read(m, i.cond) # i.cases[k].value}]
           d == Branch(code, y, i, tid, i.default)
           A == [k \in 1 .. n |-> B(k)]
<1>1. s.error = FALSE /\ DOMAIN s = Fields
  BY ReadyFacts
<1>2. Fresh(code, s, f, tid) /\ f.data = s.data /\ Fresh(code, s, s, tid)
  BY FreshIs
<1>3. Outcomes(code, s, tid) = A \o <<d>>
  <2>1. Outcomes(code, s, tid) = DoSwitch(code, f, s, i, tid)
    BY <1>1 DEF Outcomes
  <2>2. DoSwitch(code, f, s, i, tid) = A \o <<d>>
    BY DEF DoSwitch
  <2> HIDE DEF f, A, d
  <2>3. QED
    BY <2>1, <2>2
<1>4. /\ i.cases \in Seq(ToSet(i.cases))
      /\ \A k \in DOMAIN i.cases : i.cases[k].value \in Val
      /\ \A k, l \in DOMAIN i.cases : i.cases[k].value = i.cases[l].value => k = l
  BY OperandsAre DEF OperandsExist
<1>5. n \in Nat /\ DOMAIN i.cases = 1 .. n
  BY <1>4
<1>6. Targets(i) = {i.cases[k].target : k \in DOMAIN i.cases} \cup {i.default}
  BY DEF Targets
<1>v. ASSUME NEW m, NEW k \in 1 .. n PROVE Read(m, i.cases[k].value) = i.cases[k].value
  BY <1>4, <1>5, ValAssumption DEF Read
<1> HIDE DEF f
<1>7. ASSUME NEW k \in 1 .. n PROVE Good(code, s, tid, B(k))
  <2> DEFINE b == IF k = 1 THEN f ELSE s
             z == x(k)
  <2>1. Fresh(code, s, b, tid) /\ b.data = s.data
    BY <1>2
  <2> HIDE DEF b
  <2>2. Fresh(code, s, z, tid) /\ z.data = {m \in s.data : Read(m, i.cond) = Read(m, i.cases[k].value)}
    BY <2>1, PrunedFresh DEF b
  <2> HIDE DEF z
  <2>3. i.cases[k].target \in Targets(i)
    BY <1>5, <1>6
  <2>4. ASSUME NEW g, NEW m \in z.data, Follows(code, s, g), g.mem = m
        PROVE  Jump(g, t, i.cases[k].target) \in StepsOf(code, g, t)
    <3>1. Instruction(code, Here(g, t)) = i
      BY <2>4, ViewIs
    <3>2. Read(g.mem, i.cond) = i.cases[k].value
      BY <2>2, <2>4, <1>v
    <3> DEFINE c == CHOOSE l \in DOMAIN i.cases : Read(g.mem, i.cond) = i.cases[l].value
    <3>3. \E l \in DOMAIN i.cases : Read(g.mem, i.cond) = i.cases[l].value
      BY <3>2, <1>5
    <3>4. c \in DOMAIN i.cases /\ Read(g.mem, i.cond) = i.cases[c].value
      BY <3>3
    <3>5. c = k
      BY <3>2, <3>4, <1>4, <1>5
    <3>6. SwitchTarget(g, i) = i.cases[k].target
      BY <3>3, <3>5 DEF SwitchTarget
    <3>7. StepsOf(code, g, t) = {Jump(g, t, SwitchTarget(g, i))}
      BY <3>1 DEF StepsOf
    <3>8. QED
      BY <3>6, <3>7
  <2>5. z.data \subseteq s.data
    BY <2>2
  <2>6. Good(code, s, tid, Branch(code, z, i, tid, i.cases[k].target))
    BY <2>2, <2>3, <2>4, <2>5, BranchGood
  <2>7. QED
    BY <2>6 DEF z
<1>8. Good(code, s, tid, d)
  <2>1. SameBut(s, y, {"data"}) /\ y.data = {m \in s.data : \A k \in 1 .. n : Read(m, i.cond) # i.cases[k].value}
    BY <1>1 DEF SameBut, Fields
  <2> HIDE DEF y
  <2>2. Fresh(code, s, y, tid) /\ y.data \subseteq s.data
    BY <2>1, <1>2 DEF Fresh, SameBut
  <2>3. i.default \in Targets(i)
    BY <1>6
  <2>4. ASSUME NEW g, NEW m \in y.data, Follows(code, s, g), g.mem = m
        PROVE  Jump(g, t, i.default) \in StepsOf(code, g, t)
    <3>1. Instruction(code, Here(g, t)) = i
      BY <2>4, ViewIs
    <3>2. ~ \E l \in DOMAIN i.cases : Read(g.mem, i.cond) = i.cases[l].value
      BY <2>1, <2>4, <1>5
    <3>3. SwitchTarget(g, i) = i.default
      BY <3>2 DEF SwitchTarget
    <3>4. StepsOf(code, g, t) = {Jump(g, t, SwitchTarget(g, i))}
      BY <3>1 DEF StepsOf
    <3>5. QED
      BY <3>3, <3>4
  <2>5. QED
    BY <2>2, <2>3, <2>4, BranchGood
<1> HIDE DEF B, d, n
<1> DEFINE T == {B(k) : k \in 1 .. n} \cup {d}
<1>9. A \in [1 .. n -> T] /\ d \in T
  OBVIOUS
<1>10. \A k \in 1 .. n : A[k] = B(k)
  OBVIOUS
<1> HIDE DEF A, T
<1>11. /\ Len(A \o <<d>>) = n + 1
       /\ \A k \in 1 .. n : (A \o <<d>>)[k] = A[k]
       /\ (A \o <<d>>)[n + 1] = d
  BY <1>5, <1>9, AppendedFunction
<1>12. \A k \in 1 .. n + 1 : Good(code, s, tid, (A \o <<d>>)[k])
  <2>1. TAKE k \in 1 .. n + 1
  <2>2. k \in 1 .. n \/ k = n + 1
    BY <1>5
  <2>3. QED
    BY <2>2, <1>7, <1>8, <1>10, <1>11
<1>13. QED
  BY <1>3, <1>5, <1>11, <1>12 DEF AllGood

-----------------------------------------------------------------------------
(* The layout.                                                             *)

(* the functions of a stack of frames *)
FunctionsOf(frames) == [k \in 1 .. Len(frames) |-> frames[k][1]]

(* They are functions of the program, one for each frame. *)
LEMMA FunctionsIs ==
  ASSUME NEW code, NEW frames \in Seq(Positions(code))
  PROVE  /\ FunctionsOf(frames) \in Seq(DOMAIN code)
         /\ Len(FunctionsOf(frames)) = Len(frames)
         /\ \A k \in 1 .. Len(frames) : FunctionsOf(frames)[k] = frames[k][1]
<1> DEFINE P == Positions(code)
           D == DOMAIN code
           F == [k \in 1 .. Len(frames) |-> frames[k][1]]
<1>1. \A a \in P : a[1] \in D
  BY PositionIs
<1>2. frames \in Seq(P)
  OBVIOUS
<1> HIDE DEF P, D
<1>3. Len(frames) \in Nat /\ \A k \in 1 .. Len(frames) : frames[k] \in P
  BY <1>2
<1>4. F \in [1 .. Len(frames) -> D]
  BY <1>1, <1>3
<1>5. F \in Seq(D) /\ Len(F) = Len(frames)
  BY <1>3, <1>4, FunctionAsSequence
<1>6. \A k \in 1 .. Len(frames) : F[k] = frames[k][1]
  OBVIOUS
<1>7. QED
  BY <1>5, <1>6 DEF FunctionsOf, D

(* The layout has a sequence of functions for each thread. *)
LEMMA LayoutIs ==
  ASSUME NEW code, NEW c \in Seq(Seq(Positions(code)))
  PROVE  /\ LayoutOf(c) = [i \in 1 .. Len(c) |-> FunctionsOf(c[i])]
         /\ LayoutOf(c) \in Seq(Seq(DOMAIN code)) /\ Len(LayoutOf(c)) = Len(c)
         /\ \A i \in 1 .. Len(c) : LayoutOf(c)[i] = FunctionsOf(c[i])
<1> DEFINE SP == Seq(Positions(code))
           SD == Seq(DOMAIN code)
           L == [i \in 1 .. Len(c) |-> FunctionsOf(c[i])]
<1>1. c \in Seq(SP) /\ \A x \in SP : FunctionsOf(x) \in SD
  BY FunctionsIs
<1> HIDE DEF SP, SD
<1>2. Len(c) \in Nat /\ \A i \in 1 .. Len(c) : c[i] \in SP
  BY <1>1
<1>3. L \in [1 .. Len(c) -> SD]
  BY <1>1, <1>2
<1>4. L \in Seq(SD) /\ Len(L) = Len(c)
  <2> HIDE DEF L
  <2>1. QED
    BY <1>2, <1>3, FunctionAsSequence
<1>5. \A i \in 1 .. Len(c) : L[i] = FunctionsOf(c[i])
  OBVIOUS
<1>6. LayoutOf(c) = L
  BY DEF LayoutOf, FunctionsOf
<1>7. QED
  BY <1>4, <1>5, <1>6 DEF SD

(* d is c but for the i-th element, which is x *)
Replaced(c, d, i, x) ==
  Len(d) = Len(c) /\ d[i] = x /\ \A k \in 1 .. Len(c) : k # i => d[k] = c[k]

(* the i-th thread of a layout changes with its frames *)
Relaid(code, c, d, N, i, X) ==
  /\ c \in Seq(Seq(Positions(code))) /\ i \in 1 .. Len(c)
  /\ d \in Seq(Seq(Positions(code))) /\ Replaced(c, d, i, X)
  /\ N \in Seq(Seq(DOMAIN code)) /\ Replaced(LayoutOf(c), N, i, FunctionsOf(X))

(* The layout stays in step when one thread changes, ... *)
LEMMA LayoutChanged ==
  ASSUME NEW code, NEW c, NEW i, NEW X, NEW d, NEW N, Relaid(code, c, d, N, i, X)
  PROVE  N = LayoutOf(d)
<1> DEFINE SD == Seq(DOMAIN code)
           L == LayoutOf(c)
           M == LayoutOf(d)
           n == Len(c)
<1>0. /\ c \in Seq(Seq(Positions(code))) /\ i \in 1 .. Len(c)
      /\ d \in Seq(Seq(Positions(code))) /\ Replaced(c, d, i, X)
      /\ N \in Seq(Seq(DOMAIN code)) /\ Replaced(LayoutOf(c), N, i, FunctionsOf(X))
  BY DEF Relaid
<1>1. Len(d) = n /\ d[i] = X /\ \A k \in 1 .. n : k # i => d[k] = c[k]
  BY <1>0 DEF Replaced
<1>3. L \in Seq(SD) /\ Len(L) = n /\ \A k \in 1 .. n : L[k] = FunctionsOf(c[k])
  BY <1>0, LayoutIs
<1>4. M \in Seq(SD) /\ Len(M) = n /\ \A k \in 1 .. n : M[k] = FunctionsOf(d[k])
  BY <1>0, <1>1, LayoutIs
<1>5. N \in Seq(SD) /\ Len(N) = Len(L) /\ N[i] = FunctionsOf(X) /\ \A k \in 1 .. Len(L) : k # i => N[k] = L[k]
  BY <1>0 DEF Replaced
<1> HIDE DEF L, M, SD, n
<1>6. \A k \in 1 .. n : N[k] = M[k]
  <2>1. TAKE k \in 1 .. n
  <2>2. CASE k = i
    BY <2>2, <1>1, <1>4, <1>5
  <2>3. CASE k # i
    BY <2>3, <1>1, <1>3, <1>4, <1>5
  <2>4. QED
    BY <2>2, <2>3
<1>7. N = M
  BY <1>3, <1>4, <1>5, <1>6, SameSequence
<1>8. QED
  BY <1>7 DEF M

(* A sequence with one element replaced. *)
LEMMA ReplacedElement ==
  ASSUME NEW T, NEW q \in Seq(T), NEW i \in 1 .. Len(q), NEW x \in T, NEW p, p = [q EXCEPT ![i] = x]
  PROVE  p \in Seq(T) /\ Replaced(q, p, i, x)
BY DEF Replaced

(* the i-th thread has a frame more, and its layout too; or one less *)
PushedLayout(code, c, d, N, i, X, f) ==
  /\ c \in Seq(Seq(Positions(code))) /\ i \in 1 .. Len(c) /\ f \in DOMAIN code
  /\ X \in Seq(Positions(code)) /\ Len(X) = Len(c[i]) + 1
  /\ \A k \in 1 .. Len(c[i]) : X[k][1] = c[i][k][1]
  /\ X[Len(c[i]) + 1][1] = f
  /\ d = [c EXCEPT ![i] = X]
  /\ N = [LayoutOf(c) EXCEPT ![i] = Append(LayoutOf(c)[i], f)]
PoppedLayout(code, c, d, N, i) ==
  /\ c \in Seq(Seq(Positions(code))) /\ i \in 1 .. Len(c) /\ c[i] # << >>
  /\ d = [c EXCEPT ![i] = Front(c[i])]
  /\ N = [LayoutOf(c) EXCEPT ![i] = Front(LayoutOf(c)[i])]

(* ... when a frame is pushed, ... *)
LEMMA LayoutPushed ==
  ASSUME NEW code, NEW c, NEW i, NEW f, NEW X, NEW N, NEW d, PushedLayout(code, c, d, N, i, X, f)
  PROVE  N = LayoutOf(d)
<1>0. /\ c \in Seq(Seq(Positions(code))) /\ i \in 1 .. Len(c) /\ f \in DOMAIN code
      /\ X \in Seq(Positions(code)) /\ Len(X) = Len(c[i]) + 1
      /\ \A k \in 1 .. Len(c[i]) : X[k][1] = c[i][k][1]
      /\ X[Len(c[i]) + 1][1] = f
  BY DEF PushedLayout
<1> DEFINE SP == Seq(Positions(code))
           D == DOMAIN code
           A == FunctionsOf(c[i])
           B == FunctionsOf(X)
           n == Len(c[i])
<1>1. c[i] \in SP
  BY <1>0 DEF SP
<1>2. A \in Seq(D) /\ Len(A) = n /\ \A k \in 1 .. n : A[k] = c[i][k][1]
  BY <1>1, FunctionsIs
<1>3. B \in Seq(D) /\ Len(B) = Len(X) /\ \A k \in 1 .. Len(X) : B[k] = X[k][1]
  BY <1>0, FunctionsIs
<1>4. n \in Nat
  BY <1>2
<1> HIDE DEF A, B, D, n
<1>f. f \in D
  BY <1>0 DEF D
<1>5. Append(A, f) \in Seq(D) /\ Len(Append(A, f)) = n + 1
      /\ (\A k \in 1 .. n : Append(A, f)[k] = A[k]) /\ Append(A, f)[n + 1] = f
  BY <1>2, <1>f, Appending
<1>x. Len(X) = n + 1 /\ (\A k \in 1 .. n : X[k][1] = c[i][k][1]) /\ X[n + 1][1] = f
  BY <1>0 DEF n
<1>6. \A k \in 1 .. n + 1 : Append(A, f)[k] = B[k]
  <2>1. TAKE k \in 1 .. n + 1
  <2>2. k \in 1 .. n \/ k = n + 1
    BY <1>4
  <2>3. QED
    BY <2>2, <1>2, <1>3, <1>5, <1>x
<1>7. Append(A, f) = B
  BY <1>3, <1>5, <1>6, <1>x, SameSequence
<1>8. LayoutOf(c)[i] = A
  BY <1>0, LayoutIs DEF A
<1>b. FunctionsOf(X) = B
  BY DEF B
<1> DEFINE SQ == Seq(Positions(code))
           SD == Seq(DOMAIN code)
           L == LayoutOf(c)
<1>p. L \in Seq(SD) /\ i \in 1 .. Len(L) /\ c \in Seq(SQ) /\ X \in SQ /\ B \in SD
  BY <1>0, <1>3, LayoutIs DEF D
<1>q. N = [L EXCEPT ![i] = B] /\ d = [c EXCEPT ![i] = X]
  BY <1>7, <1>8 DEF PushedLayout
<1> HIDE DEF SQ, SD, L
<1>r. d \in Seq(SQ) /\ Replaced(c, d, i, X) /\ N \in Seq(SD) /\ Replaced(L, N, i, B)
  BY <1>0, <1>p, <1>q, ReplacedElement
<1>s. Relaid(code, c, d, N, i, X)
  BY <1>0, <1>r, <1>b DEF SQ, SD, L, Relaid
<1>10. QED
  BY <1>s, LayoutChanged

(* ... when one is popped, ... *)
LEMMA LayoutPopped ==
  ASSUME NEW code, NEW c, NEW i, NEW N, NEW d, PoppedLayout(code, c, d, N, i)
  PROVE  N = LayoutOf(d)
<1>0. c \in Seq(Seq(Positions(code))) /\ i \in 1 .. Len(c) /\ c[i] # << >>
  BY DEF PoppedLayout
<1> DEFINE P == Positions(code)
           SP == Seq(P)
           D == DOMAIN code
           f == c[i]
           A == FunctionsOf(f)
           B == FunctionsOf(Front(f))
           n == Len(f)
<1>1. f \in SP /\ f # << >>
  BY <1>0 DEF SP
<1>2. A \in Seq(D) /\ Len(A) = n /\ \A k \in 1 .. n : A[k] = f[k][1]
  BY <1>1, FunctionsIs
<1> HIDE DEF P
<1>3. n \in Nat \ {0} /\ Front(f) \in Seq(P) /\ Len(Front(f)) = n - 1
      /\ \A k \in 1 .. n - 1 : Front(f)[k] = f[k]
  BY <1>1, FrontAndLast
<1>4. B \in Seq(D) /\ Len(B) = n - 1 /\ \A k \in 1 .. n - 1 : B[k] = Front(f)[k][1]
  BY <1>3, FunctionsIs DEF P
<1> HIDE DEF A, B, D, n, f, SP
<1>5. A # << >>
  BY <1>2, <1>3
<1>6. Front(A) \in Seq(D) /\ Len(Front(A)) = n - 1 /\ \A k \in 1 .. n - 1 : Front(A)[k] = A[k]
  BY <1>2, <1>5, FrontAndLast
<1>l. \A k \in 1 .. n - 1 : k \in 1 .. n
  BY <1>3
<1>7. \A k \in 1 .. n - 1 : Front(A)[k] = B[k]
  <2>1. TAKE k \in 1 .. n - 1
  <2>2. Front(A)[k] = A[k] /\ B[k] = Front(f)[k][1] /\ Front(f)[k] = f[k]
    BY <1>3, <1>4, <1>6
  <2>3. A[k] = f[k][1]
    BY <1>l, <1>2
  <2>4. QED
    BY <2>2, <2>3
<1>8. Front(A) = B
  BY <1>4, <1>6, <1>7, SameSequence
<1>9. LayoutOf(c)[i] = A
  BY <1>0, LayoutIs DEF A, f
<1>g. FunctionsOf(Front(f)) = B /\ Front(f) \in Seq(Positions(code))
  BY <1>3 DEF B, P
<1> DEFINE SQ == Seq(Positions(code))
           SD == Seq(DOMAIN code)
           L == LayoutOf(c)
<1>p. L \in Seq(SD) /\ i \in 1 .. Len(L) /\ c \in Seq(SQ) /\ Front(f) \in SQ /\ B \in SD
  BY <1>0, <1>3, <1>4, LayoutIs DEF D, P
<1>q. N = [L EXCEPT ![i] = B] /\ d = [c EXCEPT ![i] = Front(f)]
  BY <1>8, <1>9 DEF f, PoppedLayout
<1> HIDE DEF SQ, SD, L
<1>r. d \in Seq(SQ) /\ Replaced(c, d, i, Front(f)) /\ N \in Seq(SD) /\ Replaced(L, N, i, B)
  BY <1>0, <1>p, <1>q, ReplacedElement
<1>s. Relaid(code, c, d, N, i, Front(f))
  BY <1>0, <1>r, <1>g DEF SQ, SD, L, Relaid
<1>10. QED
  BY <1>s, LayoutChanged

(* ... when a thread ends, ... *)
LEMMA LayoutDropped ==
  ASSUME NEW code, NEW c \in Seq(Seq(Positions(code))), NEW i \in 1 .. Len(c)
  PROVE  RemoveAt(LayoutOf(c), i) = LayoutOf(RemoveAt(c, i))
<1> DEFINE SP == Seq(Positions(code))
           SD == Seq(DOMAIN code)
           n == Len(c)
           d == RemoveAt(c, i)
           L == LayoutOf(c)
           M == LayoutOf(d)
           N == RemoveAt(L, i)
<1>1. c \in Seq(SP)
  OBVIOUS
<1> HIDE DEF SP
<1>2. n \in Nat /\ d \in Seq(SP) /\ Len(d) = n - 1 /\ \A k \in 1 .. n - 1 : d[k] = IF k < i THEN c[k] ELSE c[k + 1]
  BY <1>1, Removing
<1> HIDE DEF d
<1>3. L \in Seq(SD) /\ Len(L) = n /\ \A k \in 1 .. n : L[k] = FunctionsOf(c[k])
  BY LayoutIs
<1>4. M \in Seq(SD) /\ Len(M) = n - 1 /\ \A k \in 1 .. n - 1 : M[k] = FunctionsOf(d[k])
  BY <1>2, LayoutIs DEF SP
<1> HIDE DEF L, M, SD
<1>i. i \in 1 .. Len(L)
  BY <1>3
<1> HIDE DEF n
<1>5. N \in Seq(SD) /\ Len(N) = n - 1 /\ \A k \in 1 .. n - 1 : N[k] = IF k < i THEN L[k] ELSE L[k + 1]
  BY <1>3, <1>i, Removing
<1> HIDE DEF N
<1>6. \A k \in 1 .. n - 1 : N[k] = M[k]
  <2>1. TAKE k \in 1 .. n - 1
  <2>2. k \in 1 .. n /\ k + 1 \in 1 .. n
    BY <1>2
  <2>3. QED
    BY <2>2, <1>2, <1>3, <1>4, <1>5
<1>7. N = M
  BY <1>4, <1>5, <1>6, SameSequence
<1>8. QED
  BY <1>7 DEF N, M, L, d

(* ... and when one starts. *)
LEMMA LayoutAdded ==
  ASSUME NEW code, NEW c \in Seq(Seq(Positions(code))), NEW f \in DOMAIN code,
         << <<f, 1>> >> \in Seq(Positions(code))
  PROVE  Append(LayoutOf(c), <<f>>) = LayoutOf(Append(c, << <<f, 1>> >>))
<1> DEFINE SP == Seq(Positions(code))
           SD == Seq(DOMAIN code)
           n == Len(c)
           x == << <<f, 1>> >>
           y == <<f>>
           d == Append(c, x)
           L == LayoutOf(c)
           M == LayoutOf(d)
           N == Append(L, y)
<1>1. c \in Seq(SP) /\ x \in SP /\ y \in SD
  OBVIOUS
<1>y. FunctionsOf(x) = y
  <2> DEFINE D == DOMAIN code
  <2>1. FunctionsOf(x) \in Seq(D) /\ Len(FunctionsOf(x)) = Len(x) /\ \A k \in 1 .. Len(x) : FunctionsOf(x)[k] = x[k][1]
    BY FunctionsIs
  <2>2. Len(x) = 1 /\ x[1] = <<f, 1>> /\ <<f, 1>>[1] = f /\ Len(y) = 1 /\ y[1] = f /\ y \in Seq(D)
    OBVIOUS
  <2> HIDE DEF x, y, D
  <2>3. 1 \in 1 .. 1 /\ \A k \in 1 .. 1 : k = 1
    OBVIOUS
  <2>4. \A k \in 1 .. 1 : FunctionsOf(x)[k] = y[k]
    BY <2>1, <2>2, <2>3
  <2>5. QED
    BY <2>1, <2>2, <2>4, SameSequence
<1> HIDE DEF SP, x, y
<1>2. n \in Nat /\ d \in Seq(SP) /\ Len(d) = n + 1 /\ (\A k \in 1 .. n : d[k] = c[k]) /\ d[n + 1] = x
  BY <1>1, Appending
<1> HIDE DEF d
<1>3. L \in Seq(SD) /\ Len(L) = n /\ \A k \in 1 .. n : L[k] = FunctionsOf(c[k])
  BY LayoutIs
<1>4. M \in Seq(SD) /\ Len(M) = n + 1 /\ \A k \in 1 .. n + 1 : M[k] = FunctionsOf(d[k])
  BY <1>2, LayoutIs DEF SP
<1> HIDE DEF L, M, SD, n
<1>5. N \in Seq(SD) /\ Len(N) = n + 1 /\ (\A k \in 1 .. n : N[k] = L[k]) /\ N[n + 1] = y
  BY <1>1, <1>3, Appending
<1> HIDE DEF N
<1>6. \A k \in 1 .. n + 1 : N[k] = M[k]
  <2>1. TAKE k \in 1 .. n + 1
  <2>2. k \in 1 .. n \/ k = n + 1
    BY <1>2
  <2>3. QED
    BY <2>2, <1>2, <1>3, <1>4, <1>5, <1>y
<1>7. N = M
  BY <1>4, <1>5, <1>6, SameSequence
<1>8. QED
  BY <1>7 DEF N, M, L, d, x, y

-----------------------------------------------------------------------------
(* Calls of functions with a body.                                         *)

(* the frames of the thread that moves are X now *)
Reframed(s, r, tid, X) ==
  /\ DOMAIN r = Fields
  /\ r.context = [s.context EXCEPT ![tid] = X]
  /\ r.previous_bb \in {s.previous_bb, [s.previous_bb EXCEPT ![tid] = NoPC]}
  /\ r.tids = s.tids
  /\ r.next_free_tid = s.next_free_tid

(* the same in the interleavings *)
ReframedView(g, h, t, X) ==
  /\ DOMAIN h = ViewFields
  /\ h.stack = [g.stack EXCEPT ![t] = X]
  /\ h.came = g.came
  /\ h.next = g.next

(* A stack that is as good whatever block the thread came from. *)
Settled(code, X) ==
  /\ \A new \in Positions(code) \cup {NoPC} : ThreadOK(code, X, new)
  /\ Instruction(code, Last(X)).op # "phi"

(* A change of frames leaves the state in order, ... *)
LEMMA ReframedIsOK ==
  ASSUME NEW code, NEW s, NEW tid, Ready(code, s, tid), NEW X, Settled(code, X),
         NEW r, Reframed(s, r, tid, X), SectionOK(r.atomic_section, Len(s.context)), StoreOK(r)
  PROVE  StateOK(code, r) /\ Len(r.context) = Len(s.context)
<1> DEFINE new == IF r.previous_bb = s.previous_bb THEN s.previous_bb[tid] ELSE NoPC
<1>1. /\ tid \in 1 .. Len(s.context)
      /\ ThreadsOK(code, s.context, s.previous_bb) /\ TidsOK(s.tids, Len(s.context))
      /\ s.next_free_tid \in 0 .. TidRange - 1
      /\ ThreadOK(code, s.context[tid], s.previous_bb[tid])
  BY ReadyFacts
<1>2. s.previous_bb = [s.previous_bb EXCEPT ![tid] = s.previous_bb[tid]]
  BY <1>1, SameElement
<1>3. r.previous_bb = [s.previous_bb EXCEPT ![tid] = new]
  BY <1>2 DEF Reframed
<1>4. new \in Positions(code) \cup {NoPC}
  BY <1>1 DEF ThreadOK
<1> HIDE DEF new
<1>5. ThreadOK(code, X, new)
  BY <1>4 DEF Settled
<1>6. ThreadsOK(code, [s.context EXCEPT ![tid] = X], [s.previous_bb EXCEPT ![tid] = new])
      /\ Len([s.context EXCEPT ![tid] = X]) = Len(s.context)
  BY <1>1, <1>5, ChangedThreads
<1>7. /\ DOMAIN r = Fields /\ r.context = [s.context EXCEPT ![tid] = X]
      /\ r.tids = s.tids /\ r.next_free_tid = s.next_free_tid
  BY DEF Reframed
<1>8. ThreadsOK(code, r.context, r.previous_bb) /\ Len(r.context) = Len(s.context)
  BY <1>3, <1>6, <1>7
<1>9. StateOK(code, r)
  BY <1>1, <1>7, <1>8, StateIs
<1>10. QED
  BY <1>8, <1>9

(* ... the interleavings follow it, ... *)
LEMMA ReframedFollows ==
  ASSUME NEW code, NEW s, NEW tid, Ready(code, s, tid), NEW X, Settled(code, X),
         NEW r, Reframed(s, r, tid, X), SectionOK(r.atomic_section, Len(s.context)), StoreOK(r),
         NEW g, Follows(code, s, g), NEW h, ReframedView(g, h, s.tids[tid], X),
         h.owner = IF r.atomic_section = << >> THEN NoThread ELSE s.tids[r.atomic_section[1]],
         h.depth = Len(r.atomic_section), h.slots = r.explicitData, h.err = r.error
  PROVE  Follows(code, r, h)
<1> DEFINE t == s.tids[tid]
           new == IF r.previous_bb = s.previous_bb THEN s.previous_bb[tid] ELSE NoPC
           Z == new[2]
<1>1. /\ tid \in 1 .. Len(s.context)
      /\ ThreadsOK(code, s.context, s.previous_bb) /\ TidsOK(s.tids, Len(s.context))
  BY ReadyFacts
<1>2. s.previous_bb = [s.previous_bb EXCEPT ![tid] = s.previous_bb[tid]]
  BY <1>1, SameElement
<1>3. r.previous_bb = [s.previous_bb EXCEPT ![tid] = new]
  BY <1>2 DEF Reframed
<1>4. /\ Agrees(code, s.context, s.previous_bb, s.tids, g.stack, g.came)
      /\ \A i \in 1 .. Len(s.context) : s.tids[i] < s.next_free_tid
      /\ g.next = s.next_free_tid
  BY DEF Follows
<1>5. g.came = [g.came EXCEPT ![t] = g.came[t]]
  BY <1>4 DEF Agrees
<1>6. Instruction(code, Last(X)).op # "phi"
  BY DEF Settled
<1>7. /\ r.context = [s.context EXCEPT ![tid] = X] /\ r.tids = s.tids /\ r.next_free_tid = s.next_free_tid
      /\ h.stack = [g.stack EXCEPT ![t] = X] /\ h.came = g.came /\ h.next = g.next /\ DOMAIN h = ViewFields
  BY DEF Reframed, ReframedView
<1> HIDE DEF new
<1>8. Agrees(code, [s.context EXCEPT ![tid] = X], [s.previous_bb EXCEPT ![tid] = new], s.tids,
             [g.stack EXCEPT ![t] = X], [g.came EXCEPT ![t] = g.came[t]])
  <2> DEFINE W == g.came[t]
  <2> HIDE DEF W, t
  <2>1. Agrees(code, [s.context EXCEPT ![tid] = X], [s.previous_bb EXCEPT ![tid] = new], s.tids,
             [g.stack EXCEPT ![s.tids[tid]] = X], [g.came EXCEPT ![s.tids[tid]] = W])
    BY <1>1, <1>4, <1>6, ChangedAgrees
  <2>2. QED
    BY <2>1 DEF W, t
<1>9. Agrees(code, r.context, r.previous_bb, r.tids, h.stack, h.came)
  BY <1>3, <1>5, <1>7, <1>8
<1>10. Len(r.context) = Len(s.context)
  BY ReframedIsOK
<1>11. QED
  BY <1>4, <1>7, <1>9, <1>10 DEF Follows

(* the two together *)
ReframedTo(s, r, g, h, tid, X) ==
  /\ ReframedView(g, h, s.tids[tid], X)
  /\ h.owner = IF r.atomic_section = << >> THEN NoThread ELSE s.tids[r.atomic_section[1]]
  /\ h.depth = Len(r.atomic_section)
  /\ h.slots = r.explicitData
  /\ h.err = r.error

(* ... and so it is good. *)
LEMMA ReframedIsGood ==
  ASSUME NEW code, NEW s, NEW tid, Ready(code, s, tid), NEW X, Settled(code, X),
         NEW r, Reframed(s, r, tid, X), SectionOK(r.atomic_section, Len(s.context)), StoreOK(r),
         NEW obs, obs = FALSE => r.atomic_section = s.atomic_section,
         Laid(s) => Laid(r),
         \A m \in r.data : \E m0 \in s.data : \A g :
           Follows(code, s, g) /\ g.mem = m0 =>
             \E h \in StepsOf(code, g, s.tids[tid]) : h.mem = m /\ ReframedTo(s, r, g, h, tid, X)
  PROVE  Good(code, s, tid, Outcome(r, obs))
<1>1. StateOK(code, r) /\ Len(r.context) = Len(s.context)
  BY ReframedIsOK
<1>2. Backed(code, s, tid, r)
  <2>1. SUFFICES ASSUME NEW m \in r.data
                 PROVE  \E m0 \in s.data : \A g : Follows(code, s, g) /\ g.mem = m0 =>
                          \E h \in StepsOf(code, g, s.tids[tid]) \cup {g} :
                             h.mem = m /\ (h.next < TidRange => Follows(code, r, h))
    BY DEF Backed, Stands
  <2>2. PICK m0 \in s.data : \A g :
           Follows(code, s, g) /\ g.mem = m0 =>
             \E h \in StepsOf(code, g, s.tids[tid]) : h.mem = m /\ ReframedTo(s, r, g, h, tid, X)
    OBVIOUS
  <2>3. ASSUME NEW g, Follows(code, s, g), g.mem = m0
        PROVE  \E h \in StepsOf(code, g, s.tids[tid]) \cup {g} :
                   h.mem = m /\ (h.next < TidRange => Follows(code, r, h))
    <3>1. PICK h \in StepsOf(code, g, s.tids[tid]) : h.mem = m /\ ReframedTo(s, r, g, h, tid, X)
      BY <2>2, <2>3
    <3>2. Follows(code, r, h)
      BY <2>3, <3>1, ReframedFollows DEF ReframedTo
    <3>3. QED
      BY <3>1, <3>2
  <2>4. QED
    BY <2>3
<1>3. obs = FALSE => \A j : May(s, j) => May(r, j)
  BY <1>1 DEF May
<1>4. QED
  BY <1>1, <1>2, <1>3, OutcomeIs DEF Good

(* what a call does to an interleaving *)
CalledView(code, g, h, t, i) ==
  /\ Alike(g, h, {"stack", "owner", "depth", "mem"})
  /\ h.stack = [GoOn(g, t).stack EXCEPT ![t] = Append(@, <<i.function, 1>>)]
  /\ h.mem = Given(g.mem, i.moves)
  /\ h.owner = IF code[i.function].atomic THEN t ELSE g.owner
  /\ h.depth = IF code[i.function].atomic THEN g.depth + 1 ELSE g.depth

(* A call in the interleavings. *)
LEMMA CallFields ==
  ASSUME NEW code, NEW g, DOMAIN g = ViewFields, NEW t, NEW i
  PROVE  CalledView(code, g, Call(code, g, t, i), t, i)
<1> DEFINE on == GoOn(g, t)
           a == Assign(on, i.moves)
           c == [a EXCEPT !.stack[t] = Append(@, <<i.function, 1>>)]
<1>1. Alike(g, on, {"stack"})
  BY GoOnFields
<1> HIDE DEF on
<1>2. DOMAIN on = ViewFields /\ on.mem = g.mem /\ on.owner = g.owner /\ on.depth = g.depth
  BY <1>1 DEF Alike
<1>3. Alike(on, a, {"mem"}) /\ a.mem = Given(on.mem, i.moves)
  BY <1>2, AssignFields
<1> HIDE DEF a
<1>4. DOMAIN a = ViewFields /\ a.stack = on.stack
  BY <1>3 DEF Alike
<1>5. Alike(a, c, {"stack"}) /\ c.stack = [on.stack EXCEPT ![t] = Append(@, <<i.function, 1>>)]
  BY <1>4 DEF Alike, ViewFields
<1>6. Call(code, g, t, i) = IF code[i.function].atomic THEN Enter(c, t) ELSE c
  BY DEF Call, c, a, on
<1> HIDE DEF c
<1>7. DOMAIN c = ViewFields
  BY <1>5 DEF Alike
<1>8. Alike(g, c, {"stack", "mem"}) /\ c.mem = Given(g.mem, i.moves)
      /\ c.stack = [on.stack EXCEPT ![t] = Append(@, <<i.function, 1>>)]
  BY <1>1, <1>2, <1>3, <1>5 DEF Alike
<1>9. CASE code[i.function].atomic
  <2> DEFINE h == Enter(c, t)
  <2>1. Alike(c, h, {"owner", "depth"}) /\ h.owner = t /\ h.depth = c.depth + 1
    BY <1>7, EnterFields
  <2>2. Call(code, g, t, i) = h
    BY <1>6, <1>9
  <2> HIDE DEF h
  <2>3. CalledView(code, g, h, t, i)
    BY <1>8, <1>9, <2>1 DEF CalledView, Alike, on
  <2>4. QED
    BY <2>2, <2>3
<1>10. CASE ~ code[i.function].atomic
  <2>2. Call(code, g, t, i) = c
    BY <1>6, <1>10
  <2>3. CalledView(code, g, c, t, i)
    BY <1>8, <1>10 DEF CalledView, Alike, on
  <2>4. QED
    BY <2>2, <2>3
<1>11. QED
  BY <1>9, <1>10

(* the state in a function that has just been called *)
Called(code, s, r, i, tid) ==
  /\ SameBut(Past(s, tid), r, {"context", "layout", "atomic_section", "data"})
  /\ r.context = [Past(s, tid).context EXCEPT ![tid] = Append(@, <<i.function, 1>>)]
  /\ r.layout = [s.layout EXCEPT ![tid] = Append(@, i.function)]
  /\ r.data = Stored(s.data, i.moves)
  /\ r.atomic_section = IF code[i.function].atomic THEN Append(s.atomic_section, tid) ELSE s.atomic_section

(* The outcome of a call. *)
LEMMA CalledIs ==
  ASSUME NEW code, NEW s, NEW tid, Ready(code, s, tid), Current(code, s, tid).op = "call"
  PROVE  \E r : /\ Outcomes(code, s, tid) = <<Outcome(r, code[Current(code, s, tid).function].atomic)>>
                /\ Called(code, s, r, Current(code, s, tid), tid)
<1> DEFINE i == Current(code, s, tid)
           f == [s EXCEPT !.previous_bb[tid] = NoPC]
           p == Past(s, tid)
           atomic == code[i.function].atomic
           e == IF atomic THEN EnterAtomicSection(p, tid) ELSE p
           y == Store(e, i.moves)
           r == PushFrame(y, i.function, tid)
<1>1. s.error = FALSE
  BY ReadyFacts
<1>2. Outcomes(code, s, tid) = <<Outcome(r, atomic)>>
  <2>1. Outcomes(code, s, tid) = DoCall(code, f, s, i, tid)
    BY <1>1, OutcomesOfCall DEF CallOps
  <2>2. DoCall(code, f, s, i, tid) = CallDefined(code, p, i, tid)
    BY DEF DoCall, Past
  <2>3. CallDefined(code, p, i, tid) = <<Outcome(r, atomic)>>
    BY DEF CallDefined
  <2> HIDE DEF f, p, r, atomic
  <2>4. QED
    BY <2>1, <2>2, <2>3
<1>3. Stepped(code, s, p, tid) /\ Calm(s, p) /\ p.data = s.data /\ DOMAIN p = Fields
  BY PastIs
<1> HIDE DEF p, atomic
<1>4. /\ SameBut(p, e, {"atomic_section"})
      /\ e.atomic_section = IF atomic THEN Append(p.atomic_section, tid) ELSE p.atomic_section
  <2>1. CASE atomic
    BY <2>1, <1>3, SectionFields
  <2>2. CASE ~ atomic
    BY <2>2, <1>3 DEF SameBut
  <2>3. QED
    BY <2>1, <2>2
<1> HIDE DEF e
<1>5. SameBut(e, y, {"data"}) /\ y.data = Stored(e.data, i.moves)
  BY <1>4, StoreFields DEF SameBut
<1> HIDE DEF y
<1>6. /\ SameBut(y, r, {"context", "layout"})
      /\ r.context = [y.context EXCEPT ![tid] = Append(@, <<i.function, 1>>)]
      /\ r.layout = [y.layout EXCEPT ![tid] = Append(@, i.function)]
  <2>1. DOMAIN y = Fields
    BY <1>5 DEF SameBut
  <2>2. Pushed(y, r, i.function, tid)
    BY <2>1, PushFields
  <2> HIDE DEF r
  <2>3. QED
    BY <2>2 DEF Pushed
<1> HIDE DEF r
<1>7. SameBut(p, r, {"context", "layout", "atomic_section", "data"})
  BY <1>4, <1>5, <1>6 DEF SameBut
<1>8. y.context = p.context /\ y.layout = s.layout /\ r.data = Stored(s.data, i.moves)
      /\ r.atomic_section = IF atomic THEN Append(s.atomic_section, tid) ELSE s.atomic_section
  BY <1>3, <1>4, <1>5, <1>6 DEF SameBut, Stepped, Calm
<1>9. Called(code, s, r, i, tid)
  BY <1>6, <1>7, <1>8 DEF Called, p, atomic
<1>10. QED
  BY <1>2, <1>9 DEF atomic

(* Calls of functions with a body. *)
LEMMA CallGood ==
  ASSUME NEW code, NEW s, NEW tid, Ready(code, s, tid), Current(code, s, tid).op = "call"
  PROVE  AllGood(code, s, tid)
<1> DEFINE i == Current(code, s, tid)
           t == s.tids[tid]
           fn == i.function
           atomic == code[fn].atomic
           f == s.context[tid]
           X == Append(Behind(f), <<fn, 1>>)
           c == s.context
           n == Len(f)
<1>1. /\ WellFormed(code) /\ s.error = FALSE /\ tid \in 1 .. Len(c)
      /\ SectionOK(s.atomic_section, Len(c)) /\ StoreOK(s)
      /\ ThreadsOK(code, c, s.previous_bb)
      /\ ThreadOK(code, f, s.previous_bb[tid])
      /\ i = Instruction(code, Last(f))
  BY ReadyFacts
<1>2. OperandsExist(code, i) /\ s.data \subseteq [Var -> Val]
  BY OperandsAre
<1>3. fn \in DOMAIN code /\ atomic \in BOOLEAN /\ \A v \in DOMAIN i.moves : i.moves[v] \in Var \cup Val
  BY <1>1, <1>2 DEF OperandsExist, WellFormed
<1>4. PICK r : Outcomes(code, s, tid) = <<Outcome(r, atomic)>> /\ Called(code, s, r, i, tid)
  BY CalledIs
<1>5. /\ \A new \in Positions(code) \cup {NoPC} : ThreadOK(code, X, new)
      /\ Last(X) = <<fn, 1>> /\ Instruction(code, <<fn, 1>>).op # "phi"
      /\ Len(X) = n + 1
      /\ \A k \in 1 .. n - 1 : X[k] = f[k]
      /\ X[n] = After(Last(f)) /\ X[n + 1] = <<fn, 1>>
  <2>1. ASSUME NEW new \in Positions(code) \cup {NoPC}
        PROVE  /\ ThreadOK(code, X, new)
               /\ Last(X) = <<fn, 1>> /\ Instruction(code, <<fn, 1>>).op # "phi"
               /\ Len(X) = n + 1
               /\ \A k \in 1 .. n - 1 : X[k] = f[k]
               /\ X[n] = After(Last(f)) /\ X[n + 1] = <<fn, 1>>
    <3>1. WellFormed(code) /\ ThreadOK(code, f, s.previous_bb[tid]) /\ Instruction(code, Last(f)).op = "call"
          /\ fn \in DOMAIN code
      BY <1>1, <1>3
    <3> DEFINE from == s.previous_bb[tid]
    <3>0. ThreadOK(code, f, from)
      BY <3>1
    <3> HIDE DEF fn, f, i, from
    <3>2. /\ ThreadOK(code, Append(Behind(f), <<fn, 1>>), new)
          /\ Last(Append(Behind(f), <<fn, 1>>)) = <<fn, 1>>
          /\ Instruction(code, <<fn, 1>>).op # "phi"
          /\ Len(Append(Behind(f), <<fn, 1>>)) = Len(f) + 1
          /\ \A k \in 1 .. Len(f) - 1 : Append(Behind(f), <<fn, 1>>)[k] = f[k]
          /\ Append(Behind(f), <<fn, 1>>)[Len(f)] = After(Last(f))
          /\ Append(Behind(f), <<fn, 1>>)[Len(f) + 1] = <<fn, 1>>
      BY <3>0, <3>1, CallIs
    <3>3. QED
      BY <3>2
  <2> HIDE DEF X, fn, f, n
  <2>2. QED
    BY <2>1
<1>6. Settled(code, X)
  BY <1>5 DEF Settled
<1>p. Stepped(code, s, Past(s, tid), tid) /\ Calm(s, Past(s, tid))
  BY PastIs
<1>7. Reframed(s, r, tid, X)
  <2> DEFINE SP == Seq(Positions(code))
             B == Behind(f)
             x == <<fn, 1>>
             q == Past(s, tid)
  <2>1. c \in Seq(SP)
    BY <1>1 DEF ThreadsOK
  <2>2. q.context = [c EXCEPT ![tid] = B]
    BY <1>p DEF Stepped
  <2>3. r.context = [q.context EXCEPT ![tid] = Append(@, x)]
    BY <1>4 DEF Called
  <2>4. /\ DOMAIN r = Fields /\ r.previous_bb = q.previous_bb /\ r.tids = q.tids
        /\ r.next_free_tid = q.next_free_tid
    BY <1>4 DEF Called, SameBut
  <2>5. r.context = [c EXCEPT ![tid] = Append(B, x)]
    <3> HIDE DEF SP, B, x, c, q
    <3>1. QED
      BY <1>1, <2>1, <2>2, <2>3
  <2> HIDE DEF q
  <2>6. QED
    BY <1>p, <2>4, <2>5 DEF Stepped, Reframed, q
<1>8. r.explicitData = s.explicitData /\ r.error = s.error /\ r.data = Stored(s.data, i.moves)
      /\ r.atomic_section = IF atomic THEN Append(s.atomic_section, tid) ELSE s.atomic_section
  BY <1>4, <1>p DEF Called, SameBut, Calm
<1>9. SectionOK(r.atomic_section, Len(c)) /\ StoreOK(r)
  <2>1. SectionOK(Append(s.atomic_section, tid), Len(c))
    BY EnteredIs
  <2>2. Stored(s.data, i.moves) \subseteq [Var -> Val]
    BY <1>2, <1>3, StoredIn
  <2>3. QED
    BY <1>1, <1>8, <2>1, <2>2 DEF StoreOK
<1>10. ASSUME Laid(s) PROVE Laid(r)
  <2> DEFINE SP == Seq(Positions(code))
  <2>1. c \in Seq(SP) /\ c # << >> /\ f \in SP /\ X \in SP
    <3>1. c \in Seq(SP)
      BY <1>1 DEF ThreadsOK
    <3>2. X \in SP
      BY <1>5 DEF ThreadOK
    <3>3. c # << >>
      BY <1>1
    <3>4. QED
      BY <1>1, <3>1, <3>2, <3>3 DEF ThreadOK
  <2>2. s.layout = LayoutOf(c)
    BY <1>10, <2>1 DEF Laid
  <2>3. r.layout = [LayoutOf(c) EXCEPT ![tid] = Append(LayoutOf(c)[tid], fn)]
    BY <1>4, <2>2 DEF Called
  <2>4. r.context = [c EXCEPT ![tid] = X]
    BY <1>7 DEF Reframed
  <2>5. Len(X) = Len(c[tid]) + 1 /\ (\A k \in 1 .. Len(c[tid]) : X[k][1] = c[tid][k][1]) /\ X[Len(c[tid]) + 1][1] = fn
    <3>1. n \in Nat \ {0} /\ Last(f) = f[n]
      BY <1>1, FramesIs
    <3>2. /\ (\A k \in 1 .. n - 1 : X[k] = f[k]) /\ X[n] = After(f[n])
          /\ Len(X) = n + 1 /\ X[n + 1] = <<fn, 1>>
      BY <1>5, <3>1
    <3>3. After(f[n])[1] = f[n][1] /\ <<fn, 1>>[1] = fn
      BY DEF After
    <3> HIDE DEF X, f, fn, n
    <3>4. ASSUME NEW k \in 1 .. n PROVE X[k][1] = f[k][1]
      <4>1. k \in 1 .. n - 1 \/ k = n
        BY <3>1
      <4>2. QED
        BY <3>2, <3>3, <4>1
    <3>5. Len(X) = n + 1 /\ (\A k \in 1 .. n : X[k][1] = f[k][1]) /\ X[n + 1][1] = fn
      BY <3>2, <3>3, <3>4
    <3>6. QED
      BY <3>5 DEF n, f
  <2> HIDE DEF X, fn, c
  <2>p. PushedLayout(code, c, r.context, r.layout, tid, X, fn)
    BY <1>1, <1>3, <2>1, <2>3, <2>4, <2>5 DEF PushedLayout
  <2>6. r.layout = LayoutOf(r.context)
    BY <2>p, LayoutPushed
  <2>7. QED
    BY <2>6 DEF Laid
<1>11. ASSUME NEW g, Follows(code, s, g), NEW m, m = Given(g.mem, i.moves)
       PROVE  \E h \in StepsOf(code, g, t) : h.mem = m /\ ReframedTo(s, r, g, h, tid, X)
  <2> DEFINE h == Call(code, g, t, i)
  <2>1. /\ Instruction(code, Here(g, t)) = i /\ DOMAIN g = ViewFields /\ g.stack[t] = f
        /\ g.owner = (IF s.atomic_section = << >> THEN NoThread ELSE s.tids[s.atomic_section[1]])
        /\ g.depth = Len(s.atomic_section)
        /\ g.slots = s.explicitData
        /\ g.err = s.error
    BY <1>11, ViewIs
  <2>2. h \in StepsOf(code, g, t)
    BY <2>1 DEF StepsOf
  <2>3. CalledView(code, g, h, t, i)
    BY <2>1, CallFields
  <2>a. Onward(g, GoOn(g, t), t)
    BY <2>1, OnIs
  <2>4. GoOn(g, t).stack = [g.stack EXCEPT ![t] = Behind(f)]
    BY <2>1, <2>a DEF Onward
  <2> HIDE DEF h
  <2>5. h.stack = [g.stack EXCEPT ![t] = X]
    <3>1. h.stack = [GoOn(g, t).stack EXCEPT ![t] = Append(@, <<fn, 1>>)]
      BY <2>3 DEF CalledView
    <3>2. g.stack = [x \in Named(s.tids) |-> g.stack[x]] /\ t \in Named(s.tids)
      <4>1. TidsOK(s.tids, Len(c))
        BY ReadyFacts
      <4>2. t \in Named(s.tids)
        BY <1>1, <4>1 DEF TidsOK, Named
      <4>3. QED
        BY <1>11, <4>2 DEF Follows, Agrees
    <3> DEFINE B == Behind(f)
               x == <<fn, 1>>
               N == Named(s.tids)
    <3> HIDE DEF B, x, f, N, t
    <3>3. QED
      BY <2>4, <3>1, <3>2 DEF B, x, N
  <2>6. ReframedView(g, h, t, X)
    BY <2>3, <2>5 DEF CalledView, ReframedView, Alike
  <2>7. /\ Len(Append(s.atomic_section, tid)) = Len(s.atomic_section) + 1
        /\ Append(s.atomic_section, tid) # << >> /\ Append(s.atomic_section, tid)[1] = tid
    BY EnteredIs
  <2>8. h.owner = IF r.atomic_section = << >> THEN NoThread ELSE s.tids[r.atomic_section[1]]
    <3>1. h.owner = IF atomic THEN s.tids[tid] ELSE g.owner
      BY <2>3 DEF CalledView
    <3> HIDE DEF atomic
    <3>2. QED
      BY <1>8, <2>1, <2>7, <3>1
  <2>9. h.depth = Len(r.atomic_section)
    <3>1. h.depth = IF atomic THEN g.depth + 1 ELSE g.depth
      BY <2>3 DEF CalledView
    <3> HIDE DEF atomic
    <3>2. QED
      BY <1>8, <2>1, <2>7, <3>1
  <2>10. h.slots = r.explicitData /\ h.err = r.error /\ h.mem = m
    BY <1>8, <1>11, <2>1, <2>3 DEF CalledView, Alike
  <2>11. ReframedTo(s, r, g, h, tid, X)
    BY <2>6, <2>8, <2>9, <2>10 DEF ReframedTo
  <2>12. QED
    BY <2>2, <2>10, <2>11
<1>12. \A m \in r.data : \E m0 \in s.data : \A g : Follows(code, s, g) /\ g.mem = m0 =>
             \E h \in StepsOf(code, g, t) : h.mem = m /\ ReframedTo(s, r, g, h, tid, X)
  <2> DEFINE w == i.moves
  <2>0. \A v \in DOMAIN w : w[v] \in Var \cup Val
    BY <1>3
  <2> HIDE DEF w
  <2>1. \A m \in Stored(s.data, w) : \E m0 \in s.data : m = Given(m0, w)
    BY <1>2, <2>0, StoredIn
  <2>r. r.data = Stored(s.data, w)
    BY <1>8 DEF w
  <2>m. ASSUME NEW m \in r.data PROVE \E m0 \in s.data : m = Given(m0, i.moves)
    BY <2>1, <2>r DEF w
  <2>2. QED
    BY <1>11, <2>m
<1> HIDE DEF X
<1>13. Good(code, s, tid, Outcome(r, atomic))
  BY <1>3, <1>6, <1>7, <1>8, <1>9, <1>10, <1>12, ReframedIsGood
<1>14. QED
  BY <1>4, <1>13, OneOutcome

-----------------------------------------------------------------------------
(* The end of a thread.                                                    *)

(* the thread that moves is gone *)
Dropped(s, r, tid) ==
  /\ DOMAIN r = Fields
  /\ r.context = RemoveAt(s.context, tid)
  /\ r.previous_bb = RemoveAt(s.previous_bb, tid)
  /\ r.tids = RemoveAt(s.tids, tid)
  /\ r.next_free_tid = s.next_free_tid
  /\ r.atomic_section = << >>
  /\ r.explicitData = s.explicitData
  /\ r.data = s.data
  /\ r.error = s.error

(* the same in the interleavings *)
DroppedView(g, h, t) ==
  /\ Alike(g, h, {"stack", "came", "owner", "depth"})
  /\ h.stack = [x \in DOMAIN g.stack \ {t} |-> g.stack[x]]
  /\ h.came = [x \in DOMAIN g.came \ {t} |-> g.came[x]]
  /\ h.owner = NoThread
  /\ h.depth = 0

(* The end of a thread leaves the state in order, ... *)
LEMMA DroppedIsOK ==
  ASSUME NEW code, NEW s, NEW tid, Ready(code, s, tid), NEW r, Dropped(s, r, tid)
  PROVE  StateOK(code, r) /\ Len(r.context) = Len(s.context) - 1
<1>1. /\ tid \in 1 .. Len(s.context)
      /\ ThreadsOK(code, s.context, s.previous_bb) /\ TidsOK(s.tids, Len(s.context))
      /\ s.next_free_tid \in 0 .. TidRange - 1
      /\ StoreOK(s)
  BY ReadyFacts
<1>2. /\ ThreadsOK(code, RemoveAt(s.context, tid), RemoveAt(s.previous_bb, tid))
      /\ Len(RemoveAt(s.context, tid)) = Len(s.context) - 1
      /\ TidsOK(RemoveAt(s.tids, tid), Len(s.context) - 1)
  BY <1>1, DroppedThreads
<1>3. /\ DOMAIN r = Fields
      /\ r.context = RemoveAt(s.context, tid)
      /\ r.previous_bb = RemoveAt(s.previous_bb, tid)
      /\ r.tids = RemoveAt(s.tids, tid)
      /\ r.next_free_tid = s.next_free_tid
      /\ r.atomic_section = << >>
      /\ r.explicitData = s.explicitData /\ r.data = s.data /\ r.error = s.error
  BY DEF Dropped
<1>4. SectionOK(<< >>, Len(r.context))
  BY DEF SectionOK
<1>5. StoreOK(r)
  BY <1>1, <1>3 DEF StoreOK
<1>6. StateOK(code, r)
  BY <1>1, <1>2, <1>3, <1>4, <1>5, StateIs
<1>7. QED
  BY <1>2, <1>3, <1>6

(* ... the interleavings follow it, ... *)
LEMMA DroppedFollows ==
  ASSUME NEW code, NEW s, NEW tid, Ready(code, s, tid), NEW r, Dropped(s, r, tid),
         NEW g, Follows(code, s, g), NEW h, DroppedView(g, h, s.tids[tid])
  PROVE  Follows(code, r, h)
<1> DEFINE t == s.tids[tid]
           n == Len(s.context)
           T == 0 .. TidRange - 1
<1>1. /\ tid \in 1 .. n /\ n \in Nat
      /\ ThreadsOK(code, s.context, s.previous_bb) /\ TidsOK(s.tids, n)
  BY ReadyFacts
<1>2. /\ Agrees(code, s.context, s.previous_bb, s.tids, g.stack, g.came)
      /\ \A i \in 1 .. n : s.tids[i] < s.next_free_tid
      /\ g.slots = s.explicitData /\ g.next = s.next_free_tid /\ g.err = s.error
  BY DEF Follows
<1>d. Dropping(g.stack, h.stack, t) /\ Dropping(g.came, h.came, t)
  BY DEF DroppedView, Dropping
<1>3. Agrees(code, RemoveAt(s.context, tid), RemoveAt(s.previous_bb, tid), RemoveAt(s.tids, tid),
             h.stack, h.came)
  BY <1>1, <1>2, <1>d, DroppedAgrees
<1>4. /\ r.context = RemoveAt(s.context, tid)
      /\ r.previous_bb = RemoveAt(s.previous_bb, tid)
      /\ r.tids = RemoveAt(s.tids, tid)
      /\ r.next_free_tid = s.next_free_tid
      /\ r.atomic_section = << >>
      /\ r.explicitData = s.explicitData /\ r.error = s.error
  BY DEF Dropped
<1>5. /\ h.owner = NoThread /\ h.depth = 0
      /\ h.slots = g.slots /\ h.next = g.next /\ h.err = g.err
      /\ DOMAIN h = ViewFields
  BY DEF DroppedView, Alike
<1>6. Agrees(code, r.context, r.previous_bb, r.tids, h.stack, h.came)
  BY <1>3, <1>4, <1>5
<1>7. \A i \in 1 .. n - 1 : r.tids[i] < r.next_free_tid
  <2>1. s.tids \in Seq(T) /\ Len(s.tids) = n
    BY <1>1 DEF TidsOK
  <2> HIDE DEF T, n
  <2>t. tid \in 1 .. Len(s.tids)
    BY <1>1, <2>1
  <2>2. \A k \in 1 .. n - 1 : RemoveAt(s.tids, tid)[k] = IF k < tid THEN s.tids[k] ELSE s.tids[k + 1]
    BY <2>1, <2>t, Removing
  <2>3. TAKE i \in 1 .. n - 1
  <2>4. i \in 1 .. n /\ i + 1 \in 1 .. n
    BY <1>1
  <2>5. QED
    BY <2>2, <2>4, <1>2, <1>4
<1>8. Len(r.context) = n - 1
  BY DroppedIsOK
<1>9. Len(<< >>) = 0
  OBVIOUS
<1>10. QED
  BY <1>2, <1>4, <1>5, <1>6, <1>7, <1>8, <1>9 DEF Follows

(* ... and so it is good. *)
LEMMA DroppedIsGood ==
  ASSUME NEW code, NEW s, NEW tid, Ready(code, s, tid), NEW r, Dropped(s, r, tid),
         Current(code, s, tid).op # "pthread_exit" /\ Laid(s) => Laid(r),
         \A g : Follows(code, s, g) =>
           \E h \in StepsOf(code, g, s.tids[tid]) : DroppedView(g, h, s.tids[tid]),
         NEW obs, obs # FALSE
  PROVE  Good(code, s, tid, Outcome(r, obs))
<1>1. StateOK(code, r)
  BY DroppedIsOK
<1>2. ASSUME NEW m \in r.data, NEW g, Follows(code, s, g), g.mem = m
      PROVE  \E h \in StepsOf(code, g, s.tids[tid]) \cup {g} : h.mem = m /\ Follows(code, r, h)
  <2>1. PICK h \in StepsOf(code, g, s.tids[tid]) : DroppedView(g, h, s.tids[tid])
    BY <1>2
  <2>2. Follows(code, r, h)
    BY <1>2, <2>1, DroppedFollows
  <2>3. h.mem = m
    BY <1>2, <2>1 DEF DroppedView, Alike
  <2>4. QED
    BY <2>1, <2>2, <2>3
<1>3. r.data = s.data
  BY DEF Dropped
<1>4. Backed(code, s, tid, r)
  BY <1>2, <1>3 DEF Backed, Stands
<1>5. obs = FALSE /\ r.error = FALSE => \A j : May(s, j) => May(r, j)
  OBVIOUS
<1>6. QED
  BY <1>1, <1>4, <1>5, OutcomeIs DEF Good

(* Nobody is in the atomic section when a thread ends outside a function. *)
LEMMA EndingOutside ==
  ASSUME NEW code, NEW s, NEW tid, Ready(code, s, tid), Current(code, s, tid).op \in {"exit", "pthread_exit"}
  PROVE  s.atomic_section = << >>
<1>1. Ending(code, s, tid) /\ ~ Leaving(code, s, tid)
  BY DEF Ending, Leaving
<1>2. Len(s.atomic_section) = 0
  BY <1>1 DEF Ready
<1>3. SectionOK(s.atomic_section, Len(s.context)) /\ Len(s.context) \in Nat
  BY ReadyFacts
<1>4. QED
  BY <1>2, <1>3, SectionIs

(* pthread_exit, but for the layout. *)
LEMMA PthreadExitGood ==
  ASSUME NEW code, NEW s, NEW tid, Ready(code, s, tid), Current(code, s, tid).op = "pthread_exit"
  PROVE  AllGood(code, s, tid)
<1> DEFINE i == Current(code, s, tid)
           t == s.tids[tid]
           f == [s EXCEPT !.previous_bb[tid] = NoPC]
           p == Past(s, tid)
           r == EraseThread(p, tid)
<1>1. /\ s.error = FALSE /\ tid \in 1 .. Len(s.context)
      /\ ThreadsOK(code, s.context, s.previous_bb) /\ WellFormed(code)
      /\ ThreadOK(code, s.context[tid], s.previous_bb[tid]) /\ i = Instruction(code, Last(s.context[tid]))
  BY ReadyFacts
<1>2. Outcomes(code, s, tid) = <<Outcome(r, TRUE)>>
  <2>1. Outcomes(code, s, tid) = DoCall(code, f, s, i, tid)
    BY <1>1, OutcomesOfCall DEF CallOps
  <2>2. DoCall(code, f, s, i, tid) = PthreadExit(p, tid)
    BY DEF DoCall, Past
  <2>3. PthreadExit(p, tid) = <<Outcome(r, TRUE)>>
    BY DEF PthreadExit
  <2> HIDE DEF f, p, r
  <2>4. QED
    BY <2>1, <2>2, <2>3
<1>3. Stepped(code, s, p, tid) /\ Calm(s, p) /\ p.data = s.data /\ DOMAIN p = Fields
  BY PastIs
<1> HIDE DEF p
<1>4. /\ SameBut(p, r, {"context", "previous_bb", "tids"})
      /\ r.context = RemoveAt(p.context, tid)
      /\ r.previous_bb = RemoveAt(p.previous_bb, tid)
      /\ r.tids = RemoveAt(p.tids, tid)
  BY <1>3, EraseFields
<1> HIDE DEF r
<1>5. RemoveAt(p.context, tid) = RemoveAt(s.context, tid) /\ RemoveAt(p.previous_bb, tid) = RemoveAt(s.previous_bb, tid)
  <2> DEFINE PN == Positions(code) \cup {NoPC}
             SP == Seq(Positions(code))
             X == Behind(s.context[tid])
  <2>1. s.context \in Seq(SP) /\ s.previous_bb \in Seq(PN) /\ tid \in 1 .. Len(s.previous_bb)
    BY <1>1 DEF ThreadsOK
  <2>2. X \in SP
    <3>1. ThreadOK(code, X, NoPC)
      BY <1>1, BehindIs DEF Terminators
    <3>2. QED
      BY <3>1 DEF ThreadOK
  <2>3. p.context = [s.context EXCEPT ![tid] = X]
        /\ p.previous_bb \in {s.previous_bb, [s.previous_bb EXCEPT ![tid] = NoPC]}
    BY <1>3 DEF Stepped
  <2>4. NoPC \in PN
    OBVIOUS
  <2> HIDE DEF SP, PN, X
  <2>5. RemoveAt(p.context, tid) = RemoveAt(s.context, tid)
    BY <1>1, <2>1, <2>2, <2>3, RemovedElement
  <2>6. \A q : q = [s.previous_bb EXCEPT ![tid] = NoPC] => RemoveAt(q, tid) = RemoveAt(s.previous_bb, tid)
    BY <2>1, <2>4, RemovedElement
  <2>7. QED
    BY <2>3, <2>5, <2>6
<1>6. s.atomic_section = << >>
  BY EndingOutside
<1>7. Dropped(s, r, tid)
  BY <1>3, <1>4, <1>5, <1>6 DEF Dropped, SameBut, Stepped, Calm
<1>8. ASSUME NEW g, Follows(code, s, g)
      PROVE  \E h \in StepsOf(code, g, t) : DroppedView(g, h, t)
  <2> DEFINE on == GoOn(g, t)
             h == Ended(on, {t})
  <2>1. /\ Instruction(code, Here(g, t)) = i /\ DOMAIN g = ViewFields
        /\ g.owner = NoThread /\ g.depth = Len(s.atomic_section)
    BY <1>6, <1>8, ViewIs
  <2>2. h \in StepsOf(code, g, t)
    BY <2>1 DEF StepsOf
  <2>3. Onward(g, on, t) /\ DOMAIN on = ViewFields
    BY <2>1, OnIs
  <2>m. Alike(g, on, {"stack"})
    BY <2>1, GoOnFields
  <2> HIDE DEF on
  <2>4. /\ Alike(on, h, {"stack", "came"})
        /\ h.stack = [x \in DOMAIN on.stack \ {t} |-> on.stack[x]]
        /\ h.came = [x \in DOMAIN on.came \ {t} |-> on.came[x]]
    BY <2>3, EndedFields
  <2> HIDE DEF h
  <2>5. on.stack = [g.stack EXCEPT ![t] = Behind(g.stack[t])] /\ on.came = g.came
    BY <2>3 DEF Onward, Alike
  <2>6. h.stack = [x \in DOMAIN g.stack \ {t} |-> g.stack[x]]
    <3> DEFINE X == Behind(g.stack[t])
    <3>1. on.stack = [g.stack EXCEPT ![t] = X] /\ h.stack = [x \in DOMAIN on.stack \ {t} |-> on.stack[x]]
      BY <2>4, <2>5
    <3>2. g.stack = [x \in Named(s.tids) |-> g.stack[x]]
      BY <1>8 DEF Follows, Agrees
    <3> HIDE DEF X, t
    <3>3. DOMAIN on.stack = DOMAIN g.stack /\ \A x \in DOMAIN g.stack \ {t} : on.stack[x] = g.stack[x]
      BY <3>1, <3>2
    <3>4. QED
      BY <3>1, <3>3
  <2>7. Len(<< >>) = 0
    OBVIOUS
  <2>8. DroppedView(g, h, t)
    BY <1>6, <2>1, <2>m, <2>4, <2>5, <2>6, <2>7 DEF DroppedView, Alike
  <2>9. QED
    BY <2>2, <2>8
<1>9. Good(code, s, tid, Outcome(r, TRUE))
  BY <1>7, <1>8, DroppedIsGood
<1>10. QED
  BY <1>2, <1>9, OneOutcome

-----------------------------------------------------------------------------
(* Returns.                                                                *)

(* the thread leaves the section of an atomic function it returns from *)
Relieved(code, s, x, tid) ==
  /\ SameBut(s, x, {"previous_bb", "atomic_section"})
  /\ x.previous_bb = [s.previous_bb EXCEPT ![tid] = NoPC]
  /\ x.atomic_section = IF Leaving(code, s, tid) THEN Front(s.atomic_section) ELSE s.atomic_section

(* An outcome of ret, from the state in which the section has been left. *)
LEMMA OutcomesOfReturn ==
  ASSUME NEW code, NEW s, NEW tid, Ready(code, s, tid), Current(code, s, tid).op = "ret"
  PROVE  \E x : /\ Relieved(code, s, x, tid)
                /\ Outcomes(code, s, tid) =
                     <<Outcome(PopFrame(IF LastFrame(s, tid) THEN x
                                        ELSE Store(x, Current(code, s, tid).moves), tid), TRUE)>>
<1> DEFINE i == Current(code, s, tid)
           f == [s EXCEPT !.previous_bb[tid] = NoPC]
           x == IF code[GetPC(f, tid)[1]].atomic THEN LeaveAtomicSection(f, tid) ELSE f
<1>1. DOMAIN s = Fields /\ s.error = FALSE
  BY ReadyFacts
<1>2. SameBut(s, f, {"previous_bb"}) /\ f.previous_bb = [s.previous_bb EXCEPT ![tid] = NoPC]
  BY <1>1, ForgetFields
<1>o. Outcomes(code, s, tid) = DoReturn(code, f, i, tid)
  BY <1>1 DEF Outcomes
<1> HIDE DEF f, i
<1>3. f.context = s.context /\ f.atomic_section = s.atomic_section /\ DOMAIN f = Fields
  BY <1>2 DEF SameBut
<1>4. GetPC(f, tid) = GetPC(s, tid) /\ (LastFrame(f, tid) <=> LastFrame(s, tid))
  BY <1>3 DEF GetPC, LastFrame
<1>5. Leaving(code, s, tid) <=> code[GetPC(s, tid)[1]].atomic
  BY DEF Leaving
<1>6. Outcomes(code, s, tid) = <<Outcome(PopFrame(IF LastFrame(f, tid) THEN x ELSE Store(x, i.moves), tid), TRUE)>>
  BY <1>o DEF DoReturn
<1>7. Relieved(code, s, x, tid)
  <2>1. CASE Leaving(code, s, tid)
    <3>1. x = LeaveAtomicSection(f, tid)
      BY <2>1, <1>4, <1>5
    <3>2. SameBut(f, x, {"atomic_section"}) /\ x.atomic_section = Front(f.atomic_section)
      BY <3>1, <1>3, SectionFields
    <3> HIDE DEF x
    <3>3. QED
      BY <1>2, <1>3, <2>1, <3>2 DEF Relieved, SameBut
  <2>2. CASE ~ Leaving(code, s, tid)
    <3>1. x = f
      BY <2>2, <1>4, <1>5
    <3> HIDE DEF x
    <3>2. QED
      BY <1>2, <1>3, <2>2, <3>1 DEF Relieved, SameBut
  <2>3. QED
    BY <2>1, <2>2
<1> HIDE DEF x
<1>8. (IF LastFrame(f, tid) THEN x ELSE Store(x, i.moves)) = (IF LastFrame(s, tid) THEN x ELSE Store(x, i.moves))
  BY <1>4
<1>9. QED
  BY <1>6, <1>7, <1>8 DEF i

(* A return from the last frame of a thread. *)
LEMMA ReturnEndsGood ==
  ASSUME NEW code, NEW s, NEW tid, Ready(code, s, tid), Current(code, s, tid).op = "ret",
         Len(s.context[tid]) = 1, NEW g0, Follows(code, s, g0)
  PROVE  AllGood(code, s, tid)
<1> DEFINE i == Current(code, s, tid)
           t == s.tids[tid]
           c == s.context
<1>1. /\ tid \in 1 .. Len(c) /\ ThreadsOK(code, c, s.previous_bb) /\ WellFormed(code)
      /\ SectionOK(s.atomic_section, Len(c)) /\ Len(c) \in Nat
      /\ GetPC(s, tid) = Last(c[tid]) /\ DOMAIN s = Fields
  BY ReadyFacts
<1>2. LastFrame(s, tid) /\ Ending(code, s, tid)
  BY DEF LastFrame, Ending
<1>3. PICK x : /\ Relieved(code, s, x, tid)
               /\ Outcomes(code, s, tid) = <<Outcome(PopFrame(IF LastFrame(s, tid) THEN x ELSE Store(x, i.moves), tid), TRUE)>>
  BY OutcomesOfReturn
<1> DEFINE r == PopFrame(x, tid)
<1>4. Outcomes(code, s, tid) = <<Outcome(r, TRUE)>>
  BY <1>2, <1>3
<1>5. DOMAIN x = Fields /\ x.context = c /\ LastFrame(x, tid)
  BY <1>2, <1>3 DEF Relieved, SameBut, LastFrame
<1>6. /\ SameBut(x, r, {"context", "previous_bb", "tids", "layout"})
      /\ r.context = RemoveAt(x.context, tid)
      /\ r.previous_bb = RemoveAt(x.previous_bb, tid)
      /\ r.tids = RemoveAt(x.tids, tid)
      /\ r.layout = DropFrame(x.layout, tid)
  BY <1>5, PopLastFields
<1> HIDE DEF r
<1>7. RemoveAt(x.previous_bb, tid) = RemoveAt(s.previous_bb, tid)
  <2> DEFINE PN == Positions(code) \cup {NoPC}
  <2>1. s.previous_bb \in Seq(PN) /\ tid \in 1 .. Len(s.previous_bb) /\ NoPC \in PN
    BY <1>1 DEF ThreadsOK
  <2>2. x.previous_bb = [s.previous_bb EXCEPT ![tid] = NoPC]
    BY <1>3 DEF Relieved
  <2> HIDE DEF PN
  <2>3. QED
    BY <2>1, <2>2, RemovedElement
<1>8. r.atomic_section = << >>
  <2>1. r.atomic_section = IF Leaving(code, s, tid) THEN Front(s.atomic_section) ELSE s.atomic_section
    BY <1>3, <1>6 DEF Relieved, SameBut
  <2>2. Len(s.atomic_section) = IF Leaving(code, s, tid) THEN 1 ELSE 0
    BY <1>2 DEF Ready
  <2>3. CASE Leaving(code, s, tid)
    <3> DEFINE n == Len(c)
               a == s.atomic_section
    <3>0. n \in Nat /\ SectionOK(a, n) /\ Len(a) = 1
      BY <1>1, <2>2, <2>3
    <3> HIDE DEF n, a
    <3>1. a # << >>
      <4>1. Len(a) \in Nat /\ (a = << >> <=> Len(a) = 0)
        BY <3>0, SectionIs
      <4>2. QED
        BY <3>0, <4>1
    <3>2. Len(Front(a)) = Len(a) - 1 /\ SectionOK(Front(a), n)
      BY <3>0, <3>1, SectionIs
    <3>3. Front(a) = << >>
      <4>1. Len(Front(a)) = 0
        BY <3>0, <3>2
      <4>2. QED
        BY <3>0, <3>2, <4>1, SectionIs
    <3>4. QED
      BY <2>1, <2>3, <3>3 DEF a
  <2>4. CASE ~ Leaving(code, s, tid)
    BY <1>1, <2>1, <2>2, <2>4, SectionIs
  <2>5. QED
    BY <2>3, <2>4
<1>9. Dropped(s, r, tid)
  BY <1>3, <1>6, <1>7, <1>8 DEF Dropped, SameBut, Relieved
<1>10. ASSUME Laid(s) PROVE Laid(r)
  <2> DEFINE SP == Seq(Positions(code))
  <2>1. c \in Seq(SP) /\ c # << >>
    BY <1>1 DEF ThreadsOK
  <2>2. s.layout = LayoutOf(c)
    BY <1>10, <2>1 DEF Laid
  <2>3. Len(LayoutOf(c)[tid]) = 1
    <3>1. LayoutOf(c)[tid] = FunctionsOf(c[tid])
      BY <2>1, <1>1, LayoutIs
    <3>2. c[tid] \in SP
      BY <2>1, <1>1
    <3>3. QED
      BY <3>1, <3>2, FunctionsIs
  <2>4. r.layout = DropFrame(s.layout, tid) /\ r.context = RemoveAt(c, tid)
    BY <1>3, <1>6 DEF Relieved, SameBut
  <2>5. DropFrame(LayoutOf(c), tid) = RemoveAt(LayoutOf(c), tid)
    BY <2>3 DEF DropFrame
  <2>6. RemoveAt(LayoutOf(c), tid) = LayoutOf(RemoveAt(c, tid))
    BY <2>1, <1>1, LayoutDropped
  <2>7. QED
    BY <2>2, <2>4, <2>5, <2>6 DEF Laid
<1>11. ASSUME NEW g, Follows(code, s, g)
      PROVE  \E h \in StepsOf(code, g, t) : DroppedView(g, h, t)
  <2> DEFINE left == IF code[Here(g, t)[1]].atomic THEN Exited(g) ELSE g
             h == Ended(left, {t})
  <2>1. /\ Instruction(code, Here(g, t)) = i /\ DOMAIN g = ViewFields /\ g.stack[t] = c[tid]
        /\ Here(g, t) = GetPC(s, tid)
        /\ g.owner = (IF s.atomic_section = << >> THEN NoThread ELSE s.tids[s.atomic_section[1]])
        /\ g.depth = Len(s.atomic_section)
    BY <1>11, ViewIs
  <2>2. h \in StepsOf(code, g, t)
    <3>1. h = Return(code, g, t, i)
      BY <2>1 DEF Return
    <3> HIDE DEF h
    <3>2. QED
      BY <2>1, <3>1 DEF StepsOf
  <2>3. Alike(g, left, {"owner", "depth"}) /\ left.owner = NoThread /\ left.depth = 0
    <3>0. Leaving(code, s, tid) <=> code[Here(g, t)[1]].atomic
      BY <2>1 DEF Leaving
    <3>1. r.atomic_section = IF Leaving(code, s, tid) THEN Front(s.atomic_section) ELSE s.atomic_section
      BY <1>3, <1>6 DEF Relieved, SameBut
    <3>2. CASE Leaving(code, s, tid)
      <4>1. left = Exited(g)
        BY <3>0, <3>2
      <4>2. /\ Alike(g, left, {"owner", "depth"})
            /\ left.owner = (IF g.depth = 1 THEN NoThread ELSE g.owner)
            /\ left.depth = g.depth - 1
        BY <2>1, <4>1, ExitedFields
      <4> HIDE DEF left
      <4>3. Front(s.atomic_section) = << >>
        BY <3>1, <3>2, <1>8
      <4>4. /\ (IF g.depth = 1 THEN NoThread ELSE g.owner) = NoThread
            /\ g.depth - 1 = Len(<< >>)
        BY <1>11, <3>2, <4>3, LeftIs
      <4>5. Len(<< >>) = 0
        OBVIOUS
      <4>6. QED
        BY <4>2, <4>4, <4>5
    <3>3. CASE ~ Leaving(code, s, tid)
      <4>1. left = g
        BY <3>0, <3>3
      <4> HIDE DEF left
      <4>2. s.atomic_section = << >>
        BY <3>1, <3>3, <1>8
      <4>3. Len(<< >>) = 0
        OBVIOUS
      <4>4. QED
        BY <2>1, <4>1, <4>2, <4>3 DEF Alike
    <3>4. QED
      BY <3>2, <3>3
  <2> HIDE DEF left
  <2>4. DOMAIN left = ViewFields
    BY <2>3 DEF Alike
  <2>5. /\ Alike(left, h, {"stack", "came"})
        /\ h.stack = [y \in DOMAIN left.stack \ {t} |-> left.stack[y]]
        /\ h.came = [y \in DOMAIN left.came \ {t} |-> left.came[y]]
    BY <2>4, EndedFields
  <2> HIDE DEF h
  <2>6. DroppedView(g, h, t)
    BY <2>3, <2>5 DEF DroppedView, Alike
  <2>7. QED
    BY <2>2, <2>6
<1>12. Good(code, s, tid, Outcome(r, TRUE))
  BY <1>9, <1>10, <1>11, DroppedIsGood
<1>13. QED
  BY <1>4, <1>12, OneOutcome

(* A return to the caller. *)
LEMMA ReturnBackGood ==
  ASSUME NEW code, NEW s, NEW tid, Ready(code, s, tid), Current(code, s, tid).op = "ret",
         Len(s.context[tid]) # 1, NEW g0, Follows(code, s, g0)
  PROVE  AllGood(code, s, tid)
<1> DEFINE i == Current(code, s, tid)
           t == s.tids[tid]
           c == s.context
           X == Front(c[tid])
           a == s.atomic_section
<1>1. /\ tid \in 1 .. Len(c) /\ ThreadsOK(code, c, s.previous_bb) /\ WellFormed(code)
      /\ SectionOK(a, Len(c)) /\ Len(c) \in Nat /\ StoreOK(s)
      /\ GetPC(s, tid) = Last(c[tid]) /\ DOMAIN s = Fields
      /\ ThreadOK(code, c[tid], s.previous_bb[tid])
  BY ReadyFacts
<1>2. ~ LastFrame(s, tid)
  BY DEF LastFrame
<1>v. OperandsExist(code, i) /\ s.data \subseteq [Var -> Val]
  BY OperandsAre
<1>m. \A v \in DOMAIN i.moves : i.moves[v] \in Var \cup Val
  BY <1>v DEF OperandsExist
<1>3. PICK x : /\ Relieved(code, s, x, tid)
               /\ Outcomes(code, s, tid) = <<Outcome(PopFrame(IF LastFrame(s, tid) THEN x ELSE Store(x, i.moves), tid), TRUE)>>
  BY OutcomesOfReturn
<1> DEFINE y == Store(x, i.moves)
           r == PopFrame(y, tid)
<1>4. Outcomes(code, s, tid) = <<Outcome(r, TRUE)>>
  BY <1>2, <1>3
<1>5. SameBut(x, y, {"data"}) /\ y.data = Stored(x.data, i.moves)
  BY <1>3, StoreFields DEF Relieved, SameBut
<1> HIDE DEF y
<1>6. DOMAIN y = Fields /\ y.context = c /\ ~ LastFrame(y, tid) /\ y.layout = s.layout
  BY <1>2, <1>3, <1>5 DEF Relieved, SameBut, LastFrame
<1>7. /\ SameBut(y, r, {"context", "layout"})
      /\ r.context = [y.context EXCEPT ![tid] = Front(@)]
      /\ r.layout = DropFrame(y.layout, tid)
  BY <1>6, PopFields
<1> HIDE DEF r
<1>8. Settled(code, X)
  <2>1. ASSUME NEW new \in Positions(code) \cup {NoPC}
        PROVE  ThreadOK(code, X, new) /\ Instruction(code, Last(X)).op # "phi"
    BY <1>1, ReturnIs
  <2>2. NoPC \in Positions(code) \cup {NoPC}
    OBVIOUS
  <2> HIDE DEF X
  <2>3. QED
    BY <2>1, <2>2 DEF Settled
<1>9. Reframed(s, r, tid, X)
  <2>1. r.context = [c EXCEPT ![tid] = X]
    BY <1>6, <1>7
  <2> HIDE DEF X
  <2>2. QED
    BY <1>3, <1>5, <1>7, <2>1 DEF Reframed, Relieved, SameBut
<1>10. /\ r.explicitData = s.explicitData /\ r.error = s.error /\ r.data = Stored(s.data, i.moves)
       /\ r.atomic_section = IF Leaving(code, s, tid) THEN Front(a) ELSE a
  BY <1>3, <1>5, <1>7 DEF Relieved, SameBut
<1> HIDE DEF X
<1>11. SectionOK(r.atomic_section, Len(c)) /\ StoreOK(r)
  <2>1. SectionOK(r.atomic_section, Len(c))
    <3>1. CASE Leaving(code, s, tid)
      BY <1>10, <3>1, LeftIs
    <3>2. CASE ~ Leaving(code, s, tid)
      BY <1>1, <1>10, <3>2
    <3>3. QED
      BY <3>1, <3>2
  <2>2. Stored(s.data, i.moves) \subseteq [Var -> Val]
    BY <1>v, <1>m, StoredIn
  <2>3. QED
    BY <1>1, <1>10, <2>1, <2>2 DEF StoreOK
<1>12. ASSUME Laid(s) PROVE Laid(r)
  <2> DEFINE SP == Seq(Positions(code))
             L == LayoutOf(c)
  <2>1. c \in Seq(SP) /\ c # << >>
    BY <1>1 DEF ThreadsOK
  <2>2. s.layout = L
    BY <1>12, <2>1 DEF Laid
  <2>3. Len(L[tid]) # 1
    <3>1. L[tid] = FunctionsOf(c[tid])
      BY <2>1, <1>1, LayoutIs
    <3>2. c[tid] \in SP
      BY <2>1, <1>1
    <3>3. QED
      BY <3>1, <3>2, FunctionsIs
  <2>4. r.layout = [L EXCEPT ![tid] = Front(L[tid])]
    BY <1>6, <1>7, <2>2, <2>3 DEF DropFrame
  <2>5. c[tid] # << >> /\ r.context = [c EXCEPT ![tid] = Front(c[tid])]
    BY <1>1, <1>6, <1>7, FramesIs
  <2>6. PoppedLayout(code, c, r.context, r.layout, tid)
    BY <1>1, <2>1, <2>4, <2>5 DEF PoppedLayout
  <2>7. r.layout = LayoutOf(r.context)
    BY <2>6, LayoutPopped
  <2>8. QED
    BY <2>7 DEF Laid
<1>13. ASSUME NEW g, Follows(code, s, g), NEW m, m = Given(g.mem, i.moves)
       PROVE  \E h \in StepsOf(code, g, t) : h.mem = m /\ ReframedTo(s, r, g, h, tid, X)
  <2> DEFINE left == IF code[Here(g, t)[1]].atomic THEN Exited(g) ELSE g
             b == Assign(left, i.moves)
             h == [b EXCEPT !.stack[t] = Front(@)]
  <2>1. /\ Instruction(code, Here(g, t)) = i /\ DOMAIN g = ViewFields /\ g.stack[t] = c[tid]
        /\ Here(g, t) = GetPC(s, tid)
        /\ g.owner = (IF a = << >> THEN NoThread ELSE s.tids[a[1]])
        /\ g.depth = Len(a)
        /\ g.slots = s.explicitData
        /\ g.err = s.error
    BY <1>13, ViewIs
  <2>2. h \in StepsOf(code, g, t)
    <3>1. h = Return(code, g, t, i)
      BY <2>1 DEF Return
    <3> HIDE DEF h
    <3>2. QED
      BY <2>1, <3>1 DEF StepsOf
  <2>3. /\ Alike(g, left, {"owner", "depth"})
        /\ left.owner = IF r.atomic_section = << >> THEN NoThread ELSE s.tids[r.atomic_section[1]]
        /\ left.depth = Len(r.atomic_section)
    <3>0. Leaving(code, s, tid) <=> code[Here(g, t)[1]].atomic
      BY <2>1 DEF Leaving
    <3>2. CASE Leaving(code, s, tid)
      <4>1. left = Exited(g)
        BY <3>0, <3>2
      <4>2. /\ Alike(g, left, {"owner", "depth"})
            /\ left.owner = (IF g.depth = 1 THEN NoThread ELSE g.owner)
            /\ left.depth = g.depth - 1
        BY <2>1, <4>1, ExitedFields
      <4> HIDE DEF left
      <4>3. r.atomic_section = Front(a)
        BY <3>2, <1>10
      <4>4. /\ (IF g.depth = 1 THEN NoThread ELSE g.owner) = (IF Front(a) = << >> THEN NoThread ELSE s.tids[Front(a)[1]])
            /\ g.depth - 1 = Len(Front(a))
        BY <1>13, <3>2, LeftIs
      <4>6. QED
        BY <4>2, <4>3, <4>4
    <3>3. CASE ~ Leaving(code, s, tid)
      <4>1. left = g
        BY <3>0, <3>3
      <4> HIDE DEF left
      <4>2. r.atomic_section = a
        BY <3>3, <1>10
      <4>4. QED
        BY <2>1, <4>1, <4>2 DEF Alike
    <3>4. QED
      BY <3>2, <3>3
  <2> HIDE DEF left
  <2>4. Alike(left, b, {"mem"}) /\ b.mem = Given(left.mem, i.moves)
    BY <2>3, AssignFields DEF Alike
  <2> HIDE DEF b
  <2>5. Alike(b, h, {"stack"}) /\ h.stack = [b.stack EXCEPT ![t] = Front(@)]
    BY <2>4 DEF Alike, ViewFields
  <2> HIDE DEF h
  <2>6. h.stack = [g.stack EXCEPT ![t] = X]
    <3>1. b.stack = g.stack
      BY <2>3, <2>4 DEF Alike
    <3>2. QED
      BY <2>1, <2>5, <3>1 DEF X
  <2>7. ReframedView(g, h, t, X)
    BY <2>3, <2>4, <2>5, <2>6 DEF ReframedView, Alike
  <2>8. /\ h.owner = left.owner /\ h.depth = left.depth /\ h.slots = g.slots /\ h.err = g.err
        /\ h.mem = m
    BY <1>13, <2>3, <2>4, <2>5 DEF Alike
  <2>9. ReframedTo(s, r, g, h, tid, X)
    BY <1>10, <2>1, <2>3, <2>7, <2>8 DEF ReframedTo
  <2>12. QED
    BY <2>2, <2>8, <2>9
<1>14. \A m \in r.data : \E m0 \in s.data : \A g : Follows(code, s, g) /\ g.mem = m0 =>
             \E h \in StepsOf(code, g, t) : h.mem = m /\ ReframedTo(s, r, g, h, tid, X)
  <2> DEFINE w == i.moves
  <2>0. \A v \in DOMAIN w : w[v] \in Var \cup Val
    BY <1>m
  <2> HIDE DEF w
  <2>1. \A m \in Stored(s.data, w) : \E m0 \in s.data : m = Given(m0, w)
    BY <1>v, <2>0, StoredIn
  <2>r. r.data = Stored(s.data, w)
    BY <1>10 DEF w
  <2>m. ASSUME NEW m \in r.data PROVE \E m0 \in s.data : m = Given(m0, i.moves)
    BY <2>1, <2>r DEF w
  <2>2. QED
    BY <1>13, <2>m
<1>15. ASSUME NEW obs, obs # FALSE PROVE Good(code, s, tid, Outcome(r, obs))
  BY <1>8, <1>9, <1>11, <1>12, <1>14, <1>15, ReframedIsGood
<1>16. Good(code, s, tid, Outcome(r, TRUE))
  BY <1>15
<1>17. QED
  BY <1>4, <1>16, OneOutcome

-----------------------------------------------------------------------------
(* The end of all threads.                                                 *)

(* Every thread is gone. *)
LEMMA ExitGood ==
  ASSUME NEW code, NEW s, NEW tid, Ready(code, s, tid), Current(code, s, tid).op = "exit"
  PROVE  AllGood(code, s, tid)
<1> DEFINE i == Current(code, s, tid)
           t == s.tids[tid]
           f == [s EXCEPT !.previous_bb[tid] = NoPC]
           p == Past(s, tid)
           r == [p EXCEPT !.context = << >>, !.previous_bb = << >>, !.tids = << >>]
<1>1. s.error = FALSE /\ s.next_free_tid \in 0 .. TidRange - 1 /\ StoreOK(s)
  BY ReadyFacts
<1>2. Outcomes(code, s, tid) = <<Outcome(r, TRUE)>>
  <2>1. Outcomes(code, s, tid) = DoCall(code, f, s, i, tid)
    BY <1>1, OutcomesOfCall DEF CallOps
  <2>2. DoCall(code, f, s, i, tid) = Exit(p)
    BY DEF DoCall, Past
  <2>3. Exit(p) = <<Outcome(r, TRUE)>>
    BY DEF Exit
  <2> HIDE DEF f, p, r
  <2>4. QED
    BY <2>1, <2>2, <2>3
<1>3. Stepped(code, s, p, tid) /\ Calm(s, p) /\ p.data = s.data /\ DOMAIN p = Fields
  BY PastIs
<1> HIDE DEF p
<1>4. /\ SameBut(p, r, {"context", "previous_bb", "tids"})
      /\ r.context = << >> /\ r.previous_bb = << >> /\ r.tids = << >>
  BY <1>3 DEF SameBut, Fields
<1> HIDE DEF r
<1>5. s.atomic_section = << >>
  BY EndingOutside
<1>6. /\ DOMAIN r = Fields /\ r.next_free_tid = s.next_free_tid /\ r.atomic_section = << >>
      /\ r.explicitData = s.explicitData /\ r.data = s.data /\ r.error = s.error
  BY <1>3, <1>4, <1>5 DEF SameBut, Stepped, Calm
<1>7. StateOK(code, r)
  <2>0. Len(<< >>) = 0
    OBVIOUS
  <2>1. ThreadsOK(code, << >>, << >>) /\ TidsOK(<< >>, 0) /\ SectionOK(<< >>, 0)
    BY <2>0 DEF ThreadsOK, TidsOK, SectionOK
  <2>2. StoreOK(r)
    BY <1>1, <1>6 DEF StoreOK
  <2>3. QED
    BY <1>1, <1>4, <1>6, <2>0, <2>1, <2>2, StateIs
<1>8. ASSUME NEW m \in r.data, NEW g, Follows(code, s, g), g.mem = m
      PROVE  \E h \in StepsOf(code, g, t) \cup {g} : h.mem = m /\ Follows(code, r, h)
  <2> DEFINE on == GoOn(g, t)
             e == Ended(on, DOMAIN on.stack)
             h == [e EXCEPT !.owner = NoThread, !.depth = 0]
  <2>1. /\ Instruction(code, Here(g, t)) = i /\ DOMAIN g = ViewFields
        /\ g.slots = s.explicitData /\ g.err = s.error
    BY <1>8, ViewIs
  <2>2. h \in StepsOf(code, g, t)
    BY <2>1 DEF StepsOf
  <2>3. Alike(g, on, {"stack"}) /\ on.stack = [g.stack EXCEPT ![t] = Behind(g.stack[t])]
    BY <2>1, GoOnFields
  <2> HIDE DEF on
  <2>4. /\ Alike(on, e, {"stack", "came"})
        /\ e.stack = [x \in DOMAIN on.stack \ DOMAIN on.stack |-> on.stack[x]]
        /\ e.came = [x \in DOMAIN on.came \ DOMAIN on.stack |-> on.came[x]]
    <3> DEFINE T == DOMAIN on.stack
    <3>1. DOMAIN on = ViewFields /\ e = Ended(on, T)
      BY <2>3 DEF Alike
    <3> HIDE DEF T
    <3>2. /\ Alike(on, Ended(on, T), {"stack", "came"})
          /\ Ended(on, T).stack = [x \in DOMAIN on.stack \ T |-> on.stack[x]]
          /\ Ended(on, T).came = [x \in DOMAIN on.came \ T |-> on.came[x]]
      BY <3>1, EndedFields
    <3> HIDE DEF e
    <3>3. QED
      BY <3>1, <3>2 DEF T
  <2> HIDE DEF e
  <2>5. Alike(e, h, {"owner", "depth"}) /\ h.owner = NoThread /\ h.depth = 0
    BY <2>4 DEF Alike, ViewFields
  <2> HIDE DEF h
  <2>6. h.stack = e.stack /\ h.came = e.came
    BY <2>5 DEF Alike
  <2>7. DOMAIN on.stack = DOMAIN on.came
    <3>1. g.stack = [x \in Named(s.tids) |-> g.stack[x]] /\ g.came = [x \in Named(s.tids) |-> g.came[x]]
      BY <1>8 DEF Follows, Agrees
    <3> DEFINE N == Named(s.tids)
               B == Behind(g.stack[t])
    <3> HIDE DEF N, B, t
    <3>2. DOMAIN g.stack = N /\ DOMAIN g.came = N
      BY <3>1 DEF N
    <3>3. on.came = g.came /\ on.stack = [g.stack EXCEPT ![t] = B]
      BY <2>3 DEF Alike, B
    <3>4. QED
      BY <3>2, <3>3
  <2>8. Agrees(code, << >>, << >>, << >>, h.stack, h.came)
    <3> DEFINE S == h.stack
               C == h.came
    <3>1. S = [x \in {} |-> on.stack[x]]
      BY <2>4, <2>6
    <3>2. C = [x \in {} |-> on.came[x]]
      BY <2>4, <2>6, <2>7
    <3> HIDE DEF S, C
    <3>3. DOMAIN S = {} /\ S = [x \in {} |-> S[x]]
      BY <3>1
    <3>4. DOMAIN C = {} /\ C = [x \in {} |-> C[x]]
      BY <3>2
    <3>5. Agrees(code, << >>, << >>, << >>, S, C)
      BY <3>3, <3>4, NothingAgrees
    <3>6. QED
      BY <3>5 DEF S, C
  <2>9. /\ DOMAIN h = ViewFields /\ h.slots = g.slots /\ h.next = g.next /\ h.err = g.err /\ h.mem = g.mem
    BY <2>3, <2>4, <2>5 DEF Alike
  <2>10. Len(<< >>) = 0
    OBVIOUS
  <2>11. g.next = s.next_free_tid
    BY <1>8 DEF Follows
  <2>12. Follows(code, r, h)
    BY <1>4, <1>6, <2>1, <2>5, <2>8, <2>9, <2>10, <2>11 DEF Follows
  <2>13. QED
    BY <1>8, <2>2, <2>9, <2>12
<1>9. Backed(code, s, tid, r)
  BY <1>6, <1>8 DEF Backed, Stands
<1>10. Laid(r)
  BY <1>4 DEF Laid
<1>11. ASSUME NEW obs, obs # FALSE PROVE Good(code, s, tid, Outcome(r, obs))
  <2> DEFINE o == Outcome(r, obs)
  <2>1. o.state = r /\ o.is_observable = obs /\ o.is_empty = (r.data = {})
    BY OutcomeIs
  <2> HIDE DEF o
  <2>2. Good(code, s, tid, o)
    BY <1>7, <1>9, <1>10, <1>11, <2>1 DEF Good
  <2>3. QED
    BY <2>2 DEF o
<1>12. Good(code, s, tid, Outcome(r, TRUE))
  BY <1>11
<1>13. QED
  BY <1>2, <1>12, OneOutcome

-----------------------------------------------------------------------------
(* Instructions without outcomes.                                          *)

(* What an instruction without outcomes leaves behind. *)
LEMMA LeftIsOK ==
  ASSUME NEW code, NEW s, NEW tid, Ready(code, s, tid), Current(code, s, tid).op = "ldv_"
  PROVE  /\ LeftBehind(code, s, tid) = Past(s, tid)
         /\ Good(code, s, tid, Outcome(Past(s, tid), FALSE))
<1> DEFINE p == Past(s, tid)
           t == s.tids[tid]
<1>1. s.error = FALSE
  BY ReadyFacts
<1>2. LeftBehind(code, s, tid) = p
  BY <1>1 DEF LeftBehind, Past
<1>3. Stepped(code, s, p, tid) /\ Calm(s, p) /\ p.data = s.data
  BY PastIs
<1>4. ASSUME NEW g, NEW m \in p.data, Follows(code, s, g), g.mem = m
      PROVE  GoOn(g, t) \in StepsOf(code, g, t)
  <2>1. Instruction(code, Here(g, t)) = Current(code, s, tid)
    BY <1>4, ViewIs
  <2>2. QED
    BY <2>1 DEF StepsOf
<1> HIDE DEF p
<1>5. ASSUME NEW obs PROVE Good(code, s, tid, Outcome(p, obs))
  BY <1>3, <1>4, PassingGood DEF Terminators
<1>6. QED
  BY <1>2, <1>5 DEF p

(* And when that is: an error state, or a call of an ldv_ function. *)
LEMMA NothingComesOut ==
  ASSUME NEW code, NEW s, NEW tid, Ready(code, s, tid), Current(code, s, tid).op = "ldv_"
  PROVE  Outcomes(code, s, tid) = << >>
<1> DEFINE i == Current(code, s, tid)
           f == [s EXCEPT !.previous_bb[tid] = NoPC]
<1>1. s.error = FALSE
  BY ReadyFacts
<1>2. Outcomes(code, s, tid) = DoCall(code, f, s, i, tid)
  BY <1>1, OutcomesOfCall DEF CallOps
<1>3. DoCall(code, f, s, i, tid) = << >>
  BY DEF DoCall
<1> HIDE DEF f
<1>4. QED
  BY <1>2, <1>3

-----------------------------------------------------------------------------
(* The start of a thread.                                                  *)

(* a thread with function i.function has been started, behind p *)
Started(p, r, i) ==
  /\ DOMAIN p = Fields /\ DOMAIN r = Fields
  /\ r.context = Append(p.context, << <<i.function, 1>> >>)
  /\ r.previous_bb = Append(p.previous_bb, NoPC)
  /\ r.tids = Append(p.tids, p.next_free_tid)
  /\ r.next_free_tid = (p.next_free_tid + 1) % TidRange
  /\ r.layout = Append(p.layout, <<i.function>>)
  /\ r.atomic_section = p.atomic_section
  /\ r.explicitData = [p.explicitData EXCEPT ![i.slot] = p.next_free_tid]
  /\ r.data = Stored(p.data, i.moves)
  /\ r.error = p.error

(* The outcome of pthread_create. *)
LEMMA StartedIs ==
  ASSUME NEW T, NEW p, DOMAIN p = Fields, p.tids \in Seq(T), p.next_free_tid \in T, NEW i
  PROVE  \E r : PthreadCreate(p, i) = <<Outcome(r, TRUE)>> /\ Started(p, r, i)
<1> DEFINE x == NewThread(p, i.function)
           y == Store(x, i.moves)
           r == [y EXCEPT !.explicitData[i.slot] = Last(x.tids)]
<1>1. PthreadCreate(p, i) = <<Outcome(r, TRUE)>>
  BY DEF PthreadCreate
<1>2. /\ SameBut(p, x, {"context", "previous_bb", "tids", "next_free_tid", "layout"})
      /\ x.context = Append(p.context, << <<i.function, 1>> >>)
      /\ x.previous_bb = Append(p.previous_bb, NoPC)
      /\ x.tids = Append(p.tids, p.next_free_tid)
      /\ x.next_free_tid = (p.next_free_tid + 1) % TidRange
      /\ x.layout = Append(p.layout, <<i.function>>)
  BY NewThreadFields
<1> HIDE DEF x
<1>3. SameBut(x, y, {"data"}) /\ y.data = Stored(x.data, i.moves)
  <2>1. DOMAIN x = Fields
    BY <1>2 DEF SameBut
  <2>2. QED
    BY <2>1, StoreFields
<1> HIDE DEF y
<1>4. SameBut(y, r, {"explicitData"}) /\ r.explicitData = [y.explicitData EXCEPT ![i.slot] = Last(x.tids)]
  BY <1>3 DEF SameBut, Fields
<1> HIDE DEF r
<1>5. Last(x.tids) = p.next_free_tid
  <2> DEFINE q == p.tids
             n == p.next_free_tid
  <2>1. q \in Seq(T) /\ n \in T /\ x.tids = Append(q, n)
    BY <1>2
  <2> HIDE DEF q, n
  <2>2. Last(Append(q, n)) = n
    BY <2>1 DEF Last
  <2>3. QED
    BY <2>1, <2>2 DEF n
<1>6. Started(p, r, i)
  BY <1>2, <1>3, <1>4, <1>5 DEF SameBut, Started
<1>7. QED
  BY <1>1, <1>6

(* It leaves the state in order, ... *)
LEMMA StartedIsOK ==
  ASSUME NEW code, WellFormed(code), NEW p, StateOK(code, p), NEW i, i.function \in DOMAIN code,
         \A v \in DOMAIN i.moves : i.moves[v] \in Var \cup Val,
         \A k \in 1 .. Len(p.context) : p.tids[k] < p.next_free_tid,
         NEW r, Started(p, r, i)
  PROVE  /\ StateOK(code, r) /\ Len(r.context) = Len(p.context) + 1
         /\ Laid(p) /\ p.context # << >> => Laid(r)
<1> DEFINE c == p.context
           n == p.next_free_tid
           fn == i.function
           X == << <<fn, 1>> >>
<1>1. /\ DOMAIN p = Fields
      /\ ThreadsOK(code, c, p.previous_bb)
      /\ TidsOK(p.tids, Len(c))
      /\ n \in 0 .. TidRange - 1
      /\ SectionOK(p.atomic_section, Len(c))
      /\ StoreOK(p)
  BY StateIs
<1>2. ThreadOK(code, X, NoPC) /\ X \in Seq(Positions(code))
  BY NewFrames
<1>3. /\ r.context = Append(c, X) /\ r.previous_bb = Append(p.previous_bb, NoPC)
      /\ r.tids = Append(p.tids, n) /\ r.next_free_tid = (n + 1) % TidRange
      /\ r.layout = Append(p.layout, <<fn>>)
      /\ r.atomic_section = p.atomic_section
      /\ r.explicitData = [p.explicitData EXCEPT ![i.slot] = n]
      /\ r.data = Stored(p.data, i.moves) /\ r.error = p.error
      /\ DOMAIN r = Fields
  BY DEF Started
<1> HIDE DEF X
<1>4. /\ ThreadsOK(code, Append(c, X), Append(p.previous_bb, NoPC))
      /\ Len(Append(c, X)) = Len(c) + 1
      /\ TidsOK(Append(p.tids, n), Len(c) + 1)
  <2> HIDE DEF c, n
  <2>1. \A k \in 1 .. Len(c) : p.tids[k] < n
    BY DEF c, n
  <2>2. QED
    BY <1>1, <1>2, <2>1, AddedThreads
<1>5. (n + 1) % TidRange \in 0 .. TidRange - 1
  <2>1. \A k \in Nat : k % TidRange \in 0 .. TidRange - 1
    BY TidRangeIs
  <2> HIDE DEF n
  <2>2. n \in Nat
    BY <1>1, TidRangeIs
  <2>3. QED
    BY <2>1, <2>2
<1>6. SectionOK(p.atomic_section, Len(c) + 1)
  <2> DEFINE a == p.atomic_section
             l == Len(c)
  <2>1. l \in Nat /\ a \in Seq(1 .. l)
    BY <1>1 DEF ThreadsOK, SectionOK
  <2> HIDE DEF a, l
  <2>2. a \in Seq(1 .. l + 1)
    <3>1. 1 .. l \subseteq 1 .. l + 1
      BY <2>1
    <3>2. QED
      BY <2>1, <3>1
  <2>3. QED
    BY <1>1, <2>2 DEF SectionOK, a, l
<1>7. StoreOK(r)
  <2>1. Stored(p.data, i.moves) \subseteq [Var -> Val]
    BY <1>1, StoredIn DEF StoreOK
  <2> DEFINE e == p.explicitData
             B == 0 .. TidRange - 1
  <2>2. e \in [Slot -> B]
    BY <1>1 DEF StoreOK
  <2> HIDE DEF e, B, n
  <2>3. n \in B
    BY <1>1 DEF B
  <2>4. [e EXCEPT ![i.slot] = n] \in [Slot -> B]
    BY <2>2, <2>3
  <2>5. QED
    BY <1>1, <1>3, <2>1, <2>4 DEF StoreOK, e, B
<1>8. StateOK(code, r)
  BY <1>3, <1>4, <1>5, <1>6, <1>7, StateIs
<1>9. ASSUME Laid(p), c # << >> PROVE Laid(r)
  <2>1. p.layout = LayoutOf(c) /\ c \in Seq(Seq(Positions(code)))
    BY <1>1, <1>9 DEF Laid, ThreadsOK
  <2> HIDE DEF c, fn
  <2>2. Append(LayoutOf(c), <<fn>>) = LayoutOf(Append(c, X))
    <3>1. fn \in DOMAIN code
      BY DEF fn
    <3>2. QED
      BY <1>2, <2>1, <3>1, LayoutAdded DEF X
  <2>3. QED
    BY <1>3, <2>1, <2>2 DEF Laid
<1>10. QED
  BY <1>3, <1>4, <1>8, <1>9

(* ... the interleavings follow it, ... *)
LEMMA StartedFollows ==
  ASSUME NEW code, WellFormed(code), NEW p, StateOK(code, p), NEW i, i.function \in DOMAIN code,
         \A k \in 1 .. Len(p.context) : p.tids[k] < p.next_free_tid,
         NEW r, Started(p, r, i),
         NEW g, Follows(code, p, g), g.next + 1 < TidRange
  PROVE  Follows(code, r, Spawn(g, i))
<1> DEFINE c == p.context
           n == p.next_free_tid
           fn == i.function
           X == << <<fn, 1>> >>
           h == Spawn(g, i)
<1>1. /\ DOMAIN p = Fields
      /\ ThreadsOK(code, c, p.previous_bb)
      /\ TidsOK(p.tids, Len(c))
      /\ n \in 0 .. TidRange - 1
      /\ SectionOK(p.atomic_section, Len(c))
  BY StateIs
<1>2. /\ ThreadOK(code, X, NoPC) /\ X \in Seq(Positions(code))
      /\ Instruction(code, Last(X)).op # "phi"
  <2>1. /\ X \in Seq(Positions(code)) /\ ThreadOK(code, X, NoPC)
        /\ Last(X) = <<fn, 1>> /\ Instruction(code, <<fn, 1>>).op # "phi"
    BY NewFrames
  <2> HIDE DEF X
  <2>2. QED
    BY <2>1
<1>3. /\ r.context = Append(c, X) /\ r.previous_bb = Append(p.previous_bb, NoPC)
      /\ r.tids = Append(p.tids, n) /\ r.next_free_tid = (n + 1) % TidRange
      /\ r.atomic_section = p.atomic_section
      /\ r.explicitData = [p.explicitData EXCEPT ![i.slot] = n]
      /\ r.error = p.error
  BY DEF Started
<1>4. /\ DOMAIN g = ViewFields
      /\ Agrees(code, c, p.previous_bb, p.tids, g.stack, g.came)
      /\ g.owner = IF p.atomic_section = << >> THEN NoThread ELSE p.tids[p.atomic_section[1]]
      /\ g.depth = Len(p.atomic_section)
      /\ g.slots = p.explicitData /\ g.next = n /\ g.err = p.error
  BY DEF Follows
<1>5. /\ Alike(g, h, {"stack", "came", "slots", "next", "mem"})
      /\ h.stack = [x \in DOMAIN g.stack \cup {g.next} |-> IF x = g.next THEN X ELSE g.stack[x]]
      /\ h.came = [x \in DOMAIN g.came \cup {g.next} |-> IF x = g.next THEN <<0, g.mem>> ELSE g.came[x]]
      /\ h.slots = [g.slots EXCEPT ![i.slot] = g.next]
      /\ h.next = g.next + 1
  <2>1. Spawned(g, h, i)
    BY <1>4, SpawnFields
  <2> HIDE DEF h
  <2>2. QED
    BY <2>1 DEF Spawned
<1> HIDE DEF h, X
<1>6. Adding(g.stack, h.stack, n, X) /\ Adding(g.came, h.came, n, <<0, g.mem>>)
  BY <1>4, <1>5 DEF Adding
<1>7. Agrees(code, Append(c, X), Append(p.previous_bb, NoPC), Append(p.tids, n), h.stack, h.came)
  <2> HIDE DEF c, n
  <2>1. \A k \in 1 .. Len(c) : p.tids[k] < n
    BY DEF c, n
  <2>2. NoPC \in Positions(code) \cup {NoPC}
    OBVIOUS
  <2>3. QED
    BY <1>1, <1>2, <1>4, <1>6, <2>1, <2>2, AddedAgrees
<1>8. n + 1 < TidRange /\ n \in Nat
  BY <1>1, <1>4, TidRangeIs
<1>9. (n + 1) % TidRange = n + 1
  <2>1. \A k \in Nat : k < TidRange => k % TidRange = k
    BY TidRangeIs
  <2> HIDE DEF n
  <2>2. QED
    BY <1>8, <2>1
<1>10. /\ Len(Append(c, X)) = Len(c) + 1 /\ Len(c) \in Nat
       /\ \A k \in 1 .. Len(c) : Append(p.tids, n)[k] = p.tids[k]
       /\ Append(p.tids, n)[Len(c) + 1] = n
  <2> DEFINE T == 0 .. TidRange - 1
             SP == Seq(Positions(code))
             q == p.tids
  <2>1. q \in Seq(T) /\ Len(q) = Len(c) /\ c \in Seq(SP) /\ X \in SP /\ n \in T
    BY <1>1, <1>2 DEF TidsOK, ThreadsOK
  <2> HIDE DEF T, SP, q, c, n
  <2>2. Len(Append(c, X)) = Len(c) + 1 /\ Len(c) \in Nat
    BY <2>1, Appending
  <2>3. (\A k \in 1 .. Len(q) : Append(q, n)[k] = q[k]) /\ Append(q, n)[Len(q) + 1] = n
    BY <2>1, Appending
  <2>4. QED
    BY <2>1, <2>2, <2>3 DEF q
<1>11. \A k \in 1 .. Len(r.context) : r.tids[k] < r.next_free_tid
  <2>1. SUFFICES ASSUME NEW k \in 1 .. Len(c) + 1 PROVE Append(p.tids, n)[k] < n + 1
    BY <1>3, <1>9, <1>10
  <2>2. CASE k = Len(c) + 1
    <3>1. Append(p.tids, n)[k] = n
      BY <1>10, <2>2
    <3> HIDE DEF n
    <3>2. QED
      BY <1>8, <3>1
  <2>3. CASE k \in 1 .. Len(c)
    <3>1. p.tids[k] < n /\ p.tids[k] \in 0 .. TidRange - 1
      <4>1. p.tids[k] < n
        BY <2>3
      <4> DEFINE T == 0 .. TidRange - 1
                 q == p.tids
                 l == Len(c)
      <4>2. q \in Seq(T) /\ Len(q) = l /\ k \in 1 .. l
        BY <1>1, <2>3 DEF TidsOK
      <4> HIDE DEF q, T, l
      <4>3. q[k] \in T
        BY <4>2
      <4>4. QED
        BY <4>1, <4>3 DEF q, T
    <3>2. p.tids[k] \in Nat
      BY <3>1, TidRangeIs
    <3> DEFINE a == p.tids[k]
               b == Append(p.tids, n)[k]
    <3>3. a < n /\ a \in Nat /\ n \in Nat /\ b = a
      BY <1>8, <1>10, <2>3, <3>1, <3>2
    <3> HIDE DEF a, b, n
    <3>4. b < n + 1
      BY <3>3
    <3>5. QED
      BY <3>4 DEF b
  <2>4. k \in 1 .. Len(c) \/ k = Len(c) + 1
    BY <1>10
  <2>5. QED
    BY <2>1, <2>2, <2>3, <2>4
<1>12. h.owner = IF r.atomic_section = << >> THEN NoThread ELSE r.tids[r.atomic_section[1]]
  <2>1. p.atomic_section # << >> => p.atomic_section[1] \in 1 .. Len(c)
    BY <1>1, <1>10, SectionIs
  <2>2. h.owner = g.owner
    BY <1>5 DEF Alike
  <2>3. QED
    BY <1>3, <1>4, <1>10, <2>1, <2>2
<1>13. /\ DOMAIN h = ViewFields /\ h.depth = Len(r.atomic_section) /\ h.slots = r.explicitData
       /\ h.next = r.next_free_tid /\ h.err = r.error
  BY <1>3, <1>4, <1>5, <1>9 DEF Alike
<1>14. QED
  BY <1>3, <1>7, <1>11, <1>12, <1>13 DEF Follows, h

(* ... and so it is good. *)
LEMMA CreateGood ==
  ASSUME NEW code, NEW s, NEW tid, Ready(code, s, tid), Current(code, s, tid).op = "create"
  PROVE  AllGood(code, s, tid)
<1> DEFINE i == Current(code, s, tid)
           t == s.tids[tid]
           f == [s EXCEPT !.previous_bb[tid] = NoPC]
           p == Past(s, tid)
           T == 0 .. TidRange - 1
<1>1. /\ s.error = FALSE /\ s.next_free_tid \in T /\ StoreOK(s) /\ WellFormed(code)
      /\ TidsOK(s.tids, Len(s.context)) /\ SectionOK(s.atomic_section, Len(s.context))
      /\ tid \in 1 .. Len(s.context) /\ Len(s.context) \in Nat
  BY ReadyFacts
<1>v. OperandsExist(code, i) /\ s.data \subseteq [Var -> Val]
  BY OperandsAre
<1>m. i.function \in DOMAIN code /\ \A v \in DOMAIN i.moves : i.moves[v] \in Var \cup Val
  BY <1>v DEF OperandsExist
<1>2. Outcomes(code, s, tid) = PthreadCreate(p, i)
  <2>1. Outcomes(code, s, tid) = DoCall(code, f, s, i, tid)
    BY <1>1, OutcomesOfCall DEF CallOps
  <2>2. DoCall(code, f, s, i, tid) = PthreadCreate(p, i)
    BY DEF DoCall, Past
  <2> HIDE DEF f, p
  <2>4. QED
    BY <2>1, <2>2
<1>3. Stepped(code, s, p, tid) /\ Calm(s, p) /\ p.data = s.data /\ DOMAIN p = Fields
  BY PastIs
<1> HIDE DEF p
<1>4. p.tids = s.tids /\ p.next_free_tid = s.next_free_tid /\ p.tids \in Seq(T) /\ p.next_free_tid \in T
  BY <1>1, <1>3 DEF Stepped, TidsOK
<1>5. PICK r : PthreadCreate(p, i) = <<Outcome(r, TRUE)>> /\ Started(p, r, i)
  BY <1>3, <1>4, StartedIs
<1>6. i.op \notin Terminators /\ SectionOK(p.atomic_section, Len(s.context)) /\ StoreOK(p)
  BY <1>1, <1>3 DEF Terminators, Calm, StoreOK
<1>7. StateOK(code, p) /\ Len(p.context) = Len(s.context) /\ (Laid(s) => Laid(p))
  BY <1>3, <1>6, SteppedIsOK
<1>8. \A k \in 1 .. Len(p.context) : p.tids[k] < p.next_free_tid
  BY <1>4, <1>7 DEF Ready
<1>9. StateOK(code, r) /\ Len(r.context) = Len(p.context) + 1
      /\ (Laid(p) /\ p.context # << >> => Laid(r))
  BY <1>1, <1>m, <1>5, <1>7, <1>8, StartedIsOK
<1>10. Laid(s) => Laid(r)
  <2>1. p.context # << >>
    <3>1. Len(p.context) # 0
      BY <1>1, <1>7
    <3>2. Len(<< >>) = 0
      OBVIOUS
    <3>3. QED
      BY <3>1, <3>2
  <2>2. QED
    BY <1>7, <1>9, <2>1
<1>11. ASSUME NEW g, Follows(code, s, g)
       PROVE  \E h \in StepsOf(code, g, t) :
                h.mem = Given(g.mem, i.moves) /\ (h.next < TidRange => Follows(code, r, h))
  <2> DEFINE on == GoOn(g, t)
             h == Spawn(on, i)
  <2>1. /\ Instruction(code, Here(g, t)) = i /\ DOMAIN g = ViewFields
        /\ g.owner = (IF s.atomic_section = << >> THEN NoThread ELSE s.tids[s.atomic_section[1]])
        /\ g.depth = Len(s.atomic_section)
        /\ g.slots = s.explicitData /\ g.err = s.error
    BY <1>11, ViewIs
  <2>2. h \in StepsOf(code, g, t)
    BY <2>1 DEF StepsOf
  <2>3. Onward(g, on, t) /\ on.mem = g.mem /\ DOMAIN on = ViewFields
    BY <2>1, OnIs
  <2> HIDE DEF on
  <2>4. SteppedView(g, on, t)
    BY <2>3 DEF Onward, Alike, SteppedView
  <2>5. /\ on.owner = IF p.atomic_section = << >> THEN NoThread ELSE s.tids[p.atomic_section[1]]
        /\ on.depth = Len(p.atomic_section) /\ on.slots = p.explicitData /\ on.err = p.error
    BY <1>3, <2>1, <2>3 DEF Onward, Alike, Calm
  <2>6. Follows(code, p, on)
    BY <1>3, <1>6, <1>11, <2>4, <2>5, SteppedFollows
  <2>7. Spawned(on, h, i)
    BY <2>3, SpawnFields
  <2>8. h.next < TidRange => Follows(code, r, h)
    <3>1. h.next = on.next + 1
      BY <2>7 DEF Spawned
    <3>2. ASSUME on.next + 1 < TidRange PROVE Follows(code, r, h)
      BY <1>1, <1>m, <1>5, <1>7, <1>8, <2>6, <3>2, StartedFollows
    <3>3. QED
      BY <3>1, <3>2
  <2> HIDE DEF h
  <2>9. h.mem = Given(g.mem, i.moves)
    BY <2>3, <2>7 DEF Spawned
  <2>10. QED
    BY <2>2, <2>8, <2>9
<1>12. Backed(code, s, tid, r)
  <2> DEFINE w == i.moves
  <2>0. \A v \in DOMAIN w : w[v] \in Var \cup Val
    BY <1>m
  <2> HIDE DEF w
  <2>1. \A m \in Stored(s.data, w) : \E m0 \in s.data : m = Given(m0, w)
    BY <1>v, <2>0, StoredIn
  <2>r. r.data = Stored(s.data, w)
    BY <1>3, <1>5 DEF Started, w
  <2>m. ASSUME NEW m \in r.data PROVE \E m0 \in s.data : m = Given(m0, i.moves)
    BY <2>1, <2>r DEF w
  <2>2. QED
    BY <1>11, <2>m DEF Backed, Stands
<1>13. ASSUME NEW obs, obs # FALSE PROVE Good(code, s, tid, Outcome(r, obs))
  <2> DEFINE o == Outcome(r, obs)
  <2>1. o.state = r /\ o.is_observable = obs /\ o.is_empty = (r.data = {})
    BY OutcomeIs
  <2> HIDE DEF o
  <2>2. Good(code, s, tid, o)
    BY <1>9, <1>10, <1>12, <1>13, <2>1 DEF Good
  <2>3. QED
    BY <2>2 DEF o
<1>14. Good(code, s, tid, Outcome(r, TRUE))
  BY <1>13
<1>15. QED
  BY <1>2, <1>5, <1>14, OneOutcome

-----------------------------------------------------------------------------
(* All instructions.                                                       *)

(* Whatever the instruction is, its outcomes are good: in order, and every
   valuation of theirs comes from one before, by a step some interleaving of
   the threads has; and so is what an instruction without outcomes leaves. *)
THEOREM OutcomesAreGood ==
  ASSUME NEW code, NEW s, NEW tid, Ready(code, s, tid), NEW g0, Follows(code, s, g0)
  PROVE  /\ AllGood(code, s, tid)
         /\ Outcomes(code, s, tid) = << >> =>
              /\ Good(code, s, tid, Outcome(LeftBehind(code, s, tid), FALSE))
              /\ LeftBehind(code, s, tid).data = s.data /\ LeftBehind(code, s, tid).error = FALSE
<1> DEFINE op == Current(code, s, tid).op
<1>1. op \in Operations
  BY OperandsAre
<1>2. CASE op = "ldv_"
  <2>1. Outcomes(code, s, tid) = << >>
    BY <1>2, NothingComesOut
  <2>2. AllGood(code, s, tid)
    <3>1. Len(<< >>) = 0
      OBVIOUS
    <3>2. QED
      BY <1>2, <2>1, <3>1 DEF AllGood
  <2>3. QED
    <3>1. Current(code, s, tid).op # "phi"
      BY <1>2
    <3>2. Past(s, tid).data = s.data /\ Past(s, tid).error = FALSE
      <4> DEFINE p == Past(s, tid)
      <4>1. Calm(s, p) /\ p.data = s.data
        BY <3>1, PastIs
      <4> HIDE DEF p
      <4>2. p.data = s.data /\ p.error = FALSE
        BY <4>1, ReadyFacts DEF Calm
      <4>3. QED
        BY <4>2 DEF p
    <3>3. QED
      BY <1>2, <2>2, <3>2, LeftIsOK
<1>3. CASE op # "ldv_"
  <2>1. AllGood(code, s, tid)
    <3> HIDE DEF op
    <3>1. CASE op \in {"local", "load", "store", "phi", "icmp", "jump", "br", "switch"}
      BY <3>1, MovesGood, PhiGood, IcmpGood, BreakGood, SwitchGood DEF op
    <3>2. CASE op \in {"ignored", "assume", "input", "error", "lock", "unlock", "join", "assert"}
      BY <3>2, IgnoredGood, AssumeGood, InputGood, ErrorGood, LockGood, UnlockGood, JoinGood, AssertGood DEF op
    <3>3. CASE op \in {"atomic_begin", "atomic_end", "call", "create", "exit", "pthread_exit"}
      BY <3>3, BeginGood, EndGood, CallGood, CreateGood, ExitGood, PthreadExitGood DEF op
    <3>4. CASE op = "ret"
      BY <3>4, ReturnEndsGood, ReturnBackGood DEF op
    <3>5. QED
      BY <1>1, <1>3, <3>1, <3>2, <3>3, <3>4 DEF Operations, Terminators
  <2>2. Outcomes(code, s, tid) # << >>
    <3>1. Len(<< >>) = 0
      OBVIOUS
    <3>2. QED
      BY <1>3, <2>1, <3>1 DEF AllGood
  <2>3. QED
    BY <2>1, <2>2
<1>4. QED
  BY <1>2, <1>3

-----------------------------------------------------------------------------
(* The flags of outcomes.                                                  *)

(* every outcome is observable or not *)
Flagged(outcomes) == \A k \in 1 .. Len(outcomes) : outcomes[k].is_observable \in BOOLEAN

(* One outcome, ... *)
LEMMA OneFlag ==
  ASSUME NEW r, NEW b, b \in BOOLEAN
  PROVE  Flagged(<<Outcome(r, b)>>)
<1> DEFINE o == Outcome(r, b)
<1>1. o.is_observable = b
  BY DEF Outcome
<1> HIDE DEF o
<1>2. Len(<<o>>) = 1 /\ <<o>>[1] = o
  OBVIOUS
<1>3. Flagged(<<o>>)
  BY <1>1, <1>2 DEF Flagged
<1>4. QED
  BY <1>3 DEF o

(* ... and two. *)
LEMMA TwoFlags ==
  ASSUME NEW r, NEW b, b \in BOOLEAN, NEW q, NEW d, d \in BOOLEAN
  PROVE  Flagged(<<Outcome(r, b), Outcome(q, d)>>)
<1> DEFINE o == Outcome(r, b)
           p == Outcome(q, d)
<1>1. o.is_observable = b /\ p.is_observable = d
  BY DEF Outcome
<1> HIDE DEF o, p
<1>2. Len(<<o, p>>) = 2 /\ <<o, p>>[1] = o /\ <<o, p>>[2] = p
  OBVIOUS
<1>3. \A k \in 1 .. 2 : k = 1 \/ k = 2
  OBVIOUS
<1>4. Flagged(<<o, p>>)
  BY <1>1, <1>2, <1>3 DEF Flagged
<1>5. QED
  BY <1>4 DEF o, p

(* Instructions on data. *)
LEMMA DataFlags ==
  ASSUME NEW s, NEW x, NEW i, NEW tid, NEW code
  PROVE  /\ Flagged(DoLocal(s, i, tid)) /\ Flagged(DoLoadStore(s, i, tid)) /\ Flagged(DoPhi(s, i, tid))
         /\ Flagged(DoInput(s, i, tid)) /\ Flagged(DoIcmp(s, x, i, tid)) /\ Flagged(DoReturn(code, s, i, tid))
<1>t. TRUE \in BOOLEAN /\ FALSE \in BOOLEAN
  OBVIOUS
<1>1. Flagged(DoLocal(s, i, tid)) /\ Flagged(DoLoadStore(s, i, tid)) /\ Flagged(DoPhi(s, i, tid))
  BY <1>t, OneFlag DEF DoLocal, DoLoadStore, DoPhi
<1>2. Flagged(DoInput(s, i, tid))
  <2> DEFINE r == [AdvancePC(s, tid) EXCEPT !.data = {[m EXCEPT ![i.to] = n] : m \in s.data, n \in Val}]
  <2>1. DoInput(s, i, tid) = <<Outcome(r, FALSE)>>
    BY DEF DoInput
  <2> HIDE DEF r
  <2>2. QED
    BY <1>t, <2>1, OneFlag
<1>3. Flagged(DoReturn(code, s, i, tid))
  <2> DEFINE left == IF code[GetPC(s, tid)[1]].atomic THEN LeaveAtomicSection(s, tid) ELSE s
             r == PopFrame(IF LastFrame(s, tid) THEN left ELSE Store(left, i.moves), tid)
  <2>1. DoReturn(code, s, i, tid) = <<Outcome(r, TRUE)>>
    BY DEF DoReturn
  <2> HIDE DEF r
  <2>2. QED
    BY <1>t, <2>1, OneFlag
<1>4. Flagged(DoIcmp(s, x, i, tid))
  BY <1>t, TwoFlags DEF DoIcmp
<1>5. QED
  BY <1>1, <1>2, <1>3, <1>4

(* A branch. *)
LEMMA BranchFlag ==
  ASSUME NEW code, NEW s, NEW i, NEW tid, NEW n
  PROVE  Branch(code, s, i, tid, n).is_observable \in BOOLEAN
<1> DEFINE to == <<GetPC(s, tid)[1], n>>
           r == JumpTo(s, to, tid, Instruction(code, to).op = "phi")
           b == n \in i.backward
<1>1. Branch(code, s, i, tid, n) = Outcome(r, b)
  BY DEF Branch
<1>2. b \in BOOLEAN
  OBVIOUS
<1> HIDE DEF r, b
<1>3. Outcome(r, b).is_observable = b
  BY DEF Outcome
<1>4. QED
  BY <1>1, <1>2, <1>3

(* Jumps. *)
LEMMA JumpFlags ==
  ASSUME NEW code, NEW s, NEW x, NEW i, NEW tid, i.op = "switch" => Len(i.cases) \in Nat
  PROVE  Flagged(DoBreak(code, s, x, i, tid)) /\ (i.op = "switch" => Flagged(DoSwitch(code, s, x, i, tid)))
<1>1. Flagged(DoBreak(code, s, x, i, tid))
  <2>1. CASE i.op = "jump"
    <3> DEFINE o == Branch(code, s, i, tid, i.target)
    <3>1. DoBreak(code, s, x, i, tid) = <<o>> /\ o.is_observable \in BOOLEAN
      BY <2>1, BranchFlag DEF DoBreak
    <3> HIDE DEF o
    <3>2. Len(<<o>>) = 1 /\ <<o>>[1] = o
      OBVIOUS
    <3>3. QED
      BY <3>1, <3>2 DEF Flagged
  <2>2. CASE i.op # "jump"
    <3> DEFINE o == Branch(code, PruneEQ(s, i.cond, 1), i, tid, i.on_true)
               p == Branch(code, PruneEQ(x, i.cond, 0), i, tid, i.on_false)
    <3>1. DoBreak(code, s, x, i, tid) = <<o, p>> /\ o.is_observable \in BOOLEAN /\ p.is_observable \in BOOLEAN
      BY <2>2, BranchFlag DEF DoBreak
    <3> HIDE DEF o, p
    <3>2. Len(<<o, p>>) = 2 /\ <<o, p>>[1] = o /\ <<o, p>>[2] = p
      OBVIOUS
    <3>3. \A k \in 1 .. 2 : k = 1 \/ k = 2
      OBVIOUS
    <3>4. QED
      BY <3>1, <3>2, <3>3 DEF Flagged
  <2>3. QED
    BY <2>1, <2>2
<1>2. ASSUME i.op = "switch" PROVE Flagged(DoSwitch(code, s, x, i, tid))
  <2> DEFINE n == Len(i.cases)
             B(k) == Branch(code, PruneEQ(IF k = 1 THEN s ELSE x, i.cond, i.cases[k].value),
                            i, tid, i.cases[k].target)
             A == [k \in 1 .. n |-> B(k)]
             d == Branch(code,
                         [x EXCEPT !.data = {m \in @ : \A k \in 1 .. n :
                                                         Read(m, i.cond) # i.cases[k].value}],
                         i, tid, i.default)
  <2>1. DoSwitch(code, s, x, i, tid) = A \o <<d>>
    BY DEF DoSwitch
  <2>2. d.is_observable \in BOOLEAN /\ \A k \in 1 .. n : B(k).is_observable \in BOOLEAN
    BY BranchFlag
  <2>3. n \in Nat
    BY <1>2
  <2> HIDE DEF B, d, n
  <2> DEFINE T == {B(k) : k \in 1 .. n} \cup {d}
  <2>4. A \in [1 .. n -> T] /\ d \in T /\ \A k \in 1 .. n : A[k] = B(k)
    OBVIOUS
  <2> HIDE DEF A, T
  <2>5. /\ Len(A \o <<d>>) = n + 1
        /\ \A k \in 1 .. n : (A \o <<d>>)[k] = A[k]
        /\ (A \o <<d>>)[n + 1] = d
    BY <2>3, <2>4, AppendedFunction
  <2>6. \A k \in 1 .. n + 1 : k \in 1 .. n \/ k = n + 1
    BY <2>3
  <2>7. \A k \in 1 .. n + 1 : (A \o <<d>>)[k].is_observable \in BOOLEAN
    BY <2>2, <2>4, <2>5, <2>6
  <2>8. QED
    BY <2>1, <2>5, <2>7 DEF Flagged
<1>3. QED
  BY <1>1, <1>2

(* Calls. *)
LEMMA CallFlags ==
  ASSUME NEW code, NEW s, NEW x, NEW i, NEW tid, i.op \in CallOps,
         i.op = "call" => code[i.function].atomic \in BOOLEAN
  PROVE  Flagged(DoCall(code, s, x, i, tid))
<1> DEFINE p == AdvancePC(s, tid)
           D == DoCall(code, s, x, i, tid)
<1>t. TRUE \in BOOLEAN /\ FALSE \in BOOLEAN /\ \A y : (~ AmILonelyThread(y)) \in BOOLEAN
  BY DEF AmILonelyThread
<1>1. CASE i.op \in {"ignored", "assume", "error"}
  <2>1. D = <<Outcome(p, FALSE)>> \/ D = <<Outcome(PruneNE(p, i.cond, 0), FALSE)>>
        \/ \E r : D = <<Outcome(r, TRUE)>>
    BY <1>1 DEF DoCall
  <2> HIDE DEF p, D
  <2>2. QED
    BY <1>t, <2>1, OneFlag DEF D
<1>2. CASE i.op = "ldv_"
  <2>1. D = << >> /\ Len(<< >>) = 0
    BY <1>2 DEF DoCall
  <2> HIDE DEF D
  <2>2. QED
    BY <2>1 DEF Flagged, D
<1>3. CASE i.op = "input"
  <2>1. D = DoInput(s, i, tid)
    BY <1>3 DEF DoCall
  <2> HIDE DEF D
  <2>2. QED
    BY <2>1, DataFlags DEF D
<1>4. CASE i.op = "create"
  <2>1. D = PthreadCreate(p, i)
    BY <1>4 DEF DoCall
  <2> HIDE DEF D, p
  <2> DEFINE y == NewThread(p, i.function)
             r == [Store(y, i.moves) EXCEPT !.explicitData[i.slot] = Last(y.tids)]
  <2>2. PthreadCreate(p, i) = <<Outcome(r, TRUE)>>
    BY DEF PthreadCreate
  <2> HIDE DEF r
  <2>3. QED
    BY <1>t, <2>1, <2>2, OneFlag DEF D
<1>5. CASE i.op = "join"
  <2>1. D = PthreadJoin(p, s, i)
    BY <1>5 DEF DoCall
  <2> HIDE DEF D, p
  <2> DEFINE r == IF HasTid(p, p.explicitData[i.slot]) THEN s ELSE p
             b == ~ AmILonelyThread(p)
  <2>2. PthreadJoin(p, s, i) = <<Outcome(r, b)>> /\ b \in BOOLEAN
    BY <1>t DEF PthreadJoin
  <2> HIDE DEF r, b
  <2>3. QED
    BY <2>1, <2>2, OneFlag DEF D
<1>6. CASE i.op = "exit"
  <2>1. D = Exit(p)
    BY <1>6 DEF DoCall
  <2> HIDE DEF D, p
  <2> DEFINE r == [p EXCEPT !.context = << >>, !.previous_bb = << >>, !.tids = << >>]
  <2>2. Exit(p) = <<Outcome(r, TRUE)>>
    BY DEF Exit
  <2> HIDE DEF r
  <2>3. QED
    BY <1>t, <2>1, <2>2, OneFlag DEF D
<1>7. CASE i.op = "pthread_exit"
  <2>1. D = PthreadExit(p, tid)
    BY <1>7 DEF DoCall
  <2> HIDE DEF D, p
  <2>2. QED
    BY <1>t, <2>1, OneFlag DEF D, PthreadExit
<1>8. CASE i.op = "assert"
  <2>1. D = DoAssert(p, x, i, tid)
    BY <1>8 DEF DoCall
  <2> HIDE DEF D, p
  <2> DEFINE r == [PruneEQ(x, i.cond, 0) EXCEPT !.error = TRUE]
  <2>2. DoAssert(p, x, i, tid) = <<Outcome(PruneNE(p, i.cond, 0), FALSE), Outcome(r, TRUE)>>
    BY DEF DoAssert
  <2> HIDE DEF r
  <2>3. QED
    BY <1>t, <2>1, <2>2, TwoFlags DEF D
<1>9. CASE i.op = "lock"
  <2>1. D = MutexLock(p, s, i)
    BY <1>9 DEF DoCall
  <2> HIDE DEF D, p
  <2> DEFINE r == IF p.explicitData[i.slot] # 0 THEN s ELSE [p EXCEPT !.explicitData[i.slot] = 1]
             b == ~ AmILonelyThread(p)
  <2>2. MutexLock(p, s, i) = <<Outcome(r, b)>> /\ b \in BOOLEAN
    BY <1>t DEF MutexLock
  <2> HIDE DEF r, b
  <2>3. QED
    BY <2>1, <2>2, OneFlag DEF D
<1>10. CASE i.op = "unlock"
  <2>1. D = MutexUnlock(p, i)
    BY <1>10 DEF DoCall
  <2> HIDE DEF D, p
  <2> DEFINE r == [p EXCEPT !.explicitData[i.slot] = 0]
             b == ~ AmILonelyThread(p)
  <2>2. MutexUnlock(p, i) = <<Outcome(r, b)>> /\ b \in BOOLEAN
    BY <1>t DEF MutexUnlock
  <2> HIDE DEF r, b
  <2>3. QED
    BY <2>1, <2>2, OneFlag DEF D
<1>11. CASE i.op \in {"atomic_begin", "atomic_end"}
  <2> DEFINE b == ~ AmILonelyThread(s)
  <2>1. D = <<Outcome(EnterAtomicSection(p, tid), b)>> \/ D = <<Outcome(LeaveAtomicSection(p, tid), b)>>
    BY <1>11 DEF DoCall
  <2>2. b \in BOOLEAN
    BY <1>t
  <2> HIDE DEF D, p, b
  <2>3. QED
    BY <2>1, <2>2, OneFlag DEF D
<1>12. CASE i.op = "call"
  <2>1. D = CallDefined(code, p, i, tid)
    BY <1>12 DEF DoCall
  <2> HIDE DEF D, p
  <2> DEFINE b == code[i.function].atomic
             y == IF b THEN EnterAtomicSection(p, tid) ELSE p
             r == PushFrame(Store(y, i.moves), i.function, tid)
  <2>2. CallDefined(code, p, i, tid) = <<Outcome(r, b)>> /\ b \in BOOLEAN
    BY <1>12 DEF CallDefined
  <2> HIDE DEF r, b
  <2>3. QED
    BY <2>1, <2>2, OneFlag DEF D
<1>13. QED
  BY <1>1, <1>2, <1>3, <1>4, <1>5, <1>6, <1>7, <1>8, <1>9, <1>10, <1>11, <1>12 DEF CallOps

(* All instructions. *)
LEMMA OutcomesAreFlagged ==
  ASSUME NEW code, NEW s, NEW tid, Ready(code, s, tid)
  PROVE  Flagged(Outcomes(code, s, tid))
<1> DEFINE i == Current(code, s, tid)
           f == [s EXCEPT !.previous_bb[tid] = NoPC]
           O == Outcomes(code, s, tid)
<1>1. s.error = FALSE /\ WellFormed(code)
  BY ReadyFacts
<1>2. OperandsExist(code, i) /\ i.op \in Operations
  BY OperandsAre
<1>3. CASE i.op \in CallOps
  <2>1. O = DoCall(code, f, s, i, tid)
    BY <1>1, <1>3, OutcomesOfCall
  <2>2. i.op = "call" => code[i.function].atomic \in BOOLEAN
    BY <1>1, <1>2 DEF OperandsExist, WellFormed
  <2> HIDE DEF O, f, i
  <2>3. QED
    BY <1>3, <2>1, <2>2, CallFlags DEF O
<1>4. CASE i.op \in {"local", "load", "store", "icmp", "ret"}
  <2>1. \/ O = DoLocal(f, i, tid) \/ O = DoLoadStore(f, i, tid) \/ O = DoIcmp(f, s, i, tid)
        \/ O = DoReturn(code, f, i, tid)
    BY <1>1, <1>4 DEF Outcomes
  <2> HIDE DEF O, f, i
  <2>2. QED
    BY <2>1, DataFlags DEF O
<1>5. CASE i.op = "phi"
  <2>1. O = DoPhi(s, i, tid)
    BY <1>1, <1>5 DEF Outcomes
  <2> HIDE DEF O, i
  <2>2. QED
    BY <2>1, DataFlags DEF O
<1>6. CASE i.op \in {"jump", "br", "switch"}
  <2>1. O = DoBreak(code, f, s, i, tid) \/ (i.op = "switch" /\ O = DoSwitch(code, f, s, i, tid))
    BY <1>1, <1>6 DEF Outcomes
  <2>2. i.op = "switch" => Len(i.cases) \in Nat
    <3>1. ASSUME i.op = "switch" PROVE i.cases \in Seq(ToSet(i.cases))
      BY <1>2, <3>1 DEF OperandsExist
    <3> DEFINE q == i.cases
               T == ToSet(q)
    <3>2. q \in Seq(T) => Len(q) \in Nat
      <4> HIDE DEF q, T
      <4>1. QED
        OBVIOUS
    <3>3. QED
      BY <3>1, <3>2
  <2> HIDE DEF O, f, i
  <2>3. QED
    BY <2>1, <2>2, JumpFlags DEF O
<1>7. QED
  BY <1>2, <1>3, <1>4, <1>5, <1>6 DEF Operations, Terminators, CallOps
=============================================================================
