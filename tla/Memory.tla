------------------------------- MODULE Memory -------------------------------
(***************************************************************************)
(* Memory by segments.  MemoryLayout gives every frame of every thread a   *)
(* range of segments - its registers, then one for each alloca - and the   *)
(* stores keep their contents by segment number.  The segments of a thread *)
(* follow each other and come before those of the next thread, so that a   *)
(* segment that is inserted or erased renumbers those behind it, and the   *)
(* pointers to them (src/src/llvmsym/memorylayout.h, memorylayout.cpp,     *)
(* explicitstore.h, and the evaluator's operations on them).               *)
(*                                                                         *)
(* A state is a record: thread_segments and segments_in_stack of the       *)
(* layout; explicitData, the cells of each segment; segments_mapping and   *)
(* fst_unused_id of the symbolic store, which name segments once and for   *)
(* all.  Left out are segment 0, the constant pointers to the globals;      *)
(* segments_to_tid, which nothing reads; offsets, which do not change; and   *)
(* variablesFlags, the layout's table of known and unknown values, which is  *)
(* in Values (setMultival).  Segment numbers are integers here: the width of *)
(* a pointer's segment field is SegmentRange, the 16 bits of the numbers in  *)
(* the layout are not modelled, as MaxSegments keeps them small.             *)
(* Cells hold pointers or numbers, and the program keeps pointers in cells *)
(* of pointer types: one that is stored as a number is not renumbered.     *)
(*                                                                         *)
(* A cell keeps in meant the name of the segment its pointer was made for: *)
(* a history that no step looks at.                                        *)
(***************************************************************************)
EXTENDS Integers, Sequences, SequencesExt, FiniteSets

CONSTANTS
  Register,          \* the cells of the first segment of a frame
  Cell,              \* the cells of the other segments
  SegmentRange,      \* how many numbers a pointer's segment field has: 2^32
  ForeignArguments,  \* may calls pass pointers into stacks of later threads?
  MaxThreads, MaxFrames,  \* bounds: threads alive, frames of one thread
  MaxSegments,            \* bound: segments alive
  MaxNames                \* bound: segments made in a run

ASSUME SegmentRangeAssumption ==   \* the globals and main's frame have names
  MaxNames \in Nat /\ MaxNames > 1 /\ SegmentRange \in Nat /\ SegmentRange > 2 * MaxNames
ASSUME ForeignArgumentsAssumption == ForeignArguments \in BOOLEAN
ASSUME RegisterAssumption == 1 \in Register   \* the register of the parameter

VARIABLE state

GlobalSegment == 1

Blank == [is_pointer |-> FALSE, seg |-> 0, meant |-> 0]
BlankSegment(cells) == [c \in cells |-> Blank]

PointerTo(m, sid) == [is_pointer |-> TRUE, seg |-> sid, meant |-> m.segments_mapping[sid]]

ThreadCount(m) == Len(m.thread_segments)

-----------------------------------------------------------------------------
(* MemoryLayout *)

(* getLastStackSegmentRange, the first and the last segment; prev is the
   range of the calling frame *)
LastRange(m, tid) ==
  LET last == Last(m.thread_segments[tid])
  IN  <<last - Last(m.segments_in_stack[tid]) + 1, last>>

(* variant: the calling frame is taken to be as long as the called one *)
PrevRangeSameLength(m, tid) ==
  LET own  == m.thread_segments[tid]
      last == own[Len(own) - Last(m.segments_in_stack[tid])]
  IN  <<last - Last(m.segments_in_stack[tid]) + 1, last>>

PrevRange(m, tid) ==
  LET own   == m.thread_segments[tid]
      width == m.segments_in_stack[tid]
      last  == own[Len(own) - Last(width)]
  IN  <<last - width[Len(width) - 1] + 1, last>>

NewStack(m, tid) == [m EXCEPT !.segments_in_stack[tid] = Append(@, 0)]

(* the number newSegment gives: behind the thread's own segments, or behind
   those of the thread before *)
WantedSid(m, tid) ==
  IF m.thread_segments[tid] # << >> THEN Last(m.thread_segments[tid]) + 1
  ELSE IF tid = 1 THEN 2 ELSE Last(m.thread_segments[tid - 1]) + 1

NewSegment(m, tid) ==
  LET renumbered(i) == LET own == m.thread_segments[i] IN [k \in DOMAIN own |-> own[k] + 1]
  IN  [m EXCEPT
         !.thread_segments = [i \in DOMAIN m.thread_segments |->
                                IF i < tid THEN m.thread_segments[i]
                                ELSE IF i = tid THEN Append(m.thread_segments[i], WantedSid(m, tid))
                                ELSE renumbered(i)],
         !.segments_in_stack[tid] = Append(Front(@), Last(@) + 1)]

(* variant: the segments behind keep their numbers *)
DropLastStackOfThread(m, tid) ==
  LET width   == Last(m.segments_in_stack[tid])
      own     == m.thread_segments[tid]
      dropped == [m EXCEPT !.thread_segments[tid] = SubSeq(own, 1, Len(own) - width),
                           !.segments_in_stack[tid] = Front(@)]
  IN  IF Len(own) = width
      THEN [m EXCEPT !.thread_segments = RemoveAt(@, tid), !.segments_in_stack = RemoveAt(@, tid)]
      ELSE dropped

(* the thread itself goes with its last stack *)
DropLastStack(m, tid) ==
  LET range      == LastRange(m, tid)
      width      == range[2] + 1 - range[1]
      shifted(s) == IF s > range[2] THEN s - width ELSE s
      threads    == [i \in DOMAIN m.thread_segments |->
                       LET own  == m.thread_segments[i]
                           kept == IF i = tid THEN Len(own) - width ELSE Len(own)
                       IN  [k \in 1 .. kept |-> shifted(own[k])]]
  IN  IF threads[tid] = << >>
      THEN [m EXCEPT !.thread_segments = RemoveAt(threads, tid),
                     !.segments_in_stack = RemoveAt(@, tid)]
      ELSE [m EXCEPT !.thread_segments = threads, !.segments_in_stack[tid] = Front(@)]

-----------------------------------------------------------------------------
(* the stores *)

(* addSegment of both *)
AddSegment(m, sid, cells) ==
  [m EXCEPT !.explicitData = InsertAt(@, sid, BlankSegment(cells)),
            !.segments_mapping = InsertAt(@, sid, m.fst_unused_id),
            !.fst_unused_id = @ + 1]

(* eraseSegment of both, as often as leave calls it *)
EraseSegments(m, range) ==
  LET without(s) == SubSeq(s, 1, range[1] - 1) \o SubSeq(s, range[2] + 1, Len(s))
  IN  [m EXCEPT !.explicitData = without(@), !.segments_mapping = without(@)]

(* variant: pointers stay as they are *)
MovePointersNot(m, from, move_count) == m

(* movePointers: unsigned arithmetic *)
Moved(cell, from, move_count) ==
  IF cell.is_pointer /\ cell.seg > from
  THEN [cell EXCEPT !.seg = (@ + move_count) % SegmentRange] ELSE cell

MovePointers(m, from, move_count) ==
  [m EXCEPT !.explicitData =
     [s \in DOMAIN m.explicitData |->
        LET segment == m.explicitData[s]
        IN  [c \in DOMAIN segment |-> Moved(segment[c], from, move_count)]]]

(* implement_store; the null pointer counts as a number *)
Store(m, sid, c, cell) == [m EXCEPT !.explicitData[sid][c] = cell]

(* deref: the registers are the first segment of the thread's last frame *)
Registers(m, tid) == m.explicitData[LastRange(m, tid)[1]]
StoreRegister(m, tid, c, cell) == Store(m, LastRange(m, tid)[1], c, cell)

-----------------------------------------------------------------------------
(* Evaluator::startThread, enterFunction and leave *)
StartThread(m) ==
  LET tid  == ThreadCount(m) + 1
      laid == NewSegment(NewStack([m EXCEPT !.thread_segments = Append(@, << >>),
                                            !.segments_in_stack = Append(@, << >>)], tid), tid)
      sid  == LastRange(laid, tid)[1]
  IN  MovePointers(AddSegment(laid, sid, Register), sid, 1)

EnterFunction(m, tid) ==
  LET laid == NewSegment(NewStack(m, tid), tid)
      sid  == LastRange(laid, tid)[1]
  IN  MovePointers(AddSegment(laid, sid, Register), sid, 1)

(* variant: the symbolic store keeps the segments of the frame *)
LeaveStore(m, tid) ==
  LET range  == LastRange(m, tid)
      erased == [EraseSegments(m, range) EXCEPT !.segments_mapping = m.segments_mapping]
  IN  DropLastStack(MovePointers(erased, range[1], range[1] - (range[2] + 1)), tid)

Leave(m, tid) ==
  LET range == LastRange(m, tid)
  IN  DropLastStack(MovePointers(EraseSegments(m, range), range[1],
                                 range[1] - (range[2] + 1)), tid)

-----------------------------------------------------------------------------
(* a pointer the program may follow: its object is alive *)
MayFollow(m, cell) == cell.meant \in ToSet(m.segments_mapping)

(* initial(): the globals, and a thread for main *)
Init ==
  state = StartThread([thread_segments |-> << >>, segments_in_stack |-> << >>,
                       explicitData |-> <<BlankSegment(Cell)>>, segments_mapping |-> <<1>>,
                       fst_unused_id |-> 2])

Room == /\ Len(state.explicitData) < MaxSegments
        /\ state.fst_unused_id <= MaxNames

(* do_pthread_create: the handle is stored, then the argument is read, if
   the function has one *)
PthreadCreate(tid, thread_id, argument) ==
  /\ Room
  /\ ThreadCount(state) < MaxThreads
  /\ LET started == StartThread(state)
         handle  == Registers(started, tid)[thread_id]
     IN  /\ MayFollow(started, handle)
         /\ \E c \in DOMAIN state.explicitData[handle.seg] :
              LET created == Store(started, handle.seg, c, Blank)
              IN  state' \in {created, StoreRegister(created, ThreadCount(created), 1,
                                                    Registers(created, tid)[argument])}

(* a call: the arguments are read before the frame is made *)
Call(tid, argument) ==
  /\ Room
  /\ Len(state.segments_in_stack[tid]) < MaxFrames
  /\ LET param == Registers(state, tid)[argument]
     IN  /\ ForeignArguments \/ param.seg <= Last(state.thread_segments[tid])
         /\ state' = StoreRegister(EnterFunction(state, tid), tid, 1, param)

(* variant: the register gets the first segment of the frame *)
AllocaOfFrame(tid, result) ==
  /\ Room
  /\ LET laid  == NewSegment(state, tid)
         sid   == Last(laid.thread_segments[tid])
         added == MovePointers(AddSegment(laid, sid, Cell), sid, 1)
     IN  state' = StoreRegister(added, tid, result, PointerTo(added, LastRange(added, tid)[1]))

(* do_alloca *)
Alloca(tid, result) ==
  /\ Room
  /\ LET laid  == NewSegment(state, tid)
         sid   == WantedSid(state, tid)
         added == MovePointers(AddSegment(laid, sid, Cell), sid, 1)
     IN  state' = StoreRegister(added, tid, result, PointerTo(added, sid))

(* do_load and do_store through a register that holds a pointer *)
Load(tid, result, address) ==
  LET cell == Registers(state, tid)[address]
  IN  /\ MayFollow(state, cell)
      /\ \E c \in DOMAIN state.explicitData[cell.seg] :
           state' = StoreRegister(state, tid, result, state.explicitData[cell.seg][c])

StoreThrough(tid, value, address) ==
  LET cell == Registers(state, tid)[address]
  IN  /\ MayFollow(state, cell)
      /\ \E c \in DOMAIN state.explicitData[cell.seg] :
           state' = Store(state, cell.seg, c, Registers(state, tid)[value])

(* the address of a global is loaded into a register *)
AddressOfGlobal(tid, result) ==
  state' = StoreRegister(state, tid, result, PointerTo(state, GlobalSegment))

(* do_return without a value, or from the last frame *)
Return(tid) == state' = Leave(state, tid)

(* do_return: the caller's register gets the value before the frame goes *)
ReturnValue(tid, returned, result) ==
  /\ Len(state.segments_in_stack[tid]) > 1
  /\ state' = Leave(Store(state, PrevRange(state, tid)[1], result,
                          Registers(state, tid)[returned]), tid)

(* what changes nothing is no step *)
Next ==
  /\ \E tid \in 1 .. ThreadCount(state) :
       \/ Return(tid)
       \/ \E c \in Register :
            Call(tid, c) \/ Alloca(tid, c) \/ AddressOfGlobal(tid, c)
       \/ \E c, d \in Register :
            \/ PthreadCreate(tid, c, d)
            \/ c # d /\ Load(tid, c, d)
            \/ StoreThrough(tid, c, d)
            \/ ReturnValue(tid, c, d)
  /\ state' # state

Spec == Init /\ [][Next]_state

-----------------------------------------------------------------------------
AllSegments == DOMAIN state.explicitData

AllCells == UNION {Range(state.explicitData[s]) : s \in AllSegments}

(* where each frame of a thread ends among the thread's own segments *)
FrameEnds(width) ==
  LET end[k \in 0 .. Len(width)] == IF k = 0 THEN 0 ELSE end[k - 1] + width[k]
  IN  end

(* the registers of frame k are its first segment *)
FirstSegment(m, tid, k) ==
  m.thread_segments[tid][FrameEnds(m.segments_in_stack[tid])[k - 1] + 1]

RegisterSegments(m) ==
  UNION {{FirstSegment(m, t, k) : k \in DOMAIN m.segments_in_stack[t]} :
           t \in DOMAIN m.segments_in_stack}

(* the last segment before those of a thread *)
SegmentsBefore(m, tid) == IF tid = 1 THEN GlobalSegment ELSE Last(m.thread_segments[tid - 1])

CellValue == [is_pointer : BOOLEAN, seg : 0 .. SegmentRange - 1, meant : 0 .. MaxNames]
Segment   == [Register -> CellValue] \cup [Cell -> CellValue]

MemoryState ==
  [thread_segments : Seq(Seq(Nat)), segments_in_stack : Seq(Seq(Nat)),
   explicitData : Seq(Segment), segments_mapping : Seq(1 .. MaxNames), fst_unused_id : 1 .. MaxNames + 1]

(* The two stores and the layout have the same segments, and no two live   *)
(* segments have the same symbolic name, nor does a new one get the name   *)
(* of one that is dead (explicitstore.h:120-134, smtdatastore.h:239-268).  *)
TypeOK ==
  /\ state \in MemoryState
  /\ Len(state.segments_in_stack) = ThreadCount(state)
  /\ Len(state.segments_mapping) = Len(state.explicitData)
  /\ Len(state.explicitData) < state.fst_unused_id
  /\ IsInjective(state.segments_mapping)
  /\ \A s \in AllSegments : state.segments_mapping[s] < state.fst_unused_id
  /\ \A cell \in AllCells :
       cell.meant < state.fst_unused_id /\ (cell.is_pointer \/ cell = Blank)
  /\ \A s \in RegisterSegments(state) : DOMAIN state.explicitData[s] = Register

(* The segments of the threads, one thread after the other, are numbered   *)
(* from 2 without a gap, and a thread's stacks share them out; what        *)
(* getLastStackSegmentRange asserts (memorylayout.h:192-209) follows.      *)
Contiguous(m, segments) ==
  /\ SegmentsBefore(m, ThreadCount(m) + 1) = segments
  /\ \A t \in DOMAIN m.thread_segments :
       LET own   == m.thread_segments[t]
           width == m.segments_in_stack[t]
       IN  /\ own # << >>
           /\ \A k \in DOMAIN own : own[k] = SegmentsBefore(m, t) + k
           /\ \A k \in DOMAIN width : width[k] > 0
           /\ FrameEnds(width)[Len(width)] = Len(own)

SegmentsAreContiguous == Contiguous(state, Len(state.explicitData))

(* Wherever a pointer has been copied, and whatever has been inserted or   *)
(* erased since, it has the number of the segment it was made for, as long *)
(* as that segment exists.                                                 *)
PointersNameObjects ==
  \A cell \in AllCells :
    MayFollow(state, cell) =>
      cell.seg \in AllSegments /\ state.segments_mapping[cell.seg] = cell.meant

(* No pointer to a live segment points to registers.  This is why          *)
(* movePointers may leave the pointers to the segment from alone: what is  *)
(* there before an insertion is the first segment of the next thread       *)
(* (explicitstore.h:136-152).                                              *)
PointersAvoidRegisters ==
  LET registers == RegisterSegments(state)
  IN  \A cell \in AllCells : MayFollow(state, cell) => cell.seg \notin registers

-----------------------------------------------------------------------------
(* Objects: the names of the segments are the objects *)
Nothing  == 0
Dead     == -1
Astray   == -2

Reference(names, cell) ==
  IF cell.meant = Blank.meant THEN Nothing
  ELSE IF cell.seg \in DOMAIN names /\ names[cell.seg] = cell.meant THEN cell.meant
  ELSE IF cell.meant \in ToSet(names) THEN Astray
  ELSE Dead

NamedFrames ==
  [t \in DOMAIN state.thread_segments |->
     LET own   == state.thread_segments[t]
         width == state.segments_in_stack[t]
         ends  == FrameEnds(width)
     IN  [k \in DOMAIN width |->
            [i \in 1 .. width[k] |-> state.segments_mapping[own[ends[k - 1] + i]]]]]

NamedCells ==
  LET names == state.segments_mapping
  IN  [o \in {names[s] : s \in AllSegments} |->
         LET segment == state.explicitData[CHOOSE s \in AllSegments : names[s] = o]
         IN  [c \in DOMAIN segment |-> Reference(names, segment[c])]]

Promise == INSTANCE Objects WITH Globals <- GlobalSegment, Null <- Nothing, Dangling <- Dead,
                                 frames <- NamedFrames, cells <- NamedCells

(* The numbering by segments implements memory made of objects: every load *)
(* and store reaches the object the pointer was made for, and a frame that *)
(* is left takes its own objects with it and nothing else                  *)
(* (evaluator.h:230-271, 512-629, 784-819).                                *)
ImplementsObjects == Promise!Spec
=============================================================================
