------------------------------- MODULE Control -------------------------------
(***************************************************************************)
(* The control part of a state (src/src/llvmsym/thread.h): a call stack    *)
(* per thread, the threads' identifiers, and the atomic section.  The code *)
(* names a thread by its index in the vectors, so a thread that ends       *)
(* renames the ones behind it; indices are one-based here.                 *)
(*                                                                         *)
(* The operators take the whole state s of the evaluator and change the    *)
(* fields of its Control.  A position is a pair <<function, instruction>>: *)
(* the basic blocks of a function are laid out one after the other.        *)
(***************************************************************************)
EXTENDS Naturals, Sequences, SequencesExt

TidRange == 65536   \* next_free_tid is an unsigned short

(* PC() is all zeros; a PHI node never reads it *)
NoPC == <<"", 0>>

HasTid(s, t)    == \E i \in DOMAIN s.tids : s.tids[i] = t
ThreadCount(s)  == Len(s.context)
GetPC(s, tid)   == Last(s.context[tid])
LastFrame(s, tid) == Len(s.context[tid]) = 1

(* startThread: the new thread is the last one; its identifier is Last(tids) *)
StartThread(s, function) ==
  [s EXCEPT !.context       = Append(@, << <<function, 1>> >>),
            !.previous_bb   = Append(@, NoPC),
            !.tids          = Append(@, s.next_free_tid),
            !.next_free_tid = (@ + 1) % TidRange]

EnterFunction(s, function, tid) ==
  [s EXCEPT !.context[tid] = Append(@, <<function, 1>>)]

JumpTo(s, new_pc, tid, remember_previous_bb) ==
  [s EXCEPT !.previous_bb[tid] = IF remember_previous_bb THEN GetPC(s, tid) ELSE NoPC,
            !.context[tid]     = Append(Front(@), new_pc)]

(* the thread goes from every vector, and those behind it move up *)
EraseThread(s, tid) ==
  [s EXCEPT !.context     = RemoveAt(@, tid),
            !.previous_bb = RemoveAt(@, tid),
            !.tids        = RemoveAt(@, tid)]

(* variant: the identifier of a thread that ends stays behind *)
LeaveKeepsTid(s, tid) ==
  IF LastFrame(s, tid)
  THEN [EraseThread(s, tid) EXCEPT !.tids = Append(@, s.tids[tid])]
  ELSE [s EXCEPT !.context[tid] = Front(@)]

(* leave: pop a frame; without frames the thread is gone *)
Leave(s, tid) ==
  IF LastFrame(s, tid) THEN EraseThread(s, tid)
  ELSE [s EXCEPT !.context[tid] = Front(@)]

(* advance: one instruction further; moving back is not moving at all *)
AdvancePC(s, tid) ==
  [s EXCEPT !.context[tid] =
     Append(Front(@), <<GetPC(s, tid)[1], GetPC(s, tid)[2] + 1>>)]

EnterAtomicSection(s, tid) == [s EXCEPT !.atomic_section = Append(@, tid)]
LeaveAtomicSection(s, tid) == [s EXCEPT !.atomic_section = Front(@)]

(* the asserts of the two *)
MayEnterAtomicSection(s, tid) == s.atomic_section # << >> => Last(s.atomic_section) = tid
MayLeaveAtomicSection(s, tid) == s.atomic_section # << >> /\ Last(s.atomic_section) = tid

(* variant: a section does not keep the other threads out *)
AllThreads(s) == [i \in 1 .. ThreadCount(s) |-> i]

GetAllowedThreads(s) ==
  IF s.atomic_section = << >> THEN [i \in 1 .. ThreadCount(s) |-> i]
  ELSE <<Last(s.atomic_section)>>
=============================================================================
