------------------------------- MODULE Stores -------------------------------
(***************************************************************************)
(* The two symbolic stores under the same instructions, and the comparison *)
(* of the state in hand with a stored one.  BaseSMTStore builds the        *)
(* formulae for both; they differ in where they put them.  Every value is  *)
(* symbolic here; Values has those that are known.                         *)
(*                                                                         *)
(* One instruction of each of Menus is executed in turn, every one that    *)
(* can be, as in Values; between any two the state may be observed: the    *)
(* first time it is stored, later it is compared with the stored one.      *)
(***************************************************************************)
EXTENDS PartialStore

CONSTANTS
  Frame,      \* the functions' frames and the globals: [name -> sequence of widths]
  Threads,    \* the frames there are at first: "globals", then one for each thread
  Menus,      \* a sequence of sets of instructions
  MaxAsked    \* bound on the comparisons

VARIABLES
  data,       \* the state's store, as an SMTStore
  partial,    \* and as an SMTStorePartial
  segments,   \* the frame each segment belongs to
  done,       \* the number of instructions executed
  dropped,    \* store->empty()
  saved,      \* the stored state: a sequence of none or one
  asked,      \* the number of comparisons
  cache,      \* Z3cache: answers by key
  answer      \* the last comparison, until the state changes: a sequence of none or one

vars == <<data, partial, segments, done, dropped, saved, asked, cache, answer>>

Cell(frame, off) == [type |-> "Cell", frame |-> frame, off |-> off]

SegmentOf(frame) == CHOOSE s \in DOMAIN segments : segments[s] = frame
Address(a) == IF a.type = "Constant" THEN a ELSE Variable(SegmentOf(a.frame), a.off)

Ready(i) ==
  /\ ~dropped
  /\ {a.frame : a \in {a \in i.uses : a.type = "Cell"}} \subseteq {segments[s] : s \in DOMAIN segments}

(* the stores and the segments after an instruction *)
Yield(newData, newPartial, newSegments) ==
  /\ data'     = newData
  /\ partial'  = newPartial
  /\ segments' = newSegments
  /\ done'     = done + 1
  /\ dropped'  = empty(newData)
  /\ answer'   = << >>
  /\ UNCHANGED <<saved, asked, cache>>

-----------------------------------------------------------------------------
Input(i) ==
  /\ i.do = "Input" /\ Ready(i)
  /\ Yield(implement_input(data, Address(i.res)),
           partial_advance_generation(partial, Address(i.res)), segments)

Compute(i) ==
  LET Expression(store) == BinaryExpression(store, i.op, Address(i.a), Address(i.b))
  IN  /\ i.do = "Compute" /\ Ready(i)
      /\ Yield(implement_binary(data, i.op, Address(i.res), Address(i.a), Address(i.b)),
               partial_push_definition(partial, Address(i.res), Expression(partial)), segments)

Move(i) ==
  /\ i.do = "Move" /\ Ready(i)
  /\ Yield(implement_store(data, Address(i.res), Address(i.a)),
           partial_push_definition(partial, Address(i.res), build_expression(partial, Address(i.a))),
           segments)

Prune(i) ==
  /\ i.do = "Prune" /\ Ready(i)
  /\ Yield(prune(data, Address(i.a), Address(i.b), i.op),
           partial_push_condition(partial, Condition(partial, Address(i.a), Address(i.b), i.op)),
           segments)

(* the guard of an edge of the automaton *)
PropGuard(i) ==
  /\ i.do = "PropGuard" /\ Ready(i)
  /\ Yield(pushPropGuard(data, i.guard), partial_pushPropGuard(partial, i.guard), segments)

(* do_call and enterFunction: a segment, and the parameter *)
Call(i) ==
  LET position == SegmentOf(i.caller) + 1
      param    == Variable(position, 1)
      Argument == LET arg == Address(i.arg)     \* read in front of the new segment
                  IN  IF arg.type = "Variable" /\ arg.seg >= position THEN [arg EXCEPT !.seg = @ + 1] ELSE arg
      entered  == partial_addSegment(partial, position, Frame[i.frame])
  IN  /\ i.do = "Call" /\ Ready(i)
      /\ \A s \in DOMAIN segments : segments[s] # i.frame
      /\ Yield(implement_store(addSegment(data, position, Frame[i.frame]), param, Argument),
               partial_push_definition(entered, param, build_expression(entered, Argument)),
               InsertAt(segments, position, i.frame))

(* leave: the frame's segment goes from the stores *)
Return(i) ==
  /\ i.do = "Return" /\ Ready(i)
  /\ Yield(eraseSegment(data, SegmentOf(i.frame)), partial_eraseSegment(partial, SegmentOf(i.frame)),
           RemoveAt(segments, SegmentOf(i.frame)))

-----------------------------------------------------------------------------
Here == [data |-> data, partial |-> partial, segments |-> segments, done |-> done]

(* the state s read back from its blob by the store that holds over *)
Reread(over, s) ==
  [s EXCEPT !.data    = readData(writeData(s.data)).value,
            !.partial = partial_readData(over, partial_writeData(s.partial))]

(* insertCheck finds no state of this explicit part: the container's store reads the blob *)
Store ==
  /\ saved = << >> /\ ~dropped
  /\ saved' = <<Reread(EmptyPartial, Here)>>
  /\ UNCHANGED <<data, partial, segments, done, dropped, asked, cache, answer>>

(* getState and eval.read: the stored state is advanced again, for the next thread or edge *)
Load ==
  /\ saved # << >>
  /\ asked = 0       \* bound: the comparisons are made after the last reading
  /\ LET s == Reread(partial, saved[1])
     IN  data' = s.data /\ partial' = s.partial /\ segments' = s.segments /\ done' = s.done
  /\ dropped' = FALSE
  /\ answer' = << >>
  /\ UNCHANGED <<saved, asked, cache>>

(* is b contained in a?  Comparisons are made among states of equal explicit parts *)
Ask(b, a, result) ==
  /\ asked < MaxAsked /\ ~dropped
  /\ b.segments = a.segments
  /\ ~Aborts(b.data, a.data)
  /\ cache'  = result.cache
  /\ answer' = <<[b |-> b, a |-> a, subset |-> result.answer]>>
  /\ asked'  = asked + 1
  /\ UNCHANGED <<data, partial, segments, done, dropped, saved>>

(* the state in hand is read from its blob, too; SMTSubseteq asks one question, SMTEqual both *)
Compare ==
  /\ saved # << >>
  /\ \E new \in {Reread(EmptyPartial, Here)} :
       \E <<b, a>> \in {<<new, saved[1]>>, <<saved[1], new>>} :
         Ask(b, a, cached_subseteq(cache, b.data, a.data))

Execute(i) == Input(i) \/ Compute(i) \/ Move(i) \/ Prune(i) \/ PropGuard(i) \/ Call(i) \/ Return(i)

(* initial(): the segments, and the globals set to zero *)
Initial(empty_store, Add(_, _, _), Define(_, _, _)) ==
  LET with[n \in 0 .. Len(Threads)] ==
        IF n = 0 THEN empty_store ELSE Add(with[n - 1], n, Frame[Threads[n]])
      set[n \in 0 .. Len(Frame["globals"])] ==
        IF n = 0 THEN with[Len(Threads)]
        ELSE Define(set[n - 1], Variable(1, n), buildConstant(0, Frame["globals"][n]))
  IN  set[Len(Frame["globals"])]

Init ==
  /\ data = Initial(EmptyStore, addSegment, push_definition)
  /\ partial = Initial(EmptyPartial, partial_addSegment, partial_push_definition)
  /\ segments = Threads
  /\ done = 0 /\ dropped = FALSE
  /\ saved = << >> /\ asked = 0 /\ cache = << >> /\ answer = << >>

Next ==
  \/ /\ done < Len(Menus)
     /\ asked < MaxAsked     \* bound: nothing is looked at after the last comparison
     /\ \E i \in Menus[done + 1] : Execute(i)
  \/ Store
  \/ Load
  \/ Compare

Spec == Init /\ [][Next]_vars

-----------------------------------------------------------------------------
(***************************************************************************)
(* The groups are disjoint and dependency_map finds each identifier's; a   *)
(* formula is in the group of all it mentions, so that a query about a     *)
(* group needs no other; a number is in use or free, not both.             *)
(***************************************************************************)
GroupsPartition ==
  LET groups == partial.sym_data IN
  /\ partial.dependency_map = [id \in UNION {groups[i].group : i \in DOMAIN groups} |->
                                 CHOOSE i \in DOMAIN groups : id \in groups[i].group]
  /\ \A i, j \in DOMAIN groups : i # j => groups[i].group \cap groups[j].group = {}
  /\ \A i \in DOMAIN groups : {no_gen(id) : id \in Variables(groups[i])} \subseteq groups[i].group
  /\ \A n \in DOMAIN partial.unused :
       /\ partial.unused[n] \notin DOMAIN groups
       /\ \A m \in DOMAIN partial.unused : m # n => partial.unused[m] # partial.unused[n]

(***************************************************************************)
(* However values were joined, overwritten and given up, the groups say of *)
(* the cells what the one list of SMTStore says.  Comparisons change       *)
(* neither, so it is enough to look before the first one.                  *)
(***************************************************************************)
GroupsTellTheSame == asked = 0 =>
  /\ Contents(Whole(partial)) = Contents(data)
  /\ partial_empty(partial) <=> Contents(data) = {}

(***************************************************************************)
(* A comparison decides inclusion of the cells' contents, whether the      *)
(* answer comes from the shortcut, the solver or the cache, where nothing  *)
(* is recompared under other generations (Misled) and a mentions what is   *)
(* compared (Misses: then the answer may be a "no" too many).              *)
(***************************************************************************)
AnswersDecideInclusion ==
  \A n \in DOMAIN answer :
    LET b == answer[n].b.data
        a == answer[n].a.data
        compare == to_compare(a, b)
    IN  /\ answer[n].subset => Included(b, a) \/ Misled(a, b, compare)
        /\ Included(b, a) /\ ~Misses(a, compare) => answer[n].subset

(* the answers of a comparison are right even where the shortcut is taken *)
AnswersAreSound ==
  \A n \in DOMAIN answer : answer[n].subset => Included(answer[n].b.data, answer[n].a.data)

(***************************************************************************)
(* The comparison block by block decides what SMTStore decides at once, as *)
(* --testvalidity demands, with the operands exchanged: of stores that are *)
(* not empty and know the same identifiers.                                *)
(***************************************************************************)
GroupwiseIsWhole ==
  \A n \in DOMAIN answer :
    LET b == answer[n].b
        a == answer[n].a
    IN  \/ partial_aborts(a.partial, b.partial)
        \/ partial_misled(a.partial, b.partial)
        \/ Misled(a.data, b.data, to_compare(a.data, b.data))
        \/ partial_subseteq(a.partial, b.partial) <=> subseteq(b.data, a.data)

(***************************************************************************)
(* A blob gives back the store that was written, whatever the store that   *)
(* reads it held before, and is as long as the memory that was allocated   *)
(* for it: evaluator.h:1093 asserts the length.  Again it is enough to     *)
(* look before the first comparison.                                       *)
(***************************************************************************)
BlobsKeepStores == asked = 0 =>
  /\ Reread(EmptyPartial, Here) = Here
  /\ \A n \in DOMAIN saved :
       Reread(partial, saved[n]) = saved[n] /\ Reread(saved[n].partial, Here) = Here
  /\ Len(writeData(data)) = getSize(data)
  /\ Len(partial_writeData(partial)) = partial_getSize(partial)
=============================================================================
