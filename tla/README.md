# SymDIVINE in TLA+

SymDIVINE verifies parallel programs given as LLVM bitcode. It interprets the
program on *multi-states*: a state has an explicit part (control of all threads,
memory layout, values that are known) and a symbolic part that stands for a set
of valuations of the unknown values. Two commands explore the multi-states:
`reachability` looks for a violated assertion, `ltl` for a run that violates an
LTL property. Their verdicts, "Safe." and "Property holds!" above all, are what
the tool is for, and what this project is about.

Paths below are relative to `src/src/llvmsym/` unless they start with `src/`.

## 1. The system

### Components

| component | state | operations | what makes it correct |
|---|---|---|---|
| reachability command, `reachability.tpp` | queue of identifiers, state graph, `error_found` | `run` | a verdict "Safe." means that no reachable state is an error, an error reported is real; every stored state is expanded once; the loop ends |
| LTL command, `ltl.tpp` | colours, depths and successors per vertex, stacks of the outer and the inner search, depth bound | `run`, `reset_dfs`, `generate_successors`, `run_nested_dfs`, `run_inner_dfs` | an accepting cycle is found when there is one and only then; the iterated, bounded search ends |
| state database, `blobing.h` | vector of items, two hash tables, a container of symbolic parts per item | `insert`, `insertCheck`, `getState` | tables agree; identifiers stay valid; a state that is dropped is covered by a stored one |
| evaluator, scheduling, `evaluator.h:1111-1187` | current state, stack of a local traversal | `advance` | what is yielded are the next observable states of every allowed thread, whatever invisible steps lie between |
| evaluator, instructions, `evaluator.h`, `instructiondispatch.h` | the state | one handler per LLVM instruction and per recognised library function | each handler yields the states the instruction leads to; control, layout and data change together |
| thread control, `thread.h` | program counters, previous blocks, thread identifiers, owner of the atomic section | start, leave, enter a function, jump, advance, enter and leave an atomic section, allowed threads | the vectors stay in step; a thread that waits or does not own the atomic section does not run |
| memory layout, `memorylayout.h`, `.cpp` | segments of every thread's stack, flags of values | new stack, drop stack, new segment, dereference | the i-th thread here is the i-th thread of control; pointers keep naming the same object when segments move |
| explicit store, `explicitstore.h` | 64-bit words by segment and offset | arithmetic, load, store, prune, segments, pointers | computes what LLVM says, on its widths and signs, and so agrees with the symbolic store |
| symbolic store, `smtdatastore.h`, `.cpp`, `base_smt_datastore.h` | numbers of segments, generations and widths of cells, definitions, path condition | arithmetic, input, prune, guards, segments, `empty`, `subseteq` | definitions can be solved; what is overwritten keeps its effect on the rest; `subseteq` never says yes wrongly |
| partial symbolic store, `smtdatastore_partial.h`, `.cpp` | definitions and conditions per group of dependent identifiers, a map from identifiers to groups | as above; joining and cleaning up groups | says of the cells what the one list says; the comparison group by group decides what the whole one does |
| formulae, `formula/` | - | construction, substitution, comparison, translation to Z3 | operands have one width; an item means what the instruction it stands for does |
| solver cache, `src/src/toolkit/query_cache.h`, `z3cache.h` | map from queries to answers | find, place | an answer found is the answer to that query |
| serialisation, `blobutils.h` | - | write, read, size | a blob gives back what was written, whatever the reader held |
| state graph, `src/src/toolkit/graph.h` | vertices, successors | add, look up, transform | - |
| LTL parser, automaton reader, `src/src/parsers`, `src/src/toolkit/ltl2ba.h` | - | text to automaton | labels keep their meaning |
| bitcode reader, command line, statistics, scripts | - | input and output | - |

### How they interact

Everything runs in one thread of the tool. A command takes an identifier from
its queue or stack, reads the state back from the database into the evaluator,
and calls `advance` with a callback. For each thread of the *program* that may
run, `advance` executes instructions until the next observable step and calls
the callback with the state it has then; the callback offers the state to the
database (`insertCheck`), which compares its symbolic part with those stored
under the same explicit part, by a query to the solver, and answers with an
identifier and whether the state is new. New states are queued. The LTL command
does the same once for every edge of the automaton, with the edge's label added
to the path condition first.

The stores, the layout and control are members of the one current state: an
instruction handler changes all of them and must keep them in step. Handlers
talk to `advance` through a second callback, `restoringYield`, which puts the
state back after every outcome, so that a handler with two outcomes (a
comparison, a branch, an assertion) starts each from the same state.

### What is hard

* **Hidden interleaving.** Threads of the program interleave only at observable
  steps. Which steps are observable, and what state each thread is started from,
  decides whether behaviour is lost. A unit test sees one schedule.
* **Dropping states.** A state is dropped because of a stored one that contains
  it. That is right for reachability, not for cycles, and depends on the
  direction of a quantified query whose answer may be "unknown" or a timeout.
* **State shared by a traversal and its callback.** The database and the queue
  change while a state is being advanced, an exception may end the run half way,
  and what the last outcome leaves in the evaluator is used afterwards.
* **The nested search.** Colours are reused between inner searches and reset
  between iterations, edges and depths are not; `GRAY` has two meanings.
* **Two stores and a flag.** A value is in the explicit or in the symbolic store, or in
  both; which one counts is a flag of the layout that each handler sets by itself.
* **Generations and groups.** A cell that is overwritten gets a new name, and its
  old definition is substituted into everything that mentions it; the partial
  store regroups formulae as dependencies appear. A wrong name ties values
  together that are unrelated, and no test of single operations shows it.
* **Indices.** Threads are named by position, and positions move when a thread
  ends; so do the stacks and segments of the layout.

`PROJECT.json` lists each hazard with its line and the properties that watch it.

## 2. The modules

```
StateSpace   <--refines--  Reachability --EXTENDS--> Database <--EXTENDS-- Ltl
                                |                        |                  |
        ReachabilityProofs ----------------------- DatabaseProofs  INSTANCE
                                                         |                  v
CycleSearch  <--refines-- NestedDfsProofs <-INSTANCE- LtlProofs         NestedDfs
ExplorationProofs --EXTENDS--> EvaluatorProofs --EXTENDS--> Exploration
Exploration --EXTENDS--> Interleavings --EXTENDS--> Evaluator --EXTENDS--> Control
Objects      <--refines--  Memory ------ MemoryProofs
Valuations   <--refines--  Values --EXTENDS--> ExplicitStore, SymbolicStore
Stores --EXTENDS--> PartialStore --EXTENDS--> Comparison --EXTENDS--> SymbolicStore
SymbolicStore --EXTENDS--> Formula --EXTENDS--> Words;  both stores --EXTENDS--> Blobutils
Ltl --INSTANCE--> Labels;   MCStores --EXTENDS--> Propositions
```

**Database** is `Database` with `LinearCandidate`. A blob is `[expl, sym]` with
`sym` a set of valuations; a database is the record of the vector of items and
the two tables. `InsertCheck` gives the set of possible outcomes: the scan stops
at a hit, but a hit may be missed, because a query that times out counts as "not
contained". `HitPolicy` is the comparison the container is built with: inclusion
(`SMTSubseteq`), equality (`SMTEqual`), or what `SMTStorePartial::subseteq`
really decides.

**Reachability** is `Reachability<...>::run`. Actions: `Pop` (the head of the
loop up to the call of `advance`), `Yield` (one run of the callback), `Record`
(`add_successors`), `Finish` (the loop's condition and the verdict), `Throw` and
`ThrowInCheck` (an exception of the solver, caught in `run`: while the state is
advanced, or in `insertCheck`, when an error may have been printed whose state
is not stored). What `advance` yields is given by the
program's edges, each a relation on valuations; an edge whose image is empty
yields nothing. **StateSpace** is what the command promises, without database or
queue, and the reference notion of a reachable state.

**NestedDfs** is the search of the LTL command on a graph made on the fly: a
vertex is asked for its successors when it is entered. `to_process` is the stack
of vectors of the code. `Enter` is the `WHITE` case (with
`generate_successors` and `add_successors`), `Backtrack` the `GRAY` case with the
start of the inner search, `Skip` the `BLACK` one, `CutOff` the depth test,
`Retreat` an empty vector, with the next iteration; the `Inner...` actions are
`run_inner_dfs`. **CycleSearch** is its specification: learn the graph, report
an accepting cycle when one has been learnt, deny it when all is learnt.

**Ltl** puts the two together: the vertices are identifiers of a `Database`
whose explicit parts carry the automaton's state, and a vertex's successors are
what `generate_successors` gets from `advance` and `insertCheck` for each edge
of the automaton in order. It instantiates NestedDfs for the walk. An edge of the
automaton carries a label as `ltl2tgba` prints it; **Labels** has what
`LtlTranslator` makes of it, and what it means.

**Control** has the operations of `thread.h` on a state record; **Evaluator**
the instruction handlers, as the sequence of outcomes each yields, with the flags
"observable" and "empty"; `Outcomes` is `advance(yield, tid)`. **Exploration** is the
reachability loop with `advance` itself, instruction by instruction: `ReadState`,
`StartThreadTraversal` (the head of the loop over allowed threads), `Execute` (one
round of the traversal's `while`; `YieldAll` folds `restoringYield` over the outcomes, in order),
`EndThreadTraversal`, `EndAdvance`, `Finish`. Its programs are well-formed LLVM code (`WellFormed`). **Interleavings** defines what the
program means independently of the evaluator: threads have names instead of
indices, memory has one valuation, every step of every thread is visible. The
reachable states found there are what Exploration is measured against.

**Memory** is MemoryLayout with the parts of the stores that follow it:
`thread_segments`, `segments_in_stack`, the explicit store's segments, and the
symbolic store's `segments_mapping`. Its operators have the names of the
code's functions (`newSegment`, `dropLastStack`, `addSegment`, `movePointers`,
`enterFunction`, `leave`), its actions are the instructions that reach them:
`pthread_create`, call, `alloca`, load, store and return, in any order. **Objects** is
what this is for: frames own objects, cells refer to objects, and nothing is
renumbered. The mapping takes the symbolic store's name of a segment for the
object. Each cell remembers in `meant` the object its pointer was made for;
no step of the store looks at it, except that a program follows only pointers to
objects that are alive (anything else is undefined in C). Offsets are left out, since
nothing changes them behind the program's back; `variablesFlags`, the layout's table of known and unknown
values, is in Values; the 16 bits of the layout's segment numbers are not modelled.

**Words** defines what LLVM says of words of `w` bits; it is the reference, and the
arithmetic both stores are built from. **Formula** has formulae in reverse
Polish notation as `rpn.h` builds them (an item is a record, a formula a
sequence), and the value that the translation to Z3 gives them; `Models` stands
for the solver, by enumeration. **SymbolicStore** is `SMTStore` with what it inherits,
**ExplicitStore** `ValueStore<Explicit>`, **Blobutils** and the `Write...` and `Read...`
operators of the stores their blobs. These are modules of operators on a record
of the class's members, named as the methods are (with a prefix where two
classes have the same method).

**Values** is the evaluator over these two stores: the flags, and for each
kind of instruction what its handler reads, which flag it sets and which store it
writes. Its actions are the handlers: `Arithmetic`, `Convert` (casts), `Copy` (load,
store, PHI), `Select`, `Compare`, `Branch`, `Switch`, `Assume`, `Assertion`, `Input`, `Call`,
`Return`. Every state goes through a blob between two of them. **Valuations** is what
it implements: a set of memories, changed as LLVM says, with no stores, flags,
generations or segments. The refinement takes `MemoryOf(state)`, the memories the two stores
and the flags stand for, as the abstract set.

**Comparison** is `SMTStore::subseteq` with its shortcut, its query and its cache.
**PartialStore** is `SMTStorePartial`. **Stores** runs both symbolic stores through the
same instructions and, between any two, may store the state in hand, load the
stored one again or compare the two, in either order (`SMTSubseteq` asks the one,
`SMTEqual` both). **Propositions** builds the guards of automaton edges as the LTL
parser's actions do; its placeholders for generation and width are
replaced by `pushPropGuard`, which is part of Stores.

In Values and Stores a program is a choice of one instruction from each of a
sequence of menus, so that all of them are tried with every history of the cells
they use.

In Evaluator, programs are functions from names to lists of instruction records. A variable
is one location of memory and belongs to the program, not to a frame, so a
function runs in one thread at a time. Arithmetic is a move between registers there
(Values has it); conditions compare for equality. Which jumps are backward, and so observable, is
part of the program: the code compares addresses of blocks.

Operators whose comment starts with "variant" model a plausible mistake. They
are used in no specification; each property is known to fail when one of them
takes the place of the operator it varies.

## 3. The runs

`CHECK_DEADLOCK FALSE` is given everywhere because both commands end; that they
end, and do not stop half way, is the property `Termination` of `reachability`,
`nested_dfs` and `exploration`; the loop of `ltl` is that of `nested_dfs`. (`memory`
ends with the last thread, or with its bounds; `values` and `stores` end with their menus.)

| run | specification, instance | what it shows |
|---|---|---|
| `reachability` | all programs over `a`, `b`, `bad` with up to two edges out of `a` and one out of `b`, relations identity, input, assume, reset; valuations {0, 1}; one hit missed | verdicts are right (`SafeIsSound`, `ErrorIsReal`), each state is expanded once, the graph simulates the program, only missed hits leave superfluous states, the inductive invariant of the proofs holds, the command implements StateSpace and ends |
| `nested_dfs` | all graphs of three vertices with at most two successors each (repetitions too) and every choice of accepting vertices; plain, iterative, bounds 1 and 3; first depth 1 | the inductive invariant of the proofs holds: stacks are paths, what was left is closed, accepting vertices left lie on no cycle (`SearchInv`); what the inner searches visited is closed and off the path (the reason colours can be kept), verdicts are those of CycleSearch, the search ends |
| `ltl` | 32 programs over two locations, 8 automata of two states with labels of up to two literals, iterative search, one hit missed | "Property holds!" is right although states are dropped and labels are read by position; "Property violated!" is right if nothing on the way was dropped for a larger state; the inductive invariant of the proofs holds: the graph has every step of the product (`ProductInv`) |
| `exploration` | 228 programs: every combination of two blocks in the first thread and one in the second out of six kinds (stores, loads, locks, atomic sections, assertions), and 12 written by hand: locks with and without, nested atomic sections, join, three threads, spinning, a switch with PHI nodes and calls, assume, exit, `ldv_` | no assert of `thread.h` fails, layout and control agree, every state found is one the interleavings reach, "Safe." is right, after "Safe." every final content of the shared variables is known, and the command ends |
| `memory` | two threads of up to two frames, five segments alive and five made in a run; frames have two registers, other segments one cell | the segments of the threads follow each other without a gap, pointers name their objects after every insertion and removal, nobody points to registers (the reason `movePointers` may compare with `>`), and all is as if memory were made of objects |
| `values` | six instructions, each from a menu of its own; cells of widths 1, 2 and 3 in the globals, two threads' frames and one function; inputs, constants and copies as operands, all binary operations and comparisons | the three members of a state keep the same cells (`TypeOK`); the definitions can be solved and Z3 accepts every formula (`DefinitionsOK`); a state is dropped exactly when it stands for no memory (`EmptyIsExact`); flags, stores, generations and blobs together implement Valuations |
| `stores` | six instructions over five one-bit cells in four frames, one state stored, loaded again any number of times, two comparisons | the groups are a partition that formulae respect and hold what the one list holds; the answers decide inclusion with and without the cache; group by group is as good as at once; blobs keep stores whatever the reader held |
| `partial_store`, `ltl_spurious`, `branch_lost`, `bit_precise`, `shortcut` | see section 6 | each shows one disagreement |

Bounds. `MaxMissed` is the number of hits the solver may miss in a run; with one
the containers already hold superfluous states and identifiers for the same set,
and two only repeat that. Two valuations are enough to tell inclusion from equality
and both from emptiness. Three vertices give self-loops, cycles through and
beside the start, and vertices on the stack twice; the code's first depth 32
becomes `InitialBound` 1, so that bounds are reached and doubled on such graphs.
In `memory`, five segments are what the interesting case needs: the globals, a frame
for each of two threads, an object of the second thread, and a segment
inserted in front of it. `SegmentRange` stands for the 2^32 numbers a pointer can
hold; it is larger than any number that occurs, and the subtraction in `movePointers`
wraps as in the code. In `exploration`, values are {0, 1, 2}; `MaxSteps` only bounds the computation of the
reference, and `StepsAssumption` checks that nothing lies beyond it.
Its programs do not call `pthread_exit`, end no thread inside an atomic section, have no PHI node that
reads what one before it has written, and have no loop without an observable step: with the
first three a property fails (section 6), and of the fourth nothing is said, since which branches are
backward is part of the program.

In `values`, `WordWidth` = 3 stands for 64 and the cells are narrower, so that every
operation has results that do not fit the cell, and `MachineWidths` = {2, 3} for the
widths with a case of their own in the code's switches. Two bits tell signed from
unsigned and a shift by the width from a smaller one. Six menus give
operand, operation, what overwrites the operand, and the operation again, in every
combination. In `stores` one bit is enough: groups and comparisons depend on which
identifiers a formula mentions. `Generations` = 16 is more than any run counts to: the
wrap of the 16 bits does not occur. `MaxAsked` bounds the comparisons, two being what
the cache needs for a look-up that hits; `Load` is possible only before the first comparison, since
comparisons change neither store, and no instruction after the last. `WithGaps` = FALSE leaves out the instructions
section 6 says are wrong (`KnownGap`): unless a word is negative, those too are executed.
Instructions whose result LLVM leaves undefined (division by zero, a shift by the width or more) are not
executed: there is nothing to compare with.

Fairness is weak fairness of `Next` wherever liveness is checked: the commands are one sequential
loop and nothing suspends them. In Reachability this includes the solver, which
answers or times out.

## 4. The proofs

Eight modules hold theorems: `DatabaseProofs` and `ReachabilityProofs` (the command),
`NestedDfsProofs` (the search of the LTL command) and `LtlProofs` (that command), `EvaluatorProofs` (one
instruction) and `ExplorationProofs` (`advance` and the loop around it), `MemoryProofs` (the memory), and
`SequenceLemmas`, what they need of sequences. They hold for every value of the constants that meets the modules' ASSUMEs; TLC
evaluates those on each run. The inductive invariants are also invariants of a run, so that
their hypotheses are known to have states; of Exploration's, the run checks the parts that
say something to a reader, and `MCExploration` assumes the hypotheses of its theorems, so that TLC evaluates
them on the programs of the run.

### Reachability

For every set of explicit parts, valuations and programs, and every number of missed hits.

* `TypeCorrect`, `InsertCheckCorrect`: the database's tables agree (`DatabaseOK`);
  whichever outcome `insertCheck` has, old identifiers keep
  naming the same blobs and the identifier returned names a stored state that
  covers the one offered. No assumption on the comparison.
* `SafeSound`, `ErrorReal`, `SearchRefines`: the verdicts are right, and the command implements
  StateSpace step by step, for `HitPolicy # "partial"`.
* `QueueInvariant`, `NothingExpandedTwice`: no identifier is expanded twice.
* `GraphIsSimulation`: the graph has every step of the program, for `HitPolicy # "partial"`.
* `SearchInvariant`, `FewSuperfluous`: a state is superfluous only because a hit was missed.

`SafeIsSound` is not inductive. What makes it so (`SoundInv`): every stored
state is waiting in the queue, or explored (all it leads to is covered), or is the
one being advanced, and then what has not been yielded yet is all it lacks
(`Frontier`, `PendingRest`). When the queue is empty the covered states are closed
under the program's steps; they hold the initial states (`KnownReachable`), so they
hold every reachable state, and none of them is an error (`VerdictAgrees`). An
exception leaves a vertex half explored, and perhaps an error that was printed but not
stored; no verdict about safety follows it. For the queue, the
graph's vertices and what waits are kept apart; for the graph, what is explored
has an edge to a cover of each successor (`GraphAgrees`, `CoveredSoFar`); the number of superfluous
states is compared with the hits missed so far.

Assumptions: an edge is a relation on valuations and `advance` yields its
image (`ProgramsAssumption`: an error state has no edges, as `advance` returns at
once); the solver's answers are exact when it answers. The first is what
Exploration examines: `advance` does not always deliver (section 6).

### NestedDfs

For every set of vertices, finite or not, every graph that answers with finite sequences, every
set of accepting vertices, every bound and first depth: `TypeCorrect`, `SearchKeepsInv`,
`PathsOnStacks`, `VisitedStaysClosed`, `NoFalseViolation`, `NoFalseHolds`, and `SearchRefines`, the
implementation of CycleSearch.

The invariant has a part that always holds: the graph learnt is closed under neighbours
and within what the start leads to; both stacks are paths, and a vertex that waits
on the stack is a neighbour of the one below. The rest holds while no cycle was found and nothing was
cut off at the depth: what was entered is closed up to what waits on the
stack; what inner searches visited is `BLACK`, closed, and off the outer path; an accepting
vertex that was left is sealed, that is, leads to nothing unasked-for and not to itself.

The step that carries it is the return of an inner search from `s` (lemmas
`VisitedWasLeft`, `InnerReturn`). Colours of inner searches are never reset, so the search from `s` stops
at what earlier ones visited, and the argument must show that nothing is missed thereby. With `V` the visited
vertices, `V \ {s}` is closed and contains the neighbours of `s`, and not `s`, or the cycle would have
been reported. Hence `s` does not lead to itself. If a vertex of the outer path were in `V`, it would
lead to `s`, inside `V \ {s}`: a contradiction. So `V` is off the path, and since it is closed and
everything entered is on the path or left, it is `BLACK`. `CutOff` never empties the
stack, because the start is at depth 0, below every bound. An exhausted stack then leaves the whole graph
sealed and CycleSearch may deny; a vertex cut off makes the code search again
deeper, and the next iteration starts from nothing.

### Ltl

For every set of programs, locations and automata, every finite set of valuations, every number of
missed hits, every bound and first depth, for `HitPolicy # "partial"`: `SearchIsNested`, and for
labels of at most two literals (`LabelsAreRead`), `ProductKept`, `HoldsSound` and `ViolationSound`.

The proofs do not repeat the search. `LtlProofs` instantiates `NestedDfsProofs` and shows that a step
of Ltl is a step of NestedDfs there, which keeps its invariant. NestedDfs supposes that a vertex which is asked
twice answers the same; Ltl asks again when a vertex has no neighbours. `ProductStored` is the
reason why that is right: what `advance` yields for a vertex that was entered has a cover among its neighbours, so
that a vertex without neighbours yields nothing, then and later, because stored states
never change. `GrownBySuccessors` is what `generate_successors` answers after any order of the
program's steps and any misses of the solver: a cover of everything that is yielded, and nothing but
such covers.

The verdicts follow from finiteness (`FiniteCycle`: on a finite set, a transitive relation that leads on from
every element leads from one back to itself). "Holds": a state that an accepted run comes back to lies in finitely
many vertices, and each of them leads to another, so one leads to itself, and it is accepting. "Violated":
if nothing was dropped, every state of a neighbour has a predecessor in the vertex; going
back along the accepting cycle from a state of its vertex meets one of its
finitely many states twice.

`LabelsAreRead` cannot be left out: of a longer label `LtlTranslator` drops the rest
(section 6). `MCLtl` assumes it of the instance, so that TLC evaluates it.

### Memory

For every number of threads, frames, segments and names, any set of registers and cells:
`TypeCorrect`, `LayoutIsKept`, `PointersKeepTheirObjects`, `NoPointerToRegisters`, and the refinement
`MemoryIsMadeOfObjects` (every behaviour of Memory is one of Objects), each under
`ForeignArguments = FALSE`.

The inductive invariant `Sound` is the conjunction of what the run checks, and none of its
parts is inductive alone. A segment that is inserted comes first of what
belongs to the next thread, or last of all (lemma `InsertionPlace`). So the segment at that number is a
frame's registers, which no pointer names (`PointersAvoidRegisters`): comparing with `>` moves
every pointer that must move, as `>=` would. The names of `segments_mapping` are what tells that a pointer is
still to the segment it was made for; names are never given twice, so that
the segments that are erased are the only ones with their names, a pointer to a live
object is to one that stays, and moving down by the length of the range is right (`Erased`). The first third of the module has
what the tables of threads and frames do: they cut `1 .. n` into
consecutive ranges (`LaidOut`), `newSegment` and `enterFunction` extend one of them and shift the rest (`PuttingIn`),
`dropLastStack` takes the last range of a thread out (`LastStackDropped`).

The refinement rests on `Sound` and on the first segment having the name of the globals (`GlobalsNamed`).
Every segment has a place, by thread, frame and position in the frame (`PlaceIs`), and a step changes the
places and `segments_mapping` together: one segment more moves both up behind it (`FramesEntered`,
`FramesAllocated`, `FramesStarted`), a frame less moves both down (`FramesLeft`, `FramesEnded`). So the names the
frames own change as Objects says, the new name being one that no live object has (`NewIsFresh`). Of a cell `Sound` says that its
reference never goes astray (`ReferenceIs`): it is the name the pointer was made for, while that segment lives. The
cells therefore change only where something is stored, gain blank ones with a new segment (`CellsMade`), and
dangle exactly where they named a segment that was erased (`CellsLeft`). The steps need one lemma each (`CallCalls`, `AllocaAllocates`,
`PthreadCreateSpawns`, `ReturnValueLeaves`, ...).

The hypothesis is what `do_call` would need and does not have: with `TRUE` the
property fails (section 6). It is not implied by anything the code checks.

### Exploration

For every set of variables, values, slots and well-formed programs, however many threads, frames,
branches and PHI nodes they have: `OutcomesAreGood` (one instruction), and for programs
that keep the rules of `ProgramsAreDisciplined` `ExplorationStaysSound`, `StoredIsReached` and
`TypeCorrect`, and, when none calls `pthread_exit` (`NoThreadExits`), `LayoutFollowsControl` and `NoAssertCanFail`.

A state of the evaluator stands for many states of the program, one for each of its valuations, and has
indices where the program has threads. `Follows` relates the two: the frames of a thread's index are those of
the thread, the section belongs to the thread whose index is first in `atomic_section`, the
explicit slots are the same, and the block a thread came from is the same where it matters, in front
of a PHI node (`advance` forgets it elsewhere). An instruction is `Good` when each outcome is a state
in order (`StateOK`) and each of its valuations is one that some step of the same thread leads to from a
valuation before (`Backed`), or is left as it was. There is one lemma per instruction, about the outcomes its handler yields,
and for those that change the vectors of threads and frames one about the vectors and one about
`Follows`: a thread that is erased moves the indices of all later ones.

The inductive invariant `Sound` says three things of the states that are stored, current or on the stack
of the traversal. They are `Genuine`: in order, not without valuations, each valuation one that is reached
by a state that is followed, control and layout in step. The thread that is traversed may move in each state on the stack; and the threads
still to come, computed once before the loop, may move in the current state (`TurnsKept`). The last is what a state read
before the loop and used after it needs: an unobservable outcome leaves every thread that may move its turn,
and so does an instruction without outcomes, which leaves its changes in the current state.

Hypotheses. `WellFormed` is what LLVM's verifier asks of a module, in the terms of the model. `StepsAssumption` says
that `MaxSteps` rounds find all the states of a program, so that the programs are those with finitely many.
`ProgramsAreDisciplined` is about the interleavings, not the evaluator: no reachable state of a program ends a thread inside an
atomic section, leaves a section it is not in, has started 2^16 threads, or is at a PHI node that reads what a
PHI node before it in the block has written (`PhiMayWait`). The code checks the second by an assert
and the others not at all: `exit` leaves the owner of the section behind, and identifiers
are 16 bits wide (`thread.h:27-29`). `pthread_exit` leaves the thread's frames in the layout, hence `NoThreadExits`.

A PHI node takes its value at the jump into the block in LLVM, and so it does in Interleavings (`came` keeps the block and
the memory at the jump); `do_phi` reads the registers when its turn comes, which is the same under `PhiMayWait`.

That a verdict "Safe." is right cannot be proved for these programs: `branch_lost` is a well-formed one for which
it is wrong. `SafeIsSound` and `FinalsAreCovered` stay with the programs of the run.

### Limits

Only model-checked: liveness (`Termination`, and what else needs `ENABLED`); `SafeIsSound` and
`FinalsAreCovered` of Exploration; and everything about Values and Stores. What a formula means is a
recursive function over it; the properties of Values and Stores
that speak of meanings need induction over formulae. Induction over numbers is done with sets (least elements,
`LeastNumber`), and a recursive function on numbers by showing that one exists (`SumsExist`, `FollowedExists`).

## 5. Not modelled

* Address arithmetic (`do_GEP`), `ptrtoint` and `inttoptr`, aggregate initializers: the layout's
  way of numbering the parts of an aggregate is not modelled. Evaluator, Memory and Values
  look at control, at segments and at values; no module has all three at once,
  since the product of their programs is out of TLC's reach.
* What Z3 does: `Models` enumerates. Quantifier elimination and simplification
  (`simplify`, `--q3bsimplify`) keep meaning by assumption; of the simplifier the partial store
  calls, only the removal of what always holds is modelled. Answers that do not come are in
  Database (`missed`), not in Stores.
* The shadow store and assertions of `--testvalidity`, the statistics, and the limit of time
  above which a query is worth caching.
* Calls through pointers, varargs, `memcpy`-like functions: rejected or not recognised
  by the code.
* The unused container types of `blobing.h`, `Database::seen`, EmptyDataStore,
  `llvmsym/graph.h`, `stanalysis`: no command reaches them.
* The LTL scanner, the call of `ltl2tgba` and the reading of its output up to the labels,
  drawing, statistics, scripts, the reader of bitcode: input and output.
* Serialisation of Control, Properties and the layout's tables of threads: vectors, written
  as those that are modelled.
* `src/libs/catch/catch.hpp`, almost half of the repository's lines, is a test framework
  of a third party, and `src/src/toolkit/jenkins.h` a hash function.

## 6. Disagreements between code and documentation

* `partial_store`: `SMTStorePartial::subseteq` builds its query for the opposite
  inclusion (`smtdatastore_partial.cpp:200-203`); a larger state is dropped for a
  smaller one and "Safe." is wrong. The option `--testvalidity` compares the answer with that
  of `SMTStore`, and aborts on a difference.
* `ltl_spurious`: the LTL command uses inclusion (`src/src/symdivine.cpp:56`), so a
  cycle may close only in the graph of stored states. "Property violated!" can be wrong,
  "Property holds!" cannot (run `ltl`).
* `branch_lost`: `advance` starts the traversal of the second thread from the
  state the traversal of the first one left behind (`evaluator.h:1116`), the last
  it took from its stack. If invisible steps of the first thread branch, the
  second is advanced from one branch only, and "Safe." can be wrong. The programs of
  `exploration` branch on unknown data while there is one thread, or (`CallsLdv`)
  on branches that end alike.
* `bit_precise`: sign extension and signed division of words that are known ignore the
  sign (`explicitstore.h:172-176`, `278`), while the symbolic store divides unsigned words
  as signed ones (`formula/z3.cpp:68-70`). The tool calls itself bit-precise (`src/readme.md:6`).
* `shortcut`: `subseteq` answers "contained" for stores whose formulae are equal, without
  comparing the generations the cells are at (`smtdatastore.cpp:62-72`). After

      int g = 1;
      void f(int p) { if (g) { assume(p < 5); g = 0; } }
      for (;;) { t = input(); f(t); assert(t < 5); }

  the condition speaks of a value of `t` that is gone, in one store, and of the present one in another.

The following were met and have no run of their own.

Verified earlier on the models, and reproducible with the properties named:

* `pthread_exit` leaves the thread's frames in the layout (`evaluator.h:417-421`): with such programs
  `LayoutMatchesControl` of Exploration fails.
* `exit` leaves the atomic section's owner set, and the next `advance` asks for a thread that
  is gone (`evaluator.h:411-416`, `thread.h:169`): `NoAssertFails` fails.
* The PHI nodes of a block stand for one assignment of all their values, taken at the jump into
  the block; `do_phi` executes them one after another (`evaluator.h:632-652`). Where one reads the
  result of a node before it - a loop that exchanges two variables, compiled with `-Os`
  (`scripts/run_symdivine.py:79`) - the evaluator computes other values, and "Safe." can be wrong:
  BranchLost.cfg with `Programs <- ExchangingPrograms` shows `SafeIsSound` violated.
* One vertex beyond the depth gives up all its unvisited siblings (`ltl.tpp:114`), so a bounded
  search can miss a cycle it has explored entirely.
* `do_call` reads its arguments before `enterFunction` shifts the stored pointers
  (`evaluator.h:494-497`): an argument that points into the stack of a later thread is
  stored one too low. Memory excludes such arguments with `ForeignArguments = FALSE`; with `TRUE`,
  `PointersNameObjects` fails after six steps.
* `SMTStorePartial::subseteq` asserts that each store knows the identifiers compared
  (`smtdatastore_partial.cpp:289-290`); Stores reaches pairs for which one does not (`partial_aborts`), and
  pairs for which `forall` has nothing to bind (`Aborts`, `formula/z3.cpp:317`).

Read in the code and left out of the models' inputs:

* A bound below 32 is exceeded, since the first depth is 32 whatever `--bound` says (`ltl.tpp:90`).
* A call of an `ldv_` function is commented as ignored but yields nothing, so the thread stops
  there (`evaluator.h:469-474`); `CallsLdv` in MCExploration has such a call on a branch whose end
  another branch reaches as well.
* A pointer kept in an integer is not shifted (`explicitstore.h:142`); `ptrtoint` and `inttoptr` do
  not set the flag of their result (`evaluator.h:870-900`); initializers of aggregates
  other than zero are taken for zero (`evaluator.h:1019-1031`).
* A definition whose right side mentions its own symbol (a PHI node over itself) loses the old value
  of the symbol, since the right side is built before the generation advances and the old
  definition is gone then (`smtdatastore.h:95-108`). The menus have no such instruction.
* `Item::operator==` ignores the widths of constants and casts (`formula/rpn.h:114-124`): the
  shortcut and the cache take formulae for equal that differ only there.
* `pushPropGuard` takes the number of a segment for its position, which is right for globals only
  (`smtdatastore.h:223-233`). Numbers in a proposition have width 42 unless written `value(bits)`, and Z3
  refuses the formula (`src/src/parsers/ltl_parser.y:136`).
* Of an edge's label, only the first literal and the one after the first `&&` (without `&&`, the
  first `||`) are read (`src/src/toolkit/ltl2ba.h:185-207`), and the number of a
  proposition is checked against the length of the text (`ltl2ba.h:227`). The labels of `ltl` have at
  most two literals.

## 7. Plan

All modules of the plan are written. What is left is to prove more. Worth proving, in this
order: the part of `GroupsPartition`
that speaks of groups and the map, not of formulae; a condition on programs under which `advance` loses no branch,
and `SafeIsSound` from it.
