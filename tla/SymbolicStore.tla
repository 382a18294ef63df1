--------------------------- MODULE SymbolicStore ---------------------------
(***************************************************************************)
(* SMTStore (smtdatastore.h) with the instructions it inherits from        *)
(* BaseSMTStore (base_smt_datastore.h), as operators on a record of its    *)
(* members.  Segments and offsets count from one.  The definitions are     *)
(* kept in a set, as the code keeps them sorted; the path condition is a   *)
(* sequence.  simplify() changes nothing: it acts only once more than four *)
(* queries had no answer, and then keeps the path condition's meaning.     *)
(***************************************************************************)
EXTENDS Formula, Blobutils

CONSTANT
  Generations   \* the generations a cell can count: 2^16, the range of short unsigned

ASSUME GenerationsAssumption == Generations \in Nat \ {0}

Constant(value, bw) == [type |-> "Constant", value |-> value, bw |-> bw]
Variable(seg, off)  == [type |-> "Variable", seg |-> seg, off |-> off]

EmptyStore ==
  [segments_mapping |-> << >>, generations |-> << >>, bitWidths |-> << >>,
   path_condition |-> << >>, definitions |-> {}, fst_unused_id |-> 0]

(* build_item: the identifier of a cell's current generation *)
build_item(store, v) ==
  [seg |-> store.segments_mapping[v.seg], off |-> v.off,
   gen |-> store.generations[v.seg][v.off], bw |-> store.bitWidths[v.seg][v.off]]

build_expression(store, v) ==
  IF v.type = "Constant" THEN buildConstant(v.value, v.bw)
  ELSE buildIdentifier(build_item(store, v))

to_formula(d) == joinBinary(buildIdentifier(d.symbol), d.def, "Eq")

ConditionSet(store) == {store.path_condition[n] : n \in DOMAIN store.path_condition}
Formulae(store)     == ConditionSet(store) \cup {to_formula(d) : d \in store.definitions}

(* collect_variables of the store *)
Variables(store) == UNION {collect_variables(f) : f \in Formulae(store)}

(***************************************************************************)
(* The substitution of removeDefinitions: a pass replaces every removed    *)
(* symbol, and passes are made until nothing changes.  A definition never  *)
(* leads back to its symbol, so as many passes as removed definitions are  *)
(* enough, and the order within a pass does not matter.                    *)
(***************************************************************************)
SubstituteAll(f, removed) ==
  LET Occurring(g) == {d \in removed : d.symbol \in collect_variables(g)}
      after[n \in 0 .. Cardinality(removed)] ==
        IF n = 0 THEN f
        ELSE LET before == after[n - 1] IN
             IF Occurring(before) = {} THEN before
             ELSE FoldSet(LAMBDA d, g : substitute(g, d.symbol, d.def), before, removed)
  IN  after[Cardinality(removed)]

(* variant: only the path condition is rewritten *)
RemoveFromConditionsOnly(store, removed) ==
  [store EXCEPT
    !.definitions    = @ \ removed,
    !.path_condition = [n \in DOMAIN @ |-> SubstituteAll(@[n], removed)]]

removeDefinitions(store, removed) ==
  [store EXCEPT
    !.definitions    = {[d EXCEPT !.def = SubstituteAll(@, removed)] : d \in @ \ removed},
    !.path_condition = [n \in DOMAIN @ |-> SubstituteAll(@[n], removed)]]

(* variant: the new generation is taken without removing the old definition *)
AdvanceKeepsDefinition(store, v) ==
  [store EXCEPT !.generations[v.seg][v.off] = (@ + 1) % Generations]

(* get_generation with advance_generation *)
advance_generation(store, v) ==
  LET old     == build_item(store, v)
      removed == {d \in store.definitions :
                    d.symbol.seg = old.seg /\ d.symbol.off = old.off /\ d.symbol.gen = old.gen}
  IN  [removeDefinitions(store, removed) EXCEPT
         !.generations[v.seg][v.off] = (@ + 1) % Generations]

push_condition(store, f) == [store EXCEPT !.path_condition = Append(@, f)]

(* pushPropGuard: a guard names globals, and keeps neither generation nor width *)
Guard(store, f) ==
  [n \in DOMAIN f |->
     IF f[n].kind # "Identifier" THEN f[n]
     ELSE LET position == f[n].id.seg + 1     \* the number of the segment is used as its position
          IN  [f[n] EXCEPT !.id.gen = store.generations[position][f[n].id.off],
                           !.id.bw  = store.bitWidths[position][f[n].id.off]]]

pushPropGuard(store, f) == push_condition(store, Guard(store, f))

(* push_definition: def is built before the generation of the symbol advances *)
push_definition(store, v, def) ==
  LET advanced == advance_generation(store, v)
  IN  [advanced EXCEPT !.definitions = @ \cup {[symbol |-> build_item(advanced, v), def |-> def]}]

-----------------------------------------------------------------------------
(* the operators BaseSMTStore builds for the instructions of LLVM *)
ImplementOperator ==
  [Add  |-> "Plus", Sub |-> "Minus", Mul |-> "Times", UDiv |-> "Div", SDiv |-> "Div",
   URem |-> "URem", SRem |-> "SRem", And |-> "BAnd", Or |-> "BOr", Xor |-> "Xor",
   Shl  |-> "Shl", LShr |-> "Shr"]

PruneOperator ==
  [EQ  |-> "Eq",   NE  |-> "NEq",  UGT |-> "UGT", UGE |-> "UGEq", ULT |-> "ULT",
   ULE |-> "ULEq", SGT |-> "GT",   SGE |-> "GEq", SLT |-> "LT",   SLE |-> "LEq"]

(* the formulae the instructions build, for either symbolic store *)
BinaryExpression(store, op, a, b) ==
  joinBinary(build_expression(store, a), build_expression(store, b), ImplementOperator[op])

(* implement_add, implement_sub, ..., implement_right_shift *)
implement_binary(store, op, result, a, b) ==
  push_definition(store, result, BinaryExpression(store, op, a, b))

implement_store(store, result, what) ==
  push_definition(store, result, build_expression(store, what))

(* implement_ZExt, implement_SExt, implement_Trunc *)
implement_cast(store, op, result, a, bw) ==
  push_definition(store, result,
    joinUnary(build_expression(store, a), op, IF op = "Trunc" THEN bw - 1 ELSE bw))

implement_input(store, v) == advance_generation(store, v)

Condition(store, a, b, predicate) ==
  joinBinary(build_expression(store, a), build_expression(store, b), PruneOperator[predicate])

prune(store, a, b, predicate) == push_condition(store, Condition(store, a, b, predicate))

addSegment(store, id, bit_widths) ==
  [store EXCEPT
    !.segments_mapping = InsertAt(@, id, store.fst_unused_id),
    !.generations      = InsertAt(@, id, VectorOf(Len(bit_widths), 0)),
    !.bitWidths        = InsertAt(@, id, bit_widths),
    !.fst_unused_id    = @ + 1]

(* eraseSegment: the definitions of the segment's cells go, the conditions stay *)
eraseSegment(store, id) ==
  LET removed == {d \in store.definitions : d.symbol.seg = store.segments_mapping[id]}
  IN  [removeDefinitions(store, removed) EXCEPT
         !.segments_mapping = RemoveAt(@, id),
         !.generations      = RemoveAt(@, id),
         !.bitWidths        = RemoveAt(@, id)]

-----------------------------------------------------------------------------
(* getSize, writeData and readData; what a store held is gone when it reads *)
WriteDefinition(d) == <<d.symbol>> \o WriteVector(d.def)

DefinitionOf(got) == [value |-> [symbol |-> got.value[1], def |-> got.value[2]], rest |-> got.rest]
ReadDefinition(mem)  == DefinitionOf(NextVector(NextValue(From(mem))))
ReadDefinitions(mem) == ReadEach(ReadDefinition, mem)
NextDefinitions(got) == Appended(got, ReadDefinitions(got.rest))

DefinitionsSize(definitions) == FoldSet(LAMBDA d, size : size + 1 + VectorSize(d.def), 0, definitions)

WriteSegments(store) ==
  WriteVector(store.segments_mapping) \o WriteVectors(store.generations)
    \o WriteVectors(store.bitWidths) \o <<store.fst_unused_id>>

(* the numbers, the generations, the widths, and the next number *)
ReadSegments(mem) ==
  NextValue(NextVectors(NextVectors(NextVector(From(mem)))))

SegmentsOf(parts) ==
  [segments_mapping |-> parts[1], generations |-> parts[2], bitWidths |-> parts[3], fst_unused_id |-> parts[4]]

SegmentsSize(store) ==
  VectorSize(store.segments_mapping) + VectorsSize(store.generations) + VectorsSize(store.bitWidths) + 1

writeData(store) ==
  WriteSegments(store) \o WriteEach(WriteDefinition, Elements(store.definitions))
    \o WriteVectors(store.path_condition)

StoreOf(got) ==
  [value |-> [definitions |-> ToSet(got.value[5]), path_condition |-> got.value[6]] @@ SegmentsOf(got.value),
   rest  |-> got.rest]
readData(mem) == StoreOf(NextVectors(NextDefinitions(ReadSegments(mem))))

getSize(store) ==
  SegmentsSize(store) + 1 + DefinitionsSize(store.definitions) + VectorsSize(store.path_condition)

-----------------------------------------------------------------------------
Cells(store) == {<<s, o>> \in (1 .. Len(store.bitWidths)) \X (1 .. 8) : o \in DOMAIN store.bitWidths[s]}
Current(store) == {build_item(store, Variable(c[1], c[2])) : c \in Cells(store)}

(* what the store says of some identifiers: their possible values *)
Represented(store, ids) ==
  LET mentioned == Variables(store)
      models    == {[id \in ids \cap mentioned |-> val[id]] :
                      val \in Models(store.definitions, ConditionSet(store))}
      free      == Assignments(ids \ mentioned)
  IN  {[id \in ids |-> IF id \in mentioned THEN val[id] ELSE any[id]] : val \in models, any \in free}

(* variant: the path condition is asked without the definitions *)
EmptyIgnoresDefinitions(store) ==
  /\ store.path_condition # << >>
  /\ Models({}, ConditionSet(store)) = {}

(* SMTStore::empty *)
empty(store) ==
  /\ store.path_condition # << >>
  /\ Models(store.definitions, ConditionSet(store)) = {}

(***************************************************************************)
(* What the operations rely on.  A symbol is defined once, by its current  *)
(* generation in a live segment, and no definition leads back to its own   *)
(* symbol; no formula mentions a generation that is still to come.         *)
(***************************************************************************)
DependsOn(store, d) == {e \in store.definitions : e.symbol \in collect_variables(d.def)}

WellDefined(store) ==
  /\ \A d, e \in store.definitions : d.symbol = e.symbol => d = e
  /\ {d.symbol : d \in store.definitions} \subseteq Current(store)
  /\ LET grounded[n \in 0 .. Cardinality(store.definitions)] ==
           IF n = 0 THEN {}
           ELSE {d \in store.definitions : DependsOn(store, d) \subseteq grounded[n - 1]}
     IN  grounded[Cardinality(store.definitions)] = store.definitions
  /\ \A id \in Variables(store) : id.seg < store.fst_unused_id
  /\ \A id \in Variables(store), c \in Current(store) :
       id.seg = c.seg /\ id.off = c.off => id.gen <= c.gen /\ id.bw = c.bw
=============================================================================
