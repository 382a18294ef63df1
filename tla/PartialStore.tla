---------------------------- MODULE PartialStore ----------------------------
(***************************************************************************)
(* SMTStorePartial (smtdatastore_partial.h and .cpp): the same formulae as *)
(* SMTStore, kept in dependency groups.  A group has the identifiers that  *)
(* depend on each other, without generations, and their formulae;          *)
(* dependency_map finds the group of an identifier.  Groups are numbered   *)
(* by an IdContainer, which uses numbers again.                            *)
(*                                                                         *)
(* Left out: pc_state, which only makes empty() answer from an earlier     *)
(* "yes", and the shadow store of --testvalidity.                          *)
(***************************************************************************)
EXTENDS Comparison

EmptyPartial ==
  [segments_mapping |-> << >>, generations |-> << >>, bitWidths |-> << >>, fst_unused_id |-> 0,
   sym_data |-> << >>, unused |-> <<1>>, dependency_map |-> << >>]

no_gen(id) == [id EXCEPT !.gen = 0]

NewGroup(group) == [group |-> group, path_condition |-> << >>, definitions |-> {}]

append(into, g) ==
  [group          |-> into.group \cup g.group,
   path_condition |-> into.path_condition \o g.path_condition,
   definitions    |-> into.definitions \cup g.definitions]

(* some groups appended to each other, in the order of their numbers *)
Joined(sym_data, ids) ==
  LET order == SortSeq(Elements(ids), <)
      upto[n \in 0 .. Len(order)] ==
        IF n = 0 THEN NewGroup({}) ELSE append(upto[n - 1], sym_data[order[n]])
  IN  upto[Len(order)]

(* the store as one side of a comparison *)
Whole(store) == Joined(store.sym_data, DOMAIN store.sym_data) @@ store

-----------------------------------------------------------------------------
(* IdContainer: the number freed last is given out first *)
insert(store, id) ==
  LET number == Last(store.unused)
      left   == Front(store.unused)
  IN  [store EXCEPT !.sym_data       = (number :> NewGroup({id})) @@ @,
                    !.dependency_map = (id :> number) @@ @,
                    !.unused         = IF left = << >> THEN <<number + 1>> ELSE left]

EraseGroups(store, numbers) ==
  [store EXCEPT !.sym_data = [i \in DOMAIN @ \ numbers |-> @[i]],
                !.unused   = @ \o SortSeq(Elements(numbers), <)]

(* variant: the identifiers of the groups that are joined keep their old numbers *)
JoinForgetsMap(store, deps) ==
  LET created[n \in 0 .. Len(deps)] ==
        IF n = 0 THEN store
        ELSE LET before == created[n - 1]
             IN  IF deps[n] \in DOMAIN before.dependency_map THEN before ELSE insert(before, deps[n])
      all     == created[Len(deps)]
      to_join == {all.dependency_map[deps[n]] : n \in DOMAIN deps}
      res     == Min(to_join)
  IN  [number |-> res,
       store  |-> [EraseGroups(all, to_join \ {res}) EXCEPT !.sym_data[res] = Joined(all.sym_data, to_join)]]

(***************************************************************************)
(* resolve_dependency: identifiers that are met for the first time get a   *)
(* group each, in the order of their occurrence; then all groups concerned *)
(* are joined in the one with the least number.                            *)
(***************************************************************************)
resolve_dependency(store, deps) ==
  LET created[n \in 0 .. Len(deps)] ==
        IF n = 0 THEN store
        ELSE LET before == created[n - 1]
             IN  IF deps[n] \in DOMAIN before.dependency_map THEN before ELSE insert(before, deps[n])
      all     == created[Len(deps)]
      to_join == {all.dependency_map[deps[n]] : n \in DOMAIN deps}
      res     == Min(to_join)
      moved   == UNION {all.sym_data[i].group : i \in to_join \ {res}}
  IN  [number |-> res,
       store  |-> [EraseGroups(all, to_join \ {res}) EXCEPT
                     !.sym_data[res]  = Joined(all.sym_data, to_join),
                     !.dependency_map = [id \in DOMAIN @ |-> IF id \in moved THEN res ELSE @[id]]]]

Dependencies(f) == LET ids == Identifiers(f) IN [n \in DOMAIN ids |-> no_gen(ids[n].id)]

-----------------------------------------------------------------------------
(* the simplifier of Z3 removes what always holds; beyond that it is left out *)
simplified(f) ==
  LET values == {Satisfied(f, val) : val \in Assignments(collect_variables(f))}
  IN  IF values = {TRUE} THEN << >> ELSE IF values = {FALSE} THEN buildBoolVal(FALSE) ELSE f

simplify_pc(g) ==
  LET conj[n \in 0 .. Len(g.path_condition)] ==
        IF n = 0 THEN << >> ELSE joinBinary(conj[n - 1], g.path_condition[n], "And")
  IN  IF g.path_condition = << >> THEN g
      ELSE [g EXCEPT !.path_condition = <<simplified(conj[Len(g.path_condition)])>>]

partial_simplify(store) ==
  [store EXCEPT !.sym_data = [i \in DOMAIN @ |-> simplify_pc(@[i])]]

partial_push_condition(store, f) ==
  LET resolved == resolve_dependency(store, Dependencies(f))
  IN  partial_simplify([resolved.store EXCEPT !.sym_data[resolved.number].path_condition = Append(@, f)])

partial_pushPropGuard(store, f) == partial_push_condition(store, Guard(store, f))

(* variant: a group without definitions goes, whatever its conditions *)
CleanupIgnoresConditions(store) ==
  LET idle == {i \in DOMAIN store.sym_data : store.sym_data[i].definitions = {}}
      ids  == DOMAIN store.dependency_map \cap UNION {store.sym_data[i].group : i \in idle}
  IN  [EraseGroups(store, {store.dependency_map[id] : id \in ids}) EXCEPT
         !.dependency_map = [id \in DOMAIN @ \ ids |-> @[id]]]

(* a group without formulae goes, with its identifiers' entries *)
group_cleanup(store) ==
  LET idle == {i \in DOMAIN store.sym_data :
                 store.sym_data[i].path_condition = << >> /\ store.sym_data[i].definitions = {}}
      ids  == DOMAIN store.dependency_map \cap UNION {store.sym_data[i].group : i \in idle}
  IN  [EraseGroups(store, {store.dependency_map[id] : id \in ids}) EXCEPT
         !.dependency_map = [id \in DOMAIN @ \ ids |-> @[id]]]

AllDefinitions(store) == UNION {store.sym_data[i].definitions : i \in DOMAIN store.sym_data}

(* each group removes and substitutes by itself *)
partial_removeDefinitions(store, removed) ==
  LET Without(g) == removeDefinitions(g, g.definitions \cap removed)
  IN  group_cleanup([store EXCEPT !.sym_data = [i \in DOMAIN @ |-> Without(@[i])]])

partial_advance_generation(store, v) ==
  LET old     == build_item(store, v)
      removed == {d \in AllDefinitions(store) :
                    no_gen(d.symbol) = no_gen(old) /\ d.symbol.gen = old.gen}
  IN  [partial_removeDefinitions(store, removed) EXCEPT
         !.generations[v.seg][v.off] = (@ + 1) % Generations]

partial_push_definition(store, v, def) ==
  LET advanced == partial_advance_generation(store, v)
      symbol   == build_item(advanced, v)
      resolved == resolve_dependency(advanced, Append(Dependencies(def), no_gen(symbol)))
  IN  [resolved.store EXCEPT
         !.sym_data[resolved.number].definitions = @ \cup {[symbol |-> symbol, def |-> def]}]

partial_addSegment(store, id, bit_widths) == addSegment(store, id, bit_widths)

partial_eraseSegment(store, id) ==
  LET removed == {d \in AllDefinitions(store) : d.symbol.seg = store.segments_mapping[id]}
  IN  partial_simplify([partial_removeDefinitions(store, removed) EXCEPT
         !.segments_mapping = RemoveAt(@, id),
         !.generations      = RemoveAt(@, id),
         !.bitWidths        = RemoveAt(@, id)])

(* One query for all groups.  Left out is pc_state: when the query cannot be
   satisfied, the groups in it are marked TRUE, and a later query leaves out
   the groups so marked (it treats them as solved).  A state whose store is
   empty is dropped at once by restoringYield, so none is asked about again. *)
partial_empty(store) == Models(Whole(store).definitions, ConditionSet(Whole(store))) = {}

-----------------------------------------------------------------------------
(* the groups and the map go into a blob as pairs *)
WriteGroup(g) ==
  WriteEach(WriteDefinition, Elements(g.definitions)) \o WriteVectors(g.path_condition)
    \o WriteVector(Elements(g.group))

GroupOf(got) ==
  [value |-> [definitions |-> ToSet(got.value[1]), path_condition |-> got.value[2],
              group |-> ToSet(got.value[3])],
   rest  |-> got.rest]
ReadGroup(mem) == GroupOf(NextVector(NextVectors(NextDefinitions(From(mem)))))

GroupSize(g) == 2 + DefinitionsSize(g.definitions) + VectorsSize(g.path_condition) + Cardinality(g.group)

Pairs(f) == Elements({<<a, f[a]>> : a \in DOMAIN f})

(* std::map::insert does nothing for a key that is there *)
InsertPairs(f, pairs) == f @@ [a \in {pair[1] : pair \in ToSet(pairs)} |->
                                 (CHOOSE pair \in ToSet(pairs) : pair[1] = a)[2]]

partial_writeData(store) ==
  LET WriteNumbered(pair) == <<pair[1]>> \o WriteGroup(pair[2])
  IN  WriteSegments(store) \o WriteEach(WriteNumbered, Pairs(store.sym_data))
        \o WriteVector(store.unused) \o WriteEach(LAMBDA pair : pair, Pairs(store.dependency_map))

NextGroup(got)     == Appended(got, ReadGroup(got.rest))
ReadNumbered(mem) == NextGroup(NextValue(From(mem)))
ReadPair(mem)     == NextValue(NextValue(From(mem)))
NextGroups(got)    == Appended(got, ReadEach(ReadNumbered, got.rest))
NextMap(got)       == Appended(got, ReadEach(ReadPair, got.rest))

ReadInto(store, parts) ==
  [sym_data |-> InsertPairs(store.sym_data, parts[5]), unused |-> parts[6],
   dependency_map |-> InsertPairs(store.dependency_map, parts[7])] @@ SegmentsOf(parts)

ReadOver(store, mem) ==
  ReadInto(store,
    NextMap(NextVector(NextGroups(ReadSegments(mem)))).value)

(* variant: the map of the store that reads is not cleared *)
ReadKeepsMap(store, mem) == ReadOver([store EXCEPT !.sym_data = << >>], mem)

(* the groups and the map of the store that reads are cleared first *)
partial_readData(store, mem) == ReadOver([store EXCEPT !.sym_data = << >>, !.dependency_map = << >>], mem)

partial_getSize(store) ==
  SegmentsSize(store) + 1 + FoldFunction(LAMBDA g, size : size + 1 + GroupSize(g), 0, store.sym_data)
    + VectorSize(store.unused) + 1 + 2 * Cardinality(DOMAIN store.dependency_map)

-----------------------------------------------------------------------------
(* variant: the groups of one pair are compared, whatever else they are joined to *)
ComparesPairs(a, b, compare) ==
  {[a |-> {i \in DOMAIN a.sym_data : no_gen(pair[1]) \in a.sym_data[i].group},
    b |-> {i \in DOMAIN b.sym_data : no_gen(pair[2]) \in b.sym_data[i].group},
    compare |-> {pair}] : pair \in compare}

(* the groups of the stores a and b that are compared together, with what is compared *)
compares(a, b, compare) ==
  LET singles ==
        {[a |-> {i}, b |-> {}, compare |-> {}] : i \in DOMAIN a.sym_data}
          \cup {[a |-> {}, b |-> {i}, compare |-> {}] : i \in DOMAIN b.sym_data}
      Concerned(pair, block) ==
        \/ \E i \in block.a : no_gen(pair[1]) \in a.sym_data[i].group
        \/ \E i \in block.b : no_gen(pair[2]) \in b.sym_data[i].group
      join(pair, blocks) ==
        LET joined == {block \in blocks : Concerned(pair, block)}
        IN  (blocks \ joined)
              \cup {[a       |-> UNION {block.a : block \in joined},
                     b       |-> UNION {block.b : block \in joined},
                     compare |-> {pair} \cup UNION {block.compare : block \in joined}]}
  IN  FoldSet(join, singles, compare)

(* an identifier that only one of the stores knows fails an assert *)
partial_aborts(a, b) ==
  \E pair \in to_compare(Whole(a), Whole(b)) :
    no_gen(pair[1]) \notin DOMAIN a.dependency_map \/ no_gen(pair[2]) \notin DOMAIN b.dependency_map

(***************************************************************************)
(* SMTStorePartial::subseteq( a, b ): each block has its own shortcut and  *)
(* query.  What it decides is whether b is contained in a.                 *)
(***************************************************************************)
partial_subseteq(a, b) ==
  \A block \in compares(a, b, to_compare(Whole(a), Whole(b))) :
    LET a_group == Joined(a.sym_data, block.a)
        b_group == Joined(b.sym_data, block.b)
    IN  \/ block.compare = {}
        \/ SameSyntax(a_group, b_group)
        \/ ~Satisfiable(a_group, b_group, block.compare)

(* the shortcut of some block takes formulae for cells, see Misled *)
partial_misled(a, b) ==
  \E block \in compares(a, b, to_compare(Whole(a), Whole(b))) :
    Misled(Joined(a.sym_data, block.a), Joined(b.sym_data, block.b), block.compare)
=============================================================================
