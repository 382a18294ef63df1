---------------------------- MODULE Comparison ----------------------------
(***************************************************************************)
(* SMTStore::subseteq (smtdatastore.cpp) and the cache of its queries      *)
(* (query_cache.h, z3cache.h).  A side of a query is a record with         *)
(* definitions, a set, and path_condition, a sequence: a store, a group of *)
(* the partial store or several joined.  The solver always answers; that   *)
(* it may not is in Database.                                              *)
(***************************************************************************)
EXTENDS SymbolicStore

(* the comparison of vectors of definitions and of conditions by Item::operator== *)
DefinitionSyntax(side) == {<<d.symbol, Syntax(d.def)>> : d \in side.definitions}
ConditionSyntax(side)  == [n \in DOMAIN side.path_condition |-> Syntax(side.path_condition[n])]
SameSyntax(a, b) ==
  DefinitionSyntax(a) = DefinitionSyntax(b) /\ ConditionSyntax(a) = ConditionSyntax(b)

(* the identifiers of one cell in two stores, if either store depends on it *)
to_compare(a, b) ==
  {<<build_item(a, Variable(c[1], c[2])), build_item(b, Variable(c[1], c[2]))>> :
     c \in {c \in Cells(a) :
              \/ build_item(a, Variable(c[1], c[2])) \in Variables(a)
              \/ build_item(b, Variable(c[1], c[2])) \in Variables(b)}}

(***************************************************************************)
(* pc_b && forall( a_all_vars, !pc_a || distinct ).  The quantifier binds  *)
(* what the formulae of a mention.  A compared identifier of a that they   *)
(* do not mention is free in the query, and the solver may choose it: a    *)
(* word that differs makes the query true.  So it may choose what b does   *)
(* not mention.                                                            *)
(***************************************************************************)
Satisfiable(a, b, compare) ==
  LET b_vars   == Variables(b)
      open     == {pair \in compare : pair[2] \notin b_vars}
      a_models == Models(a.definitions, ConditionSet(a))
      Matched(vb) == {va \in a_models : \A pair \in compare \ open : va[pair[1]] = vb[pair[2]]}
      Covers(vas) == \A word \in Assignments({pair[2] : pair \in open}) :
                       \E va \in vas : \A pair \in open : va[pair[1]] = word[pair[2]]
  IN  \E vb \in Models(b.definitions, ConditionSet(b)) :
        \/ \E pair \in compare : pair[1] \notin Variables(a)
        \/ ~Covers(Matched(vb))

(* SMTStore::subseteq( b, a ) without the cache: is b contained in a? *)
subseteq(b, a) ==
  LET compare == to_compare(a, b)
  IN  SameSyntax(a, b) \/ compare = {} \/ ~Satisfiable(a, b, compare)

(* forall asserts that it has something to bind *)
Aborts(b, a) == Variables(a) = {} /\ ~SameSyntax(a, b) /\ to_compare(a, b) # {}

-----------------------------------------------------------------------------
(* variant: the pairs compared are left out of the key *)
KeyWithoutPairs(a, b, compare) ==
  <<ConditionSyntax(a), DefinitionSyntax(a), ConditionSyntax(b), DefinitionSyntax(b)>>

(* Z3SubsetCall, as its equal_to looks at it *)
CacheKey(a, b, compare) ==
  [pc_a     |-> <<ConditionSyntax(a), DefinitionSyntax(a)>>,
   pc_b     |-> <<ConditionSyntax(b), DefinitionSyntax(b)>>,
   distinct |-> compare]

(* the answer of the cache, or the solver's, which is kept *)
Cached(cache, key, solved) ==
  IF key \in DOMAIN cache THEN [cache |-> cache, answer |-> cache[key]]
  ELSE [cache |-> (key :> solved) @@ cache, answer |-> solved]

Query(cache, b, a, compare) ==
  IF SameSyntax(a, b) \/ compare = {} THEN [cache |-> cache, answer |-> TRUE]
  ELSE Cached(cache, CacheKey(a, b, compare), ~Satisfiable(a, b, compare))

(* subseteq with --enablecaching: the cache afterwards and the answer *)
cached_subseteq(cache, b, a) == Query(cache, b, a, to_compare(a, b))

-----------------------------------------------------------------------------
(* the contents of the cells, by cell and not by identifier *)
Contents(store) ==
  LET name == [c \in Cells(store) |-> build_item(store, Variable(c[1], c[2]))]
  IN  {[c \in Cells(store) |-> val[name[c]]] : val \in Represented(store, Current(store))}

Included(b, a) == Contents(b) \subseteq Contents(a)

(***************************************************************************)
(* Where the code does not decide inclusion.  The shortcut compares        *)
(* formulae, not what the cells' current generations are; the query misses *)
(* what a leaves open.                                                     *)
(***************************************************************************)
Misled(a, b, compare) == SameSyntax(a, b) /\ \E pair \in compare : pair[1] # pair[2]
Misses(a, compare)    == \E pair \in compare : pair[1] \notin Variables(a)
=============================================================================
