------------------------------ MODULE Database ------------------------------
(***************************************************************************)
(* The database of multi-states (src/src/llvmsym/blobing.h).  A blob is    *)
(* the pair of an explicit part, compared by hash and equality of its      *)
(* bytes, and a symbolic part, which denotes a set of valuations.  Blobs   *)
(* with the same explicit part share one ExplicitItem, whose container     *)
(* (LinearCandidate) is a vector of symbolic parts scanned from the front. *)
(*                                                                         *)
(* A database is a record: data is the vector of items, state2item and     *)
(* id2item are the two hash tables.  The code's explicit_id of an item is  *)
(* its one-based position in data.                                         *)
(***************************************************************************)
EXTENDS Naturals, Sequences, FiniteSets

CONSTANTS
  Expl,       \* explicit parts: control, layout, explicit values, properties
  Data,       \* valuations of the symbolic variables
  HitPolicy   \* which comparison the container is instantiated with

ASSUME HitPolicyAssumption == HitPolicy \in {"subseteq", "equal", "partial"}

Sym     == SUBSET Data
Blob    == [expl : Expl, sym : Sym]
Item    == [exp_state : Expl, sym_container : Seq(Sym)]
StateId == Nat \X Nat

(* StateId's default constructor: no stored state ever has this identifier *)
NoState == <<0, 0>>

(***************************************************************************)
(* The comparison of a new symbolic part st with a stored one e, as an     *)
(* exact answer of the solver gives it.  SMTStore::subseteq(st, e) decides *)
(* st \subseteq e; SMTStorePartial::subseteq(st, e) decides the query      *)
(* "pc_b && forall a. (!pc_a || a != b)" with a = st and b = e, which is   *)
(* unsatisfiable exactly when e \subseteq st.                              *)
(***************************************************************************)
HitReversed(st, e) == e \subseteq st   \* variant: the operands exchanged

Hit(st, e) ==
  CASE HitPolicy = "subseteq" -> st \subseteq e
    [] HitPolicy = "equal"    -> st = e
    [] HitPolicy = "partial"  -> e \subseteq st

EmptyDatabase ==
  [data |-> << >>, state2item |-> [e \in {} |-> 0], id2item |-> [i \in {} |-> 0]]

Found(db, b) == b.expl \in DOMAIN db.state2item

(* the index of the item of a blob, the next free one if there is none *)
ItemIndex(db, b) ==
  IF Found(db, b) THEN db.state2item[b.expl] ELSE Len(db.data) + 1

(* the symbolic parts already stored with a blob's explicit part *)
Container(db, b) ==
  IF Found(db, b) THEN db.data[db.state2item[b.expl]].sym_container ELSE << >>

(* f with k mapped to v, as unordered_map::insert does for a new key *)
TableInsert(f, k, v) ==
  [x \in DOMAIN f \cup {k} |-> IF x \in DOMAIN f THEN f[x] ELSE v]

(* the identifier insert gives to a blob: the container grows by one *)
NewId(db, b) == <<ItemIndex(db, b), Len(Container(db, b)) + 1>>

(* variant: a new item is not entered in state2item *)
InsertForgetsItem(db, b) ==
  LET idx  == ItemIndex(db, b)
      item == [exp_state     |-> b.expl,
               sym_container |-> Append(Container(db, b), b.sym)]
  IN  [db EXCEPT !.data    = IF Found(db, b) THEN [@ EXCEPT ![idx] = item]
                             ELSE Append(@, item),
                 !.id2item = TableInsert(@, NewId(db, b), idx)]

(* Database::insert: a new item, or one more symbolic part in an old one *)
Insert(db, b) ==
  LET idx  == ItemIndex(db, b)
      item == [exp_state     |-> b.expl,
               sym_container |-> Append(Container(db, b), b.sym)]
  IN  [data       |-> IF Found(db, b)
                      THEN [db.data EXCEPT ![idx] = item]
                      ELSE Append(db.data, item),
       state2item |-> TableInsert(db.state2item, b.expl, idx),
       id2item    |-> TableInsert(db.id2item, NewId(db, b), idx)]

(* variant: the scan starts after the first entry *)
HitsButFirst(db, b) ==
  {i \in 2 .. Len(Container(db, b)) : Hit(b.sym, Container(db, b)[i])}

(* the positions of a container whose entry an exact solver reports as a hit *)
Hits(db, b) ==
  {i \in 1 .. Len(Container(db, b)) : Hit(b.sym, Container(db, b)[i])}

(* variant: a state found to be new is named but not stored *)
InsertCheckKeepsOld(db, b) ==
  {[fresh  |-> Hits(db, b) = {},
    db     |-> db,
    id     |-> IF Hits(db, b) = {} THEN NewId(db, b)
               ELSE <<ItemIndex(db, b), CHOOSE i \in Hits(db, b) : TRUE>>,
    missed |-> 0]}

(***************************************************************************)
(* Database::insertCheck: the possible outcomes.  The scan stops at the    *)
(* first entry reported as a hit.  A query that times out or is answered   *)
(* "unknown" counts as no hit, so the scan may pass over any of the hits;  *)
(* missed says how many it passed over.                                    *)
(***************************************************************************)
InsertCheck(db, b) ==
  {[fresh  |-> FALSE,
    db     |-> db,
    id     |-> <<ItemIndex(db, b), i>>,
    missed |-> Cardinality({j \in Hits(db, b) : j < i})] : i \in Hits(db, b)}
  \cup
  {[fresh  |-> TRUE,
    db     |-> Insert(db, b),
    id     |-> NewId(db, b),
    missed |-> Cardinality(Hits(db, b))]}

(* Database::getState, for an identifier the table knows *)
GetState(db, id) ==
  LET item == db.data[db.id2item[id]]
  IN  [expl |-> item.exp_state, sym |-> item.sym_container[id[2]]]

-----------------------------------------------------------------------------
(***************************************************************************)
(* What the tables promise each other: every item is found under its       *)
(* explicit part and under no other, and the identifiers known to id2item  *)
(* are exactly the positions of the containers.                            *)
(***************************************************************************)
DatabaseOK(db) ==
  /\ db = [data |-> db.data, state2item |-> db.state2item, id2item |-> db.id2item]
  /\ db.data \in Seq(Item)
  /\ db.state2item \in [DOMAIN db.state2item -> 1 .. Len(db.data)]
  /\ db.id2item \in [DOMAIN db.id2item -> 1 .. Len(db.data)]
  /\ DOMAIN db.state2item \subseteq Expl
  /\ \A i \in 1 .. Len(db.data) :
       /\ db.data[i].exp_state \in DOMAIN db.state2item
       /\ db.state2item[db.data[i].exp_state] = i
  /\ \A e \in DOMAIN db.state2item : db.data[db.state2item[e]].exp_state = e
  /\ \A id \in DOMAIN db.id2item :
       /\ id = <<id[1], id[2]>>
       /\ id[1] = db.id2item[id]
       /\ id[2] \in 1 .. Len(db.data[id[1]].sym_container)
  /\ \A i \in 1 .. Len(db.data) :
       \A j \in 1 .. Len(db.data[i].sym_container) : <<i, j>> \in DOMAIN db.id2item

(* the concrete states a blob stands for, and those the database stores *)
Concrete(b) == {b.expl} \X b.sym
Known(db)   == UNION {Concrete(GetState(db, id)) : id \in DOMAIN db.id2item}
=============================================================================
