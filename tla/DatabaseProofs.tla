--------------------------- MODULE DatabaseProofs ---------------------------
(***************************************************************************)
(* What insert and insertCheck do to a database, for every explicit part,  *)
(* every set of valuations and every database whose tables agree.          *)
(***************************************************************************)
EXTENDS Database, FiniteSetTheorems, TLAPS

(***************************************************************************)
(* What insert leaves of the old database and what it adds: every old      *)
(* identifier still names the same blob, and the one new identifier names  *)
(* the blob inserted.                                                      *)
(***************************************************************************)
Extends(new, old, id, b) ==
  /\ id \notin DOMAIN old.id2item
  /\ DOMAIN new.id2item = DOMAIN old.id2item \cup {id}
  /\ \A i \in DOMAIN old.id2item : GetState(new, i) = GetState(old, i)
  /\ GetState(new, id) = b

(* A container is a sequence of sets of valuations. *)
LEMMA ContainerType ==
  ASSUME NEW db, DatabaseOK(db), NEW b \in Blob
  PROVE  /\ Container(db, b) \in Seq(Sym)
         /\ ItemIndex(db, b) \in 1 .. Len(db.data) + 1
         /\ Found(db, b) => ItemIndex(db, b) \in 1 .. Len(db.data)
<1>1. db.data \in Seq(Item)
  BY DEF DatabaseOK
<1>2. CASE Found(db, b)
  <2>1. db.state2item[b.expl] \in 1 .. Len(db.data)
    BY <1>2 DEF DatabaseOK, Found
  <2>2. db.data[db.state2item[b.expl]] \in Item
    BY <1>1, <2>1
  <2>3. QED
    BY <1>1, <1>2, <2>1, <2>2 DEF Container, ItemIndex, Item
<1>3. CASE ~ Found(db, b)
  BY <1>1, <1>3 DEF Container, ItemIndex
<1>4. QED
  BY <1>2, <1>3

(* insert keeps the tables in agreement and loses nothing: blobing.h:216-253. *)
LEMMA InsertCorrect ==
  ASSUME NEW db, DatabaseOK(db), NEW b \in Blob
  PROVE  /\ DatabaseOK(Insert(db, b))
         /\ Extends(Insert(db, b), db, NewId(db, b), b)
         /\ NewId(db, b) \in StateId
<1> DEFINE idx  == ItemIndex(db, b)
           c    == Container(db, b)
           item == [exp_state |-> b.expl, sym_container |-> Append(c, b.sym)]
           new  == Insert(db, b)
           id   == NewId(db, b)
<1>1. /\ c \in Seq(Sym)
      /\ idx \in 1 .. Len(db.data) + 1
      /\ Found(db, b) => idx \in 1 .. Len(db.data)
  BY ContainerType
<1>2. /\ db.data \in Seq(Item)
      /\ b.expl \in Expl
      /\ b.sym \in Sym
      /\ b = [expl |-> b.expl, sym |-> b.sym]
  BY DEF DatabaseOK, Blob
<1>3. item \in Item
  BY <1>1, <1>2 DEF Item
<1>4. /\ new.data = IF Found(db, b) THEN [db.data EXCEPT ![idx] = item]
                                    ELSE Append(db.data, item)
      /\ new.state2item = TableInsert(db.state2item, b.expl, idx)
      /\ new.id2item = TableInsert(db.id2item, id, idx)
      /\ new = [data |-> new.data, state2item |-> new.state2item, id2item |-> new.id2item]
  BY DEF Insert
<1>5. id = <<idx, Len(c) + 1>>
  BY DEF NewId
<1>6. /\ new.data \in Seq(Item)
      /\ Len(new.data) = IF Found(db, b) THEN Len(db.data) ELSE Len(db.data) + 1
      /\ idx \in 1 .. Len(new.data)
      /\ new.data[idx] = item
      /\ \A i \in 1 .. Len(new.data) :
           i # idx => i \in 1 .. Len(db.data) /\ new.data[i] = db.data[i]
      /\ 1 .. Len(db.data) \subseteq 1 .. Len(new.data)
  <2>1. CASE Found(db, b)
    BY <1>1, <1>2, <1>3, <1>4, <2>1
  <2>2. CASE ~ Found(db, b)
    <3>1. idx = Len(db.data) + 1
      BY <2>2 DEF ItemIndex
    <3>2. new.data = Append(db.data, item)
      BY <1>4, <2>2
    <3> HIDE DEF idx, new, item
    <3>3. QED
      BY <1>2, <1>3, <2>2, <3>1, <3>2
  <2>3. QED
    BY <2>1, <2>2
<1>7. /\ DOMAIN new.state2item = DOMAIN db.state2item \cup {b.expl}
      /\ new.state2item[b.expl] = idx
      /\ \A e \in DOMAIN db.state2item : new.state2item[e] = db.state2item[e]
      /\ new.state2item \in [DOMAIN new.state2item -> 1 .. Len(new.data)]
  <2>1. b.expl \in DOMAIN db.state2item => db.state2item[b.expl] = idx
    BY DEF ItemIndex, Found
  <2>2. db.state2item \in [DOMAIN db.state2item -> 1 .. Len(db.data)]
    BY DEF DatabaseOK
  <2> HIDE DEF idx, new
  <2>3. QED
    BY <1>4, <1>6, <2>1, <2>2 DEF TableInsert
<1>8. id \notin DOMAIN db.id2item
  <2>1. SUFFICES ASSUME id \in DOMAIN db.id2item PROVE FALSE
    OBVIOUS
  <2>2. /\ idx \in 1 .. Len(db.data)
        /\ Len(c) + 1 \in 1 .. Len(db.data[idx].sym_container)
    BY <1>5, <2>1 DEF DatabaseOK
  <2>3. Found(db, b)
    BY <2>2, <1>2 DEF ItemIndex
  <2>4. c = db.data[idx].sym_container
    BY <2>3 DEF Container, ItemIndex
  <2>5. QED
    BY <1>1, <2>2, <2>4
<1>9. /\ DOMAIN new.id2item = DOMAIN db.id2item \cup {id}
      /\ new.id2item[id] = idx
      /\ \A i \in DOMAIN db.id2item : new.id2item[i] = db.id2item[i]
      /\ new.id2item \in [DOMAIN new.id2item -> 1 .. Len(new.data)]
  <2>1. db.id2item \in [DOMAIN db.id2item -> 1 .. Len(db.data)]
    BY DEF DatabaseOK
  <2> HIDE DEF idx, new, id
  <2>2. QED
    BY <1>4, <1>6, <1>8, <2>1 DEF TableInsert
(* an old item keeps its explicit part and the entries it had *)
<1>10. \A i \in 1 .. Len(db.data) :
         /\ new.data[i].exp_state = db.data[i].exp_state
         /\ Len(db.data[i].sym_container) \in Nat
         /\ Len(db.data[i].sym_container) <= Len(new.data[i].sym_container)
         /\ \A j \in 1 .. Len(db.data[i].sym_container) :
              new.data[i].sym_container[j] = db.data[i].sym_container[j]
  <2> SUFFICES ASSUME NEW i \in 1 .. Len(db.data)
               PROVE  /\ new.data[i].exp_state = db.data[i].exp_state
                      /\ Len(db.data[i].sym_container) \in Nat
                      /\ Len(db.data[i].sym_container) <= Len(new.data[i].sym_container)
                      /\ \A j \in 1 .. Len(db.data[i].sym_container) :
                           new.data[i].sym_container[j] = db.data[i].sym_container[j]
    OBVIOUS
  <2> HIDE DEF new
  <2>0. db.data[i].sym_container \in Seq(Sym)
    <3>1. db.data[i] \in Item
      BY <1>2
    <3>2. QED
      BY <3>1 DEF Item
  <2>1. CASE i # idx
    <3>1. new.data[i] = db.data[i]
      BY <1>6, <2>1
    <3>2. QED
      BY <2>0, <3>1
  <2>2. CASE i = idx
    <3>1. Found(db, b)
      BY <1>2, <2>2 DEF ItemIndex
    <3>2. /\ c = db.data[i].sym_container
          /\ db.data[i].exp_state = b.expl
      BY <2>2, <3>1 DEF Container, ItemIndex, Found, DatabaseOK
    <3>3. new.data[i] = item
      BY <1>6, <2>2
    <3> HIDE DEF c
    <3>4. QED
      BY <1>1, <1>2, <3>2, <3>3
  <2>3. QED
    BY <2>1, <2>2
<1>11. /\ item.exp_state = b.expl
       /\ Len(item.sym_container) = Len(c) + 1
       /\ item.sym_container[Len(c) + 1] = b.sym
  BY <1>1, <1>2
<1>12. DatabaseOK(new)
  <2>1. DOMAIN new.state2item \subseteq Expl
    BY <1>2, <1>7 DEF DatabaseOK
  <2>2. \A i \in 1 .. Len(new.data) :
          /\ new.data[i].exp_state \in DOMAIN new.state2item
          /\ new.state2item[new.data[i].exp_state] = i
    <3> SUFFICES ASSUME NEW i \in 1 .. Len(new.data)
                 PROVE  /\ new.data[i].exp_state \in DOMAIN new.state2item
                        /\ new.state2item[new.data[i].exp_state] = i
      OBVIOUS
    <3>1. CASE i = idx
      BY <1>6, <1>7, <1>11, <3>1
    <3>2. CASE i # idx
      <4>1. /\ i \in 1 .. Len(db.data)
            /\ new.data[i] = db.data[i]
        BY <1>6, <3>2
      <4>2. /\ db.data[i].exp_state \in DOMAIN db.state2item
            /\ db.state2item[db.data[i].exp_state] = i
        BY <4>1 DEF DatabaseOK
      <4> HIDE DEF new, idx
      <4>3. QED
        BY <1>7, <4>1, <4>2
    <3>3. QED
      BY <3>1, <3>2
  <2>3. \A e \in DOMAIN new.state2item : new.data[new.state2item[e]].exp_state = e
    <3> SUFFICES ASSUME NEW e \in DOMAIN new.state2item
                 PROVE  new.data[new.state2item[e]].exp_state = e
      OBVIOUS
    <3>1. CASE e = b.expl
      BY <1>6, <1>7, <1>11, <3>1
    <3>2. CASE e \in DOMAIN db.state2item
      <4>1. /\ db.state2item[e] \in 1 .. Len(db.data)
            /\ db.data[db.state2item[e]].exp_state = e
        BY <3>2 DEF DatabaseOK
      <4> HIDE DEF new
      <4>2. QED
        BY <1>7, <1>10, <3>2, <4>1
    <3>3. QED
      BY <1>7, <3>1, <3>2
  <2>4. \A i \in DOMAIN new.id2item :
          /\ i = <<i[1], i[2]>>
          /\ i[1] = new.id2item[i]
          /\ i[2] \in 1 .. Len(new.data[i[1]].sym_container)
    <3> SUFFICES ASSUME NEW i \in DOMAIN new.id2item
                 PROVE  /\ i = <<i[1], i[2]>>
                        /\ i[1] = new.id2item[i]
                        /\ i[2] \in 1 .. Len(new.data[i[1]].sym_container)
      OBVIOUS
    <3>1. CASE i = id
      BY <1>1, <1>5, <1>6, <1>9, <1>11, <3>1
    <3>2. CASE i \in DOMAIN db.id2item
      <4>1. /\ i = <<i[1], i[2]>>
            /\ i[1] = db.id2item[i]
            /\ i[1] \in 1 .. Len(db.data)
            /\ i[2] \in 1 .. Len(db.data[i[1]].sym_container)
        BY <3>2 DEF DatabaseOK
      <4>2. /\ Len(new.data[i[1]].sym_container) \in Nat
        <5>1. new.data[i[1]] \in Item
          BY <1>6, <4>1
        <5>2. QED
          BY <5>1 DEF Item
      <4> HIDE DEF new
      <4>3. QED
        BY <1>9, <1>10, <3>2, <4>1, <4>2, SMTT(20)
    <3>3. QED
      BY <1>9, <3>1, <3>2
  <2>5. \A i \in 1 .. Len(new.data) :
          \A j \in 1 .. Len(new.data[i].sym_container) : <<i, j>> \in DOMAIN new.id2item
    <3> SUFFICES ASSUME NEW i \in 1 .. Len(new.data),
                        NEW j \in 1 .. Len(new.data[i].sym_container)
                 PROVE  <<i, j>> \in DOMAIN new.id2item
      OBVIOUS
    <3>1. CASE i # idx
      <4>1. i \in 1 .. Len(db.data) /\ new.data[i] = db.data[i]
        BY <1>6, <3>1
      <4>2. <<i, j>> \in DOMAIN db.id2item
        BY <4>1 DEF DatabaseOK
      <4>3. QED
        BY <1>9, <4>2
    <3>2. CASE i = idx
      <4>1. j \in 1 .. Len(c) + 1
        BY <1>6, <1>11, <3>2
      <4>2. CASE j = Len(c) + 1
        BY <1>5, <1>9, <3>2, <4>2
      <4>3. CASE j \in 1 .. Len(c)
        <5>1. Found(db, b)
          BY <1>1, <4>3 DEF Container
        <5>2. i \in 1 .. Len(db.data) /\ c = db.data[i].sym_container
          BY <1>1, <3>2, <5>1 DEF Container, ItemIndex
        <5>3. <<i, j>> \in DOMAIN db.id2item
          BY <4>3, <5>2 DEF DatabaseOK
        <5>4. QED
          BY <1>9, <5>3
      <4>4. QED
        BY <1>1, <4>1, <4>2, <4>3
    <3>3. QED
      BY <3>1, <3>2
  <2> HIDE DEF new
  <2>6. QED
    BY <1>4, <1>6, <1>7, <1>9, <2>1, <2>2, <2>3, <2>4, <2>5 DEF DatabaseOK
<1>13. Extends(new, db, id, b)
  <2>1. GetState(new, id) = b
    BY <1>2, <1>5, <1>6, <1>9, <1>11 DEF GetState
  <2>2. ASSUME NEW i \in DOMAIN db.id2item
        PROVE  GetState(new, i) = GetState(db, i)
    <3>1. /\ db.id2item[i] \in 1 .. Len(db.data)
          /\ i[1] = db.id2item[i]
          /\ i[2] \in 1 .. Len(db.data[i[1]].sym_container)
      BY DEF DatabaseOK
    <3>2. new.id2item[i] = db.id2item[i]
      BY <1>9
    <3> HIDE DEF new
    <3>3. /\ new.data[i[1]].exp_state = db.data[i[1]].exp_state
          /\ new.data[i[1]].sym_container[i[2]] = db.data[i[1]].sym_container[i[2]]
      BY <1>10, <3>1
    <3>4. QED
      BY <3>1, <3>2, <3>3 DEF GetState
  <2> HIDE DEF new, id
  <2>3. QED
    BY <1>8, <1>9, <2>1, <2>2 DEF Extends
<1>14. id \in StateId
  BY <1>1, <1>5, <1>6 DEF StateId
<1>15. QED
  BY <1>12, <1>13, <1>14

(* The empty database's tables agree. *)
LEMMA EmptyDatabaseOK == DatabaseOK(EmptyDatabase) /\ DOMAIN EmptyDatabase.id2item = {}
<1>1. /\ EmptyDatabase.data = << >>
      /\ DOMAIN EmptyDatabase.state2item = {}
      /\ DOMAIN EmptyDatabase.id2item = {}
      /\ EmptyDatabase.state2item \in [{} -> 1 .. 0]
      /\ EmptyDatabase.id2item \in [{} -> 1 .. 0]
      /\ EmptyDatabase = [data |-> EmptyDatabase.data,
                          state2item |-> EmptyDatabase.state2item,
                          id2item |-> EmptyDatabase.id2item]
  BY DEF EmptyDatabase
<1>2. << >> \in Seq(Item) /\ Len(<< >>) = 0
  OBVIOUS
<1>3. QED
  BY <1>1, <1>2 DEF DatabaseOK

(* A known identifier names a blob. *)
LEMMA GetStateType ==
  ASSUME NEW db, DatabaseOK(db), NEW id \in DOMAIN db.id2item
  PROVE  GetState(db, id) \in Blob /\ id \in StateId
<1>1. /\ id = <<id[1], id[2]>>
      /\ id[1] = db.id2item[id]
      /\ id[1] \in 1 .. Len(db.data)
      /\ id[2] \in 1 .. Len(db.data[id[1]].sym_container)
      /\ db.data \in Seq(Item)
  BY DEF DatabaseOK
<1>2. db.data[id[1]] \in Item
  BY <1>1
<1>3. /\ db.data[id[1]].exp_state \in Expl
      /\ db.data[id[1]].sym_container \in Seq(Sym)
  BY <1>2 DEF Item
<1>4. db.data[id[1]].sym_container[id[2]] \in Sym
  BY <1>1, <1>3
<1>5. QED
  BY <1>1, <1>3, <1>4 DEF GetState, Blob, StateId

(***************************************************************************)
(* insertCheck (blobing.h:255-275, 394-403), whichever hits the solver     *)
(* misses: the tables keep agreeing, every old identifier still names the  *)
(* same blob, and the identifier returned names a blob with the explicit   *)
(* part asked for that stands for every concrete state of the blob         *)
(* offered - provided a hit means that the new set is inside the old one.  *)
(***************************************************************************)
LEMMA InsertCheckCorrect ==
  ASSUME NEW db, DatabaseOK(db), NEW b \in Blob, NEW v \in InsertCheck(db, b)
  PROVE  /\ DatabaseOK(v.db)
         /\ v.id \in DOMAIN v.db.id2item
         /\ v.fresh \in BOOLEAN
         /\ v.missed \in Nat
         /\ v.fresh => Extends(v.db, db, v.id, b)
         /\ ~ v.fresh => v.db = db
         /\ HitPolicy # "partial" => Concrete(b) \subseteq Concrete(GetState(v.db, v.id))
<1> DEFINE hits == Hits(db, b)
           c    == Container(db, b)
<1>0. IsFiniteSet(hits) /\ \A i : IsFiniteSet({j \in hits : j < i})
  <2>1. hits \subseteq 1 .. Len(c) /\ Len(c) \in Nat
    BY ContainerType DEF Hits
  <2>2. IsFiniteSet(1 .. Len(c))
    BY <2>1, FS_Interval
  <2>3. IsFiniteSet(hits)
    BY <2>1, <2>2, FS_Subset
  <2> HIDE DEF hits
  <2>4. \A i : {j \in hits : j < i} \subseteq hits
    OBVIOUS
  <2>5. QED
    BY <2>3, <2>4, FS_Subset
<1>1. CASE \E i \in hits : v = [fresh |-> FALSE, db |-> db, id |-> <<ItemIndex(db, b), i>>,
                               missed |-> Cardinality({j \in hits : j < i})]
  <2>1. PICK i \in hits : v = [fresh |-> FALSE, db |-> db, id |-> <<ItemIndex(db, b), i>>,
                               missed |-> Cardinality({j \in hits : j < i})]
    BY <1>1
  <2>2. /\ v.fresh = FALSE
        /\ v.db = db
        /\ v.id = <<ItemIndex(db, b), i>>
        /\ v.missed = Cardinality({j \in hits : j < i})
    BY <2>1
  <2>3. v.missed \in Nat
    BY <1>0, <2>2, FS_CardinalityType
  <2>4. i \in 1 .. Len(c) /\ Hit(b.sym, c[i])
    BY DEF Hits
  <2>5. Found(db, b)
    BY <2>4 DEF Container
  <2>6. /\ ItemIndex(db, b) \in 1 .. Len(db.data)
        /\ c = db.data[ItemIndex(db, b)].sym_container
        /\ db.data[ItemIndex(db, b)].exp_state = b.expl
    BY <2>5, ContainerType DEF Container, ItemIndex, Found, DatabaseOK
  <2>7. v.id \in DOMAIN db.id2item /\ db.id2item[v.id] = ItemIndex(db, b)
    BY <2>2, <2>4, <2>6 DEF DatabaseOK
  <2>8. GetState(db, v.id) = [expl |-> b.expl, sym |-> c[i]]
    BY <2>2, <2>6, <2>7 DEF GetState
  <2>9. HitPolicy # "partial" => b.sym \subseteq c[i]
    BY <2>4, HitPolicyAssumption DEF Hit
  <2>10. HitPolicy # "partial" => Concrete(b) \subseteq Concrete(GetState(db, v.id))
    BY <2>8, <2>9 DEF Concrete
  <2>11. QED
    BY <2>2, <2>3, <2>7, <2>10
<1>2. CASE v = [fresh |-> TRUE, db |-> Insert(db, b), id |-> NewId(db, b),
                missed |-> Cardinality(hits)]
  <2>1. /\ v.fresh = TRUE
        /\ v.db = Insert(db, b)
        /\ v.id = NewId(db, b)
        /\ v.missed = Cardinality(hits)
    BY <1>2
  <2>2. v.missed \in Nat
    BY <1>0, <2>1, FS_CardinalityType
  <2>3. DatabaseOK(v.db) /\ Extends(v.db, db, v.id, b)
    BY <2>1, InsertCorrect
  <2>4. QED
    BY <2>1, <2>2, <2>3 DEF Extends
<1>3. QED
  BY <1>1, <1>2 DEF InsertCheck

(* Every concrete state of a blob some identifier names is known. *)
LEMMA NamedIsKnown ==
  ASSUME NEW db, NEW id \in DOMAIN db.id2item
  PROVE  Concrete(GetState(db, id)) \subseteq Known(db)
BY DEF Known

(* insertCheck adds to the known concrete states those of the blob, if it is
   taken as new, and nothing else; either way they are known afterwards. *)
LEMMA KnownAfterInsertCheck ==
  ASSUME NEW db, DatabaseOK(db), NEW b \in Blob, NEW v \in InsertCheck(db, b)
  PROVE  /\ Known(db) \subseteq Known(v.db)
         /\ Known(v.db) \subseteq Known(db) \cup Concrete(b)
         /\ HitPolicy # "partial" => Concrete(b) \subseteq Known(v.db)
<1>1. /\ v.id \in DOMAIN v.db.id2item
      /\ v.fresh \in BOOLEAN
      /\ v.fresh => Extends(v.db, db, v.id, b)
      /\ ~ v.fresh => v.db = db
      /\ HitPolicy # "partial" => Concrete(b) \subseteq Concrete(GetState(v.db, v.id))
  BY InsertCheckCorrect
<1>2. HitPolicy # "partial" => Concrete(b) \subseteq Known(v.db)
  BY <1>1, NamedIsKnown
<1>3. CASE v.fresh
  <2>1. /\ DOMAIN v.db.id2item = DOMAIN db.id2item \cup {v.id}
        /\ \A i \in DOMAIN db.id2item : GetState(v.db, i) = GetState(db, i)
        /\ GetState(v.db, v.id) = b
    BY <1>1, <1>3 DEF Extends
  <2>2. Known(db) \subseteq Known(v.db)
    BY <2>1 DEF Known
  <2>3. Known(v.db) \subseteq Known(db) \cup Concrete(b)
    BY <2>1 DEF Known
  <2>4. QED
    BY <1>2, <2>2, <2>3
<1>4. CASE ~ v.fresh
  BY <1>1, <1>2, <1>4
<1>5. QED
  BY <1>1, <1>3, <1>4
=============================================================================
