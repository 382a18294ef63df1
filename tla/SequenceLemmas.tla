--------------------------- MODULE SequenceLemmas ---------------------------
(***************************************************************************)
(* What the operators on sequences that the specifications are built from  *)
(* return, and induction over the numbers of their elements.               *)
(***************************************************************************)
EXTENDS Integers, Sequences, SequencesExt, SequenceTheorems, WellFoundedInduction, TLAPS

(* The set of the elements of a sequence. *)
LEMMA SetOfSequence ==
  ASSUME NEW T, NEW q \in Seq(T)
  PROVE  /\ ToSet(q) = {q[i] : i \in 1 .. Len(q)} /\ ToSet(q) \subseteq T
         /\ q = << >> <=> ToSet(q) = {}
         /\ Len(q) \in Nat /\ (q = << >> <=> Len(q) = 0)
<1>1. Len(q) \in Nat /\ DOMAIN q = 1 .. Len(q) /\ \A i \in 1 .. Len(q) : q[i] \in T
  OBVIOUS
<1>2. q = << >> <=> Len(q) = 0
  OBVIOUS
<1>3. ToSet(q) = {q[i] : i \in 1 .. Len(q)}
  BY <1>1 DEF ToSet
<1>4. ASSUME Len(q) # 0 PROVE ToSet(q) # {}
  BY <1>1, <1>3, <1>4
<1>5. ASSUME Len(q) = 0 PROVE ToSet(q) = {}
  BY <1>1, <1>3, <1>5
<1>6. QED
  BY <1>1, <1>2, <1>3, <1>4, <1>5

(* The first elements of a sequence. *)
LEMMA FirstElements ==
  ASSUME NEW T, NEW q \in Seq(T), NEW n \in 0 .. Len(q)
  PROVE  /\ SubSeq(q, 1, n) \in Seq(T)
         /\ Len(SubSeq(q, 1, n)) = n
         /\ \A i \in 1 .. n : SubSeq(q, 1, n)[i] = q[i]
  OBVIOUS

(* A sequence without its last element. *)
LEMMA FrontAndLast ==
  ASSUME NEW T, NEW q \in Seq(T), q # << >>
  PROVE  /\ Len(q) \in Nat \ {0}
         /\ Last(q) = q[Len(q)] /\ Last(q) \in T
         /\ Front(q) \in Seq(T)
         /\ Len(Front(q)) = Len(q) - 1
         /\ \A i \in 1 .. Len(q) - 1 : Front(q)[i] = q[i]
         /\ ToSet(q) = ToSet(Front(q)) \cup {Last(q)}
<1>1. Len(q) \in Nat \ {0} /\ \A i \in 1 .. Len(q) : q[i] \in T
  OBVIOUS
<1>2. Last(q) = q[Len(q)] /\ Last(q) \in T
  BY <1>1 DEF Last
<1>3. /\ Front(q) \in Seq(T)
      /\ Len(Front(q)) = Len(q) - 1
      /\ \A i \in 1 .. Len(q) - 1 : Front(q)[i] = q[i]
  <2>1. Len(q) - 1 \in 0 .. Len(q)
    BY <1>1
  <2>2. Front(q) = SubSeq(q, 1, Len(q) - 1)
    BY DEF Front
  <2>3. QED
    BY <2>1, <2>2, FirstElements
<1>4. ToSet(q) = {q[i] : i \in 1 .. Len(q)} /\ ToSet(Front(q)) = {Front(q)[i] : i \in 1 .. Len(q) - 1}
  BY <1>3, SetOfSequence
<1>5. ToSet(q) = ToSet(Front(q)) \cup {Last(q)}
  BY <1>1, <1>2, <1>3, <1>4
<1>6. QED
  BY <1>1, <1>2, <1>3, <1>5

(* A sequence with one element more. *)
LEMMA Appending ==
  ASSUME NEW T, NEW q \in Seq(T), NEW x \in T
  PROVE  /\ Append(q, x) \in Seq(T) /\ Append(q, x) # << >>
         /\ Len(q) \in Nat /\ Len(Append(q, x)) = Len(q) + 1
         /\ \A i \in 1 .. Len(q) : Append(q, x)[i] = q[i]
         /\ Append(q, x)[Len(q) + 1] = x
  OBVIOUS

(* A prefix has the first elements of the longer sequence. *)
LEMMA PrefixElements ==
  ASSUME NEW T, NEW p \in Seq(T), NEW q \in Seq(T)
  PROVE  IsPrefix(p, q) <=> Len(p) <= Len(q) /\ \A i \in 1 .. Len(p) : p[i] = q[i]
<1>1. Len(p) \in Nat /\ Len(q) \in Nat
  OBVIOUS
<1>2. SubSeq(p, 1, Len(p)) = p
  BY SubSeqFull
<1>3. ASSUME Len(p) <= Len(q)
      PROVE  /\ SubSeq(q, 1, Len(p)) \in Seq(T)
             /\ Len(SubSeq(q, 1, Len(p))) = Len(p)
             /\ \A i \in 1 .. Len(p) : SubSeq(q, 1, Len(p))[i] = q[i]
  BY <1>1, <1>3, FirstElements
<1>4. ASSUME Len(p) <= Len(q)
      PROVE  p = SubSeq(q, 1, Len(p)) <=> \A i \in 1 .. Len(p) : p[i] = q[i]
  BY <1>3, <1>4, SeqEqual
<1>5. QED
  BY <1>2, <1>4 DEF IsPrefix

(* A function on the first numbers is a sequence. *)
LEMMA FunctionAsSequence ==
  ASSUME NEW T, NEW n \in Nat, NEW q \in [1 .. n -> T]
  PROVE  q \in Seq(T) /\ Len(q) = n
<1>1. q \in Seq(T)
  OBVIOUS
<1>2. DOMAIN q = 1 .. n /\ DOMAIN q = 1 .. Len(q) /\ Len(q) \in Nat
  BY <1>1
<1>3. QED
  BY <1>1, <1>2

(* A sequence without the elements from place lo to place hi. *)
LEMMA Cutting ==
  ASSUME NEW T, NEW q \in Seq(T), NEW lo \in Int, NEW hi \in Int,
         1 <= lo, lo <= hi, hi <= Len(q)
  PROVE  LET cut == SubSeq(q, 1, lo - 1) \o SubSeq(q, hi + 1, Len(q))
         IN  /\ cut \in Seq(T)
             /\ Len(cut) = Len(q) - (hi + 1 - lo)
             /\ \A i \in 1 .. Len(q) - (hi + 1 - lo) :
                  cut[i] = IF i < lo THEN q[i] ELSE q[i + (hi + 1 - lo)]
<1> DEFINE p == SubSeq(q, 1, lo - 1)
           r == SubSeq(q, hi + 1, Len(q))
           n == Len(q)
<1>1. n \in Nat /\ \A i \in 1 .. n : q[i] \in T
  OBVIOUS
<1>2. p \in Seq(T) /\ Len(p) = lo - 1 /\ \A i \in 1 .. lo - 1 : p[i] = q[i]
  <2>1. \A i \in 1 .. lo - 1 : q[i] \in T
    BY <1>1
  <2>2. 1 \in Int /\ lo - 1 \in Int
    OBVIOUS
  <2>3. /\ p \in Seq(T)
        /\ Len(p) = IF 1 <= lo - 1 THEN (lo - 1) - 1 + 1 ELSE 0
        /\ \A i \in 1 .. (lo - 1) - 1 + 1 : p[i] = q[1 + i - 1]
    BY <2>1, <2>2, SubSeqProperties
  <2>4. QED
    BY <2>3
<1>3. r \in Seq(T) /\ Len(r) = n - hi /\ \A i \in 1 .. n - hi : r[i] = q[hi + i]
  <2>1. \A i \in hi + 1 .. n : q[i] \in T
    BY <1>1
  <2>2. hi + 1 \in Int /\ n \in Int
    BY <1>1
  <2>3. /\ r \in Seq(T)
        /\ Len(r) = IF hi + 1 <= n THEN n - (hi + 1) + 1 ELSE 0
        /\ \A i \in 1 .. n - (hi + 1) + 1 : r[i] = q[(hi + 1) + i - 1]
    BY <2>1, <2>2, SubSeqProperties
  <2>4. n - (hi + 1) + 1 = n - hi
    BY <1>1
  <2>5. \A i \in 1 .. n - hi : (hi + 1) + i - 1 = hi + i
    BY <1>1
  <2>6. Len(r) = n - hi
    BY <1>1, <2>3
  <2>7. QED
    BY <2>3, <2>4, <2>5, <2>6
<1> HIDE DEF p, r
<1>4. /\ p \o r \in Seq(T)
      /\ Len(p \o r) = Len(p) + Len(r)
      /\ \A i \in 1 .. Len(p) + Len(r) : (p \o r)[i] = IF i <= Len(p) THEN p[i] ELSE r[i - Len(p)]
  BY <1>2, <1>3, ConcatProperties
<1>5. Len(p) + Len(r) = n - (hi + 1 - lo)
  BY <1>1, <1>2, <1>3
<1>6. ASSUME NEW i \in 1 .. n - (hi + 1 - lo)
      PROVE  (p \o r)[i] = IF i < lo THEN q[i] ELSE q[i + (hi + 1 - lo)]
  <2>1. CASE i < lo
    BY <1>2, <1>4, <1>5, <2>1
  <2>2. CASE i >= lo
    <3>1. i - (lo - 1) \in 1 .. n - hi /\ hi + (i - (lo - 1)) = i + (hi + 1 - lo) /\ ~(i <= lo - 1)
      BY <1>1, <2>2
    <3>2. (p \o r)[i] = r[i - (lo - 1)]
      BY <1>2, <1>4, <1>5, <3>1
    <3>3. r[i - (lo - 1)] = q[hi + (i - (lo - 1))]
      BY <1>3, <3>1
    <3>4. ~(i < lo)
      BY <2>2
    <3>5. (p \o r)[i] = q[i + (hi + 1 - lo)]
      BY <3>1, <3>2, <3>3, Zenon
    <3>6. QED
      BY <3>4, <3>5, Zenon
  <2>3. i < lo \/ i >= lo
    BY <1>1
  <2>4. QED
    BY <2>1, <2>2, <2>3
<1>7. QED
  BY <1>4, <1>5, <1>6 DEF p, r

(* A sequence without the element at a place. *)
LEMMA Removing ==
  ASSUME NEW T, NEW q \in Seq(T), NEW w \in 1 .. Len(q)
  PROVE  /\ RemoveAt(q, w) \in Seq(T)
         /\ Len(RemoveAt(q, w)) = Len(q) - 1
         /\ \A i \in 1 .. Len(q) - 1 : RemoveAt(q, w)[i] = IF i < w THEN q[i] ELSE q[i + 1]
<1>1. Len(q) \in Nat /\ w \in Int /\ 1 <= w /\ w <= w /\ w <= Len(q) /\ w + 1 - w = 1
  OBVIOUS
<1>2. RemoveAt(q, w) = SubSeq(q, 1, w - 1) \o SubSeq(q, w + 1, Len(q))
  BY DEF RemoveAt
<1> DEFINE cut == SubSeq(q, 1, w - 1) \o SubSeq(q, w + 1, Len(q))
<1>3. /\ cut \in Seq(T)
      /\ Len(cut) = Len(q) - (w + 1 - w)
      /\ \A i \in 1 .. Len(q) - (w + 1 - w) : cut[i] = IF i < w THEN q[i] ELSE q[i + (w + 1 - w)]
  BY <1>1, Cutting
<1> HIDE DEF cut
<1>4. QED
  BY <1>1, <1>2, <1>3 DEF cut

(* A sequence with an element put in at a place. *)
LEMMA Inserting ==
  ASSUME NEW T, NEW q \in Seq(T), NEW w \in 1 .. Len(q) + 1, NEW x \in T
  PROVE  /\ InsertAt(q, w, x) \in Seq(T)
         /\ Len(InsertAt(q, w, x)) = Len(q) + 1
         /\ \A i \in 1 .. Len(q) + 1 :
              InsertAt(q, w, x)[i] = IF i < w THEN q[i] ELSE IF i = w THEN x ELSE q[i - 1]
<1> DEFINE p == SubSeq(q, 1, w - 1)
           s == p \o <<x>>
           r == SubSeq(q, w, Len(q))
           n == Len(q)
<1>1. n \in Nat /\ (\A i \in 1 .. n : q[i] \in T) /\ w \in Nat /\ 1 <= w /\ w <= n + 1
  OBVIOUS
<1>2. p \in Seq(T) /\ Len(p) = w - 1 /\ \A i \in 1 .. w - 1 : p[i] = q[i]
  <2>1. \A i \in 1 .. w - 1 : q[i] \in T
    BY <1>1
  <2>2. 1 \in Int /\ w - 1 \in Int
    BY <1>1
  <2>3. /\ p \in Seq(T)
        /\ Len(p) = IF 1 <= w - 1 THEN (w - 1) - 1 + 1 ELSE 0
        /\ \A i \in 1 .. (w - 1) - 1 + 1 : p[i] = q[1 + i - 1]
    BY <2>1, <2>2, SubSeqProperties
  <2>4. QED
    BY <1>1, <2>3
<1>3. r \in Seq(T) /\ Len(r) = n - w + 1 /\ \A i \in 1 .. n - w + 1 : r[i] = q[w + i - 1]
  <2>1. \A i \in w .. n : q[i] \in T
    BY <1>1
  <2>2. w \in Int /\ n \in Int
    BY <1>1
  <2>3. /\ r \in Seq(T)
        /\ Len(r) = IF w <= n THEN n - w + 1 ELSE 0
        /\ \A i \in 1 .. n - w + 1 : r[i] = q[w + i - 1]
    BY <2>1, <2>2, SubSeqProperties
  <2>4. QED
    BY <1>1, <2>3
<1> HIDE DEF p, r
<1>4. s \in Seq(T) /\ Len(s) = w /\ s[w] = x /\ \A i \in 1 .. w - 1 : s[i] = q[i]
  <2>1. <<x>> \in Seq(T) /\ Len(<<x>>) = 1 /\ <<x>>[1] = x
    OBVIOUS
  <2>2. /\ s \in Seq(T)
        /\ Len(s) = Len(p) + Len(<<x>>)
        /\ \A i \in 1 .. Len(p) + Len(<<x>>) :
             s[i] = IF i <= Len(p) THEN p[i] ELSE <<x>>[i - Len(p)]
    BY <1>2, <2>1, ConcatProperties
  <2> HIDE DEF s
  <2>3. Len(p) + Len(<<x>>) = w /\ w - Len(p) = 1 /\ ~(w <= Len(p)) /\ w \in 1 .. w
    BY <1>1, <1>2, <2>1
  <2>4. s[w] = x
    BY <2>1, <2>2, <2>3
  <2>5. \A i \in 1 .. w - 1 : s[i] = q[i]
    BY <1>1, <1>2, <2>2, <2>3
  <2>6. QED
    BY <2>2, <2>3, <2>4, <2>5
<1>5. InsertAt(q, w, x) = s \o r
  BY DEF InsertAt, p, r
<1> HIDE DEF s
<1>6. /\ s \o r \in Seq(T)
      /\ Len(s \o r) = Len(s) + Len(r)
      /\ \A i \in 1 .. Len(s) + Len(r) : (s \o r)[i] = IF i <= Len(s) THEN s[i] ELSE r[i - Len(s)]
  BY <1>3, <1>4, ConcatProperties
<1>7. Len(s) + Len(r) = n + 1
  BY <1>1, <1>3, <1>4
<1>8. ASSUME NEW i \in 1 .. n + 1
      PROVE  (s \o r)[i] = IF i < w THEN q[i] ELSE IF i = w THEN x ELSE q[i - 1]
  <2>1. CASE i < w
    BY <1>1, <1>4, <1>6, <1>7, <2>1
  <2>2. CASE i = w
    BY <1>1, <1>4, <1>6, <1>7, <2>2
  <2>3. CASE i > w
    <3>1. i - w \in 1 .. n - w + 1 /\ w + (i - w) - 1 = i - 1 /\ ~(i <= w)
      BY <1>1, <2>3
    <3>2. (s \o r)[i] = r[i - w]
      BY <1>4, <1>6, <1>7, <3>1
    <3>3. r[i - w] = q[w + (i - w) - 1]
      BY <1>3, <3>1
    <3>4. ~(i < w) /\ i # w
      BY <1>1, <2>3
    <3>5. (s \o r)[i] = q[i - 1]
      BY <3>1, <3>2, <3>3, Zenon
    <3>6. QED
      BY <3>4, <3>5, Zenon
  <2>4. i < w \/ i = w \/ i > w
    BY <1>1
  <2>5. QED
    BY <2>1, <2>2, <2>3, <2>4
<1>9. QED
  BY <1>5, <1>6, <1>7, <1>8

-----------------------------------------------------------------------------
(* Numbers.                                                                *)

(* A set of natural numbers has a least element. *)
LEMMA LeastNumber ==
  ASSUME NEW S \in SUBSET Nat, S # {}
  PROVE  \E n \in S : \A i \in S : n <= i
<1> DEFINE R == OpToRel(<, Nat)
<1>1. IsWellFoundedOn(R, Nat)
  BY NatLessThanWellFounded
<1>2. \A i, n \in Nat : i < n => <<i, n>> \in R
  BY DEF OpToRel
<1> HIDE DEF R
<1>3. PICK n \in S : \A i \in S : ~ (<<i, n>> \in R)
  BY <1>1, WFMin
<1>4. \A i \in S : ~ (i < n)
  BY <1>2, <1>3, Zenon
<1>5. QED
  BY <1>4

(* Induction: a set that holds 0 and is closed under the successor holds all
   natural numbers. *)
LEMMA NumberInduction ==
  ASSUME NEW S, 0 \in S, \A n \in Nat : n \in S => n + 1 \in S
  PROVE  Nat \subseteq S
<1> SUFFICES ASSUME Nat \ S # {} PROVE FALSE
  OBVIOUS
<1>1. PICK n \in Nat \ S : \A i \in Nat \ S : n <= i
  BY LeastNumber
<1>2. n # 0 /\ n - 1 \in Nat /\ n - 1 \notin Nat \ S
  BY <1>1
<1>3. QED
  BY <1>2

(* A function on numbers, with one element more. *)
LEMMA AppendedFunction ==
  ASSUME NEW T, NEW n \in Nat, NEW A \in [1 .. n -> T], NEW d \in T
  PROVE  /\ Len(A \o <<d>>) = n + 1
         /\ \A k \in 1 .. n : (A \o <<d>>)[k] = A[k]
         /\ (A \o <<d>>)[n + 1] = d
<1>1. A \in Seq(T) /\ Len(A) = n
  BY FunctionAsSequence
<1>2. <<d>> \in Seq(T) /\ Len(<<d>>) = 1 /\ <<d>>[1] = d
  OBVIOUS
<1>3. QED
  BY <1>1, <1>2

(* Sequences with the same elements are the same. *)
LEMMA SameSequence ==
  ASSUME NEW T, NEW p \in Seq(T), NEW q \in Seq(T), Len(p) = Len(q),
         \A k \in 1 .. Len(p) : p[k] = q[k]
  PROVE  p = q
<1>1. DOMAIN p = 1 .. Len(p) /\ DOMAIN q = 1 .. Len(p) /\ p = [k \in DOMAIN p |-> p[k]] /\ q = [k \in DOMAIN q |-> q[k]]
  OBVIOUS
<1>2. QED
  BY <1>1

(* An element that is removed does not matter. *)
LEMMA RemovedElement ==
  ASSUME NEW T, NEW q \in Seq(T), NEW i \in 1 .. Len(q), NEW x \in T, NEW p, p = [q EXCEPT ![i] = x]
  PROVE  RemoveAt(p, i) = RemoveAt(q, i)
<1>1. p \in Seq(T) /\ Len(p) = Len(q) /\ \A k \in 1 .. Len(q) : k # i => p[k] = q[k]
  OBVIOUS
<1>n. Len(q) \in Nat /\ i \in 1 .. Len(p)
  BY <1>1
<1>2. /\ RemoveAt(p, i) \in Seq(T)
      /\ Len(RemoveAt(p, i)) = Len(q) - 1
      /\ \A k \in 1 .. Len(q) - 1 : RemoveAt(p, i)[k] = IF k < i THEN p[k] ELSE p[k + 1]
  <2>1. /\ RemoveAt(p, i) \in Seq(T)
        /\ Len(RemoveAt(p, i)) = Len(p) - 1
        /\ \A k \in 1 .. Len(p) - 1 : RemoveAt(p, i)[k] = IF k < i THEN p[k] ELSE p[k + 1]
    <3>1. \A v \in Seq(T) : i \in 1 .. Len(v) =>
             /\ RemoveAt(v, i) \in Seq(T)
             /\ Len(RemoveAt(v, i)) = Len(v) - 1
             /\ \A k \in 1 .. Len(v) - 1 : RemoveAt(v, i)[k] = IF k < i THEN v[k] ELSE v[k + 1]
      BY Removing
    <3>2. QED
      BY <1>1, <1>n, <3>1
  <2>2. QED
    BY <1>1, <2>1
<1>3. /\ RemoveAt(q, i) \in Seq(T)
      /\ Len(RemoveAt(q, i)) = Len(q) - 1
      /\ \A k \in 1 .. Len(q) - 1 : RemoveAt(q, i)[k] = IF k < i THEN q[k] ELSE q[k + 1]
  BY Removing
<1>4. \A k \in 1 .. Len(q) - 1 : RemoveAt(p, i)[k] = RemoveAt(q, i)[k]
  <2>1. TAKE k \in 1 .. Len(q) - 1
  <2>2. k \in 1 .. Len(q) /\ k + 1 \in 1 .. Len(q) /\ k \in Nat /\ i \in Nat
    BY <1>n
  <2>3. CASE k < i
    <3>1. k # i
      BY <2>2, <2>3
    <3>2. QED
      BY <3>1, <2>2, <2>3, <1>1, <1>2, <1>3
  <2>4. CASE ~ k < i
    <3>1. k + 1 # i
      BY <2>2, <2>4
    <3>2. QED
      BY <3>1, <2>2, <2>4, <1>1, <1>2, <1>3
  <2>5. QED
    BY <2>3, <2>4
<1>5. QED
  BY <1>2, <1>3, <1>4, SameSequence

(* A sequence without its first element. *)
LEMMA FirstAndRest ==
  ASSUME NEW T, NEW q \in Seq(T), q # << >>
  PROVE  /\ Head(q) = q[1] /\ Head(q) \in T /\ 1 \in 1 .. Len(q)
         /\ Tail(q) \in Seq(T) /\ Len(Tail(q)) = Len(q) - 1
         /\ \A k \in 1 .. Len(q) - 1 : Tail(q)[k] = q[k + 1] /\ k + 1 \in 1 .. Len(q)
  OBVIOUS

(* Two sequences joined. *)
LEMMA Joining ==
  ASSUME NEW T, NEW p \in Seq(T), NEW q \in Seq(T)
  PROVE  /\ p \o q \in Seq(T)
         /\ Len(p \o q) = Len(p) + Len(q)
         /\ \A k \in 1 .. Len(p) : (p \o q)[k] = p[k]
         /\ \A k \in 1 .. Len(p) + Len(q) : k \in 1 .. Len(p) \/ (k - Len(p) \in 1 .. Len(q) /\ (p \o q)[k] = q[k - Len(p)])
  OBVIOUS
=============================================================================
