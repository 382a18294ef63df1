---------------------------- MODULE MemoryProofs ----------------------------
(***************************************************************************)
(* Inserting and erasing segments keeps the pointers to the segments that  *)
(* stay, whatever the program does: the proofs about Memory.  The first    *)
(* third is about MemoryLayout: the segments stay contiguous, and the      *)
(* first segments of the frames move with the others.  The second is about *)
(* the cells, and the last shows that Memory implements Objects.           *)
(***************************************************************************)
EXTENDS Memory, SequenceLemmas, TLAPS

-----------------------------------------------------------------------------
(* Numbers.                                                                *)

(* What grows at every step grows. *)
LEMMA StepsGrow ==
  ASSUME NEW a \in Int, NEW b \in Int, NEW f,
         \A i \in a .. b : f[i] \in Int,
         \A i \in a .. b - 1 : f[i] < f[i + 1]
  PROVE  \A i, j \in a .. b : i < j => f[i] < f[j]
<1> DEFINE S == {d \in Nat : \A i \in a .. b : i + d + 1 \in a .. b => f[i] < f[i + d + 1]}
<1>1. 0 \in S
  <2>1. ASSUME NEW i \in a .. b, i + 1 \in a .. b PROVE f[i] < f[i + 1]
    <3>1. i \in a .. b - 1
      BY <2>1
    <3>2. QED
      BY <3>1
  <2>2. QED
    BY <2>1
<1>2. ASSUME NEW d \in Nat, d \in S PROVE d + 1 \in S
  <2>1. ASSUME NEW i \in a .. b, i + d + 2 \in a .. b PROVE f[i] < f[i + d + 2]
    <3>1. i + d + 1 \in a .. b /\ i + d + 1 \in a .. b - 1 /\ (i + d + 1) + 1 = i + d + 2
      BY <2>1
    <3>2. f[i] < f[i + d + 1]
      BY <1>2, <3>1
    <3>3. f[i + d + 1] < f[i + d + 2]
      BY <3>1
    <3>4. f[i] \in Int /\ f[i + d + 1] \in Int /\ f[i + d + 2] \in Int
      BY <2>1, <3>1
    <3>5. QED
      BY <3>2, <3>3, <3>4
  <2>2. \A i \in a .. b : i + (d + 1) + 1 = i + d + 2
    OBVIOUS
  <2>3. QED
    BY <2>1, <2>2
<1> HIDE DEF S
<1>3. Nat \subseteq S
  BY <1>1, <1>2, NumberInduction
<1>4. ASSUME NEW i \in a .. b, NEW j \in a .. b, i < j PROVE f[i] < f[j]
  <2>1. j - i - 1 \in Nat /\ i + (j - i - 1) + 1 = j
    BY <1>4
  <2>2. j - i - 1 \in S
    BY <1>3, <2>1
  <2>3. QED
    BY <2>1, <2>2 DEF S
<1>5. QED
  BY <1>4

-----------------------------------------------------------------------------
(* The frames of a thread.                                                 *)

(* f sums the first n widths. *)
AddsUp(width, n, f) ==
  /\ f \in [0 .. n -> Nat]
  /\ f[0] = 0
  /\ \A k \in 1 .. n : f[k] = f[k - 1] + width[k]

(* There is a function with these sums. *)
LEMMA SumsExist ==
  ASSUME NEW width \in Seq(Nat)
  PROVE  \E f : AddsUp(width, Len(width), f)
<1> DEFINE n == Len(width)
           S == {m \in Nat : m <= n => \E f : AddsUp(width, m, f)}
<1>1. n \in Nat
  OBVIOUS
<1>2. 0 \in S
  <2>1. AddsUp(width, 0, [k \in 0 .. 0 |-> 0])
    BY DEF AddsUp
  <2>2. QED
    BY <2>1
<1>3. ASSUME NEW m \in Nat, m \in S PROVE m + 1 \in S
  <2>1. ASSUME m + 1 <= n PROVE \E f : AddsUp(width, m + 1, f)
    <3>1. m <= n
      BY <1>1, <2>1
    <3>2. PICK f : AddsUp(width, m, f)
      BY <1>3, <3>1
    <3> DEFINE g == [k \in 0 .. m + 1 |-> IF k = m + 1 THEN f[m] + width[m + 1] ELSE f[k]]
    <3>3. width[m + 1] \in Nat
      BY <1>1, <2>1
    <3>4. \A k \in 0 .. m : f[k] \in Nat /\ k # m + 1
      BY <3>2 DEF AddsUp
    <3>5. g \in [0 .. m + 1 -> Nat]
      BY <3>3, <3>4
    <3>6. ASSUME NEW k \in 1 .. m + 1 PROVE g[k] = g[k - 1] + width[k]
      <4>1. g[k - 1] = f[k - 1]
        OBVIOUS
      <4>2. CASE k = m + 1
        BY <4>1, <4>2
      <4>3. CASE k # m + 1
        <5>1. k \in 1 .. m
          BY <4>3
        <5>2. QED
          BY <3>2, <4>1, <4>3, <5>1 DEF AddsUp
      <4>4. QED
        BY <4>2, <4>3
    <3>7. g[0] = 0
      BY <3>2 DEF AddsUp
    <3> HIDE DEF g
    <3>8. QED
      BY <3>5, <3>6, <3>7 DEF AddsUp
  <2>2. QED
    BY <2>1
<1> HIDE DEF S
<1>4. Nat \subseteq S
  BY <1>2, <1>3, NumberInduction
<1>5. n \in S
  BY <1>1, <1>4
<1>6. QED
  BY <1>1, <1>5 DEF S

(* FrameEnds is that function. *)
LEMMA FrameEndsAddUp ==
  ASSUME NEW width \in Seq(Nat)
  PROVE  /\ FrameEnds(width)[0] = 0
         /\ \A k \in 0 .. Len(width) : FrameEnds(width)[k] \in Nat
         /\ \A k \in 1 .. Len(width) : FrameEnds(width)[k] = FrameEnds(width)[k - 1] + width[k]
<1> DEFINE Ends(f) == [k \in 0 .. Len(width) |-> IF k = 0 THEN 0 ELSE f[k - 1] + width[k]]
<1>1. Len(width) \in Nat
  OBVIOUS
<1>2. PICK f : AddsUp(width, Len(width), f)
  BY SumsExist
<1>3. f = Ends(f)
  <2>1. f = [k \in 0 .. Len(width) |-> f[k]]
    BY <1>2 DEF AddsUp
  <2>2. \A k \in 0 .. Len(width) : f[k] = IF k = 0 THEN 0 ELSE f[k - 1] + width[k]
    BY <1>1, <1>2 DEF AddsUp
  <2>3. QED
    BY <2>1, <2>2
<1>4. FrameEnds(width) = CHOOSE g : g = Ends(g)
  BY DEF FrameEnds
<1>5. FrameEnds(width) = Ends(FrameEnds(width))
  BY <1>3, <1>4
<1> HIDE DEF Ends
<1> DEFINE e == FrameEnds(width)
<1> HIDE DEF e
<1>6. e = Ends(e)
  BY <1>5 DEF e
<1>7. e[0] = 0 /\ \A k \in 1 .. Len(width) : e[k] = e[k - 1] + width[k]
  BY <1>1, <1>6 DEF Ends
<1> DEFINE S == {k \in Nat : k <= Len(width) => e[k] \in Nat}
<1>8. Nat \subseteq S
  <2>1. 0 \in S
    BY <1>7
  <2>2. ASSUME NEW k \in Nat, k \in S PROVE k + 1 \in S
    <3>1. ASSUME k + 1 <= Len(width) PROVE e[k + 1] \in Nat
      <4>1. width[k + 1] \in Nat /\ k + 1 \in 1 .. Len(width) /\ k <= Len(width)
        BY <1>1, <3>1
      <4>2. e[k + 1] = e[k] + width[k + 1]
        BY <1>7, <4>1
      <4>3. QED
        BY <2>2, <4>1, <4>2
    <3>2. QED
      BY <3>1
  <2> HIDE DEF S
  <2>3. QED
    BY <2>1, <2>2, NumberInduction
<1>9. QED
  BY <1>1, <1>7, <1>8 DEF e

(* A frame without segments is none: the ends grow. *)
LEMMA FrameEndsGrow ==
  ASSUME NEW width \in Seq(Nat), \A k \in 1 .. Len(width) : width[k] > 0
  PROVE  \A i, j \in 0 .. Len(width) : i < j => FrameEnds(width)[i] < FrameEnds(width)[j]
<1> DEFINE e == FrameEnds(width)
<1>1. Len(width) \in Nat /\ \A k \in 1 .. Len(width) : width[k] \in Nat
  OBVIOUS
<1>2. \A k \in 0 .. Len(width) : e[k] \in Int
  BY FrameEndsAddUp
<1>3. ASSUME NEW i \in 0 .. Len(width) - 1 PROVE e[i] < e[i + 1]
  <2>1. i + 1 \in 1 .. Len(width) /\ (i + 1) - 1 = i
    BY <1>1
  <2>2. e[i + 1] = e[i] + width[i + 1]
    BY <2>1, FrameEndsAddUp
  <2>3. QED
    BY <1>1, <1>2, <2>1, <2>2
<1> HIDE DEF e
<1>4. \A i \in 0 .. Len(width) - 1 : e[i] < e[i + 1]
  BY <1>3
<1>5. 0 \in Int /\ Len(width) \in Int
  BY <1>1
<1>6. \A i, j \in 0 .. Len(width) : i < j => e[i] < e[j]
  BY <1>2, <1>4, <1>5, StepsGrow
<1>7. QED
  BY <1>6 DEF e

(* The ends depend on the widths up to them. *)
LEMMA FrameEndsAgree ==
  ASSUME NEW v \in Seq(Nat), NEW w \in Seq(Nat), NEW n \in Nat,
         n <= Len(v), n <= Len(w), \A k \in 1 .. n : v[k] = w[k]
  PROVE  \A k \in 0 .. n : FrameEnds(v)[k] = FrameEnds(w)[k]
<1> DEFINE e == FrameEnds(v)
           f == FrameEnds(w)
           S == {k \in Nat : k <= n => e[k] = f[k]}
<1>1. e[0] = 0 /\ \A k \in 1 .. n : e[k] = e[k - 1] + v[k]
  BY FrameEndsAddUp
<1>2. f[0] = 0 /\ \A k \in 1 .. n : f[k] = f[k - 1] + w[k]
  BY FrameEndsAddUp
<1> HIDE DEF e, f
<1>3. 0 \in S
  BY <1>1, <1>2
<1>4. ASSUME NEW k \in Nat, k \in S PROVE k + 1 \in S
  <2>1. ASSUME k + 1 <= n PROVE e[k + 1] = f[k + 1]
    <3>1. k + 1 \in 1 .. n /\ (k + 1) - 1 = k /\ k <= n
      BY <2>1
    <3>2. e[k] = f[k]
      BY <1>4, <3>1
    <3>3. QED
      BY <1>1, <1>2, <3>1, <3>2
  <2>2. QED
    BY <2>1
<1> HIDE DEF S
<1>5. Nat \subseteq S
  BY <1>3, <1>4, NumberInduction
<1>6. QED
  BY <1>5 DEF S, e, f

-----------------------------------------------------------------------------
(* Where the threads lie.                                                  *)

(* m has a layout for each of its threads. *)
HasLayout(m) ==
  /\ m.thread_segments \in Seq(Seq(Nat))
  /\ m.segments_in_stack \in Seq(Seq(Nat))
  /\ Len(m.segments_in_stack) = ThreadCount(m)

(* b[t] is the last segment before those of thread t. *)
LaidOut(m, b) ==
  /\ b \in [1 .. ThreadCount(m) + 1 -> Nat]
  /\ b[1] = GlobalSegment
  /\ \A t \in 1 .. ThreadCount(m) :
       /\ Len(m.thread_segments[t]) > 0
       /\ b[t + 1] = b[t] + Len(m.thread_segments[t])
       /\ \A k \in 1 .. Len(m.thread_segments[t]) : m.thread_segments[t][k] = b[t] + k
       /\ \A k \in 1 .. Len(m.segments_in_stack[t]) : m.segments_in_stack[t][k] > 0
       /\ FrameEnds(m.segments_in_stack[t])[Len(m.segments_in_stack[t])]
            = Len(m.thread_segments[t])

(* The first segment of frame k of thread t, by b. *)
FrameStart(m, b, t, k) == b[t] + FrameEnds(m.segments_in_stack[t])[k - 1] + 1

(* A layout of Contiguous segments is LaidOut. *)
LEMMA ContiguousIsLaidOut ==
  ASSUME NEW m, NEW n, HasLayout(m), Contiguous(m, n)
  PROVE  \E b : LaidOut(m, b) /\ b[ThreadCount(m) + 1] = n
<1> DEFINE T == m.thread_segments
           W == m.segments_in_stack
           b == [t \in 1 .. ThreadCount(m) + 1 |-> SegmentsBefore(m, t)]
<1>1. /\ ThreadCount(m) \in Nat
      /\ DOMAIN T = 1 .. ThreadCount(m)
      /\ \A t \in 1 .. ThreadCount(m) : T[t] \in Seq(Nat) /\ W[t] \in Seq(Nat)
  BY DEF HasLayout, ThreadCount
<1>2. /\ SegmentsBefore(m, ThreadCount(m) + 1) = n
      /\ \A t \in 1 .. ThreadCount(m) :
           /\ T[t] # << >>
           /\ \A k \in 1 .. Len(T[t]) : T[t][k] = SegmentsBefore(m, t) + k
           /\ \A k \in 1 .. Len(W[t]) : W[t][k] > 0
           /\ FrameEnds(W[t])[Len(W[t])] = Len(T[t])
  <2>1. \A t \in 1 .. ThreadCount(m) :
           DOMAIN T[t] = 1 .. Len(T[t]) /\ DOMAIN W[t] = 1 .. Len(W[t])
    BY <1>1
  <2>2. QED
    BY <1>1, <2>1 DEF Contiguous
<1>3. \A t \in 1 .. ThreadCount(m) : Len(T[t]) \in Nat /\ Len(T[t]) > 0
  BY <1>1, <1>2
<1>4. SegmentsBefore(m, 1) = GlobalSegment
  BY DEF SegmentsBefore
<1>5. \A t \in 1 .. ThreadCount(m) : SegmentsBefore(m, t + 1) = T[t][Len(T[t])]
  BY <1>1 DEF SegmentsBefore, Last
<1>6. \A t \in 1 .. ThreadCount(m) :
        /\ SegmentsBefore(m, t + 1) = SegmentsBefore(m, t) + Len(T[t])
        /\ SegmentsBefore(m, t + 1) \in Nat
  <2>1. ASSUME NEW t \in 1 .. ThreadCount(m)
        PROVE  /\ SegmentsBefore(m, t + 1) = SegmentsBefore(m, t) + Len(T[t])
               /\ SegmentsBefore(m, t + 1) \in Nat
    <3>1. T[t] \in Seq(Nat) /\ Len(T[t]) \in 1 .. Len(T[t])
      BY <1>1, <1>3
    <3>2. T[t][Len(T[t])] \in Nat
      BY <3>1
    <3>3. T[t][Len(T[t])] = SegmentsBefore(m, t) + Len(T[t])
      BY <1>2, <3>1
    <3>4. QED
      BY <1>5, <3>2, <3>3
  <2>2. QED
    BY <2>1
<1>7. \A t \in 1 .. ThreadCount(m) + 1 : SegmentsBefore(m, t) \in Nat
  <2>1. ASSUME NEW t \in 1 .. ThreadCount(m) + 1, t # 1 PROVE SegmentsBefore(m, t) \in Nat
    <3>1. t - 1 \in 1 .. ThreadCount(m) /\ (t - 1) + 1 = t
      BY <1>1, <2>1
    <3>2. QED
      BY <1>6, <3>1
  <2>2. QED
    BY <1>4, <2>1 DEF GlobalSegment
<1>8. \A t \in 1 .. ThreadCount(m) + 1 : b[t] = SegmentsBefore(m, t)
  OBVIOUS
<1>9. b \in [1 .. ThreadCount(m) + 1 -> Nat]
  BY <1>7
<1> HIDE DEF b
<1>10. \A t \in 1 .. ThreadCount(m) :
         t \in 1 .. ThreadCount(m) + 1 /\ t + 1 \in 1 .. ThreadCount(m) + 1
  BY <1>1
<1>11. 1 \in 1 .. ThreadCount(m) + 1 /\ ThreadCount(m) + 1 \in 1 .. ThreadCount(m) + 1
  BY <1>1
<1>12. LaidOut(m, b)
  BY <1>1, <1>2, <1>3, <1>4, <1>6, <1>8, <1>9, <1>10, <1>11, SMTT(30) DEF LaidOut
<1>13. b[ThreadCount(m) + 1] = n
  BY <1>2, <1>8, <1>11
<1>14. QED
  BY <1>12, <1>13

(* And the other way. *)
LEMMA LaidOutIsContiguous ==
  ASSUME NEW m, NEW b, HasLayout(m), LaidOut(m, b)
  PROVE  Contiguous(m, b[ThreadCount(m) + 1])
<1> DEFINE T == m.thread_segments
           W == m.segments_in_stack
<1>1. /\ ThreadCount(m) \in Nat
      /\ DOMAIN T = 1 .. ThreadCount(m)
      /\ \A t \in 1 .. ThreadCount(m) : T[t] \in Seq(Nat) /\ W[t] \in Seq(Nat)
  BY DEF HasLayout, ThreadCount
<1>2. \A t \in 1 .. ThreadCount(m) :
        /\ DOMAIN T[t] = 1 .. Len(T[t]) /\ DOMAIN W[t] = 1 .. Len(W[t])
        /\ Len(T[t]) \in 1 .. Len(T[t]) /\ T[t] # << >>
  BY <1>1 DEF LaidOut
<1>3. \A t \in 1 .. ThreadCount(m) : Last(T[t]) = b[t + 1]
  BY <1>1, <1>2 DEF LaidOut, Last
<1>4. \A t \in 1 .. ThreadCount(m) + 1 : SegmentsBefore(m, t) = b[t]
  <2>1. ASSUME NEW t \in 1 .. ThreadCount(m) + 1, t # 1 PROVE SegmentsBefore(m, t) = b[t]
    <3>1. t - 1 \in 1 .. ThreadCount(m) /\ (t - 1) + 1 = t
      BY <1>1, <2>1
    <3>2. QED
      BY <1>3, <2>1, <3>1 DEF SegmentsBefore
  <2>2. SegmentsBefore(m, 1) = b[1]
    BY DEF SegmentsBefore, LaidOut
  <2>3. QED
    BY <2>1, <2>2
<1>5. \A t \in 1 .. ThreadCount(m) : t \in 1 .. ThreadCount(m) + 1
  BY <1>1
<1>6. ThreadCount(m) + 1 \in 1 .. ThreadCount(m) + 1
  BY <1>1
<1>7. SegmentsBefore(m, ThreadCount(m) + 1) = b[ThreadCount(m) + 1]
  BY <1>4, <1>6
<1>8. ASSUME NEW t \in 1 .. ThreadCount(m)
      PROVE  /\ T[t] # << >>
             /\ \A k \in DOMAIN T[t] : T[t][k] = SegmentsBefore(m, t) + k
             /\ \A k \in DOMAIN W[t] : W[t][k] > 0
             /\ FrameEnds(W[t])[Len(W[t])] = Len(T[t])
  <2>1. SegmentsBefore(m, t) = b[t]
    BY <1>4, <1>5
  <2>2. QED
    BY <1>2, <2>1 DEF LaidOut
<1>9. QED
  BY <1>1, <1>7, <1>8, Zenon DEF Contiguous

(* What a layout consists of, thread by thread. *)
LEMMA LayoutParts ==
  ASSUME NEW m, HasLayout(m)
  PROVE  /\ ThreadCount(m) \in Nat
         /\ DOMAIN m.thread_segments = 1 .. ThreadCount(m)
         /\ DOMAIN m.segments_in_stack = 1 .. ThreadCount(m)
         /\ \A t \in 1 .. ThreadCount(m) :
              /\ m.thread_segments[t] \in Seq(Nat)
              /\ Len(m.thread_segments[t]) \in Nat
              /\ DOMAIN m.thread_segments[t] = 1 .. Len(m.thread_segments[t])
              /\ m.segments_in_stack[t] \in Seq(Nat)
              /\ Len(m.segments_in_stack[t]) \in Nat
              /\ DOMAIN m.segments_in_stack[t] = 1 .. Len(m.segments_in_stack[t])
<1>1. ThreadCount(m) \in Nat /\ DOMAIN m.thread_segments = 1 .. ThreadCount(m)
  BY DEF HasLayout, ThreadCount
<1>2. DOMAIN m.segments_in_stack = 1 .. ThreadCount(m)
  BY DEF HasLayout, ThreadCount
<1>3. \A t \in 1 .. ThreadCount(m) :
        m.thread_segments[t] \in Seq(Nat) /\ m.segments_in_stack[t] \in Seq(Nat)
  BY <1>1, <1>2 DEF HasLayout
<1>4. QED
  BY <1>1, <1>2, <1>3

(* Later threads lie behind. *)
LEMMA ThreadsAscend ==
  ASSUME NEW m, NEW b, HasLayout(m), LaidOut(m, b)
  PROVE  /\ \A t \in 1 .. ThreadCount(m) + 1 : b[t] \in Nat /\ b[t] > 0
         /\ \A i, j \in 1 .. ThreadCount(m) + 1 : i < j => b[i] < b[j]
         /\ \A t \in 1 .. ThreadCount(m) : b[t + 1] <= b[ThreadCount(m) + 1]
<1> DEFINE n == ThreadCount(m)
<1>1. n \in Nat /\ \A t \in 1 .. n : Len(m.thread_segments[t]) \in Nat
  BY LayoutParts
<1> HIDE DEF n
<1>2. \A t \in 1 .. n + 1 : b[t] \in Nat
  BY DEF LaidOut, n
<1>3. 1 \in Int /\ n + 1 \in Int /\ \A t \in 1 .. n + 1 : b[t] \in Int
  BY <1>1, <1>2
<1>4. \A t \in 1 .. (n + 1) - 1 : b[t] < b[t + 1]
  <2>1. ASSUME NEW t \in 1 .. n PROVE b[t] < b[t + 1]
    <3>1. /\ b[t + 1] = b[t] + Len(m.thread_segments[t])
          /\ Len(m.thread_segments[t]) > 0 /\ Len(m.thread_segments[t]) \in Nat
      BY <1>1 DEF LaidOut, n
    <3>2. b[t] \in Nat
      BY <1>1, <1>2
    <3>3. QED
      BY <3>1, <3>2
  <2>2. QED
    BY <1>1, <2>1
<1>5. \A i, j \in 1 .. n + 1 : i < j => b[i] < b[j]
  BY <1>3, <1>4, StepsGrow
<1>6. b[1] = 1
  BY DEF LaidOut, GlobalSegment
<1>7. \A t \in 1 .. n + 1 : b[t] > 0
  BY <1>1, <1>2, <1>5, <1>6
<1>8. \A t \in 1 .. n : b[t + 1] <= b[n + 1]
  BY <1>1, <1>2, <1>5
<1>9. QED
  BY <1>2, <1>5, <1>7, <1>8 DEF n

(* Every frame has its first segment in its thread; the first of all is the
   thread's first. *)
LEMMA FrameStarts ==
  ASSUME NEW m, NEW b, HasLayout(m), LaidOut(m, b), NEW t \in 1 .. ThreadCount(m)
  PROVE  /\ Len(m.segments_in_stack[t]) > 0
         /\ FrameStart(m, b, t, 1) = b[t] + 1
         /\ \A k \in 1 .. Len(m.segments_in_stack[t]) :
              /\ FrameStart(m, b, t, k) \in Nat
              /\ b[t] < FrameStart(m, b, t, k)
              /\ FrameStart(m, b, t, k) <= b[t + 1]
              /\ FirstSegment(m, t, k) = FrameStart(m, b, t, k)
<1> DEFINE own == m.thread_segments[t]
           w == m.segments_in_stack[t]
           e == FrameEnds(w)
<1>1. ThreadCount(m) \in Nat /\ own \in Seq(Nat) /\ w \in Seq(Nat) /\ Len(own) \in Nat /\ Len(w) \in Nat
  BY LayoutParts
<1>2. /\ Len(own) > 0 /\ b[t + 1] = b[t] + Len(own)
      /\ \A k \in 1 .. Len(own) : own[k] = b[t] + k
      /\ \A k \in 1 .. Len(w) : w[k] > 0
      /\ e[Len(w)] = Len(own)
  BY DEF LaidOut
<1>3. b[t] \in Nat
  BY <1>1, ThreadsAscend
<1> HIDE DEF own
<1>4. e[0] = 0 /\ \A k \in 0 .. Len(w) : e[k] \in Nat
  BY <1>1, FrameEndsAddUp
<1>5. \A i, j \in 0 .. Len(w) : i < j => e[i] < e[j]
  BY <1>1, <1>2, FrameEndsGrow
<1>6. \A k \in 1 .. Len(w) : FrameStart(m, b, t, k) = b[t] + e[k - 1] + 1
  BY DEF FrameStart
<1>7. FrameStart(m, b, t, 1) = b[t] + e[0] + 1
  BY DEF FrameStart
<1>8. \A k \in 1 .. Len(w) : FirstSegment(m, t, k) = own[e[k - 1] + 1]
  BY DEF FirstSegment, own
<1> HIDE DEF w, e
<1>9. Len(w) > 0
  BY <1>1, <1>2, <1>4
<1>10. ASSUME NEW k \in 1 .. Len(w)
       PROVE  /\ FrameStart(m, b, t, k) \in Nat
              /\ b[t] < FrameStart(m, b, t, k)
              /\ FrameStart(m, b, t, k) <= b[t + 1]
              /\ FirstSegment(m, t, k) = FrameStart(m, b, t, k)
  <2>1. k - 1 \in 0 .. Len(w) /\ Len(w) \in 0 .. Len(w) /\ k - 1 < Len(w)
    BY <1>1
  <2>2. e[k - 1] \in Nat /\ e[k - 1] < Len(own)
    BY <1>2, <1>4, <1>5, <2>1
  <2>3. e[k - 1] + 1 \in 1 .. Len(own)
    BY <1>1, <2>2, SMTT(30)
  <2>4. own[e[k - 1] + 1] = b[t] + (e[k - 1] + 1)
    BY <1>2, <2>3
  <2>5. FrameStart(m, b, t, k) = b[t] + e[k - 1] + 1 /\ FirstSegment(m, t, k) = own[e[k - 1] + 1]
    BY <1>6, <1>8
  <2>6. FirstSegment(m, t, k) = FrameStart(m, b, t, k)
    BY <1>3, <2>2, <2>4, <2>5, SMTT(30)
  <2>7. \A x, y, z \in Nat : y < z => x + y + 1 <= x + z
    OBVIOUS
  <2>8. b[t] + e[k - 1] + 1 <= b[t] + Len(own)
    BY <1>1, <1>3, <2>2, <2>7, Zenon
  <2>9. b[t] + e[k - 1] + 1 \in Nat /\ b[t] < b[t] + e[k - 1] + 1
    BY <1>3, <2>2, SMTT(30)
  <2>10. QED
    BY <1>2, <2>5, <2>6, <2>8, <2>9
<1>11. QED
  BY <1>3, <1>4, <1>7, <1>9, <1>10 DEF w

(* The segments of registers are the first ones of the frames. *)
LEMMA RegistersStartFrames ==
  ASSUME NEW m, NEW b, HasLayout(m), LaidOut(m, b)
  PROVE  /\ \A s : s \in RegisterSegments(m) <=>
                     \E t \in 1 .. ThreadCount(m) : \E k \in 1 .. Len(m.segments_in_stack[t]) :
                       s = FrameStart(m, b, t, k)
         /\ \A s \in RegisterSegments(m) : s \in Nat /\ s > 1 /\ s <= b[ThreadCount(m) + 1]
<1>1. /\ ThreadCount(m) \in Nat
      /\ DOMAIN m.segments_in_stack = 1 .. ThreadCount(m)
      /\ \A t \in 1 .. ThreadCount(m) :
           DOMAIN m.segments_in_stack[t] = 1 .. Len(m.segments_in_stack[t])
  BY LayoutParts
<1>2. \A t \in 1 .. ThreadCount(m) : \A k \in 1 .. Len(m.segments_in_stack[t]) :
        /\ FirstSegment(m, t, k) = FrameStart(m, b, t, k)
        /\ FrameStart(m, b, t, k) \in Nat
        /\ b[t] < FrameStart(m, b, t, k)
        /\ FrameStart(m, b, t, k) <= b[t + 1]
  BY FrameStarts
<1>3. \A s : s \in RegisterSegments(m) <=>
               \E t \in 1 .. ThreadCount(m) : \E k \in 1 .. Len(m.segments_in_stack[t]) :
                 s = FirstSegment(m, t, k)
  BY <1>1 DEF RegisterSegments
<1>4. \A s : s \in RegisterSegments(m) <=>
               \E t \in 1 .. ThreadCount(m) : \E k \in 1 .. Len(m.segments_in_stack[t]) :
                 s = FrameStart(m, b, t, k)
  BY <1>2, <1>3
<1>5. ASSUME NEW t \in 1 .. ThreadCount(m), NEW k \in 1 .. Len(m.segments_in_stack[t])
      PROVE  FrameStart(m, b, t, k) > 1 /\ FrameStart(m, b, t, k) <= b[ThreadCount(m) + 1]
  <2>1. t \in 1 .. ThreadCount(m) + 1 /\ t + 1 \in 1 .. ThreadCount(m) + 1
        /\ ThreadCount(m) + 1 \in 1 .. ThreadCount(m) + 1
    BY <1>1
  <2>2. /\ b[t] \in Nat /\ b[t] > 0 /\ b[t + 1] \in Nat /\ b[ThreadCount(m) + 1] \in Nat
        /\ b[t + 1] <= b[ThreadCount(m) + 1]
    BY <2>1, ThreadsAscend
  <2>3. QED
    BY <1>2, <2>2
<1>6. QED
  BY <1>2, <1>4, <1>5

(* The last frame of a thread and the one before it. *)
LEMMA LastFrames ==
  ASSUME NEW m, NEW b, HasLayout(m), LaidOut(m, b), NEW t \in 1 .. ThreadCount(m)
  PROVE  /\ LastRange(m, t)[1] = FrameStart(m, b, t, Len(m.segments_in_stack[t]))
         /\ LastRange(m, t)[2] = b[t + 1]
         /\ Last(m.thread_segments[t]) = b[t + 1]
         /\ Len(m.segments_in_stack[t]) > 1 =>
              PrevRange(m, t)[1] = FrameStart(m, b, t, Len(m.segments_in_stack[t]) - 1)
<1> DEFINE own == m.thread_segments[t]
           w == m.segments_in_stack[t]
           e == FrameEnds(w)
           n == Len(w)
<1>1. ThreadCount(m) \in Nat /\ own \in Seq(Nat) /\ w \in Seq(Nat) /\ Len(own) \in Nat /\ Len(w) \in Nat
  BY LayoutParts
<1>2. /\ Len(own) > 0 /\ b[t + 1] = b[t] + Len(own)
      /\ \A k \in 1 .. Len(own) : own[k] = b[t] + k
      /\ \A k \in 1 .. Len(w) : w[k] > 0
      /\ e[n] = Len(own)
  BY DEF LaidOut
<1>3. b[t] \in Nat
  BY <1>1, ThreadsAscend
<1>4. n > 0
  BY FrameStarts
<1>5. Last(own) = own[Len(own)] /\ Last(w) = w[n] /\ own[Len(own)] = b[t + 1]
  BY <1>1, <1>2, SMTT(30) DEF Last
<1>6. LastRange(m, t) = <<own[Len(own)] - w[n] + 1, own[Len(own)]>>
  BY <1>5 DEF LastRange
<1>7. PrevRange(m, t)[1] = own[Len(own) - w[n]] - w[n - 1] + 1
  BY <1>5 DEF PrevRange
<1>8. FrameStart(m, b, t, n) = b[t] + e[n - 1] + 1 /\ FrameStart(m, b, t, n - 1) = b[t] + e[(n - 1) - 1] + 1
  BY DEF FrameStart
<1>9. /\ \A k \in 0 .. n : e[k] \in Nat
      /\ \A k \in 1 .. n : e[k] = e[k - 1] + w[k]
  BY <1>1, FrameEndsAddUp
<1>10. \A k \in 1 .. n : w[k] \in Nat
  BY <1>1
<1> HIDE DEF own, w, e, n
<1>11. n \in 1 .. n /\ n - 1 \in 0 .. n /\ n \in Nat
  BY <1>1, <1>4 DEF n
<1>12. Len(own) = e[n - 1] + w[n] /\ e[n - 1] \in Nat /\ w[n] \in Nat
  BY <1>2, <1>9, <1>10, <1>11
<1>13. own[Len(own)] - w[n] + 1 = b[t] + e[n - 1] + 1
  BY <1>2, <1>3, <1>5, <1>12
<1>14. ASSUME n > 1 PROVE own[Len(own) - w[n]] - w[n - 1] + 1 = b[t] + e[(n - 1) - 1] + 1
  <2>1. n - 1 \in 1 .. n /\ (n - 1) - 1 \in 0 .. n
    BY <1>11, <1>14
  <2>2. e[n - 1] = e[(n - 1) - 1] + w[n - 1] /\ e[(n - 1) - 1] \in Nat /\ w[n - 1] \in Nat /\ w[n - 1] > 0
    BY <1>2, <1>9, <1>10, <2>1 DEF n
  <2>3. Len(own) - w[n] = e[n - 1] /\ e[n - 1] \in 1 .. Len(own)
    BY <1>12, <2>2
  <2>4. own[e[n - 1]] = b[t] + e[n - 1]
    BY <1>2, <2>3
  <2>5. QED
    BY <1>3, <1>12, <2>2, <2>3, <2>4
<1>15. QED
  BY <1>5, <1>6, <1>7, <1>8, <1>13, <1>14 DEF n, own, w

-----------------------------------------------------------------------------
(* A segment more.                                                         *)

(* The number a segment has when one has been put in before it. *)
Up(w, s) == IF s < w THEN s ELSE s + 1

(* The threads behind tid lie d segments further on. *)
Shifted(m, b, tid, d) ==
  [t \in 1 .. ThreadCount(m) + 1 |-> IF t <= tid THEN b[t] ELSE b[t] + d]

(* p has the segments of m, and w as the last one of thread tid. *)
PutIn(m, p, tid, w) ==
  /\ HasLayout(p) /\ ThreadCount(p) = ThreadCount(m)
  /\ p.thread_segments[tid] = Append(m.thread_segments[tid], w)
  /\ \A i \in 1 .. ThreadCount(m) :
       /\ i < tid => p.thread_segments[i] = m.thread_segments[i]
       /\ i > tid => p.thread_segments[i] =
                      [k \in DOMAIN m.thread_segments[i] |-> m.thread_segments[i][k] + 1]
       /\ i # tid => p.segments_in_stack[i] = m.segments_in_stack[i]

(* The stacks when a frame has been entered, a segment been put in a last
   frame, or a thread been started. *)
OtherStacks(m, p, tid) ==
  /\ ThreadCount(p) = ThreadCount(m)
  /\ \A i \in 1 .. ThreadCount(m) : i # tid => p.segments_in_stack[i] = m.segments_in_stack[i]

StacksEntered(m, p, tid) ==
  OtherStacks(m, p, tid) /\ p.segments_in_stack[tid] = Append(m.segments_in_stack[tid], 1)

StacksWidened(m, p, tid) ==
  LET width == m.segments_in_stack[tid]
  IN  OtherStacks(m, p, tid) /\ p.segments_in_stack[tid] = Append(Front(width), Last(width) + 1)

StacksStarted(m, p) ==
  /\ ThreadCount(p) = ThreadCount(m) + 1
  /\ p.segments_in_stack[ThreadCount(m) + 1] = <<1>>
  /\ \A i \in 1 .. ThreadCount(m) : p.segments_in_stack[i] = m.segments_in_stack[i]

(* One segment put in behind those of tid leaves the threads laid out, and
   moves the first segments of the frames. *)
LEMMA PuttingIn ==
  ASSUME NEW m, NEW b, HasLayout(m), LaidOut(m, b), NEW tid \in 1 .. ThreadCount(m),
         NEW p, PutIn(m, p, tid, b[tid + 1] + 1),
         \A k \in 1 .. Len(p.segments_in_stack[tid]) : p.segments_in_stack[tid][k] > 0,
         \A k \in 1 .. Len(m.segments_in_stack[tid]) :
           FrameEnds(p.segments_in_stack[tid])[k - 1] = FrameEnds(m.segments_in_stack[tid])[k - 1],
         FrameEnds(p.segments_in_stack[tid])[Len(p.segments_in_stack[tid])]
           = Len(m.thread_segments[tid]) + 1
  PROVE  /\ LaidOut(p, Shifted(m, b, tid, 1))
         /\ Shifted(m, b, tid, 1)[ThreadCount(p) + 1] = b[ThreadCount(m) + 1] + 1
         /\ \A t \in 1 .. ThreadCount(m) : \A k \in 1 .. Len(m.segments_in_stack[t]) :
              FrameStart(p, Shifted(m, b, tid, 1), t, k)
                = Up(b[tid + 1] + 1, FrameStart(m, b, t, k))
<1> DEFINE n == ThreadCount(m)
           T == m.thread_segments
           V == m.segments_in_stack
           W == p.segments_in_stack
           c == Shifted(m, b, tid, 1)
           s == b[tid + 1] + 1
<1>1. n \in Nat /\ ThreadCount(p) = n /\ 1 <= tid /\ tid <= n /\ tid \in Nat
  BY LayoutParts DEF PutIn
<1>2. \A t \in 1 .. n : T[t] \in Seq(Nat) /\ Len(T[t]) \in Nat /\ DOMAIN T[t] = 1 .. Len(T[t])
                        /\ V[t] \in Seq(Nat) /\ Len(V[t]) \in Nat
  BY LayoutParts
<1>3. /\ \A t \in 1 .. n + 1 : b[t] \in Nat
      /\ \A i, j \in 1 .. n + 1 : i < j => b[i] < b[j]
  BY ThreadsAscend
<1>4. b[tid + 1] \in Nat
  BY <1>1, <1>3
<1>5. \A t \in 1 .. n + 1 : c[t] = IF t <= tid THEN b[t] ELSE b[t] + 1
  BY DEF Shifted
<1>6. c \in [1 .. n + 1 -> Nat]
  <2>1. \A t \in 1 .. n + 1 : (IF t <= tid THEN b[t] ELSE b[t] + 1) \in Nat
    BY <1>3
  <2>2. QED
    BY <2>1 DEF Shifted
<1> HIDE DEF c
<1>7. ASSUME NEW t \in 1 .. n
      PROVE  /\ Len(p.thread_segments[t]) > 0
             /\ c[t + 1] = c[t] + Len(p.thread_segments[t])
             /\ \A k \in 1 .. Len(p.thread_segments[t]) : p.thread_segments[t][k] = c[t] + k
             /\ \A k \in 1 .. Len(W[t]) : W[t][k] > 0
             /\ FrameEnds(W[t])[Len(W[t])] = Len(p.thread_segments[t])
  <2>1. /\ Len(T[t]) > 0
        /\ b[t + 1] = b[t] + Len(T[t])
        /\ \A k \in 1 .. Len(T[t]) : T[t][k] = b[t] + k
        /\ \A k \in 1 .. Len(V[t]) : V[t][k] > 0
        /\ FrameEnds(V[t])[Len(V[t])] = Len(T[t])
    BY DEF LaidOut
  <2>2. b[t] \in Nat /\ b[t + 1] \in Nat /\ t \in 1 .. n + 1 /\ t + 1 \in 1 .. n + 1 /\ t \in Nat
    BY <1>1, <1>3
  <2>3. CASE t < tid
    <3>1. p.thread_segments[t] = T[t] /\ W[t] = V[t]
      <4>1. t # tid
        BY <1>1, <2>2, <2>3
      <4>2. QED
        BY <2>3, <4>1, Zenon DEF PutIn
    <3>2. c[t] = b[t] /\ c[t + 1] = b[t + 1]
      BY <1>1, <1>5, <2>2, <2>3
    <3>3. QED
      BY <2>1, <3>1, <3>2, Zenon
  <2>4. CASE t = tid
    <3>1. p.thread_segments[t] = Append(T[t], s)
      BY <2>4, Zenon DEF PutIn
    <3>2. c[t] = b[t] /\ c[t + 1] = b[t + 1] + 1
      BY <1>1, <1>5, <2>2, <2>4
    <3>3. /\ Len(Append(T[t], s)) = Len(T[t]) + 1
          /\ \A k \in 1 .. Len(T[t]) : Append(T[t], s)[k] = T[t][k]
          /\ Append(T[t], s)[Len(T[t]) + 1] = s
      BY <1>2, <1>4, Appending
    <3>4. s = b[t] + (Len(T[t]) + 1)
      BY <1>2, <2>1, <2>2, <2>4, SMTT(30)
    <3>5. ASSUME NEW k \in 1 .. Len(T[t]) + 1 PROVE Append(T[t], s)[k] = b[t] + k
      <4>1. k \in 1 .. Len(T[t]) \/ k = Len(T[t]) + 1
        <5>1. Len(T[t]) \in Nat
          BY <1>2
        <5>2. QED
          BY <5>1
      <4>2. QED
        BY <2>1, <3>3, <3>4, <4>1
    <3>6. c[t + 1] = c[t] + (Len(T[t]) + 1) /\ Len(T[t]) + 1 > 0
      <4>1. \A x, y \in Nat : (x + y) + 1 = x + (y + 1) /\ y + 1 > 0
        OBVIOUS
      <4>2. (b[t] + Len(T[t])) + 1 = b[t] + (Len(T[t]) + 1) /\ Len(T[t]) + 1 > 0
        BY <1>2, <2>2, <4>1
      <4>3. QED
        BY <2>1, <3>2, <4>2, Zenon
    <3>7. QED
      BY <2>4, <3>1, <3>2, <3>3, <3>5, <3>6
  <2>5. CASE t > tid
    <3> DEFINE own == [k \in DOMAIN T[t] |-> T[t][k] + 1]
    <3>1. p.thread_segments[t] = own /\ W[t] = V[t]
      <4>1. t # tid
        BY <1>1, <2>2, <2>5
      <4>2. QED
        BY <2>5, <4>1, Zenon DEF PutIn
    <3>2. c[t] = b[t] + 1 /\ c[t + 1] = b[t + 1] + 1
      BY <1>1, <1>5, <2>2, <2>5
    <3>3. DOMAIN T[t] = 1 .. Len(T[t]) /\ Len(T[t]) \in Nat
      BY <1>2
    <3>4. own \in [1 .. Len(T[t]) -> Nat] /\ \A k \in 1 .. Len(T[t]) : own[k] = T[t][k] + 1
      <4>1. \A k \in DOMAIN T[t] : T[t][k] + 1 \in Nat
        BY <1>2, SMTT(30)
      <4>2. QED
        BY <3>3, <4>1, Zenon
    <3> HIDE DEF own
    <3>5. Len(own) = Len(T[t])
      BY <3>3, <3>4, FunctionAsSequence
    <3>6. ASSUME NEW k \in 1 .. Len(T[t]) PROVE own[k] = c[t] + k
      <4>1. own[k] = (b[t] + k) + 1
        BY <2>1, <3>4, Zenon
      <4>2. k \in Nat
        BY <3>3
      <4>3. QED
        BY <2>2, <3>2, <4>1, <4>2
    <3>7. c[t + 1] = c[t] + Len(T[t])
      <4>1. \A x, y \in Nat : (x + y) + 1 = (x + 1) + y
        OBVIOUS
      <4>2. (b[t] + Len(T[t])) + 1 = (b[t] + 1) + Len(T[t])
        BY <2>2, <3>3, <4>1
      <4>3. QED
        BY <2>1, <3>2, <4>2, Zenon
    <3>8. QED
      BY <2>1, <3>1, <3>5, <3>6, <3>7
  <2>6. t < tid \/ t = tid \/ t > tid
    BY <1>1, <2>2
  <2>7. QED
    BY <2>3, <2>4, <2>5, <2>6
<1>8. c[1] = b[1] /\ c[n + 1] = b[n + 1] + 1
  BY <1>1, <1>5
<1>9. LaidOut(p, c)
  BY <1>1, <1>6, <1>7, <1>8 DEF LaidOut
<1>10. ASSUME NEW t \in 1 .. n, NEW k \in 1 .. Len(V[t])
       PROVE  FrameStart(p, c, t, k) = Up(s, FrameStart(m, b, t, k))
  <2>1. /\ FrameStart(m, b, t, k) = b[t] + FrameEnds(V[t])[k - 1] + 1
        /\ FrameStart(p, c, t, k) = c[t] + FrameEnds(W[t])[k - 1] + 1
    BY DEF FrameStart
  <2>2. FrameEnds(W[t])[k - 1] = FrameEnds(V[t])[k - 1]
    <3>1. CASE t = tid
      BY <3>1
    <3>2. CASE t # tid
      BY <1>1, <3>2 DEF PutIn
    <3>3. QED
      BY <3>1, <3>2
  <2>3. /\ FrameStart(m, b, t, k) \in Nat
        /\ b[t] < FrameStart(m, b, t, k)
        /\ FrameStart(m, b, t, k) <= b[t + 1]
    BY FrameStarts
  <2>4. /\ b[t] \in Nat /\ b[t + 1] \in Nat /\ t \in 1 .. n + 1 /\ t + 1 \in 1 .. n + 1 /\ t \in Nat
        /\ tid + 1 \in 1 .. n + 1
    BY <1>1, <1>3
  <2> DEFINE e == FrameEnds(V[t])[k - 1]
  <2>5. e \in Nat
    <3>1. k - 1 \in 0 .. Len(V[t])
      BY <1>2
    <3>2. QED
      BY <1>2, <3>1, FrameEndsAddUp
  <2> HIDE DEF e
  <2>6. FrameStart(m, b, t, k) = b[t] + e + 1 /\ FrameStart(p, c, t, k) = c[t] + e + 1
    BY <2>1, <2>2 DEF e
  <2>7. CASE t <= tid
    <3>1. c[t] = b[t]
      BY <1>5, <2>4, <2>7
    <3>2. b[t + 1] <= b[tid + 1]
      BY <1>1, <1>3, <1>4, <2>4, <2>7, SMTT(30)
    <3>3. FrameStart(m, b, t, k) < s
      BY <1>4, <2>3, <2>4, <3>2
    <3>4. QED
      BY <2>6, <3>1, <3>3 DEF Up
  <2>8. CASE t > tid
    <3>1. c[t] = b[t] + 1
      BY <1>1, <1>5, <2>4, <2>8, SMTT(30)
    <3>2. b[tid + 1] <= b[t]
      BY <1>1, <1>3, <1>4, <2>4, <2>8, SMTT(30)
    <3>3. ~(FrameStart(m, b, t, k) < s)
      BY <1>4, <2>3, <2>4, <3>2
    <3>4. c[t] + e + 1 = (b[t] + e + 1) + 1
      BY <2>4, <2>5, <3>1
    <3>5. QED
      BY <2>6, <3>3, <3>4 DEF Up
  <2>9. t <= tid \/ t > tid
    BY <1>1, <2>4
  <2>10. QED
    BY <2>7, <2>8, <2>9
<1>11. QED
  BY <1>1, <1>8, <1>9, <1>10 DEF c

(* The stores do not see what the layout does. *)
SameStores(m, p) ==
  /\ p.explicitData = m.explicitData
  /\ p.segments_mapping = m.segments_mapping
  /\ p.fst_unused_id = m.fst_unused_id

(* newSegment puts the number it gives in. *)
LEMMA NewSegmentPutsIn ==
  ASSUME NEW m \in MemoryState, HasLayout(m), NEW tid \in 1 .. ThreadCount(m),
         WantedSid(m, tid) \in Nat, Len(m.segments_in_stack[tid]) > 0
  PROVE  /\ NewSegment(m, tid) \in MemoryState
         /\ SameStores(m, NewSegment(m, tid))
         /\ PutIn(m, NewSegment(m, tid), tid, WantedSid(m, tid))
         /\ NewSegment(m, tid).segments_in_stack[tid] =
              Append(Front(m.segments_in_stack[tid]), Last(m.segments_in_stack[tid]) + 1)
<1> DEFINE n == ThreadCount(m)
           T == m.thread_segments
           V == m.segments_in_stack
           w == WantedSid(m, tid)
           own(i) == [k \in DOMAIN T[i] |-> T[i][k] + 1]
           laid == [i \in DOMAIN T |-> IF i < tid THEN T[i]
                                       ELSE IF i = tid THEN Append(T[i], w) ELSE own(i)]
           width == Append(Front(V[tid]), Last(V[tid]) + 1)
           stacks == [V EXCEPT ![tid] = width]
           p == NewSegment(m, tid)
<1>1. n \in Nat /\ DOMAIN T = 1 .. n /\ DOMAIN V = 1 .. n /\ tid \in Nat /\ Len(V) = n
  BY LayoutParts DEF HasLayout
<1>2. \A t \in 1 .. n : T[t] \in Seq(Nat) /\ Len(T[t]) \in Nat /\ DOMAIN T[t] = 1 .. Len(T[t])
                        /\ V[t] \in Seq(Nat) /\ Len(V[t]) \in Nat
  BY LayoutParts
<1>3. p = [m EXCEPT !.thread_segments = laid, !.segments_in_stack = stacks]
  BY DEF NewSegment
<1>4. /\ p.thread_segments = laid /\ p.segments_in_stack = stacks
      /\ SameStores(m, p)
  BY <1>3 DEF MemoryState, SameStores
<1>5. \A i \in 1 .. n : own(i) \in Seq(Nat)
  <2>1. ASSUME NEW i \in 1 .. n PROVE own(i) \in Seq(Nat)
    <3>1. \A k \in DOMAIN T[i] : T[i][k] + 1 \in Nat
      BY <1>2, SMTT(30)
    <3>2. own(i) \in [1 .. Len(T[i]) -> Nat]
      BY <1>2, <3>1
    <3> HIDE DEF own
    <3>3. QED
      BY <1>2, <3>2, FunctionAsSequence
  <2>2. QED
    BY <2>1
<1>6. Append(T[tid], w) \in Seq(Nat)
  BY <1>2, Appending
<1>7. laid \in Seq(Seq(Nat)) /\ Len(laid) = n
  <2>1. laid \in [1 .. n -> Seq(Nat)]
    BY <1>1, <1>2, <1>5, <1>6
  <2> HIDE DEF laid
  <2>2. QED
    BY <1>1, <2>1, FunctionAsSequence
<1>8. width \in Seq(Nat)
  <2>1. V[tid] # << >>
    BY <1>2
  <2>2. Front(V[tid]) \in Seq(Nat) /\ Last(V[tid]) \in Nat
    BY <1>2, <2>1, FrontAndLast
  <2>3. Last(V[tid]) + 1 \in Nat
    BY <2>2
  <2>4. QED
    BY <2>2, <2>3, Appending
<1> HIDE DEF width
<1>9. V \in Seq(Seq(Nat)) /\ tid \in 1 .. Len(V)
  BY <1>1 DEF HasLayout
<1>10. stacks \in Seq(Seq(Nat)) /\ Len(stacks) = n /\ stacks[tid] = width
       /\ \A i \in 1 .. n : i # tid => stacks[i] = V[i]
  BY <1>1, <1>8, <1>9, ExceptSeq
<1>11. /\ laid[tid] = Append(T[tid], w)
       /\ \A i \in 1 .. n : /\ i < tid => laid[i] = T[i]
                            /\ i > tid => laid[i] = own(i)
  BY <1>1, SMTT(30)
<1> HIDE DEF laid, stacks, w, p
<1>12. HasLayout(p) /\ ThreadCount(p) = n
  BY <1>4, <1>7, <1>10 DEF HasLayout, ThreadCount
<1>13. PutIn(m, p, tid, w)
  BY <1>4, <1>10, <1>11, <1>12 DEF PutIn
<1>14. p \in MemoryState
  BY <1>3, <1>7, <1>10 DEF MemoryState
<1>15. QED
  BY <1>4, <1>10, <1>13, <1>14 DEF p, w, width

(* newSegment for alloca: the last frame of a thread is one longer. *)
LEMMA SegmentForAlloca ==
  ASSUME NEW m \in MemoryState, NEW b, HasLayout(m), LaidOut(m, b), NEW tid \in 1 .. ThreadCount(m)
  PROVE  /\ NewSegment(m, tid) \in MemoryState
         /\ SameStores(m, NewSegment(m, tid))
         /\ HasLayout(NewSegment(m, tid))
         /\ WantedSid(m, tid) = b[tid + 1] + 1
         /\ LaidOut(NewSegment(m, tid), Shifted(m, b, tid, 1))
         /\ ThreadCount(NewSegment(m, tid)) = ThreadCount(m)
         /\ Shifted(m, b, tid, 1)[ThreadCount(m) + 1] = b[ThreadCount(m) + 1] + 1
         /\ StacksWidened(m, NewSegment(m, tid), tid)
         /\ \A s \in RegisterSegments(NewSegment(m, tid)) :
              \E r \in RegisterSegments(m) : s = Up(WantedSid(m, tid), r)
<1> DEFINE n == ThreadCount(m)
           V == m.segments_in_stack
           v == V[tid]
           p == NewSegment(m, tid)
           w == Append(Front(v), Last(v) + 1)
           c == Shifted(m, b, tid, 1)
<1>1. n \in Nat /\ tid \in Nat /\ tid + 1 \in 1 .. n + 1
      /\ m.thread_segments[tid] \in Seq(Nat) /\ Len(m.thread_segments[tid]) \in Nat
      /\ v \in Seq(Nat) /\ Len(v) \in Nat
  <2>1. n \in Nat /\ m.thread_segments[tid] \in Seq(Nat) /\ v \in Seq(Nat)
    BY LayoutParts
  <2>2. QED
    BY <2>1
<1>2. b[tid + 1] \in Nat
  BY <1>1, ThreadsAscend
<1>3. Len(m.thread_segments[tid]) > 0
  BY DEF LaidOut
<1>4. WantedSid(m, tid) = b[tid + 1] + 1
  <2>1. m.thread_segments[tid] # << >>
    BY <1>1, <1>3
  <2>2. QED
    BY <2>1, LastFrames DEF WantedSid
<1>5. Len(v) > 0
  BY FrameStarts
<1>6. /\ p \in MemoryState /\ SameStores(m, p)
      /\ PutIn(m, p, tid, b[tid + 1] + 1)
      /\ p.segments_in_stack[tid] = w
  BY <1>2, <1>4, <1>5, NewSegmentPutsIn
<1>7. HasLayout(p) /\ ThreadCount(p) = n
      /\ \A i \in 1 .. n : i # tid => p.segments_in_stack[i] = V[i]
  BY <1>6 DEF PutIn
<1>a. StacksWidened(m, p, tid)
  BY <1>6, <1>7 DEF StacksWidened, OtherStacks
<1> HIDE DEF p
<1>8. /\ w \in Seq(Nat) /\ Len(w) = Len(v)
      /\ \A k \in 1 .. Len(v) - 1 : w[k] = v[k]
      /\ w[Len(v)] = v[Len(v)] + 1
  <2>1. v # << >>
    BY <1>1, <1>5
  <2>2. /\ Front(v) \in Seq(Nat) /\ Last(v) = v[Len(v)] /\ Last(v) \in Nat /\ Len(Front(v)) = Len(v) - 1
        /\ \A k \in 1 .. Len(v) - 1 : Front(v)[k] = v[k]
    BY <1>1, <2>1, FrontAndLast
  <2>3. Last(v) + 1 \in Nat
    BY <2>2
  <2>4. /\ w \in Seq(Nat) /\ Len(w) = Len(Front(v)) + 1
        /\ \A k \in 1 .. Len(Front(v)) : w[k] = Front(v)[k]
        /\ w[Len(Front(v)) + 1] = Last(v) + 1
    BY <2>2, <2>3, Appending
  <2> HIDE DEF w
  <2>5. Len(Front(v)) + 1 = Len(v)
    BY <1>1, <2>2
  <2>6. QED
    BY <2>2, <2>4, <2>5
<1> HIDE DEF w
<1>9. /\ \A k \in 1 .. Len(v) : v[k] > 0 /\ v[k] \in Nat
      /\ FrameEnds(v)[Len(v)] = Len(m.thread_segments[tid])
  <2>1. /\ \A k \in 1 .. Len(v) : v[k] > 0
        /\ FrameEnds(v)[Len(v)] = Len(m.thread_segments[tid])
    BY DEF LaidOut
  <2>2. \A k \in 1 .. Len(v) : v[k] \in Nat
    BY <1>1, SMTT(30)
  <2>3. QED
    BY <2>1, <2>2
<1>10. \A k \in 1 .. Len(w) : w[k] > 0
  <2>1. ASSUME NEW k \in 1 .. Len(w) PROVE w[k] > 0
    <3>1. k \in 1 .. Len(v) - 1 \/ (k = Len(v) /\ k \in 1 .. Len(v))
      BY <1>1, <1>8
    <3>2. QED
      BY <1>8, <1>9, <3>1
  <2>2. QED
    BY <2>1
<1>11. \A k \in 0 .. Len(v) - 1 : FrameEnds(w)[k] = FrameEnds(v)[k]
  <2>1. Len(v) - 1 \in Nat /\ Len(v) - 1 <= Len(v) /\ Len(v) - 1 <= Len(w)
    BY <1>1, <1>5, <1>8, SMTT(30)
  <2>2. QED
    BY <1>1, <1>8, <2>1, FrameEndsAgree
<1>12. FrameEnds(w)[Len(w)] = Len(m.thread_segments[tid]) + 1
  <2>1. Len(v) \in 1 .. Len(v) /\ Len(v) - 1 \in 0 .. Len(v) - 1 /\ Len(v) - 1 \in 0 .. Len(v)
    BY <1>1, <1>5, SMTT(30)
  <2>2. /\ FrameEnds(v)[Len(v)] = FrameEnds(v)[Len(v) - 1] + v[Len(v)]
        /\ FrameEnds(v)[Len(v) - 1] \in Nat
    BY <1>1, <2>1, FrameEndsAddUp
  <2>3. FrameEnds(w)[Len(v)] = FrameEnds(w)[Len(v) - 1] + w[Len(v)]
    BY <1>8, <2>1, FrameEndsAddUp
  <2>4. FrameEnds(w)[Len(v) - 1] = FrameEnds(v)[Len(v) - 1] /\ v[Len(v)] \in Nat
    BY <1>9, <1>11, <2>1
  <2>5. \A x, y \in Nat : x + (y + 1) = (x + y) + 1
    OBVIOUS
  <2>6. FrameEnds(w)[Len(v)] = FrameEnds(v)[Len(v)] + 1
    BY <1>8, <2>2, <2>3, <2>4, <2>5, Zenon
  <2>7. QED
    BY <1>8, <1>9, <2>6
<1>13. \A k \in 1 .. Len(v) : FrameEnds(w)[k - 1] = FrameEnds(v)[k - 1]
  <2>1. \A k \in 1 .. Len(v) : k - 1 \in 0 .. Len(v) - 1
    BY <1>1
  <2>2. QED
    BY <1>1, <1>8, <1>11, <2>1
<1>14. /\ LaidOut(p, c)
       /\ c[n + 1] = b[n + 1] + 1
       /\ \A t \in 1 .. n : \A k \in 1 .. Len(V[t]) :
            FrameStart(p, c, t, k) = Up(b[tid + 1] + 1, FrameStart(m, b, t, k))
  <2>1. /\ \A k \in 1 .. Len(p.segments_in_stack[tid]) : p.segments_in_stack[tid][k] > 0
        /\ \A k \in 1 .. Len(m.segments_in_stack[tid]) :
             FrameEnds(p.segments_in_stack[tid])[k - 1] = FrameEnds(m.segments_in_stack[tid])[k - 1]
        /\ FrameEnds(p.segments_in_stack[tid])[Len(p.segments_in_stack[tid])]
             = Len(m.thread_segments[tid]) + 1
    BY <1>6, <1>10, <1>12, <1>13
  <2>2. PutIn(m, p, tid, b[tid + 1] + 1) /\ ThreadCount(p) = n
    BY <1>6, <1>7
  <2>3. PutIn(m, p, tid, b[tid + 1] + 1) =>
          /\ LaidOut(p, c)
          /\ c[ThreadCount(p) + 1] = b[n + 1] + 1
          /\ \A t \in 1 .. n : \A k \in 1 .. Len(V[t]) :
               FrameStart(p, c, t, k) = Up(b[tid + 1] + 1, FrameStart(m, b, t, k))
    BY <2>1, PuttingIn, ZenonT(30)
  <2>4. QED
    BY <2>2, <2>3
<1>15. \A t \in 1 .. n : Len(p.segments_in_stack[t]) = Len(V[t])
  BY <1>6, <1>7, <1>8
<1> HIDE DEF c
<1>16. ASSUME NEW s \in RegisterSegments(p)
       PROVE  \E r \in RegisterSegments(m) : s = Up(b[tid + 1] + 1, r)
  <2>1. PICK t \in 1 .. n : \E k \in 1 .. Len(V[t]) : s = FrameStart(p, c, t, k)
    BY <1>7, <1>14, <1>15, RegistersStartFrames
  <2>2. PICK k \in 1 .. Len(V[t]) : s = FrameStart(p, c, t, k)
    BY <2>1
  <2>3. FrameStart(m, b, t, k) \in RegisterSegments(m)
    BY RegistersStartFrames
  <2>4. QED
    BY <1>14, <2>2, <2>3
<1>17. QED
  BY <1>4, <1>6, <1>7, <1>14, <1>16, <1>a DEF p, c

(* newStack adds a frame without segments. *)
LEMMA NewStackIsEmpty ==
  ASSUME NEW m \in MemoryState, HasLayout(m), NEW tid \in 1 .. ThreadCount(m)
  PROVE  /\ NewStack(m, tid) \in MemoryState
         /\ SameStores(m, NewStack(m, tid))
         /\ HasLayout(NewStack(m, tid))
         /\ NewStack(m, tid).thread_segments = m.thread_segments
         /\ NewStack(m, tid).segments_in_stack[tid] = Append(m.segments_in_stack[tid], 0)
         /\ \A i \in 1 .. ThreadCount(m) :
              i # tid => NewStack(m, tid).segments_in_stack[i] = m.segments_in_stack[i]
<1> DEFINE V == m.segments_in_stack
           n == ThreadCount(m)
           width == Append(V[tid], 0)
           stacks == [V EXCEPT ![tid] = width]
           p == NewStack(m, tid)
<1>1. n \in Nat /\ V \in Seq(Seq(Nat)) /\ Len(V) = n /\ V[tid] \in Seq(Nat)
  BY LayoutParts DEF HasLayout
<1>2. width \in Seq(Nat)
  BY <1>1, Appending
<1> HIDE DEF width
<1>3. tid \in 1 .. Len(V)
  BY <1>1
<1>4. /\ stacks \in Seq(Seq(Nat)) /\ Len(stacks) = n /\ stacks[tid] = width
      /\ \A i \in 1 .. n : i # tid => stacks[i] = V[i]
  BY <1>1, <1>2, <1>3, ExceptSeq
<1>5. p = [m EXCEPT !.segments_in_stack = stacks]
  BY DEF NewStack, width
<1> HIDE DEF stacks, p
<1>6. /\ p.segments_in_stack = stacks /\ p.thread_segments = m.thread_segments
      /\ SameStores(m, p) /\ p \in MemoryState
  BY <1>4, <1>5 DEF MemoryState, SameStores
<1>7. HasLayout(p)
  BY <1>4, <1>6 DEF HasLayout, ThreadCount
<1>8. QED
  BY <1>4, <1>6, <1>7 DEF p, width

(* newSegment after newStack: a frame with one segment. *)
LEMMA SegmentForFrame ==
  ASSUME NEW m \in MemoryState, NEW b, HasLayout(m), LaidOut(m, b), NEW tid \in 1 .. ThreadCount(m),
         NEW p, p = NewSegment(NewStack(m, tid), tid)
  PROVE  /\ p \in MemoryState
         /\ SameStores(m, p)
         /\ HasLayout(p)
         /\ LaidOut(p, Shifted(m, b, tid, 1))
         /\ ThreadCount(p) = ThreadCount(m)
         /\ Shifted(m, b, tid, 1)[ThreadCount(m) + 1] = b[ThreadCount(m) + 1] + 1
         /\ LastRange(p, tid)[1] = b[tid + 1] + 1
         /\ StacksEntered(m, p, tid)
         /\ \A s \in RegisterSegments(p) :
              s = b[tid + 1] + 1 \/ \E r \in RegisterSegments(m) : s = Up(b[tid + 1] + 1, r)
<1> DEFINE n == ThreadCount(m)
           V == m.segments_in_stack
           v == V[tid]
           q == NewStack(m, tid)
           w == p.segments_in_stack[tid]
           c == Shifted(m, b, tid, 1)
<1>1. n \in Nat /\ tid \in Nat /\ tid + 1 \in 1 .. n + 1
      /\ m.thread_segments[tid] \in Seq(Nat) /\ Len(m.thread_segments[tid]) \in Nat
      /\ v \in Seq(Nat) /\ Len(v) \in Nat
  <2>1. n \in Nat /\ m.thread_segments[tid] \in Seq(Nat) /\ v \in Seq(Nat)
    BY LayoutParts
  <2>2. QED
    BY <2>1
<1>2. b[tid + 1] \in Nat /\ b[tid] \in Nat
  BY <1>1, ThreadsAscend
<1>3. Len(m.thread_segments[tid]) > 0
  BY DEF LaidOut
<1>4. /\ q \in MemoryState /\ SameStores(m, q) /\ HasLayout(q)
      /\ q.thread_segments = m.thread_segments
      /\ q.segments_in_stack[tid] = Append(v, 0)
      /\ \A i \in 1 .. n : i # tid => q.segments_in_stack[i] = V[i]
  BY NewStackIsEmpty
<1>5. p = NewSegment(q, tid)
  OBVIOUS
<1> HIDE DEF q
<1>6. ThreadCount(q) = n
  BY <1>4 DEF ThreadCount
<1>7. WantedSid(q, tid) = b[tid + 1] + 1
  <2>1. m.thread_segments[tid] # << >>
    BY <1>1, <1>3
  <2>2. Last(m.thread_segments[tid]) = b[tid + 1]
    BY LastFrames
  <2>3. QED
    BY <1>4, <2>1, <2>2 DEF WantedSid
<1>8. /\ Append(v, 0) \in Seq(Nat) /\ Append(v, 0) # << >> /\ Len(Append(v, 0)) = Len(v) + 1
      /\ \A i \in 1 .. Len(v) : Append(v, 0)[i] = v[i]
      /\ Append(v, 0)[Len(v) + 1] = 0
  <2>1. 0 \in Nat
    OBVIOUS
  <2>2. v \in Seq(Nat)
    BY <1>1
  <2> HIDE DEF v
  <2>3. Append(v, 0) \in Seq(Nat) /\ Append(v, 0) # << >> /\ Len(Append(v, 0)) = Len(v) + 1
    BY <2>1, <2>2
  <2>4. /\ \A i \in 1 .. Len(v) : Append(v, 0)[i] = v[i]
        /\ Append(v, 0)[Len(v) + 1] = 0
    BY <2>1, <2>2
  <2>5. QED
    BY <2>3, <2>4
<1>9. /\ p \in MemoryState /\ SameStores(q, p)
      /\ PutIn(q, p, tid, b[tid + 1] + 1)
      /\ w = Append(Front(Append(v, 0)), Last(Append(v, 0)) + 1)
  <2>1. WantedSid(q, tid) \in Nat /\ tid \in 1 .. ThreadCount(q) /\ Len(q.segments_in_stack[tid]) > 0
    BY <1>1, <1>2, <1>4, <1>6, <1>7, <1>8, SMTT(30)
  <2>2. QED
    BY <1>4, <1>5, <1>7, <2>1, NewSegmentPutsIn
<1>10. /\ HasLayout(p) /\ ThreadCount(p) = n /\ PutIn(m, p, tid, b[tid + 1] + 1)
       /\ SameStores(m, p)
       /\ \A i \in 1 .. n : i # tid => p.segments_in_stack[i] = V[i]
  BY <1>4, <1>6, <1>9, ZenonT(30) DEF PutIn, SameStores
<1>11. /\ w \in Seq(Nat) /\ Len(w) = Len(v) + 1
       /\ \A k \in 1 .. Len(v) : w[k] = v[k]
       /\ w[Len(v) + 1] = 1
  <2> DEFINE a == Append(v, 0)
  <2>1. a \in Seq(Nat) /\ a # << >> /\ Len(a) = Len(v) + 1
        /\ (\A i \in 1 .. Len(v) : a[i] = v[i]) /\ a[Len(v) + 1] = 0
    BY <1>8
  <2>2. w = Append(Front(a), Last(a) + 1)
    BY <1>9
  <2> HIDE DEF a, w
  <2>3. /\ Front(a) \in Seq(Nat) /\ Last(a) = a[Len(a)] /\ Len(Front(a)) = Len(a) - 1
        /\ \A k \in 1 .. Len(a) - 1 : Front(a)[k] = a[k]
    BY <2>1, FrontAndLast
  <2>4. Len(a) - 1 = Len(v) /\ Last(a) + 1 = 1
    BY <1>1, <2>1, <2>3
  <2>5. 1 \in Nat
    OBVIOUS
  <2>6. /\ w \in Seq(Nat) /\ Len(w) = Len(Front(a)) + 1
        /\ \A k \in 1 .. Len(Front(a)) : w[k] = Front(a)[k]
        /\ w[Len(Front(a)) + 1] = 1
    BY <2>2, <2>3, <2>4, <2>5, Appending
  <2>7. QED
    BY <2>1, <2>3, <2>4, <2>6
<1>a. StacksEntered(m, p, tid)
  <2> DEFINE a == Append(v, 1)
  <2> HIDE DEF v, w
  <2>1. a \in Seq(Nat) /\ Len(a) = Len(v) + 1 /\ \A k \in 1 .. Len(v) : a[k] = v[k]
    BY <1>1, Appending
  <2>2. a[Len(v) + 1] = 1
    BY <1>1, Appending
  <2> HIDE DEF a
  <2>3. \A k \in 1 .. Len(w) : k \in 1 .. Len(v) \/ k = Len(v) + 1
    BY <1>1, <1>11
  <2>4. w = a
    BY <1>11, <2>1, <2>2, <2>3, SameSequence
  <2>5. QED
    BY <1>10, <2>4 DEF a, w, v, StacksEntered, OtherStacks
<1>12. /\ \A k \in 1 .. Len(v) : v[k] > 0 /\ v[k] \in Nat
       /\ FrameEnds(v)[Len(v)] = Len(m.thread_segments[tid])
  <2>1. /\ \A k \in 1 .. Len(v) : v[k] > 0
        /\ FrameEnds(v)[Len(v)] = Len(m.thread_segments[tid])
    BY DEF LaidOut
  <2>2. \A k \in 1 .. Len(v) : v[k] \in Nat
    BY <1>1, SMTT(30)
  <2>3. QED
    BY <2>1, <2>2
<1>13. \A k \in 1 .. Len(w) : w[k] > 0
  <2>1. ASSUME NEW k \in 1 .. Len(w) PROVE w[k] > 0
    <3>1. k \in 1 .. Len(v) \/ k = Len(v) + 1
      BY <1>1, <1>11, SMTT(30)
    <3>2. CASE k \in 1 .. Len(v)
      BY <1>11, <1>12, <3>2, Zenon
    <3>3. CASE k = Len(v) + 1
      <4>1. w[k] = 1
        BY <1>11, <3>3, Zenon
      <4>2. QED
        BY <4>1
    <3>4. QED
      BY <3>1, <3>2, <3>3
  <2>2. QED
    BY <2>1
<1>14. \A k \in 0 .. Len(v) : FrameEnds(w)[k] = FrameEnds(v)[k]
  <2>1. Len(v) \in Nat /\ Len(v) <= Len(v) /\ Len(v) <= Len(w)
    BY <1>1, <1>11
  <2>2. QED
    BY <1>1, <1>11, <2>1, FrameEndsAgree
<1>15. FrameEnds(w)[Len(w)] = Len(m.thread_segments[tid]) + 1
  <2>1. Len(v) + 1 \in 1 .. Len(w) /\ Len(v) \in 0 .. Len(v) /\ (Len(v) + 1) - 1 = Len(v)
    BY <1>1, <1>11
  <2>2. FrameEnds(w)[Len(v) + 1] = FrameEnds(w)[(Len(v) + 1) - 1] + w[Len(v) + 1]
    BY <1>11, <2>1, FrameEndsAddUp
  <2>3. FrameEnds(w)[Len(v)] = FrameEnds(v)[Len(v)]
    BY <1>14, <2>1
  <2>4. QED
    BY <1>11, <1>12, <2>1, <2>2, <2>3
<1> HIDE DEF c, w
<1>16. /\ LaidOut(p, c)
       /\ c[n + 1] = b[n + 1] + 1
       /\ \A t \in 1 .. n : \A k \in 1 .. Len(V[t]) :
            FrameStart(p, c, t, k) = Up(b[tid + 1] + 1, FrameStart(m, b, t, k))
  <2>1. \A k \in 1 .. Len(v) : FrameEnds(w)[k - 1] = FrameEnds(v)[k - 1]
    <3>1. \A k \in 1 .. Len(v) : k - 1 \in 0 .. Len(v)
      BY <1>1
    <3>2. QED
      BY <1>14, <3>1
  <2>2. PutIn(m, p, tid, b[tid + 1] + 1) =>
          /\ LaidOut(p, c)
          /\ c[ThreadCount(p) + 1] = b[n + 1] + 1
          /\ \A t \in 1 .. n : \A k \in 1 .. Len(V[t]) :
               FrameStart(p, c, t, k) = Up(b[tid + 1] + 1, FrameStart(m, b, t, k))
    BY <1>13, <1>15, <2>1, PuttingIn, ZenonT(30) DEF w, c
  <2>3. QED
    BY <1>10, <2>2
<1>17. /\ \A t \in 1 .. n : t # tid => Len(p.segments_in_stack[t]) = Len(V[t])
       /\ Len(p.segments_in_stack[tid]) = Len(v) + 1
  BY <1>10, <1>11 DEF w
<1>18. FrameStart(p, c, tid, Len(v) + 1) = b[tid + 1] + 1
  <2>1. FrameStart(p, c, tid, Len(v) + 1) = c[tid] + FrameEnds(w)[(Len(v) + 1) - 1] + 1
    BY DEF FrameStart, w
  <2>2. (Len(v) + 1) - 1 = Len(v) /\ Len(v) \in 0 .. Len(v)
    BY <1>1
  <2>3. c[tid] = b[tid]
    BY <1>1 DEF c, Shifted
  <2>4. b[tid + 1] = b[tid] + Len(m.thread_segments[tid])
    BY DEF LaidOut
  <2>5. FrameEnds(w)[Len(v)] = Len(m.thread_segments[tid])
    BY <1>12, <1>14, <2>2
  <2>6. QED
    BY <2>1, <2>2, <2>3, <2>4, <2>5
<1>19. LastRange(p, tid)[1] = b[tid + 1] + 1
  <2>1. LastRange(p, tid)[1] = FrameStart(p, c, tid, Len(p.segments_in_stack[tid]))
    BY <1>10, <1>16, LastFrames
  <2>2. QED
    BY <1>17, <1>18, <2>1
<1>20. ASSUME NEW s \in RegisterSegments(p)
       PROVE  s = b[tid + 1] + 1 \/ \E r \in RegisterSegments(m) : s = Up(b[tid + 1] + 1, r)
  <2>1. PICK t \in 1 .. n : \E k \in 1 .. Len(p.segments_in_stack[t]) : s = FrameStart(p, c, t, k)
    BY <1>10, <1>16, RegistersStartFrames
  <2>2. PICK k \in 1 .. Len(p.segments_in_stack[t]) : s = FrameStart(p, c, t, k)
    BY <2>1
  <2>3. k \in 1 .. Len(V[t]) \/ (t = tid /\ k = Len(v) + 1)
    BY <1>1, <1>17, SMTT(30)
  <2>4. ASSUME k \in 1 .. Len(V[t]) PROVE FrameStart(m, b, t, k) \in RegisterSegments(m)
    BY <2>4, RegistersStartFrames
  <2>5. QED
    BY <1>16, <1>18, <2>2, <2>3, <2>4
<1>21. QED
  BY <1>9, <1>10, <1>16, <1>19, <1>20, <1>a DEF c

(* The segment behind a thread, if there is one, begins the next thread: it
   holds registers. *)
LEMMA RegistersBehindThread ==
  ASSUME NEW m, NEW b, HasLayout(m), LaidOut(m, b), NEW tid \in 1 .. ThreadCount(m),
         b[tid + 1] + 1 <= b[ThreadCount(m) + 1]
  PROVE  b[tid + 1] + 1 \in RegisterSegments(m)
<1> DEFINE n == ThreadCount(m)
<1>1. n \in Nat /\ tid \in Nat
  BY LayoutParts
<1>2. b[tid + 1] \in Nat /\ b[n + 1] \in Nat
  BY <1>1, ThreadsAscend
<1>3. tid + 1 # n + 1
  <2>1. ASSUME tid + 1 = n + 1 PROVE FALSE
    <3>1. b[tid + 1] + 1 <= b[tid + 1]
      BY <2>1
    <3>2. QED
      BY <1>2, <3>1
  <2>2. QED
    BY <2>1
<1>4. tid + 1 \in 1 .. n
  BY <1>1, <1>3
<1>5. FrameStart(m, b, tid + 1, 1) = b[tid + 1] + 1 /\ Len(m.segments_in_stack[tid + 1]) > 0
  BY <1>4, FrameStarts
<1>6. Len(m.segments_in_stack[tid + 1]) \in Nat
  BY <1>4, LayoutParts
<1>7. 1 \in 1 .. Len(m.segments_in_stack[tid + 1])
  BY <1>5, <1>6
<1>8. QED
  BY <1>4, <1>5, <1>7, RegistersStartFrames

(* The layout of startThread: a thread with one frame of one segment. *)
ThreadStarted(m) ==
  LET tid == ThreadCount(m) + 1
  IN  NewSegment(NewStack([m EXCEPT !.thread_segments = Append(@, << >>),
                                    !.segments_in_stack = Append(@, << >>)], tid), tid)

Extended(m, b) ==
  [t \in 1 .. ThreadCount(m) + 2 |-> IF t <= ThreadCount(m) + 1 THEN b[t] ELSE b[ThreadCount(m) + 1] + 1]

LEMMA SegmentForThread ==
  ASSUME NEW m \in MemoryState, NEW b, HasLayout(m), LaidOut(m, b),
         NEW p, p = ThreadStarted(m)
  PROVE  /\ p \in MemoryState
         /\ SameStores(m, p)
         /\ HasLayout(p)
         /\ LaidOut(p, Extended(m, b))
         /\ ThreadCount(p) = ThreadCount(m) + 1
         /\ Extended(m, b)[ThreadCount(p) + 1] = b[ThreadCount(m) + 1] + 1
         /\ LastRange(p, ThreadCount(m) + 1)[1] = b[ThreadCount(m) + 1] + 1
         /\ StacksStarted(m, p)
         /\ \A s \in RegisterSegments(p) :
              s = b[ThreadCount(m) + 1] + 1 \/ s \in RegisterSegments(m)
<1> DEFINE n == ThreadCount(m)
           tid == n + 1
           T == m.thread_segments
           V == m.segments_in_stack
           r == [m EXCEPT !.thread_segments = Append(T, << >>), !.segments_in_stack = Append(V, << >>)]
           q == NewStack(r, tid)
           s0 == b[n + 1] + 1
           c == Extended(m, b)
<1>1. n \in Nat /\ T \in Seq(Seq(Nat)) /\ V \in Seq(Seq(Nat)) /\ Len(T) = n /\ Len(V) = n
  BY LayoutParts DEF HasLayout, ThreadCount
<1>2. p = NewSegment(q, tid)
  BY DEF ThreadStarted
<1>3. << >> \in Seq(Nat)
  OBVIOUS
<1>4. /\ Append(T, << >>) \in Seq(Seq(Nat)) /\ Len(Append(T, << >>)) = n + 1
      /\ \A i \in 1 .. n : Append(T, << >>)[i] = T[i]
      /\ Append(T, << >>)[n + 1] = << >>
  BY <1>1, <1>3, Appending
<1>5. /\ Append(V, << >>) \in Seq(Seq(Nat)) /\ Len(Append(V, << >>)) = n + 1
      /\ \A i \in 1 .. n : Append(V, << >>)[i] = V[i]
      /\ Append(V, << >>)[n + 1] = << >>
  BY <1>1, <1>3, Appending
<1>6. /\ r \in MemoryState /\ SameStores(m, r)
      /\ r.thread_segments = Append(T, << >>) /\ r.segments_in_stack = Append(V, << >>)
  BY <1>4, <1>5 DEF MemoryState, SameStores
<1> HIDE DEF r
<1>7. HasLayout(r) /\ ThreadCount(r) = n + 1 /\ tid \in 1 .. n + 1
  BY <1>1, <1>4, <1>5, <1>6 DEF HasLayout, ThreadCount
<1>8. /\ q \in MemoryState /\ SameStores(r, q) /\ HasLayout(q)
      /\ q.thread_segments = r.thread_segments
      /\ q.segments_in_stack[tid] = Append(r.segments_in_stack[tid], 0)
      /\ \A i \in 1 .. n + 1 : i # tid => q.segments_in_stack[i] = r.segments_in_stack[i]
  <2>1. r \in MemoryState /\ HasLayout(r) /\ tid \in 1 .. ThreadCount(r)
    BY <1>6, <1>7
  <2> HIDE DEF tid
  <2>2. /\ q \in MemoryState /\ SameStores(r, q) /\ HasLayout(q)
        /\ q.thread_segments = r.thread_segments
        /\ q.segments_in_stack[tid] = Append(r.segments_in_stack[tid], 0)
        /\ \A i \in 1 .. ThreadCount(r) :
             i # tid => q.segments_in_stack[i] = r.segments_in_stack[i]
    BY <2>1, NewStackIsEmpty
  <2>3. QED
    BY <1>7, <2>2
<1> HIDE DEF q
<1>9. ThreadCount(q) = n + 1
  BY <1>7, <1>8 DEF ThreadCount
<1>10. n + 1 \in 1 .. n + 1 /\ b[n + 1] \in Nat
  BY <1>1, ThreadsAscend
<1>11. WantedSid(q, tid) = s0
  <2>1. q.thread_segments[tid] = << >>
    BY <1>4, <1>6, <1>8
  <2>2. CASE n = 0
    BY <1>1, <2>1, <2>2 DEF WantedSid, LaidOut, GlobalSegment
  <2>3. CASE n # 0
    <3>1. n \in 1 .. n /\ tid - 1 = n /\ tid # 1
      BY <1>1, <2>3
    <3>2. q.thread_segments[n] = T[n]
      BY <1>4, <1>6, <1>8, <3>1
    <3>3. Last(T[n]) = b[n + 1]
      BY <3>1, LastFrames
    <3>4. QED
      BY <2>1, <3>1, <3>2, <3>3 DEF WantedSid
  <2>4. QED
    BY <2>2, <2>3
<1>12. q.segments_in_stack[tid] = <<0>>
  <2>1. Append(<< >>, 0) = <<0>>
    OBVIOUS
  <2>2. QED
    BY <1>5, <1>6, <1>8, <2>1
<1>13. /\ p \in MemoryState /\ SameStores(q, p)
       /\ PutIn(q, p, tid, s0)
       /\ p.segments_in_stack[tid] = Append(Front(<<0>>), Last(<<0>>) + 1)
  <2>1. WantedSid(q, tid) \in Nat /\ Len(q.segments_in_stack[tid]) > 0 /\ tid \in 1 .. ThreadCount(q)
    BY <1>7, <1>9, <1>10, <1>11, <1>12
  <2>2. QED
    BY <1>2, <1>8, <1>11, <1>12, <2>1, NewSegmentPutsIn
<1>14. /\ HasLayout(p) /\ ThreadCount(p) = n + 1 /\ SameStores(m, p)
       /\ p.thread_segments[tid] = <<s0>> /\ p.segments_in_stack[tid] = <<1>>
  <2>1. Append(Front(<<0>>), Last(<<0>>) + 1) = <<1>>
    <3>1. <<0>> \in Seq(Nat) /\ <<0>> # << >> /\ Len(<<0>>) = 1 /\ <<0>>[1] = 0 /\ 1 - 1 = 0
      OBVIOUS
    <3>2. Front(<<0>>) \in Seq(Nat) /\ Len(Front(<<0>>)) = 0 /\ Last(<<0>>) = 0
      BY <3>1, FrontAndLast
    <3>3. Front(<<0>>) = << >> /\ Last(<<0>>) + 1 = 1
      BY <3>2
    <3>4. Append(<< >>, 1) = <<1>>
      OBVIOUS
    <3>5. QED
      BY <3>3, <3>4
  <2>2. Append(<< >>, s0) = <<s0>>
    BY <1>10
  <2>3. HasLayout(p) /\ ThreadCount(p) = n + 1
        /\ p.thread_segments[tid] = Append(q.thread_segments[tid], s0)
    BY <1>9, <1>13 DEF PutIn
  <2>4. q.thread_segments[tid] = << >>
    BY <1>4, <1>6, <1>8
  <2>5. SameStores(m, p)
    BY <1>6, <1>8, <1>13 DEF SameStores
  <2>6. p.thread_segments[tid] = <<s0>>
    BY <2>2, <2>3, <2>4, Zenon
  <2>7. p.segments_in_stack[tid] = <<1>>
    BY <1>13, <2>1, Zenon
  <2>8. QED
    BY <2>3, <2>5, <2>6, <2>7
<1>15. \A i \in 1 .. n : p.thread_segments[i] = T[i] /\ p.segments_in_stack[i] = V[i]
  <2>1. \A i \in 1 .. n : i \in 1 .. n + 1 /\ i < tid /\ i # tid
    BY <1>1
  <2>2. \A i \in 1 .. n : /\ p.thread_segments[i] = q.thread_segments[i]
                          /\ p.segments_in_stack[i] = q.segments_in_stack[i]
    BY <1>9, <1>13, <2>1, Zenon DEF PutIn
  <2>3. \A i \in 1 .. n : q.thread_segments[i] = T[i] /\ q.segments_in_stack[i] = V[i]
    BY <1>4, <1>5, <1>6, <1>8, <2>1, Zenon
  <2>4. QED
    BY <2>2, <2>3
<1>16. \A t \in 1 .. n + 2 : c[t] = IF t <= n + 1 THEN b[t] ELSE b[n + 1] + 1
  BY DEF Extended
<1>17. c \in [1 .. n + 2 -> Nat]
  <2>1. \A t \in 1 .. n + 1 : b[t] \in Nat
    BY ThreadsAscend
  <2>2. \A t \in 1 .. n + 2 : (IF t <= n + 1 THEN b[t] ELSE b[n + 1] + 1) \in Nat
    BY <1>1, <1>10, <2>1
  <2>3. QED
    BY <2>2 DEF Extended
<1> HIDE DEF c
<1>18. (\A t \in 1 .. n + 1 : c[t] = b[t]) /\ c[n + 2] = s0
  <2>1. /\ \A t \in 1 .. n + 1 : t \in 1 .. n + 2 /\ t <= n + 1
        /\ n + 2 \in 1 .. n + 2 /\ ~(n + 2 <= n + 1)
    BY <1>1
  <2>2. QED
    BY <1>16, <2>1, Zenon
<1>19. FrameEnds(<<1>>)[0] = 0 /\ FrameEnds(<<1>>)[1] = 1
  <2>1. <<1>> \in Seq(Nat) /\ Len(<<1>>) = 1 /\ <<1>>[1] = 1 /\ 1 \in 1 .. 1 /\ 1 - 1 = 0 /\ 0 + 1 = 1
    OBVIOUS
  <2>2. /\ FrameEnds(<<1>>)[0] = 0
        /\ \A k \in 1 .. Len(<<1>>) : FrameEnds(<<1>>)[k] = FrameEnds(<<1>>)[k - 1] + <<1>>[k]
    BY <2>1, FrameEndsAddUp
  <2>3. QED
    BY <2>1, <2>2
<1>20. LaidOut(p, c)
  <2>1. ASSUME NEW t \in 1 .. n + 1
        PROVE  /\ Len(p.thread_segments[t]) > 0
               /\ c[t + 1] = c[t] + Len(p.thread_segments[t])
               /\ \A k \in 1 .. Len(p.thread_segments[t]) : p.thread_segments[t][k] = c[t] + k
               /\ \A k \in 1 .. Len(p.segments_in_stack[t]) : p.segments_in_stack[t][k] > 0
               /\ FrameEnds(p.segments_in_stack[t])[Len(p.segments_in_stack[t])]
                    = Len(p.thread_segments[t])
    <3>1. CASE t \in 1 .. n
      <4>1. c[t] = b[t] /\ c[t + 1] = b[t + 1]
        BY <1>1, <1>18, <3>1
      <4>2. p.thread_segments[t] = T[t] /\ p.segments_in_stack[t] = V[t]
        BY <1>15, <3>1
      <4>3. QED
        BY <3>1, <4>1, <4>2, Zenon DEF LaidOut
    <3>2. CASE t = tid
      <4>1. p.thread_segments[t] = <<s0>> /\ p.segments_in_stack[t] = <<1>>
        BY <1>14, <3>2
      <4>2. c[t] = b[n + 1] /\ c[t + 1] = b[n + 1] + 1
        BY <1>1, <1>18, <3>2
      <4>3. Len(<<s0>>) = 1 /\ Len(<<1>>) = 1 /\ <<1>>[1] = 1
        OBVIOUS
      <4>4. \A k \in 1 .. 1 : <<s0>>[k] = b[n + 1] + k
        BY <1>10
      <4>5. \A k \in 1 .. 1 : <<1>>[k] > 0
        OBVIOUS
      <4>6. QED
        BY <1>10, <1>19, <4>1, <4>2, <4>3, <4>4, <4>5
    <3>3. t \in 1 .. n \/ t = tid
      BY <1>1
    <3>4. QED
      BY <3>1, <3>2, <3>3, Zenon
  <2>2. c[1] = GlobalSegment
    BY <1>1, <1>18 DEF LaidOut
  <2>3. ThreadCount(p) + 1 = n + 2
    BY <1>1, <1>14
  <2>4. QED
    BY <1>14, <1>17, <2>1, <2>2, <2>3 DEF LaidOut
<1>21. FrameStart(p, c, tid, 1) = s0 /\ Len(p.segments_in_stack[tid]) = 1
  <2>1. tid \in 1 .. ThreadCount(p)
    BY <1>7, <1>14
  <2>2. FrameStart(p, c, tid, 1) = c[tid] + 1
    BY <1>14, <1>20, <2>1, FrameStarts
  <2>3. QED
    BY <1>10, <1>14, <1>18, <2>2
<1>22. LastRange(p, tid)[1] = s0
  <2>1. tid \in 1 .. ThreadCount(p)
    BY <1>7, <1>14
  <2>2. LastRange(p, tid)[1] = FrameStart(p, c, tid, Len(p.segments_in_stack[tid]))
    BY <1>14, <1>20, <2>1, LastFrames, ZenonT(30)
  <2>3. QED
    BY <1>21, <2>2
<1>23. ASSUME NEW s \in RegisterSegments(p) PROVE s = s0 \/ s \in RegisterSegments(m)
  <2>1. PICK t \in 1 .. n + 1 : \E k \in 1 .. Len(p.segments_in_stack[t]) : s = FrameStart(p, c, t, k)
    BY <1>14, <1>20, RegistersStartFrames
  <2>2. PICK k \in 1 .. Len(p.segments_in_stack[t]) : s = FrameStart(p, c, t, k)
    BY <2>1
  <2>3. CASE t \in 1 .. n
    <3>1. c[t] = b[t] /\ p.segments_in_stack[t] = V[t]
      BY <1>1, <1>15, <1>18, <2>3
    <3>2. FrameStart(p, c, t, k) = FrameStart(m, b, t, k) /\ k \in 1 .. Len(V[t])
      BY <3>1 DEF FrameStart
    <3>3. QED
      BY <2>2, <2>3, <3>2, RegistersStartFrames
  <2>4. CASE t = tid
    <3>1. k = 1
      <4>1. k \in 1 .. 1
        BY <1>21, <2>4
      <4>2. QED
        BY <4>1
    <3>2. QED
      BY <1>21, <2>2, <2>4, <3>1
  <2>5. QED
    BY <1>1, <2>3, <2>4
<1>24. Extended(m, b)[ThreadCount(p) + 1] = s0
  BY <1>1, <1>14, <1>18 DEF c
<1>a. StacksStarted(m, p)
  BY <1>14, <1>15 DEF StacksStarted
<1>25. QED
  BY <1>13, <1>14, <1>20, <1>22, <1>23, <1>24, <1>a DEF c

-----------------------------------------------------------------------------
(* The segments of a frame less.                                           *)

(* The number a segment gets when those from lo to hi go. *)
Down(lo, hi, s) == IF s > hi THEN s - (hi + 1 - lo) ELSE s

(* Where the last frame of a thread lies. *)
IsLastRange(m, tid, lo, hi) == lo = LastRange(m, tid)[1] /\ hi = LastRange(m, tid)[2]

LEMMA LastRangeBounds ==
  ASSUME NEW m, NEW b, HasLayout(m), LaidOut(m, b), NEW tid \in 1 .. ThreadCount(m),
         NEW lo, NEW hi, IsLastRange(m, tid, lo, hi)
  PROVE  /\ lo \in Nat /\ hi \in Nat /\ lo <= hi /\ 1 < lo
         /\ hi = b[tid + 1] /\ b[tid] < lo /\ hi <= b[ThreadCount(m) + 1]
         /\ FrameEnds(m.segments_in_stack[tid])[Len(m.segments_in_stack[tid]) - 1]
              = Len(m.thread_segments[tid]) - (hi + 1 - lo)
         /\ Len(m.thread_segments[tid]) - (hi + 1 - lo) \in Nat
<1> DEFINE n == ThreadCount(m)
           v == m.segments_in_stack[tid]
           own == m.thread_segments[tid]
           e == FrameEnds(v)
           k == Len(v)
<1>1. n \in Nat /\ own \in Seq(Nat) /\ v \in Seq(Nat)
  BY LayoutParts
<1>2. tid \in Nat /\ tid \in 1 .. n + 1 /\ tid + 1 \in 1 .. n + 1 /\ n + 1 \in 1 .. n + 1
      /\ Len(own) \in Nat /\ k \in Nat
  BY <1>1
<1>3. b[tid] \in Nat /\ b[tid] > 0 /\ b[tid + 1] \in Nat /\ b[n + 1] \in Nat
      /\ b[tid + 1] <= b[n + 1]
  BY <1>2, ThreadsAscend
<1>4. b[tid + 1] = b[tid] + Len(own) /\ e[k] = Len(own)
      /\ \A i \in 1 .. k : v[i] > 0
  BY DEF LaidOut
<1>5. k > 0
  BY FrameStarts
<1>6. k \in 1 .. k /\ k - 1 \in 0 .. k /\ k \in 0 .. k
  BY <1>2, <1>5
<1>7. e[k] = e[k - 1] + v[k] /\ e[k - 1] \in Nat
  BY <1>1, <1>6, FrameEndsAddUp
<1>8. v[k] \in Nat /\ v[k] > 0
  <2>1. v[k] \in Nat
    BY <1>1, <1>6
  <2>2. QED
    BY <1>4, <1>6, <2>1
<1>9. lo = FrameStart(m, b, tid, k) /\ hi = b[tid + 1]
  BY LastFrames DEF IsLastRange
<1>10. lo = b[tid] + e[k - 1] + 1
  BY <1>9 DEF FrameStart
<1> HIDE DEF e, k, own, v
<1>11. /\ lo \in Nat /\ hi \in Nat /\ lo <= hi /\ 1 < lo /\ b[tid] < lo
       /\ e[k - 1] = Len(own) - (hi + 1 - lo)
       /\ Len(own) - (hi + 1 - lo) \in Nat
  <2> DEFINE x == b[tid]
             y == e[k - 1]
             z == v[k]
  <2>1. x \in Nat /\ x > 0 /\ y \in Nat /\ z \in Nat /\ z > 0
    BY <1>3, <1>7, <1>8
  <2>2. lo = x + y + 1 /\ hi = x + (y + z) /\ Len(own) = y + z
    BY <1>4, <1>7, <1>9, <1>10
  <2> HIDE DEF x, y, z
  <2>3. lo \in Nat /\ hi \in Nat /\ lo <= hi /\ 1 < lo /\ x < lo /\ y = Len(own) - (hi + 1 - lo)
    BY <2>1, <2>2
  <2>4. QED
    BY <2>1, <2>3 DEF x, y
<1>12. QED
  BY <1>3, <1>9, <1>11 DEF e, k, own, v

(* What dropLastStack leaves of the segments of each thread. *)
Remaining(m, tid) ==
  LET range == LastRange(m, tid)
  IN  [i \in DOMAIN m.thread_segments |->
         LET own  == m.thread_segments[i]
             kept == IF i = tid THEN Len(own) - (range[2] + 1 - range[1]) ELSE Len(own)
         IN  [k \in 1 .. kept |-> Down(range[1], range[2], own[k])]]

AreRemaining(m, b, tid, D, d) ==
  /\ D \in Seq(Seq(Nat)) /\ Len(D) = ThreadCount(m)
  /\ \A i \in 1 .. ThreadCount(m) :
       /\ i # tid => Len(D[i]) = Len(m.thread_segments[i])
       /\ i <= tid => \A k \in 1 .. Len(D[i]) : D[i][k] = b[i] + k
       /\ i > tid => \A k \in 1 .. Len(D[i]) : D[i][k] = b[i] - d + k
  /\ Len(D[tid]) = Len(m.thread_segments[tid]) - d

LEMMA RemainingSegments ==
  ASSUME NEW m, NEW b, HasLayout(m), LaidOut(m, b), NEW tid \in 1 .. ThreadCount(m),
         NEW lo, NEW hi, IsLastRange(m, tid, lo, hi)
  PROVE  /\ AreRemaining(m, b, tid, Remaining(m, tid), hi + 1 - lo)
         /\ (Remaining(m, tid)[tid] = << >>) <=> (Len(m.thread_segments[tid]) = hi + 1 - lo)
<1> DEFINE n == ThreadCount(m)
           T == m.thread_segments
           v == m.segments_in_stack[tid]
           d == hi + 1 - lo
           kept(i) == IF i = tid THEN Len(T[i]) - d ELSE Len(T[i])
           D == Remaining(m, tid)
<1>1. n \in Nat /\ tid \in Nat /\ DOMAIN T = 1 .. n
  BY LayoutParts
<1>2. \A i \in 1 .. n : T[i] \in Seq(Nat) /\ Len(T[i]) \in Nat /\ DOMAIN T[i] = 1 .. Len(T[i])
  BY LayoutParts
<1>3. /\ lo \in Nat /\ hi \in Nat /\ lo <= hi /\ 1 < lo
      /\ hi = b[tid + 1] /\ b[tid] < lo
      /\ FrameEnds(v)[Len(v) - 1] = Len(T[tid]) - d
      /\ Len(T[tid]) - d \in Nat
  BY LastRangeBounds
<1>4. d \in Nat /\ d > 0
  BY <1>3
<1>5. Len(T[tid]) - d \in Nat
  BY <1>3
<1>6. /\ \A i \in 1 .. n + 1 : b[i] \in Nat
      /\ \A i, j \in 1 .. n + 1 : i < j => b[i] < b[j]
  BY ThreadsAscend
<1>7. \A i \in 1 .. n : D[i] = [k \in 1 .. kept(i) |-> Down(lo, hi, T[i][k])]
  BY <1>1 DEF Remaining, IsLastRange
<1>8. ASSUME NEW i \in 1 .. n, NEW k \in 1 .. kept(i)
      PROVE  Down(lo, hi, T[i][k]) = IF i <= tid THEN b[i] + k ELSE b[i] - d + k
  <2>1. i \in Nat /\ i \in 1 .. n + 1 /\ i + 1 \in 1 .. n + 1 /\ tid \in 1 .. n + 1 /\ tid + 1 \in 1 .. n + 1
    BY <1>1
  <2>2. b[i] \in Nat /\ b[i + 1] \in Nat /\ b[tid] \in Nat /\ b[tid + 1] \in Nat
    BY <1>6, <2>1
  <2>3. Len(T[i]) \in Nat
    BY <1>2
  <2>4. k \in 1 .. Len(T[i]) /\ k \in Nat
    BY <1>4, <2>3
  <2>5. T[i][k] = b[i] + k /\ b[i + 1] = b[i] + Len(T[i])
    BY <2>4 DEF LaidOut
  <2>6. CASE i < tid
    <3>1. b[i + 1] <= b[tid]
      BY <1>1, <1>6, <2>1, <2>2, <2>6
    <3>2. b[i] + k <= b[i + 1]
      BY <2>2, <2>3, <2>4, <2>5
    <3>3. ~(b[i] + k > hi)
      <4>1. \A u, x, y, z \in Nat :
              u + x <= y /\ y <= z /\ z < lo /\ lo <= hi => ~(u + x > hi)
        BY <1>3
      <4>2. QED
        BY <1>3, <2>2, <2>4, <3>1, <3>2, <4>1, Zenon
    <3>4. i <= tid
      BY <1>1, <2>1, <2>6
    <3>5. QED
      BY <2>5, <3>3, <3>4 DEF Down
  <2>7. CASE i = tid
    <3>1. k <= Len(T[i]) - d
      BY <1>4, <1>5, <2>7
    <3>2. ~(b[i] + k > hi)
      <4>1. b[i] + k <= b[i] + Len(T[i])
        BY <2>2, <2>3, <2>4
      <4>2. hi = b[i] + Len(T[i])
        BY <1>3, <2>5, <2>7
      <4>3. \A x, y, z \in Nat : x + y <= x + z => ~(x + y > x + z)
        OBVIOUS
      <4>4. QED
        BY <2>2, <2>3, <2>4, <4>1, <4>2, <4>3, Zenon
    <3>3. i <= tid
      BY <1>1, <2>7
    <3>4. QED
      BY <2>5, <3>2, <3>3 DEF Down
  <2>8. CASE i > tid
    <3>1. b[tid + 1] <= b[i]
      BY <1>1, <1>6, <2>1, <2>2, <2>8
    <3>2. b[i] + k > hi
      BY <1>3, <2>2, <2>4, <3>1, SMTT(30)
    <3>3. ~(i <= tid)
      BY <1>1, <2>1, <2>8
    <3>4. (b[i] + k) - d = b[i] - d + k
      BY <1>4, <2>2, <2>4
    <3>5. QED
      BY <2>5, <3>2, <3>3, <3>4 DEF Down
  <2>9. i < tid \/ i = tid \/ i > tid
    BY <1>1, <2>1
  <2>10. QED
    BY <2>6, <2>7, <2>8, <2>9
<1>9. \A i \in 1 .. n : kept(i) \in Nat
  BY <1>2, <1>5
<1>10. ASSUME NEW i \in 1 .. n, NEW k \in 1 .. kept(i) PROVE Down(lo, hi, T[i][k]) \in Nat
  <2>1. i \in 1 .. n + 1 /\ tid + 1 \in 1 .. n + 1 /\ i \in Nat /\ tid \in 1 .. n + 1
    BY <1>1
  <2>2. b[i] \in Nat /\ b[tid + 1] \in Nat /\ b[tid] \in Nat /\ k \in Nat
    BY <1>6, <1>9, <2>1
  <2>3. CASE i <= tid
    BY <1>8, <2>2, <2>3, SMTT(30)
  <2>4. CASE ~(i <= tid)
    <3>1. b[tid + 1] <= b[i]
      BY <1>1, <1>6, <2>1, <2>2, <2>4
    <3>2. b[i] - d \in Nat
      <4>1. d <= hi /\ hi <= b[i]
        BY <1>3, <2>2, <3>1
      <4>2. \A x, y, z \in Nat : x <= y /\ y <= z => z - x \in Nat
        OBVIOUS
      <4>3. QED
        BY <1>3, <1>4, <2>2, <4>1, <4>2, Zenon
    <3>3. Down(lo, hi, T[i][k]) = b[i] - d + k
      BY <1>8, <2>4
    <3>4. QED
      BY <2>2, <3>2, <3>3
  <2>5. QED
    BY <2>3, <2>4
<1> HIDE DEF D
<1>11. ASSUME NEW i \in 1 .. n
       PROVE  /\ D[i] \in Seq(Nat) /\ Len(D[i]) = kept(i)
              /\ \A k \in 1 .. kept(i) : D[i][k] = Down(lo, hi, T[i][k])
  <2> DEFINE f == [k \in 1 .. kept(i) |-> Down(lo, hi, T[i][k])]
  <2>1. f \in [1 .. kept(i) -> Nat] /\ \A k \in 1 .. kept(i) : f[k] = Down(lo, hi, T[i][k])
    BY <1>10
  <2> HIDE DEF f
  <2>2. kept(i) \in Nat
    BY <1>9
  <2> HIDE DEF kept
  <2>3. f \in Seq(Nat) /\ Len(f) = kept(i)
    BY <2>1, <2>2, FunctionAsSequence
  <2>4. D[i] = f
    BY <1>7 DEF f
  <2>5. QED
    BY <2>1, <2>3, <2>4
<1>12. D \in Seq(Seq(Nat)) /\ Len(D) = n
  <2>1. DOMAIN D = 1 .. n /\ D = [i \in 1 .. n |-> D[i]]
    BY <1>1 DEF D, Remaining
  <2>2. D \in [1 .. n -> Seq(Nat)]
    BY <1>11, <2>1
  <2>3. QED
    BY <1>1, <2>2, FunctionAsSequence
<1>13. ASSUME NEW i \in 1 .. n
       PROVE  /\ i # tid => Len(D[i]) = Len(T[i])
              /\ i <= tid => \A k \in 1 .. Len(D[i]) : D[i][k] = b[i] + k
              /\ i > tid => \A k \in 1 .. Len(D[i]) : D[i][k] = b[i] - d + k
  <2>1. i \in Nat /\ (i > tid => ~(i <= tid))
    BY <1>1
  <2>2. \A k \in 1 .. Len(D[i]) : D[i][k] = IF i <= tid THEN b[i] + k ELSE b[i] - d + k
    BY <1>8, <1>11
  <2>3. QED
    BY <1>11, <2>1, <2>2
<1>14. Len(D[tid]) = Len(T[tid]) - d
  BY <1>11
<1>15. D[tid] \in Seq(Nat) /\ Len(T[tid]) \in Nat
  BY <1>2, <1>11
<1>16. (D[tid] = << >>) <=> Len(T[tid]) = d
  <2>1. (D[tid] = << >>) <=> Len(D[tid]) = 0
    BY <1>15
  <2>2. QED
    BY <1>4, <1>14, <1>15, <2>1
<1>17. QED
  BY <1>12, <1>13, <1>14, <1>16 DEF D, AreRemaining

(* The first segments of the frames that stay, after the others have gone. *)
FramesKept(m, p, lo, hi) ==
  \A s \in RegisterSegments(p) :
    \E r \in RegisterSegments(m) : (r < lo \/ r > hi) /\ s = Down(lo, hi, r)

(* The frames of a thread that is not the one: all stay. *)
LEMMA OtherFrameKept ==
  ASSUME NEW m, NEW b, HasLayout(m), LaidOut(m, b), NEW tid \in 1 .. ThreadCount(m),
         NEW lo, NEW hi, IsLastRange(m, tid, lo, hi),
         NEW t \in 1 .. ThreadCount(m), NEW k \in 1 .. Len(m.segments_in_stack[t])
  PROVE  /\ t < tid => /\ FrameStart(m, b, t, k) < lo
                       /\ Down(lo, hi, FrameStart(m, b, t, k)) =
                            b[t] + FrameEnds(m.segments_in_stack[t])[k - 1] + 1
         /\ t > tid => /\ FrameStart(m, b, t, k) > hi
                       /\ Down(lo, hi, FrameStart(m, b, t, k)) =
                            (b[t] - (hi + 1 - lo)) + FrameEnds(m.segments_in_stack[t])[k - 1] + 1
<1> DEFINE n == ThreadCount(m)
           s == FrameStart(m, b, t, k)
           e == FrameEnds(m.segments_in_stack[t])[k - 1]
<1>1. n \in Nat /\ m.segments_in_stack[t] \in Seq(Nat) /\ Len(m.segments_in_stack[t]) \in Nat
  BY LayoutParts
<1>2. t \in Nat /\ tid \in Nat /\ t \in 1 .. n + 1 /\ t + 1 \in 1 .. n + 1 /\ tid \in 1 .. n + 1
      /\ tid + 1 \in 1 .. n + 1
  BY <1>1
<1>3. /\ \A i \in 1 .. n + 1 : b[i] \in Nat
      /\ \A i, j \in 1 .. n + 1 : i < j => b[i] < b[j]
  BY ThreadsAscend
<1>4. b[t] \in Nat /\ b[t + 1] \in Nat /\ b[tid] \in Nat /\ b[tid + 1] \in Nat
  BY <1>2, <1>3
<1>5. lo \in Nat /\ hi \in Nat /\ lo <= hi /\ hi = b[tid + 1] /\ b[tid] < lo
  BY LastRangeBounds
<1>6. s \in Nat /\ b[t] < s /\ s <= b[t + 1]
  BY FrameStarts
<1>7. s = b[t] + e + 1
  BY DEF FrameStart
<1>8. e \in Nat
  <2>1. k - 1 \in 0 .. Len(m.segments_in_stack[t])
    BY <1>1
  <2>2. QED
    BY <1>1, <2>1, FrameEndsAddUp
<1> HIDE DEF s, e, n
<1>9. ASSUME t < tid PROVE s < lo /\ Down(lo, hi, s) = b[t] + e + 1
  <2>1. b[t + 1] <= b[tid]
    BY <1>2, <1>3, <1>4, <1>9
  <2>2. s < lo /\ ~(s > hi)
    BY <1>4, <1>5, <1>6, <2>1
  <2>3. QED
    BY <1>7, <2>2 DEF Down
<1>10. ASSUME t > tid PROVE s > hi /\ Down(lo, hi, s) = (b[t] - (hi + 1 - lo)) + e + 1
  <2>1. b[tid + 1] <= b[t]
    BY <1>2, <1>3, <1>4, <1>10
  <2>2. s > hi
    BY <1>4, <1>5, <1>6, <2>1
  <2>3. Down(lo, hi, s) = s - (hi + 1 - lo)
    BY <2>2 DEF Down
  <2>4. \A x, y, z \in Nat : (x + y + 1) - (hi + 1 - lo) = (x - (hi + 1 - lo)) + y + 1
    BY <1>5, SMTT(30)
  <2>5. (b[t] + e + 1) - (hi + 1 - lo) = (b[t] - (hi + 1 - lo)) + e + 1
    BY <1>4, <1>8, <2>4
  <2>6. QED
    BY <1>7, <2>2, <2>3, <2>5
<1>11. QED
  BY <1>9, <1>10 DEF s, e

(* dropLastStack of a thread that has another frame. *)
WithoutFrame(m, tid) ==
  [m EXCEPT !.thread_segments = Remaining(m, tid), !.segments_in_stack[tid] = Front(@)]

LEMMA FrameDropped ==
  ASSUME NEW m \in MemoryState, NEW b, HasLayout(m), LaidOut(m, b), NEW tid \in 1 .. ThreadCount(m),
         NEW lo, NEW hi, IsLastRange(m, tid, lo, hi),
         Len(m.thread_segments[tid]) # hi + 1 - lo,
         NEW p, p = WithoutFrame(m, tid)
  PROVE  /\ p \in MemoryState /\ SameStores(m, p) /\ HasLayout(p)
         /\ LaidOut(p, Shifted(m, b, tid, -(hi + 1 - lo)))
         /\ Shifted(m, b, tid, -(hi + 1 - lo))[ThreadCount(p) + 1] =
              b[ThreadCount(m) + 1] - (hi + 1 - lo)
         /\ FramesKept(m, p, lo, hi)
<1> DEFINE n == ThreadCount(m)
           T == m.thread_segments
           V == m.segments_in_stack
           v == V[tid]
           d == hi + 1 - lo
           D == Remaining(m, tid)
           w == Front(v)
           stacks == [V EXCEPT ![tid] = w]
           c == Shifted(m, b, tid, -(hi + 1 - lo))
<1>1. n \in Nat /\ tid \in Nat /\ V \in Seq(Seq(Nat)) /\ Len(V) = n /\ v \in Seq(Nat)
      /\ T[tid] \in Seq(Nat)
  BY LayoutParts DEF HasLayout
<1>2. Len(v) \in Nat /\ Len(T[tid]) \in Nat /\ tid \in 1 .. Len(V)
  BY <1>1
<1>3. /\ lo \in Nat /\ hi \in Nat /\ lo <= hi /\ 1 < lo /\ hi = b[tid + 1] /\ b[tid] < lo
      /\ FrameEnds(v)[Len(v) - 1] = Len(T[tid]) - d
      /\ Len(T[tid]) - d \in Nat
  BY LastRangeBounds
<1>4. /\ D \in Seq(Seq(Nat)) /\ Len(D) = n
      /\ \A i \in 1 .. n :
           /\ i # tid => Len(D[i]) = Len(T[i])
           /\ i <= tid => \A k \in 1 .. Len(D[i]) : D[i][k] = b[i] + k
           /\ i > tid => \A k \in 1 .. Len(D[i]) : D[i][k] = b[i] - d + k
      /\ Len(D[tid]) = Len(T[tid]) - d
  <2>1. AreRemaining(m, b, tid, D, d)
    BY RemainingSegments
  <2> HIDE DEF D, d
  <2>2. QED
    BY <2>1 DEF AreRemaining
<1> HIDE DEF D
<1>5. Len(T[tid]) - d > 0
  BY <1>2, <1>3, SMTT(30)
<1>6. Len(v) > 0
  BY FrameStarts
<1>7. w \in Seq(Nat) /\ Len(w) = Len(v) - 1 /\ \A k \in 1 .. Len(v) - 1 : w[k] = v[k]
  <2>1. v # << >>
    BY <1>2, <1>6
  <2>2. QED
    BY <1>1, <2>1, FrontAndLast
<1> HIDE DEF w
<1>8. /\ stacks \in Seq(Seq(Nat)) /\ Len(stacks) = n /\ stacks[tid] = w
      /\ \A i \in 1 .. n : i # tid => stacks[i] = V[i]
  BY <1>1, <1>2, <1>7, ExceptSeq
<1>9. p = [m EXCEPT !.thread_segments = D, !.segments_in_stack = stacks]
  BY DEF D, w, WithoutFrame
<1> HIDE DEF stacks
<1>10. /\ p.thread_segments = D /\ p.segments_in_stack = stacks
       /\ SameStores(m, p) /\ p \in MemoryState
  BY <1>4, <1>8, <1>9 DEF MemoryState, SameStores
<1>11. HasLayout(p) /\ ThreadCount(p) = n
  BY <1>4, <1>8, <1>10 DEF HasLayout, ThreadCount
<1>12. /\ \A i \in 1 .. n + 1 : b[i] \in Nat
       /\ \A i, j \in 1 .. n + 1 : i < j => b[i] < b[j]
  BY ThreadsAscend
<1>13. \A t \in 1 .. n + 1 : c[t] = IF t <= tid THEN b[t] ELSE b[t] + (-d)
  BY DEF Shifted
<1>14. d \in Nat /\ d > 0 /\ d <= hi
  BY <1>3
<1> HIDE DEF d
<1>15. \A t \in 1 .. n + 1 : (IF t <= tid THEN b[t] ELSE b[t] + (-d)) \in Nat
  <2>1. ASSUME NEW t \in 1 .. n + 1, ~(t <= tid) PROVE b[t] + (-d) \in Nat
    <3>1. tid + 1 \in 1 .. n + 1 /\ (tid + 1 = t \/ tid + 1 < t)
      BY <1>1, <2>1
    <3>2. b[tid + 1] <= b[t] /\ b[t] \in Nat
      BY <1>3, <1>12, <3>1
    <3>3. QED
      BY <1>3, <1>14, <3>2, SMTT(30)
  <2>2. QED
    BY <1>12, <2>1
<1>16. c \in [1 .. n + 1 -> Nat]
  BY <1>15 DEF Shifted, d
<1> HIDE DEF c
<1>17. /\ \A k \in 1 .. Len(v) : v[k] > 0
       /\ FrameEnds(v)[Len(v)] = Len(T[tid])
  BY DEF LaidOut
<1>18. \A k \in 0 .. Len(v) - 1 : FrameEnds(w)[k] = FrameEnds(v)[k]
  <2>1. Len(v) - 1 \in Nat /\ Len(v) - 1 <= Len(v) /\ Len(v) - 1 <= Len(w)
    BY <1>2, <1>6, <1>7
  <2>2. QED
    BY <1>1, <1>7, <2>1, FrameEndsAgree
<1>19. ASSUME NEW t \in 1 .. n
       PROVE  /\ Len(D[t]) > 0
              /\ c[t + 1] = c[t] + Len(D[t])
              /\ \A k \in 1 .. Len(D[t]) : D[t][k] = c[t] + k
              /\ \A k \in 1 .. Len(stacks[t]) : stacks[t][k] > 0
              /\ FrameEnds(stacks[t])[Len(stacks[t])] = Len(D[t])
  <2>1. /\ Len(T[t]) > 0 /\ b[t + 1] = b[t] + Len(T[t])
        /\ \A k \in 1 .. Len(V[t]) : V[t][k] > 0
        /\ FrameEnds(V[t])[Len(V[t])] = Len(T[t])
    BY DEF LaidOut
  <2>2. t \in Nat /\ t \in 1 .. n + 1 /\ t + 1 \in 1 .. n + 1
    BY <1>1
  <2>3. b[t] \in Nat /\ b[t + 1] \in Nat
    BY <1>12, <2>2
  <2>4. Len(T[t]) \in Nat
    BY LayoutParts
  <2>5. CASE t < tid
    <3>1. t <= tid /\ t + 1 <= tid /\ t # tid
      BY <1>1, <2>2, <2>5
    <3>2. c[t] = b[t] /\ c[t + 1] = b[t + 1]
      BY <1>13, <2>2, <3>1
    <3>3. Len(D[t]) = Len(T[t]) /\ stacks[t] = V[t] /\ \A k \in 1 .. Len(D[t]) : D[t][k] = b[t] + k
      BY <1>4, <1>8, <3>1
    <3>4. QED
      BY <2>1, <3>2, <3>3
  <2>6. CASE t = tid
    <3>1. t <= tid /\ ~(t + 1 <= tid)
      BY <1>1, <2>6
    <3>2. c[t] = b[t] /\ c[t + 1] = b[t + 1] + (-d)
      BY <1>13, <2>2, <3>1
    <3>3. Len(D[t]) = Len(T[t]) - d /\ stacks[t] = w /\ \A k \in 1 .. Len(D[t]) : D[t][k] = b[t] + k
      BY <1>4, <1>8, <2>6, <3>1
    <3>4. Len(v) - 1 \in 0 .. Len(v) - 1
      BY <1>2, <1>6
    <3>5. FrameEnds(w)[Len(w)] = Len(T[t]) - d
      BY <1>3, <1>7, <1>18, <2>6, <3>4 DEF d
    <3>6. \A k \in 1 .. Len(w) : w[k] > 0
      <4>1. \A k \in 1 .. Len(w) : k \in 1 .. Len(v) /\ k \in 1 .. Len(v) - 1
        BY <1>2, <1>7
      <4>2. QED
        BY <1>7, <1>17, <4>1
    <3>7. \A x, y \in Nat : (x + y) + (-d) = x + (y - d)
      BY <1>14
    <3>8. c[t + 1] = c[t] + (Len(T[t]) - d)
      BY <2>1, <2>3, <2>4, <3>2, <3>7
    <3>9. Len(T[t]) - d > 0
      BY <1>5, <2>6 DEF d
    <3>10. QED
      BY <3>2, <3>3, <3>5, <3>6, <3>8, <3>9
  <2>7. CASE t > tid
    <3>1. ~(t <= tid) /\ ~(t + 1 <= tid) /\ t # tid
      BY <1>1, <2>2, <2>7
    <3>2. c[t] = b[t] + (-d) /\ c[t + 1] = b[t + 1] + (-d)
      BY <1>13, <2>2, <3>1
    <3>3. /\ Len(D[t]) = Len(T[t]) /\ stacks[t] = V[t]
          /\ \A k \in 1 .. Len(D[t]) : D[t][k] = b[t] - d + k
      BY <1>4, <1>8, <2>7, <3>1 DEF d
    <3>4. \A x, y \in Nat : (x + y) + (-d) = (x + (-d)) + y
      BY <1>14
    <3>5. c[t + 1] = c[t] + Len(T[t])
      BY <2>1, <2>3, <2>4, <3>2, <3>4, ZenonT(30)
    <3>6. b[t] - d = b[t] + (-d)
      BY <1>14, <2>3
    <3>7. QED
      BY <2>1, <3>2, <3>3, <3>5, <3>6
  <2>8. t < tid \/ t = tid \/ t > tid
    BY <1>1, <2>2
  <2>9. QED
    BY <2>5, <2>6, <2>7, <2>8
<1>20. c[1] = b[1] /\ c[n + 1] = b[n + 1] - d
  <2>1. 1 \in 1 .. n + 1 /\ n + 1 \in 1 .. n + 1 /\ 1 <= tid /\ ~(n + 1 <= tid)
    BY <1>1
  <2>2. c[1] = b[1] /\ c[n + 1] = b[n + 1] + (-d)
    BY <1>13, <2>1
  <2>3. b[n + 1] \in Nat
    BY <1>12, <2>1
  <2>4. QED
    BY <1>14, <2>2, <2>3
<1>21. LaidOut(p, c)
  <2>1. b[1] = GlobalSegment
    BY DEF LaidOut
  <2>2. QED
    BY <1>10, <1>11, <1>16, <1>19, <1>20, <2>1 DEF LaidOut
<1>22. ASSUME NEW s \in RegisterSegments(p)
       PROVE  \E r \in RegisterSegments(m) : (r < lo \/ r > hi) /\ s = Down(lo, hi, r)
  <2>1. PICK t \in 1 .. n : \E k \in 1 .. Len(stacks[t]) : s = FrameStart(p, c, t, k)
    BY <1>10, <1>11, <1>21, RegistersStartFrames
  <2>2. PICK k \in 1 .. Len(stacks[t]) : s = FrameStart(p, c, t, k)
    BY <2>1
  <2>3. s = c[t] + FrameEnds(stacks[t])[k - 1] + 1
    BY <1>10, <2>2 DEF FrameStart
  <2>4. t \in Nat /\ t \in 1 .. n + 1
    BY <1>1
  <2>5. k \in 1 .. Len(V[t]) /\ FrameEnds(stacks[t])[k - 1] = FrameEnds(V[t])[k - 1]
    <3>1. CASE t = tid
      <4>1. k \in 1 .. Len(v) - 1
        BY <1>7, <1>8, <3>1
      <4>3. k \in 1 .. Len(v) /\ k - 1 \in 0 .. Len(v) - 1
        BY <1>2, <4>1
      <4>2. QED
        BY <1>8, <1>18, <3>1, <4>3
    <3>2. CASE t # tid
      BY <1>8, <3>2
    <3>3. QED
      BY <3>1, <3>2
  <2>6. FrameStart(m, b, t, k) \in RegisterSegments(m)
    BY <2>5, RegistersStartFrames
  <2>7. CASE t < tid
    <3>1. c[t] = b[t]
      <4>1. t <= tid
        BY <1>1, <2>4, <2>7
      <4>2. QED
        BY <1>13, <2>4, <4>1
    <3>2. FrameStart(m, b, t, k) < lo /\ s = Down(lo, hi, FrameStart(m, b, t, k))
      BY <2>3, <2>5, <2>7, <3>1, OtherFrameKept
    <3>3. QED
      BY <2>6, <3>2
  <2>8. CASE t = tid
    <3>1. c[t] = b[t]
      <4>1. t <= tid
        BY <1>1, <2>4, <2>8
      <4>2. QED
        BY <1>13, <2>4, <4>1
    <3>2. FrameStart(m, b, t, k) = b[t] + FrameEnds(V[t])[k - 1] + 1
      BY DEF FrameStart
    <3>3. s = FrameStart(m, b, t, k)
      BY <2>3, <2>5, <3>1, <3>2
    <3>4. lo = FrameStart(m, b, tid, Len(v)) /\ FrameStart(m, b, tid, Len(v)) = b[tid] + FrameEnds(v)[Len(v) - 1] + 1
      BY LastFrames DEF FrameStart, IsLastRange
    <3>5. k - 1 \in 0 .. Len(v) /\ Len(v) - 1 \in 0 .. Len(v) /\ k - 1 < Len(v) - 1
      <4>1. k \in 1 .. Len(v) - 1
        BY <1>7, <1>8, <2>8
      <4>2. QED
        BY <1>2, <4>1, SMTT(30)
    <3>6. FrameEnds(v)[k - 1] < FrameEnds(v)[Len(v) - 1]
      BY <1>1, <1>17, <3>5, FrameEndsGrow
    <3>7. FrameEnds(v)[k - 1] \in Nat /\ FrameEnds(v)[Len(v) - 1] \in Nat /\ b[tid] \in Nat
      BY <1>1, <1>12, <2>4, <2>8, <3>5, FrameEndsAddUp
    <3>8. s < lo
      <4>1. \A x, y, z \in Nat : y < z => x + y + 1 < x + z + 1
        OBVIOUS
      <4>2. b[tid] + FrameEnds(v)[k - 1] + 1 < b[tid] + FrameEnds(v)[Len(v) - 1] + 1
        BY <3>6, <3>7, <4>1
      <4>3. QED
        BY <2>8, <3>2, <3>3, <3>4, <4>2, Zenon
    <3>9. s \in Nat
      BY <2>5, <3>3, FrameStarts
    <3>10. ~(s > hi)
      BY <1>3, <3>8, <3>9
    <3>11. QED
      BY <2>6, <3>3, <3>8, <3>10 DEF Down
  <2>9. CASE t > tid
    <3>1. c[t] = b[t] - d
      <4>1. ~(t <= tid) /\ b[t] \in Nat
        BY <1>1, <1>12, <2>4, <2>9
      <4>2. c[t] = b[t] + (-d)
        BY <1>13, <2>4, <4>1
      <4>3. QED
        BY <1>14, <4>1, <4>2
    <3>2. FrameStart(m, b, t, k) > hi /\ s = Down(lo, hi, FrameStart(m, b, t, k))
      BY <2>3, <2>5, <2>9, <3>1, OtherFrameKept DEF d
    <3>3. QED
      BY <2>6, <3>2
  <2>10. t < tid \/ t = tid \/ t > tid
    BY <1>1, <2>4
  <2>11. QED
    BY <2>7, <2>8, <2>9, <2>10
<1>23. FramesKept(m, p, lo, hi)
  BY <1>22 DEF FramesKept
<1>24. QED
  BY <1>10, <1>11, <1>20, <1>21, <1>23 DEF c, d

(* dropLastStack of a thread that has no other frame. *)
WithoutThread(m, tid) ==
  [m EXCEPT !.thread_segments = RemoveAt(Remaining(m, tid), tid),
            !.segments_in_stack = RemoveAt(@, tid)]

Joined(m, b, tid, d) ==
  [t \in 1 .. ThreadCount(m) |-> IF t <= tid THEN b[t] ELSE b[t + 1] - d]

LEMMA ThreadDropped ==
  ASSUME NEW m \in MemoryState, NEW b, HasLayout(m), LaidOut(m, b), NEW tid \in 1 .. ThreadCount(m),
         NEW lo, NEW hi, IsLastRange(m, tid, lo, hi),
         Len(m.thread_segments[tid]) = hi + 1 - lo,
         NEW p, p = WithoutThread(m, tid)
  PROVE  /\ p \in MemoryState /\ SameStores(m, p) /\ HasLayout(p)
         /\ LaidOut(p, Joined(m, b, tid, hi + 1 - lo))
         /\ Joined(m, b, tid, hi + 1 - lo)[ThreadCount(p) + 1] =
              b[ThreadCount(m) + 1] - (hi + 1 - lo)
         /\ FramesKept(m, p, lo, hi)
<1> DEFINE n == ThreadCount(m)
           T == m.thread_segments
           V == m.segments_in_stack
           d == hi + 1 - lo
           D == Remaining(m, tid)
           old(t) == IF t < tid THEN t ELSE t + 1
           c == Joined(m, b, tid, hi + 1 - lo)
<1>1. n \in Nat /\ tid \in Nat /\ 1 <= tid /\ tid <= n /\ V \in Seq(Seq(Nat)) /\ Len(V) = n /\ tid \in 1 .. Len(V)
  BY LayoutParts DEF HasLayout
<1>2. lo \in Nat /\ hi \in Nat /\ lo <= hi /\ 1 < lo /\ hi = b[tid + 1] /\ b[tid] < lo
  BY LastRangeBounds
<1>3. /\ D \in Seq(Seq(Nat)) /\ Len(D) = n
      /\ \A i \in 1 .. n :
           /\ i # tid => Len(D[i]) = Len(T[i])
           /\ i <= tid => \A k \in 1 .. Len(D[i]) : D[i][k] = b[i] + k
           /\ i > tid => \A k \in 1 .. Len(D[i]) : D[i][k] = b[i] - d + k
  <2>1. AreRemaining(m, b, tid, D, d)
    BY RemainingSegments
  <2> HIDE DEF D, d
  <2>2. QED
    BY <2>1 DEF AreRemaining
<1> HIDE DEF D
<1>4. /\ RemoveAt(V, tid) \in Seq(Seq(Nat)) /\ Len(RemoveAt(V, tid)) = n - 1
      /\ \A i \in 1 .. n - 1 : RemoveAt(V, tid)[i] = IF i < tid THEN V[i] ELSE V[i + 1]
  BY <1>1, Removing
<1>5. /\ RemoveAt(D, tid) \in Seq(Seq(Nat)) /\ Len(RemoveAt(D, tid)) = n - 1
      /\ \A i \in 1 .. n - 1 : RemoveAt(D, tid)[i] = IF i < tid THEN D[i] ELSE D[i + 1]
  <2>1. D \in Seq(Seq(Nat)) /\ Len(D) = n /\ tid \in 1 .. Len(D)
    BY <1>1, <1>3
  <2>2. QED
    BY <2>1, Removing
<1>6. p = [m EXCEPT !.thread_segments = RemoveAt(D, tid), !.segments_in_stack = RemoveAt(V, tid)]
  BY DEF D, WithoutThread
<1>7. /\ p.thread_segments = RemoveAt(D, tid) /\ p.segments_in_stack = RemoveAt(V, tid)
      /\ SameStores(m, p) /\ p \in MemoryState
  BY <1>4, <1>5, <1>6 DEF MemoryState, SameStores
<1>8. HasLayout(p) /\ ThreadCount(p) = n - 1
  BY <1>4, <1>5, <1>7 DEF HasLayout, ThreadCount
<1>9. \A t \in 1 .. n - 1 : /\ old(t) \in 1 .. n /\ old(t) # tid
                            /\ p.thread_segments[t] = D[old(t)]
                            /\ p.segments_in_stack[t] = V[old(t)]
  <2>1. ASSUME NEW t \in 1 .. n - 1 PROVE old(t) \in 1 .. n /\ old(t) # tid
    BY <1>1
  <2>2. QED
    BY <1>4, <1>5, <1>7, <2>1
<1>10. /\ \A i \in 1 .. n + 1 : b[i] \in Nat
       /\ \A i, j \in 1 .. n + 1 : i < j => b[i] < b[j]
  BY ThreadsAscend
<1>11. d \in Nat /\ d > 0 /\ d <= hi
  BY <1>2
<1>12. b[tid + 1] - d = b[tid] /\ b[tid] \in Nat /\ b[tid + 1] \in Nat
  <2>1. b[tid + 1] = b[tid] + Len(T[tid]) /\ Len(T[tid]) = d
    BY DEF LaidOut
  <2>2. tid \in 1 .. n + 1 /\ tid + 1 \in 1 .. n + 1
    BY <1>1
  <2>3. b[tid] \in Nat /\ b[tid + 1] \in Nat
    BY <1>10, <2>2
  <2>4. \A x \in Nat : (x + d) - d = x
    BY <1>11
  <2>5. QED
    BY <2>1, <2>3, <2>4
<1> HIDE DEF d
<1>13. \A t \in 1 .. n : c[t] = IF t <= tid THEN b[t] ELSE b[t + 1] - d
  BY DEF Joined, d
<1>14. \A t \in 1 .. n : ~(t < tid) => c[t] = b[t + 1] - d
  <2>1. \A t \in 1 .. n : ~(t < tid) => t = tid \/ ~(t <= tid)
    BY <1>1
  <2>2. QED
    BY <1>12, <1>13, <2>1
<1>15. \A t \in 1 .. n : (IF t <= tid THEN b[t] ELSE b[t + 1] - d) \in Nat
  <2>1. ASSUME NEW t \in 1 .. n, ~(t <= tid) PROVE b[t + 1] - d \in Nat
    <3>1. tid + 1 \in 1 .. n + 1 /\ t + 1 \in 1 .. n + 1 /\ tid + 1 < t + 1
      BY <1>1, <2>1
    <3>2. b[tid + 1] < b[t + 1] /\ b[t + 1] \in Nat
      BY <1>10, <3>1
    <3>3. QED
      BY <1>2, <1>11, <3>2, SMTT(30)
  <2>2. \A t \in 1 .. n : t \in 1 .. n + 1
    BY <1>1
  <2>3. QED
    BY <1>10, <2>1, <2>2
<1>16. c \in [1 .. n -> Nat]
  BY <1>15 DEF Joined, d
<1> HIDE DEF c
<1>17. ASSUME NEW t \in 1 .. n - 1
       PROVE  /\ Len(D[old(t)]) > 0
              /\ c[t + 1] = c[t] + Len(D[old(t)])
              /\ \A k \in 1 .. Len(D[old(t)]) : D[old(t)][k] = c[t] + k
              /\ \A k \in 1 .. Len(V[old(t)]) : V[old(t)][k] > 0
              /\ FrameEnds(V[old(t)])[Len(V[old(t)])] = Len(D[old(t)])
  <2>1. old(t) \in 1 .. n /\ old(t) # tid
    BY <1>9
  <2>2. t \in Nat /\ t \in 1 .. n /\ t + 1 \in 1 .. n
    BY <1>1
  <2>3. CASE t < tid
    <3>1. old(t) = t /\ t <= tid /\ t + 1 <= tid
      BY <1>1, <2>2, <2>3
    <3> HIDE DEF old
    <3>2. c[t] = b[t] /\ c[t + 1] = b[t + 1]
      BY <1>13, <2>2, <3>1
    <3>3. Len(D[t]) = Len(T[t]) /\ \A k \in 1 .. Len(D[t]) : D[t][k] = b[t] + k
      BY <1>3, <2>1, <3>1
    <3>4. /\ Len(T[t]) > 0 /\ b[t + 1] = b[t] + Len(T[t])
          /\ \A k \in 1 .. Len(V[t]) : V[t][k] > 0
          /\ FrameEnds(V[t])[Len(V[t])] = Len(T[t])
      BY <2>1, <3>1 DEF LaidOut
    <3>5. QED
      BY <3>1, <3>2, <3>3, <3>4
  <2>4. CASE ~(t < tid)
    <3>1. old(t) = t + 1 /\ t + 1 > tid /\ ~(t + 1 < tid)
      BY <1>1, <2>2, <2>4
    <3> HIDE DEF old
    <3>2. c[t] = b[t + 1] - d /\ c[t + 1] = b[(t + 1) + 1] - d
      BY <1>14, <2>2, <2>4, <3>1
    <3>3. Len(D[t + 1]) = Len(T[t + 1]) /\ \A k \in 1 .. Len(D[t + 1]) : D[t + 1][k] = b[t + 1] - d + k
      BY <1>3, <2>1, <3>1
    <3>4. /\ Len(T[t + 1]) > 0 /\ b[(t + 1) + 1] = b[t + 1] + Len(T[t + 1])
          /\ \A k \in 1 .. Len(V[t + 1]) : V[t + 1][k] > 0
          /\ FrameEnds(V[t + 1])[Len(V[t + 1])] = Len(T[t + 1])
      BY <2>2 DEF LaidOut
    <3>5. t + 1 \in 1 .. n + 1 /\ b[t + 1] \in Nat
      BY <1>1, <1>10, <2>2
    <3>6. Len(T[t + 1]) \in Nat
      BY <2>2, LayoutParts
    <3>7. \A x, y \in Nat : (x + y) - d = (x - d) + y
      BY <1>11
    <3>8. c[t + 1] = c[t] + Len(T[t + 1])
      BY <3>2, <3>4, <3>5, <3>6, <3>7
    <3>9. QED
      BY <3>1, <3>2, <3>3, <3>4, <3>8
  <2>5. QED
    BY <2>3, <2>4
<1>18. c[1] = b[1] /\ c[n] = b[n + 1] - d
  <2>1. 1 \in 1 .. n /\ n \in 1 .. n /\ ~(n < tid)
    BY <1>1
  <2>2. QED
    BY <1>1, <1>13, <1>14, <2>1
<1>19. (n - 1) + 1 = n
  BY <1>1
<1>20. LaidOut(p, c)
  <2>1. b[1] = GlobalSegment
    BY DEF LaidOut
  <2>2. ASSUME NEW t \in 1 .. n - 1
        PROVE  /\ Len(p.thread_segments[t]) > 0
               /\ c[t + 1] = c[t] + Len(p.thread_segments[t])
               /\ \A k \in 1 .. Len(p.thread_segments[t]) : p.thread_segments[t][k] = c[t] + k
               /\ \A k \in 1 .. Len(p.segments_in_stack[t]) : p.segments_in_stack[t][k] > 0
               /\ FrameEnds(p.segments_in_stack[t])[Len(p.segments_in_stack[t])]
                    = Len(p.thread_segments[t])
    <3>1. p.thread_segments[t] = D[old(t)] /\ p.segments_in_stack[t] = V[old(t)]
      BY <1>9
    <3> HIDE DEF old
    <3>2. QED
      BY <1>17, <3>1
  <2>3. QED
    BY <1>8, <1>16, <1>18, <1>19, <2>1, <2>2 DEF LaidOut
<1>21. ASSUME NEW s \in RegisterSegments(p)
       PROVE  \E r \in RegisterSegments(m) : (r < lo \/ r > hi) /\ s = Down(lo, hi, r)
  <2>1. PICK t \in 1 .. n - 1 : \E k \in 1 .. Len(p.segments_in_stack[t]) : s = FrameStart(p, c, t, k)
    BY <1>8, <1>20, RegistersStartFrames
  <2>2. PICK k \in 1 .. Len(p.segments_in_stack[t]) : s = FrameStart(p, c, t, k)
    BY <2>1
  <2>3. p.segments_in_stack[t] = V[old(t)] /\ old(t) \in 1 .. n
    BY <1>9
  <2>4. t \in Nat /\ t \in 1 .. n
    BY <1>1
  <2>5. s = c[t] + FrameEnds(V[old(t)])[k - 1] + 1 /\ k \in 1 .. Len(V[old(t)])
    BY <2>2, <2>3 DEF FrameStart
  <2>6. FrameStart(m, b, old(t), k) \in RegisterSegments(m)
    BY <2>3, <2>5, RegistersStartFrames
  <2>7. CASE t < tid
    <3>1. old(t) = t /\ t <= tid
      BY <1>1, <2>4, <2>7
    <3> HIDE DEF old
    <3>2. c[t] = b[t]
      BY <1>13, <2>4, <3>1
    <3>3. FrameStart(m, b, t, k) < lo /\ s = Down(lo, hi, FrameStart(m, b, t, k))
      BY <2>3, <2>5, <2>7, <3>1, <3>2, OtherFrameKept
    <3>4. QED
      BY <2>6, <3>1, <3>3
  <2>8. CASE ~(t < tid)
    <3>1. old(t) = t + 1 /\ t + 1 > tid
      BY <1>1, <2>4, <2>8
    <3> HIDE DEF old
    <3>2. c[t] = b[t + 1] - d
      BY <1>14, <2>4, <2>8
    <3>3. FrameStart(m, b, t + 1, k) > hi /\ s = Down(lo, hi, FrameStart(m, b, t + 1, k))
      BY <2>3, <2>5, <3>1, <3>2, OtherFrameKept DEF d
    <3>4. QED
      BY <2>6, <3>1, <3>3
  <2>9. QED
    BY <2>7, <2>8
<1>22. FramesKept(m, p, lo, hi)
  BY <1>21 DEF FramesKept
<1>23. QED
  BY <1>7, <1>8, <1>18, <1>19, <1>20, <1>22 DEF c, d

(* The stacks without the last frame of a thread that has another, and the
   thread's without the thread. *)
StacksLeft(m, p, tid) ==
  OtherStacks(m, p, tid) /\ p.segments_in_stack[tid] = Front(m.segments_in_stack[tid])

StacksEnded(m, p, tid) ==
  /\ ThreadCount(p) = ThreadCount(m) - 1
  /\ p.segments_in_stack = RemoveAt(m.segments_in_stack, tid)

LeftWithoutFrame(m, b, p, tid, d) ==
  /\ Len(m.thread_segments[tid]) # d
  /\ StacksLeft(m, p, tid)
  /\ LaidOut(p, Shifted(m, b, tid, -d))
  /\ Shifted(m, b, tid, -d)[ThreadCount(p) + 1] = b[ThreadCount(m) + 1] - d

LeftWithoutThread(m, b, p, tid, d) ==
  /\ Len(m.thread_segments[tid]) = d
  /\ StacksEnded(m, p, tid)
  /\ LaidOut(p, Joined(m, b, tid, d))
  /\ Joined(m, b, tid, d)[ThreadCount(p) + 1] = b[ThreadCount(m) + 1] - d

(* Either way the segments that stay are laid out, and there are as many
   fewer as the frame had. *)
LEMMA LastStackDropped ==
  ASSUME NEW m \in MemoryState, NEW b, HasLayout(m), LaidOut(m, b), NEW tid \in 1 .. ThreadCount(m),
         NEW lo, NEW hi, IsLastRange(m, tid, lo, hi),
         NEW p, p = DropLastStack(m, tid)
  PROVE  /\ p \in MemoryState /\ SameStores(m, p) /\ HasLayout(p)
         /\ Contiguous(p, b[ThreadCount(m) + 1] - (hi + 1 - lo))
         /\ FramesKept(m, p, lo, hi)
         /\ LeftWithoutFrame(m, b, p, tid, hi + 1 - lo) \/ LeftWithoutThread(m, b, p, tid, hi + 1 - lo)
<1> DEFINE D == Remaining(m, tid)
<1>1. p = IF D[tid] = << >> THEN WithoutThread(m, tid) ELSE WithoutFrame(m, tid)
  BY DEF DropLastStack, WithoutThread, WithoutFrame, Remaining, Down
<1>2. (D[tid] = << >>) <=> Len(m.thread_segments[tid]) = hi + 1 - lo
  BY RemainingSegments
<1> HIDE DEF D
<1>3. CASE D[tid] = << >>
  <2>1. p = WithoutThread(m, tid) /\ Len(m.thread_segments[tid]) = hi + 1 - lo
    BY <1>1, <1>2, <1>3
  <2>2. /\ p \in MemoryState /\ SameStores(m, p) /\ HasLayout(p)
        /\ LaidOut(p, Joined(m, b, tid, hi + 1 - lo))
        /\ Joined(m, b, tid, hi + 1 - lo)[ThreadCount(p) + 1] = b[ThreadCount(m) + 1] - (hi + 1 - lo)
        /\ FramesKept(m, p, lo, hi)
    BY <2>1, ThreadDropped
  <2>3. StacksEnded(m, p, tid)
    <3>1. p.segments_in_stack = RemoveAt(m.segments_in_stack, tid)
      BY <2>1 DEF WithoutThread
    <3>2. m.segments_in_stack \in Seq(Seq(Nat)) /\ tid \in 1 .. Len(m.segments_in_stack)
      BY DEF HasLayout
    <3>3. Len(p.segments_in_stack) = Len(m.segments_in_stack) - 1
      BY <3>1, <3>2, Removing
    <3>4. QED
      BY <2>2, <3>1, <3>3 DEF StacksEnded, HasLayout
  <2>4. LeftWithoutThread(m, b, p, tid, hi + 1 - lo)
    BY <2>1, <2>2, <2>3 DEF LeftWithoutThread
  <2>5. QED
    BY <2>2, <2>4, LaidOutIsContiguous
<1>4. CASE D[tid] # << >>
  <2>1. p = WithoutFrame(m, tid) /\ Len(m.thread_segments[tid]) # hi + 1 - lo
    BY <1>1, <1>2, <1>4
  <2>2. /\ p \in MemoryState /\ SameStores(m, p) /\ HasLayout(p)
        /\ LaidOut(p, Shifted(m, b, tid, -(hi + 1 - lo)))
        /\ Shifted(m, b, tid, -(hi + 1 - lo))[ThreadCount(p) + 1] = b[ThreadCount(m) + 1] - (hi + 1 - lo)
        /\ FramesKept(m, p, lo, hi)
    BY <2>1, FrameDropped
  <2>3. StacksLeft(m, p, tid)
    <3>1. m \in MemoryState /\ m.segments_in_stack \in Seq(Seq(Nat)) /\ tid \in 1 .. Len(m.segments_in_stack)
      BY DEF HasLayout
    <3>2. p.segments_in_stack = [m.segments_in_stack EXCEPT ![tid] = Front(@)]
      BY <2>1 DEF WithoutFrame, MemoryState
    <3>3. /\ Len(p.segments_in_stack) = Len(m.segments_in_stack)
          /\ p.segments_in_stack[tid] = Front(m.segments_in_stack[tid])
          /\ \A i \in 1 .. Len(m.segments_in_stack) :
               i # tid => p.segments_in_stack[i] = m.segments_in_stack[i]
      BY <3>1, <3>2
    <3>4. Len(m.segments_in_stack) = ThreadCount(m) /\ Len(p.segments_in_stack) = ThreadCount(p)
      BY <2>2 DEF HasLayout
    <3>5. QED
      BY <3>3, <3>4 DEF StacksLeft, OtherStacks
  <2>4. LeftWithoutFrame(m, b, p, tid, hi + 1 - lo)
    BY <2>1, <2>2, <2>3 DEF LeftWithoutFrame
  <2>5. QED
    BY <2>2, <2>4, LaidOutIsContiguous
<1>5. QED
  BY <1>3, <1>4

-----------------------------------------------------------------------------
(* The invariant.                                                          *)

(* A cell is in order: its name has been given out, and if the segment it
   was made for exists, that is where it points, and there are no registers. *)
CellOK(m, cell) ==
  /\ cell.meant < m.fst_unused_id
  /\ cell.is_pointer \/ cell = Blank
  /\ MayFollow(m, cell) => /\ cell.seg \in 1 .. Len(m.explicitData)
                           /\ m.segments_mapping[cell.seg] = cell.meant
                           /\ cell.seg \notin RegisterSegments(m)

(* The stores belong together. *)
StoresAgree(m) ==
  /\ Len(m.segments_mapping) = Len(m.explicitData)
  /\ Len(m.explicitData) < m.fst_unused_id
  /\ \A s \in 1 .. Len(m.explicitData) : m.segments_mapping[s] < m.fst_unused_id
  /\ \A s, r \in 1 .. Len(m.explicitData) :
       m.segments_mapping[s] = m.segments_mapping[r] => s = r

CellsOK(m) ==
  \A s \in 1 .. Len(m.explicitData) :
    \A c \in DOMAIN m.explicitData[s] : CellOK(m, m.explicitData[s][c])

Sound(m) ==
  /\ m \in MemoryState /\ HasLayout(m)
  /\ StoresAgree(m)
  /\ Contiguous(m, Len(m.explicitData))
  /\ \A s \in RegisterSegments(m) : DOMAIN m.explicitData[s] = Register
  /\ CellsOK(m)

(* The types of what a state consists of. *)
LEMMA StateTypes ==
  ASSUME NEW m \in MemoryState
  PROVE  /\ m.thread_segments \in Seq(Seq(Nat)) /\ m.segments_in_stack \in Seq(Seq(Nat))
         /\ m.explicitData \in Seq(Segment) /\ Len(m.explicitData) \in Nat
         /\ m.segments_mapping \in Seq(1 .. MaxNames) /\ Len(m.segments_mapping) \in Nat
         /\ m.fst_unused_id \in 1 .. MaxNames + 1 /\ m.fst_unused_id \in Nat
         /\ MaxNames \in Nat
<1>1. /\ m.thread_segments \in Seq(Seq(Nat)) /\ m.segments_in_stack \in Seq(Seq(Nat))
      /\ m.explicitData \in Seq(Segment)
      /\ m.segments_mapping \in Seq(1 .. MaxNames)
      /\ m.fst_unused_id \in 1 .. MaxNames + 1
  BY DEF MemoryState
<1>2. MaxNames \in Nat
  BY SegmentRangeAssumption
<1>3. m.fst_unused_id \in Nat
  BY <1>1, <1>2
<1>4. Len(m.explicitData) \in Nat /\ Len(m.segments_mapping) \in Nat
  BY <1>1
<1>5. QED
  BY <1>1, <1>2, <1>3, <1>4

(* The types of the cells. *)
LEMMA CellTypes ==
  ASSUME NEW segment \in Segment
  PROVE  /\ segment = [c \in DOMAIN segment |-> segment[c]]
         /\ DOMAIN segment = Register \/ DOMAIN segment = Cell
         /\ \A c \in DOMAIN segment : segment[c] \in CellValue
  BY DEF Segment

(* Who has the same segments has the same layout. *)
LEMMA SameLayout ==
  ASSUME NEW m, NEW q, q.thread_segments = m.thread_segments,
         q.segments_in_stack = m.segments_in_stack
  PROVE  /\ HasLayout(q) <=> HasLayout(m)
         /\ ThreadCount(q) = ThreadCount(m)
         /\ RegisterSegments(q) = RegisterSegments(m)
         /\ \A n : Contiguous(q, n) <=> Contiguous(m, n)
         /\ \A b : LaidOut(q, b) <=> LaidOut(m, b)
         /\ \A tid : LastRange(q, tid) = LastRange(m, tid)
<1>1. ThreadCount(q) = ThreadCount(m)
  BY DEF ThreadCount
<1>2. \A tid : SegmentsBefore(q, tid) = SegmentsBefore(m, tid)
  BY DEF SegmentsBefore
<1>3. \A t, k : FirstSegment(q, t, k) = FirstSegment(m, t, k)
  BY DEF FirstSegment
<1>4. RegisterSegments(q) = RegisterSegments(m)
  BY <1>3 DEF RegisterSegments
<1>5. \A n : Contiguous(q, n) <=> Contiguous(m, n)
  BY <1>1, <1>2 DEF Contiguous
<1>6. \A b : LaidOut(q, b) <=> LaidOut(m, b)
  BY <1>1 DEF LaidOut
<1>7. \A tid : LastRange(q, tid) = LastRange(m, tid)
  BY DEF LastRange
<1>8. HasLayout(q) <=> HasLayout(m)
  BY <1>1 DEF HasLayout
<1>9. QED
  BY <1>1, <1>4, <1>5, <1>6, <1>7, <1>8

(* The layout of a sound state, with the b of LaidOut. *)
LEMMA SoundLayout ==
  ASSUME NEW m, Sound(m)
  PROVE  \E b : LaidOut(m, b) /\ b[ThreadCount(m) + 1] = Len(m.explicitData)
<1>1. HasLayout(m) /\ Contiguous(m, Len(m.explicitData))
  BY DEF Sound
<1>2. QED
  BY <1>1, ContiguousIsLaidOut

(* The numbers of the segments fit into a pointer. *)
LEMMA SegmentsFit ==
  ASSUME NEW m, Sound(m)
  PROVE  /\ Len(m.explicitData) \in Nat /\ Len(m.explicitData) <= MaxNames
         /\ SegmentRange \in Nat /\ Len(m.explicitData) + 1 < SegmentRange
<1>1. /\ Len(m.explicitData) \in Nat /\ Len(m.explicitData) < m.fst_unused_id
      /\ m.fst_unused_id \in 1 .. MaxNames + 1 /\ MaxNames \in Nat
  BY StateTypes DEF Sound, StoresAgree
<1>2. QED
  BY <1>1, SegmentRangeAssumption

(* The registers of a thread are one of its segments. *)
LEMMA RegistersExist ==
  ASSUME NEW m, Sound(m), NEW tid \in 1 .. ThreadCount(m)
  PROVE  /\ \A s \in RegisterSegments(m) : s \in 2 .. Len(m.explicitData)
         /\ LastRange(m, tid)[1] \in RegisterSegments(m)
         /\ Len(m.segments_in_stack[tid]) > 1 => PrevRange(m, tid)[1] \in RegisterSegments(m)
<1>1. HasLayout(m)
  BY DEF Sound
<1>2. PICK b : LaidOut(m, b) /\ b[ThreadCount(m) + 1] = Len(m.explicitData)
  BY SoundLayout
<1>3. \A s \in RegisterSegments(m) : s \in Nat /\ s > 1 /\ s <= Len(m.explicitData)
  BY <1>1, <1>2, RegistersStartFrames
<1>4. Len(m.explicitData) \in Nat
  BY SegmentsFit
<1> DEFINE n == Len(m.segments_in_stack[tid])
<1>5. n \in Nat /\ n > 0
  BY <1>1, <1>2, FrameStarts, LayoutParts
<1>6. /\ LastRange(m, tid)[1] = FrameStart(m, b, tid, n)
      /\ n > 1 => PrevRange(m, tid)[1] = FrameStart(m, b, tid, n - 1)
  BY <1>1, <1>2, LastFrames
<1>7. n \in 1 .. n /\ (n > 1 => n - 1 \in 1 .. n)
  BY <1>5
<1>8. \A k \in 1 .. n : FrameStart(m, b, tid, k) \in RegisterSegments(m)
  BY <1>1, <1>2, RegistersStartFrames
<1>9. \A s \in RegisterSegments(m) : s \in 2 .. Len(m.explicitData)
  BY <1>3, <1>4
<1> HIDE DEF n
<1>10. n > 1 => PrevRange(m, tid)[1] \in RegisterSegments(m)
  BY <1>6, <1>7, <1>8
<1>11. QED
  BY <1>6, <1>7, <1>8, <1>9, <1>10 DEF n

(* A cell without a pointer is always in order. *)
LEMMA BlankOK ==
  ASSUME NEW m \in MemoryState
  PROVE  Blank \in CellValue /\ CellOK(m, Blank)
<1>1. SegmentRange \in Nat /\ SegmentRange > 0 /\ MaxNames \in Nat
  BY SegmentRangeAssumption
<1>2. Blank \in CellValue
  BY <1>1 DEF Blank, CellValue
<1>3. m.segments_mapping \in Seq(1 .. MaxNames) /\ m.fst_unused_id \in 1 .. MaxNames + 1
  BY StateTypes
<1>4. ToSet(m.segments_mapping) \subseteq 1 .. MaxNames
  BY <1>3, SetOfSequence
<1>5. ~MayFollow(m, Blank)
  BY <1>1, <1>4 DEF MayFollow, Blank
<1>6. Blank.meant < m.fst_unused_id
  BY <1>1, <1>3 DEF Blank
<1>7. QED
  BY <1>2, <1>5, <1>6 DEF CellOK

-----------------------------------------------------------------------------
(* Storing a cell.                                                         *)

LEMMA Storing ==
  ASSUME NEW m, Sound(m), NEW sid \in 1 .. Len(m.explicitData), NEW c,
         NEW cell \in CellValue, CellOK(m, cell)
  PROVE  /\ Sound(Store(m, sid, c, cell))
         /\ Store(m, sid, c, cell).thread_segments = m.thread_segments
         /\ Store(m, sid, c, cell).segments_in_stack = m.segments_in_stack
         /\ Len(Store(m, sid, c, cell).explicitData) = Len(m.explicitData)
         /\ \A other : CellOK(m, other) => CellOK(Store(m, sid, c, cell), other)
<1> DEFINE D == m.explicitData
           segment == [D[sid] EXCEPT ![c] = cell]
           E == [D EXCEPT ![sid] = segment]
           q == Store(m, sid, c, cell)
<1>1. m \in MemoryState /\ HasLayout(m) /\ D \in Seq(Segment) /\ Len(D) \in Nat
  BY StateTypes DEF Sound
<1>2. D[sid] \in Segment
  BY <1>1
<1>3. segment \in Segment /\ DOMAIN segment = DOMAIN D[sid]
  <2>1. /\ D[sid] = [x \in DOMAIN D[sid] |-> D[sid][x]]
        /\ DOMAIN D[sid] = Register \/ DOMAIN D[sid] = Cell
        /\ \A x \in DOMAIN D[sid] : D[sid][x] \in CellValue
    BY <1>2, CellTypes
  <2>2. DOMAIN segment = DOMAIN D[sid] /\ segment = [x \in DOMAIN D[sid] |-> segment[x]]
    BY <2>1
  <2>3. \A x \in DOMAIN D[sid] : segment[x] \in CellValue
    BY <2>1
  <2> HIDE DEF segment
  <2>4. QED
    BY <2>1, <2>2, <2>3 DEF Segment
<1>4. \A x \in DOMAIN segment : segment[x] = cell \/ segment[x] = D[sid][x]
  <2>1. D[sid] = [x \in DOMAIN D[sid] |-> D[sid][x]]
    BY <1>2, CellTypes
  <2>2. QED
    BY <2>1
<1> HIDE DEF segment
<1>5. /\ E \in Seq(Segment) /\ Len(E) = Len(D)
      /\ \A s \in 1 .. Len(D) : E[s] = IF s = sid THEN segment ELSE D[s]
  BY <1>1, <1>3, ExceptSeq
<1>6. q = [m EXCEPT !.explicitData = E]
  BY DEF Store, segment
<1> HIDE DEF E, q
<1>7. /\ q.explicitData = E /\ q \in MemoryState
      /\ q.thread_segments = m.thread_segments /\ q.segments_in_stack = m.segments_in_stack
      /\ q.segments_mapping = m.segments_mapping /\ q.fst_unused_id = m.fst_unused_id
  BY <1>1, <1>5, <1>6 DEF MemoryState
<1>8. /\ HasLayout(q) <=> HasLayout(m)
      /\ RegisterSegments(q) = RegisterSegments(m)
      /\ \A n : Contiguous(q, n) <=> Contiguous(m, n)
  BY <1>7, SameLayout
<1>9. \A other : CellOK(m, other) => CellOK(q, other)
  BY <1>5, <1>7, <1>8 DEF CellOK, MayFollow
<1>10. StoresAgree(q)
  BY <1>5, <1>7 DEF Sound, StoresAgree
<1>11. \A s \in RegisterSegments(q) : DOMAIN q.explicitData[s] = Register
  <2>1. m.segments_in_stack \in Seq(Seq(Nat))
    BY <1>1, StateTypes
  <2>2. ASSUME NEW s \in RegisterSegments(m) PROVE s \in 1 .. Len(D)
    <3>1. PICK b : LaidOut(m, b) /\ b[ThreadCount(m) + 1] = Len(D)
      BY SoundLayout
    <3>2. s \in Nat /\ s > 1 /\ s <= Len(D)
      BY <1>1, <3>1, RegistersStartFrames
    <3>3. QED
      BY <1>1, <3>2
  <2>3. \A s \in RegisterSegments(m) : DOMAIN D[s] = Register
    BY DEF Sound
  <2>4. QED
    BY <1>3, <1>5, <1>7, <1>8, <2>2, <2>3
<1>12. CellsOK(q)
  <2>1. ASSUME NEW s \in 1 .. Len(D), NEW x \in DOMAIN E[s] PROVE CellOK(q, E[s][x])
    <3>1. CASE s = sid
      <4>1. E[s] = segment
        BY <1>5, <3>1
      <4>2. E[s][x] = cell \/ (E[s][x] = D[sid][x] /\ x \in DOMAIN D[sid])
        BY <1>3, <1>4, <4>1
      <4>3. ASSUME x \in DOMAIN D[sid] PROVE CellOK(m, D[sid][x])
        BY <4>3 DEF Sound, CellsOK
      <4>4. QED
        BY <1>9, <4>2, <4>3
    <3>2. CASE s # sid
      <4>1. E[s] = D[s]
        BY <1>5, <3>2
      <4>2. CellOK(m, D[s][x])
        BY <4>1 DEF Sound, CellsOK
      <4>3. QED
        BY <1>9, <4>1, <4>2
    <3>3. QED
      BY <3>1, <3>2
  <2>2. QED
    BY <1>5, <1>7, <2>1 DEF CellsOK
<1>13. Sound(q)
  <2>1. Contiguous(q, Len(q.explicitData))
    BY <1>5, <1>7, <1>8 DEF Sound
  <2>2. QED
    BY <1>1, <1>7, <1>8, <1>10, <1>11, <1>12, <2>1 DEF Sound
<1>14. QED
  BY <1>5, <1>7, <1>9, <1>13 DEF q

(* A cell that is loaded is in order. *)
LEMMA Loading ==
  ASSUME NEW m, Sound(m), NEW s \in 1 .. Len(m.explicitData), NEW c \in DOMAIN m.explicitData[s]
  PROVE  m.explicitData[s][c] \in CellValue /\ CellOK(m, m.explicitData[s][c])
<1>1. m.explicitData \in Seq(Segment)
  BY StateTypes DEF Sound
<1>2. m.explicitData[s] \in Segment
  BY <1>1
<1>3. m.explicitData[s][c] \in CellValue
  BY <1>2, CellTypes
<1>4. QED
  BY <1>3 DEF Sound, CellsOK

(* So is one that is read from a register. *)
LEMMA ReadingRegister ==
  ASSUME NEW m, Sound(m), NEW tid \in 1 .. ThreadCount(m), NEW c \in Register
  PROVE  Registers(m, tid)[c] \in CellValue /\ CellOK(m, Registers(m, tid)[c])
<1> DEFINE s == LastRange(m, tid)[1]
<1>1. s \in RegisterSegments(m) /\ s \in 2 .. Len(m.explicitData) /\ Len(m.explicitData) \in Nat
  BY RegistersExist, SegmentsFit
<1>2. s \in 1 .. Len(m.explicitData)
  BY <1>1
<1>3. c \in DOMAIN m.explicitData[s]
  BY <1>1 DEF Sound
<1>4. Registers(m, tid) = m.explicitData[s]
  BY DEF Registers
<1> HIDE DEF s
<1>5. QED
  BY <1>2, <1>3, <1>4, Loading

(* A cell in order may be put into any register. *)
LEMMA StoringRegister ==
  ASSUME NEW m, Sound(m), NEW tid \in 1 .. ThreadCount(m), NEW c,
         NEW cell \in CellValue, CellOK(m, cell)
  PROVE  /\ Sound(StoreRegister(m, tid, c, cell))
         /\ \A other : CellOK(m, other) => CellOK(StoreRegister(m, tid, c, cell), other)
<1> DEFINE s == LastRange(m, tid)[1]
<1>1. s \in RegisterSegments(m) /\ s \in 2 .. Len(m.explicitData) /\ Len(m.explicitData) \in Nat
  BY RegistersExist, SegmentsFit
<1>2. s \in 1 .. Len(m.explicitData)
  BY <1>1
<1>3. StoreRegister(m, tid, c, cell) = Store(m, s, c, cell)
  BY DEF StoreRegister
<1> HIDE DEF s
<1>4. QED
  BY <1>2, <1>3, Storing

-----------------------------------------------------------------------------
(* Inserting a segment.                                                    *)

(* The first segments of the frames of p are those of m, behind w one
   further; w is a new one if it is a segment of registers. *)
RegistersMoved(m, p, w, cells) ==
  \A s \in RegisterSegments(p) :
    (s = w /\ cells = Register) \/ \E r \in RegisterSegments(m) : s = Up(w, r)

(* The cells of a segment, wherever it is, mean the same. *)
SameMeaning(segment, was) ==
  DOMAIN segment = DOMAIN was /\ \A c \in DOMAIN was : segment[c].meant = was[c].meant

(* the names when a segment has been put in at w *)
NamesUp(m, q, w) ==
  /\ q.segments_mapping[w] = m.fst_unused_id
  /\ \A s \in 1 .. Len(m.explicitData) : q.segments_mapping[Up(w, s)] = m.segments_mapping[s]

(* and the segments *)
SegmentsUp(m, q, w, cells) ==
  /\ NamesUp(m, q, w)
  /\ Len(q.explicitData) = Len(m.explicitData) + 1
  /\ DOMAIN q.explicitData[w] = cells /\ \A c \in cells : q.explicitData[w][c].meant = 0
  /\ \A s \in 1 .. Len(m.explicitData) : SameMeaning(q.explicitData[Up(w, s)], m.explicitData[s])
  /\ \A i \in 1 .. Len(m.explicitData) + 1 :
       i = w \/ \E s \in 1 .. Len(m.explicitData) : i = Up(w, s)

LEMMA UpIsInjective ==
  ASSUME NEW w \in Nat, NEW s \in Nat, NEW r \in Nat
  PROVE  (Up(w, s) = Up(w, r) => s = r) /\ Up(w, s) # w /\ Up(w, s) \in Nat
  BY DEF Up

(* A cell that is moved is a cell. *)
LEMMA MovedIsCell ==
  ASSUME NEW cell \in CellValue, NEW from \in Int, NEW move_count \in Int
  PROVE  /\ Moved(cell, from, move_count) \in CellValue
         /\ Moved(cell, from, move_count).is_pointer = cell.is_pointer
         /\ Moved(cell, from, move_count).meant = cell.meant
         /\ Moved(cell, from, move_count).seg =
              IF cell.is_pointer /\ cell.seg > from THEN (cell.seg + move_count) % SegmentRange
              ELSE cell.seg
<1>1. SegmentRange \in Nat /\ SegmentRange > 0
  BY SegmentRangeAssumption
<1>2. cell.seg \in 0 .. SegmentRange - 1
  BY DEF CellValue
<1>3. (cell.seg + move_count) % SegmentRange \in 0 .. SegmentRange - 1
  <2>1. cell.seg + move_count \in Int
    BY <1>1, <1>2
  <2>2. \A x \in Int : x % SegmentRange \in 0 .. SegmentRange - 1
    BY <1>1
  <2>3. QED
    BY <2>1, <2>2
<1> DEFINE s == (cell.seg + move_count) % SegmentRange
<1>4. [cell EXCEPT !.seg = s] \in CellValue
  <2>1. s \in 0 .. SegmentRange - 1
    BY <1>3
  <2> HIDE DEF s
  <2>2. QED
    BY <2>1 DEF CellValue
<1>5. Moved(cell, from, move_count) =
        IF cell.is_pointer /\ cell.seg > from THEN [cell EXCEPT !.seg = s] ELSE cell
  BY DEF Moved
<1> HIDE DEF s
<1>6. /\ [cell EXCEPT !.seg = s].is_pointer = cell.is_pointer
      /\ [cell EXCEPT !.seg = s].meant = cell.meant
      /\ [cell EXCEPT !.seg = s].seg = s
  BY DEF CellValue
<1>7. QED
  BY <1>4, <1>5, <1>6 DEF s

(* Moving the pointers keeps the segments and what kind they are of. *)
LEMMA MovingPointers ==
  ASSUME NEW m \in MemoryState, NEW from \in Int, NEW move_count \in Int
  PROVE  /\ MovePointers(m, from, move_count) \in MemoryState
         /\ MovePointers(m, from, move_count).thread_segments = m.thread_segments
         /\ MovePointers(m, from, move_count).segments_in_stack = m.segments_in_stack
         /\ MovePointers(m, from, move_count).segments_mapping = m.segments_mapping
         /\ MovePointers(m, from, move_count).fst_unused_id = m.fst_unused_id
         /\ Len(MovePointers(m, from, move_count).explicitData) = Len(m.explicitData)
         /\ \A s \in 1 .. Len(m.explicitData) :
              /\ DOMAIN MovePointers(m, from, move_count).explicitData[s] = DOMAIN m.explicitData[s]
              /\ \A c \in DOMAIN m.explicitData[s] :
                   MovePointers(m, from, move_count).explicitData[s][c] =
                     Moved(m.explicitData[s][c], from, move_count)
<1> DEFINE D == m.explicitData
           moved(s) == [c \in DOMAIN D[s] |-> Moved(D[s][c], from, move_count)]
           E == [s \in DOMAIN D |-> moved(s)]
           q == MovePointers(m, from, move_count)
<1>1. D \in Seq(Segment) /\ Len(D) \in Nat
  BY StateTypes
<1>2. DOMAIN D = 1 .. Len(D) /\ \A s \in 1 .. Len(D) : D[s] \in Segment
  BY <1>1
<1>3. ASSUME NEW s \in 1 .. Len(D) PROVE moved(s) \in Segment
  <2>1. /\ DOMAIN D[s] = Register \/ DOMAIN D[s] = Cell
        /\ \A c \in DOMAIN D[s] : D[s][c] \in CellValue
    BY <1>2, CellTypes
  <2>2. \A c \in DOMAIN D[s] : Moved(D[s][c], from, move_count) \in CellValue
    BY <2>1, MovedIsCell
  <2>3. QED
    BY <2>1, <2>2 DEF Segment
<1>4. \A s \in 1 .. Len(D) : DOMAIN moved(s) = DOMAIN D[s]
        /\ \A c \in DOMAIN D[s] : moved(s)[c] = Moved(D[s][c], from, move_count)
  OBVIOUS
<1> HIDE DEF moved
<1>5. E \in [1 .. Len(D) -> Segment] /\ \A s \in 1 .. Len(D) : E[s] = moved(s)
  BY <1>2, <1>3
<1>6. q = [m EXCEPT !.explicitData = E]
  BY DEF MovePointers, moved
<1> HIDE DEF E, q
<1>7. E \in Seq(Segment) /\ Len(E) = Len(D)
  BY <1>1, <1>5, FunctionAsSequence
<1>8. /\ q.explicitData = E /\ q \in MemoryState
      /\ q.thread_segments = m.thread_segments /\ q.segments_in_stack = m.segments_in_stack
      /\ q.segments_mapping = m.segments_mapping /\ q.fst_unused_id = m.fst_unused_id
  BY <1>6, <1>7 DEF MemoryState
<1>9. QED
  BY <1>4, <1>5, <1>7, <1>8 DEF q

(* A segment inserted where the layout wants it. *)
LEMMA Inserted ==
  ASSUME NEW m, Sound(m), NEW p \in MemoryState, SameStores(m, p), HasLayout(p),
         Contiguous(p, Len(m.explicitData) + 1),
         NEW w \in 1 .. Len(m.explicitData) + 1,
         w <= Len(m.explicitData) => w \in RegisterSegments(m),
         NEW cells \in {Register, Cell}, RegistersMoved(m, p, w, cells),
         m.fst_unused_id <= MaxNames,
         NEW q, q = MovePointers(AddSegment(p, w, cells), w, 1)
  PROVE  /\ Sound(q)
         /\ q.thread_segments = p.thread_segments /\ q.segments_in_stack = p.segments_in_stack
         /\ Len(q.explicitData) = Len(m.explicitData) + 1
         /\ q.segments_mapping[w] = m.fst_unused_id
         /\ q.fst_unused_id = m.fst_unused_id + 1
         /\ SegmentsUp(m, q, w, cells)
         /\ \A cell \in CellValue : CellOK(m, cell) /\ cell.seg < w => CellOK(q, cell)
<1> DEFINE D == m.explicitData
           M == m.segments_mapping
           n == Len(D)
           fresh == m.fst_unused_id
           blank == BlankSegment(cells)
           N == InsertAt(D, w, blank)
           K == InsertAt(M, w, fresh)
           a == AddSegment(p, w, cells)
<1>1. /\ m \in MemoryState /\ D \in Seq(Segment) /\ n \in Nat /\ M \in Seq(1 .. MaxNames) /\ Len(M) = n
      /\ fresh \in Nat /\ fresh \in 1 .. MaxNames /\ MaxNames \in Nat
      /\ n < fresh /\ \A s \in 1 .. n : M[s] < fresh
  <2>1. m \in MemoryState /\ StoresAgree(m)
    BY DEF Sound
  <2>2. D \in Seq(Segment) /\ n \in Nat /\ M \in Seq(1 .. MaxNames) /\ fresh \in 1 .. MaxNames + 1
        /\ MaxNames \in Nat
    BY <2>1, StateTypes
  <2>3. fresh \in Nat /\ fresh \in 1 .. MaxNames
    BY <2>2
  <2>4. QED
    BY <2>1, <2>2, <2>3 DEF StoresAgree
<1>2. w \in Nat /\ w \in 1 .. n + 1 /\ w \in 1 .. Len(D) + 1 /\ w \in 1 .. Len(M) + 1 /\ w \in Int
  BY <1>1
<1>3. blank \in Segment /\ DOMAIN blank = cells /\ \A c \in cells : blank[c] = Blank
  <2>1. Blank \in CellValue
    BY <1>1, BlankOK
  <2>2. blank \in [cells -> CellValue] /\ DOMAIN blank = cells /\ \A c \in cells : blank[c] = Blank
    BY <2>1 DEF BlankSegment
  <2>3. QED
    BY <2>2 DEF Segment
<1> HIDE DEF blank
<1> HIDE DEF D, M, n, fresh
<1>4. /\ N \in Seq(Segment) /\ Len(N) = n + 1
      /\ \A i \in 1 .. n + 1 : N[i] = IF i < w THEN D[i] ELSE IF i = w THEN blank ELSE D[i - 1]
  <2>1. D \in Seq(Segment) /\ w \in 1 .. Len(D) + 1 /\ blank \in Segment
    BY <1>1, <1>2, <1>3
  <2>2. n = Len(D)
    BY DEF n
  <2>3. /\ N \in Seq(Segment) /\ Len(N) = Len(D) + 1
        /\ \A i \in 1 .. Len(D) + 1 :
             N[i] = IF i < w THEN D[i] ELSE IF i = w THEN blank ELSE D[i - 1]
    <3>1. N \in Seq(Segment)
      BY <2>1, Inserting
    <3>2. Len(N) = Len(D) + 1
      BY <2>1, Inserting
    <3>3. \A i \in 1 .. Len(D) + 1 :
             N[i] = IF i < w THEN D[i] ELSE IF i = w THEN blank ELSE D[i - 1]
      BY <2>1, Inserting
    <3>4. QED
      BY <3>1, <3>2, <3>3
  <2>4. QED
    BY <2>2, <2>3
<1>5. /\ K \in Seq(1 .. MaxNames) /\ Len(K) = n + 1
      /\ \A i \in 1 .. n + 1 : K[i] = IF i < w THEN M[i] ELSE IF i = w THEN fresh ELSE M[i - 1]
  <2> DEFINE Names == 1 .. MaxNames
  <2>1. M \in Seq(Names) /\ w \in 1 .. Len(M) + 1 /\ fresh \in Names
    BY <1>1, <1>2
  <2>2. n = Len(M)
    BY <1>1
  <2> HIDE DEF Names
  <2>3. K \in Seq(Names)
    BY <2>1, Inserting
  <2>4. Len(K) = Len(M) + 1
    BY <2>1, Inserting
  <2>5. \A i \in 1 .. Len(M) + 1 :
           K[i] = IF i < w THEN M[i] ELSE IF i = w THEN fresh ELSE M[i - 1]
    BY <2>1, Inserting
  <2>6. QED
    BY <2>2, <2>3, <2>4, <2>5 DEF Names
<1> USE DEF D, M, n, fresh
<1>6. a = [p EXCEPT !.explicitData = N, !.segments_mapping = K, !.fst_unused_id = fresh + 1]
  <2>1. p.explicitData = D /\ p.segments_mapping = M /\ p.fst_unused_id = fresh
    BY DEF SameStores
  <2>2. QED
    BY <2>1 DEF AddSegment, blank
<1> HIDE DEF N, K, a
<1>7. /\ a \in MemoryState /\ a.explicitData = N /\ a.segments_mapping = K /\ a.fst_unused_id = fresh + 1
      /\ a.thread_segments = p.thread_segments /\ a.segments_in_stack = p.segments_in_stack
  <2>1. fresh + 1 \in 1 .. MaxNames + 1
    BY <1>1
  <2>2. QED
    BY <1>4, <1>5, <1>6, <2>1 DEF MemoryState
<1>8. q = MovePointers(a, w, 1)
  BY DEF a
<1>9. /\ q \in MemoryState
      /\ q.thread_segments = p.thread_segments /\ q.segments_in_stack = p.segments_in_stack
      /\ q.segments_mapping = K /\ q.fst_unused_id = fresh + 1
      /\ Len(q.explicitData) = n + 1
      /\ \A s \in 1 .. n + 1 :
           /\ DOMAIN q.explicitData[s] = DOMAIN N[s]
           /\ \A c \in DOMAIN N[s] : q.explicitData[s][c] = Moved(N[s][c], w, 1)
  BY <1>2, <1>4, <1>7, <1>8, MovingPointers
<1>10. /\ HasLayout(q) /\ RegisterSegments(q) = RegisterSegments(p)
       /\ Contiguous(q, n + 1)
  BY <1>9, SameLayout
<1>11. K[w] = fresh /\ \A s \in 1 .. n : Up(w, s) \in 1 .. n + 1 /\ K[Up(w, s)] = M[s]
  <2>1. K[w] = fresh
    BY <1>2, <1>5
  <2>2. ASSUME NEW s \in 1 .. n PROVE Up(w, s) \in 1 .. n + 1 /\ K[Up(w, s)] = M[s]
    <3>1. CASE s < w
      <4>1. Up(w, s) = s /\ s \in 1 .. n + 1
        BY <1>1, <3>1 DEF Up
      <4>2. QED
        BY <1>5, <3>1, <4>1
    <3>2. CASE ~(s < w)
      <4>1. Up(w, s) = s + 1 /\ s + 1 \in 1 .. n + 1 /\ ~(s + 1 < w) /\ s + 1 # w /\ (s + 1) - 1 = s
        BY <1>1, <1>2, <3>2 DEF Up
      <4>2. K[s + 1] = M[(s + 1) - 1]
        BY <1>5, <4>1
      <4>3. QED
        BY <4>1, <4>2
    <3>3. QED
      BY <3>1, <3>2
  <2>3. QED
    BY <2>1, <2>2
<1>12. \A i \in 1 .. n + 1 : i = w \/ \E s \in 1 .. n : i = Up(w, s)
  <2>1. ASSUME NEW i \in 1 .. n + 1, i # w PROVE \E s \in 1 .. n : i = Up(w, s)
    <3>1. CASE i < w
      <4>1. i \in 1 .. n /\ i = Up(w, i)
        BY <1>1, <1>2, <3>1 DEF Up
      <4>2. QED
        BY <4>1
    <3>2. CASE ~(i < w)
      <4>1. i - 1 \in 1 .. n /\ i = Up(w, i - 1)
        BY <1>1, <1>2, <2>1, <3>2 DEF Up
      <4>2. QED
        BY <4>1
    <3>3. QED
      BY <3>1, <3>2
  <2>2. QED
    BY <2>1
<1>13. \A r \in RegisterSegments(m) : r \in Nat
  <2>1. PICK b : LaidOut(m, b) /\ b[ThreadCount(m) + 1] = n
    BY SoundLayout
  <2>2. HasLayout(m)
    BY DEF Sound
  <2>3. QED
    BY <2>1, <2>2, RegistersStartFrames
<1>14. ASSUME NEW s \in 1 .. n, s \notin RegisterSegments(m)
       PROVE  Up(w, s) \notin RegisterSegments(q)
  <2>1. SUFFICES ASSUME Up(w, s) \in RegisterSegments(p) PROVE FALSE
    BY <1>10
  <2>2. s \in Nat
    BY <1>1
  <2>3. Up(w, s) # w
    BY <1>2, <2>2, UpIsInjective
  <2>4. PICK r \in RegisterSegments(m) : Up(w, s) = Up(w, r)
    BY <2>1, <2>3 DEF RegistersMoved
  <2>5. s = r
    BY <1>2, <1>13, <2>2, <2>4, UpIsInjective
  <2>6. QED
    BY <1>14, <2>5
<1>15. ToSet(M) = {M[i] : i \in 1 .. n} /\ ToSet(K) = {K[i] : i \in 1 .. n + 1}
  <2> HIDE DEF M, n
  <2>1. ToSet(M) = {M[i] : i \in 1 .. Len(M)}
    BY <1>1, SetOfSequence
  <2>2. ToSet(K) = {K[i] : i \in 1 .. Len(K)}
    BY <1>5, SetOfSequence
  <2>3. QED
    BY <1>1, <1>5, <2>1, <2>2
<1>16. \A x : x \in ToSet(K) /\ x # fresh => x \in ToSet(M)
  BY <1>11, <1>12, <1>15
<1>17. ASSUME NEW cell \in CellValue, CellOK(m, cell), MayFollow(q, cell)
       PROVE  /\ cell.is_pointer
              /\ cell.seg \in 1 .. n /\ cell.seg # w
              /\ Up(w, cell.seg) \in 1 .. Len(q.explicitData)
              /\ q.segments_mapping[Up(w, cell.seg)] = cell.meant
              /\ Up(w, cell.seg) \notin RegisterSegments(q)
  <2>1. cell.meant \in ToSet(K) /\ cell.meant < fresh /\ cell.meant \in Nat
    BY <1>1, <1>9, <1>17 DEF MayFollow, CellOK, CellValue
  <2>2. cell.meant # fresh
    BY <1>1, <2>1
  <2>3. MayFollow(m, cell)
    BY <1>16, <2>1, <2>2 DEF MayFollow
  <2>4. cell.seg \in 1 .. n /\ M[cell.seg] = cell.meant /\ cell.seg \notin RegisterSegments(m)
    BY <1>17, <2>3 DEF CellOK
  <2>5. cell.seg # w
    BY <1>1, <1>2, <2>4
  <2>6. cell.is_pointer
    <3>1. cell # Blank
      <4>1. M[cell.seg] \in 1 .. MaxNames
        BY <1>1, <2>4
      <4>2. QED
        BY <1>1, <2>4, <4>1 DEF Blank
    <3>2. QED
      BY <1>17, <3>1 DEF CellOK
  <2>7. QED
    BY <1>9, <1>11, <1>14, <2>4, <2>5, <2>6
<1>18. \A cell : CellOK(m, cell) /\ cell.meant \in Nat => cell.meant < q.fst_unused_id
  BY <1>1, <1>9 DEF CellOK
<1>19. ASSUME NEW cell \in CellValue, CellOK(m, cell)
       PROVE  CellOK(q, Moved(cell, w, 1))
  <2> DEFINE moved == Moved(cell, w, 1)
  <2>1. /\ moved.is_pointer = cell.is_pointer /\ moved.meant = cell.meant
        /\ moved.seg = IF cell.is_pointer /\ cell.seg > w THEN (cell.seg + 1) % SegmentRange ELSE cell.seg
        /\ ~cell.is_pointer => moved = cell
    BY <1>2, MovedIsCell DEF Moved
  <2> HIDE DEF moved
  <2>2. moved.meant < q.fst_unused_id
    BY <1>18, <1>19, <2>1 DEF CellValue
  <2>3. moved.is_pointer \/ moved = Blank
    BY <1>19, <2>1 DEF CellOK
  <2>4. ASSUME MayFollow(q, moved)
        PROVE  /\ moved.seg \in 1 .. Len(q.explicitData)
               /\ q.segments_mapping[moved.seg] = moved.meant
               /\ moved.seg \notin RegisterSegments(q)
    <3>1. MayFollow(q, cell)
      BY <2>1, <2>4 DEF MayFollow
    <3>2. /\ cell.is_pointer /\ cell.seg \in 1 .. n /\ cell.seg # w
          /\ Up(w, cell.seg) \in 1 .. Len(q.explicitData)
          /\ q.segments_mapping[Up(w, cell.seg)] = cell.meant
          /\ Up(w, cell.seg) \notin RegisterSegments(q)
      BY <1>17, <1>19, <3>1
    <3>3. moved.seg = Up(w, cell.seg)
      <4>1. SegmentRange \in Nat /\ n + 1 < SegmentRange
        BY SegmentsFit
      <4>2. cell.seg + 1 \in Nat /\ cell.seg + 1 < SegmentRange
        BY <1>1, <3>2, <4>1, SMTT(30)
      <4>3. (cell.seg + 1) % SegmentRange = cell.seg + 1
        BY <4>1, <4>2
      <4>4. cell.seg > w <=> ~(cell.seg < w)
        BY <1>1, <1>2, <3>2
      <4>5. QED
        BY <2>1, <3>2, <4>3, <4>4 DEF Up
    <3>4. QED
      BY <2>1, <3>2, <3>3
  <2>5. QED
    BY <2>2, <2>3, <2>4 DEF CellOK, moved
<1>20. ASSUME NEW cell \in CellValue, CellOK(m, cell), cell.seg < w
       PROVE  CellOK(q, cell)
  <2>1. cell.meant < q.fst_unused_id
    BY <1>18, <1>20 DEF CellValue
  <2>2. cell.is_pointer \/ cell = Blank
    BY <1>20 DEF CellOK
  <2>3. Up(w, cell.seg) = cell.seg
    BY <1>20 DEF Up
  <2>4. QED
    BY <1>17, <1>20, <2>1, <2>2, <2>3 DEF CellOK
<1>21. StoresAgree(q)
  <2>1. Len(q.segments_mapping) = Len(q.explicitData) /\ Len(q.explicitData) < q.fst_unused_id
    BY <1>1, <1>5, <1>9, SMTT(30)
  <2>2. ASSUME NEW i \in 1 .. n + 1 PROVE K[i] < fresh + 1
    <3>1. CASE i = w
      BY <1>1, <1>11, <3>1
    <3>2. CASE i # w
      <4>1. PICK s \in 1 .. n : i = Up(w, s)
        BY <1>12, <3>2
      <4>2. K[i] = M[s] /\ M[s] < fresh /\ M[s] \in 1 .. MaxNames
        BY <1>1, <1>11, <4>1
      <4>3. QED
        BY <1>1, <4>2, SMTT(30)
    <3>3. QED
      BY <3>1, <3>2
  <2>3. ASSUME NEW i \in 1 .. n + 1, NEW j \in 1 .. n + 1, K[i] = K[j] PROVE i = j
    <3>1. \A s \in 1 .. n : M[s] # fresh
      <4>1. ASSUME NEW s \in 1 .. n PROVE M[s] # fresh
        <5>1. M[s] < fresh /\ M[s] \in 1 .. MaxNames
          BY <1>1, SMTT(30)
        <5>2. QED
          BY <1>1, <5>1
      <4>2. QED
        BY <4>1
    <3>2. CASE i = w \/ j = w
      BY <1>11, <1>12, <2>3, <3>1, <3>2
    <3>3. CASE i # w /\ j # w
      <4>1. PICK s \in 1 .. n : i = Up(w, s)
        BY <1>12, <3>3
      <4>2. PICK r \in 1 .. n : j = Up(w, r)
        BY <1>12, <3>3
      <4>3. M[s] = M[r]
        BY <1>11, <2>3, <4>1, <4>2
      <4>4. s = r
        BY <4>3 DEF Sound, StoresAgree
      <4>5. QED
        BY <4>1, <4>2, <4>4
    <3>4. QED
      BY <3>2, <3>3
  <2>4. QED
    BY <1>9, <2>1, <2>2, <2>3 DEF StoresAgree
<1>22. \A s \in 1 .. n : N[Up(w, s)] = D[s]
  <2>1. ASSUME NEW s \in 1 .. n PROVE N[Up(w, s)] = D[s]
    <3>1. CASE s < w
      <4>1. Up(w, s) = s /\ s \in 1 .. n + 1
        BY <1>1, <3>1 DEF Up
      <4>2. QED
        BY <1>4, <3>1, <4>1
    <3>2. CASE ~(s < w)
      <4>1. Up(w, s) = s + 1 /\ s + 1 \in 1 .. n + 1 /\ ~(s + 1 < w) /\ s + 1 # w /\ (s + 1) - 1 = s
        BY <1>1, <1>2, <3>2 DEF Up
      <4>2. N[s + 1] = D[(s + 1) - 1]
        BY <1>4, <4>1
      <4>3. QED
        BY <4>1, <4>2
    <3>3. QED
      BY <3>1, <3>2
  <2>2. QED
    BY <2>1
<1>23. N[w] = blank
  BY <1>2, <1>4
<1>24. ASSUME NEW s \in RegisterSegments(q) PROVE DOMAIN q.explicitData[s] = Register
  <2>1. CASE s = w /\ cells = Register
    BY <1>2, <1>3, <1>9, <1>23, <2>1
  <2>2. CASE \E r \in RegisterSegments(m) : s = Up(w, r)
    <3>1. PICK r \in RegisterSegments(m) : s = Up(w, r)
      BY <2>2
    <3>2. r \in 1 .. n
      <4>1. PICK b : LaidOut(m, b) /\ b[ThreadCount(m) + 1] = n
        BY SoundLayout
      <4>2. HasLayout(m)
        BY DEF Sound
      <4>3. r \in Nat /\ r > 1 /\ r <= n
        BY <4>1, <4>2, RegistersStartFrames
      <4>4. QED
        BY <1>1, <4>3
    <3>3. DOMAIN D[r] = Register
      BY DEF Sound
    <3>4. DOMAIN q.explicitData[s] = DOMAIN D[r]
      BY <1>9, <1>11, <1>22, <3>1, <3>2
    <3>5. QED
      BY <3>3, <3>4
  <2>3. QED
    BY <1>10, <2>1, <2>2 DEF RegistersMoved
<1>25. ASSUME NEW i \in 1 .. n + 1, NEW c \in DOMAIN N[i] PROVE CellOK(q, q.explicitData[i][c])
  <2>1. q.explicitData[i][c] = Moved(N[i][c], w, 1)
    BY <1>9
  <2>2. CASE i = w
    <3>1. N[i][c] = Blank
      BY <1>3, <1>23, <2>2
    <3>2. Blank \in CellValue /\ CellOK(m, Blank)
      BY <1>1, BlankOK
    <3>3. QED
      BY <1>19, <2>1, <3>1, <3>2
  <2>3. CASE i # w
    <3>1. PICK s \in 1 .. n : i = Up(w, s)
      BY <1>12, <2>3
    <3>2. N[i] = D[s]
      BY <1>22, <3>1
    <3>3. D[s][c] \in CellValue /\ CellOK(m, D[s][c])
      BY <3>2, Loading
    <3>4. QED
      BY <1>19, <2>1, <3>2, <3>3
  <2>4. QED
    BY <2>2, <2>3
<1>26. CellsOK(q)
  BY <1>9, <1>25 DEF CellsOK
<1>27. Sound(q)
  BY <1>9, <1>10, <1>21, <1>24, <1>26 DEF Sound
<1>28. SegmentsUp(m, q, w, cells)
  <2>1. DOMAIN q.explicitData[w] = cells /\ \A c \in cells : q.explicitData[w][c].meant = 0
    <3>1. Blank \in CellValue /\ Blank.meant = 0
      BY <1>1, BlankOK DEF Blank
    <3>2. DOMAIN q.explicitData[w] = cells /\ \A c \in cells : q.explicitData[w][c] = Moved(Blank, w, 1)
      BY <1>2, <1>3, <1>9, <1>23
    <3>3. Moved(Blank, w, 1).meant = 0
      BY <1>2, <3>1, MovedIsCell
    <3>4. QED
      BY <3>2, <3>3
  <2>2. ASSUME NEW s \in 1 .. n PROVE SameMeaning(q.explicitData[Up(w, s)], D[s])
    <3>1. /\ DOMAIN q.explicitData[Up(w, s)] = DOMAIN D[s]
          /\ \A c \in DOMAIN D[s] : q.explicitData[Up(w, s)][c] = Moved(D[s][c], w, 1)
      BY <1>9, <1>11, <1>22, SMTT(30)
    <3>2. ASSUME NEW c \in DOMAIN D[s] PROVE Moved(D[s][c], w, 1).meant = D[s][c].meant
      <4>1. D[s][c] \in CellValue
        BY Loading
      <4>2. QED
        BY <1>2, <4>1, MovedIsCell
    <3>3. QED
      BY <3>1, <3>2 DEF SameMeaning
  <2>3. NamesUp(m, q, w)
    BY <1>9, <1>11 DEF NamesUp
  <2>4. QED
    BY <1>9, <1>12, <2>1, <2>2, <2>3 DEF SegmentsUp
<1>29. QED
  BY <1>9, <1>11, <1>20, <1>27, <1>28

-----------------------------------------------------------------------------
(* Erasing the segments of a frame.                                        *)

(* Whatever number there is was that of a segment that stays. *)
DownReachesAll(n, lo, hi) ==
  \A i \in 1 .. n - (hi + 1 - lo) : \E s \in 1 .. n : (s < lo \/ s > hi) /\ i = Down(lo, hi, s)

(* cut has what q has but from lo to hi. *)
IsCut(q, cut, lo, hi) ==
  /\ Len(cut) = Len(q) - (hi + 1 - lo)
  /\ \A s \in 1 .. Len(q) : s < lo \/ s > hi => cut[Down(lo, hi, s)] = q[s]

(* The names of the segments that stay when those from lo to hi go, and the
   segments. *)
NamesDown(m, q, lo, hi) ==
  \A s \in 1 .. Len(m.explicitData) :
    s < lo \/ s > hi => q.segments_mapping[Down(lo, hi, s)] = m.segments_mapping[s]

SegmentsDown(m, q, lo, hi) ==
  /\ NamesDown(m, q, lo, hi)
  /\ Len(q.explicitData) = Len(m.explicitData) - (hi + 1 - lo)
  /\ \A s \in 1 .. Len(m.explicitData) :
       s < lo \/ s > hi => SameMeaning(q.explicitData[Down(lo, hi, s)], m.explicitData[s])

(* Where the segments go that stay. *)
LEMMA DownKeepsApart ==
  ASSUME NEW n \in Nat, NEW lo \in Nat, NEW hi \in Nat, 1 < lo, lo <= hi, hi <= n
  PROVE  /\ n - (hi + 1 - lo) \in Nat
         /\ \A s \in 1 .. n : s < lo \/ s > hi => Down(lo, hi, s) \in 1 .. n - (hi + 1 - lo)
         /\ \A s, r \in 1 .. n : /\ s < lo \/ s > hi
                                 /\ r < lo \/ r > hi
                                 /\ Down(lo, hi, s) = Down(lo, hi, r)
                                 => s = r
         /\ DownReachesAll(n, lo, hi)
<1> DEFINE d == hi + 1 - lo
<1>1. n - d \in Nat /\ d \in Nat
  OBVIOUS
<1>2. ASSUME NEW i \in 1 .. n - d
      PROVE  \E s \in 1 .. n : (s < lo \/ s > hi) /\ i = Down(lo, hi, s)
  <2>1. CASE i < lo
    <3>1. i \in 1 .. n /\ i = Down(lo, hi, i)
      BY <2>1 DEF Down
    <3>2. QED
      BY <2>1, <3>1
  <2>2. CASE ~(i < lo)
    <3>1. i + d \in 1 .. n /\ i + d > hi /\ i = Down(lo, hi, i + d)
      BY <2>2 DEF Down
    <3>2. QED
      BY <3>1
  <2>3. QED
    BY <2>1, <2>2
<1>3. ASSUME NEW s \in 1 .. n, s < lo \/ s > hi PROVE Down(lo, hi, s) \in 1 .. n - d
  BY <1>3 DEF Down
<1>4. ASSUME NEW s \in 1 .. n, NEW r \in 1 .. n, s < lo \/ s > hi, r < lo \/ r > hi,
             Down(lo, hi, s) = Down(lo, hi, r)
      PROVE  s = r
  BY <1>4 DEF Down
<1>5. QED
  BY <1>1, <1>2, <1>3, <1>4 DEF DownReachesAll

(* What is cut out of a sequence goes, the rest moves down. *)
LEMMA CuttingDown ==
  ASSUME NEW T, NEW q \in Seq(T), NEW lo \in Nat, NEW hi \in Nat,
         1 < lo, lo <= hi, hi <= Len(q),
         NEW cut, cut = SubSeq(q, 1, lo - 1) \o SubSeq(q, hi + 1, Len(q))
  PROVE  cut \in Seq(T) /\ IsCut(q, cut, lo, hi)
<1>1. lo \in Int /\ hi \in Int /\ 1 <= lo /\ Len(q) \in Nat
  OBVIOUS
<1>2. /\ cut \in Seq(T)
      /\ Len(cut) = Len(q) - (hi + 1 - lo)
      /\ \A i \in 1 .. Len(q) - (hi + 1 - lo) :
           cut[i] = IF i < lo THEN q[i] ELSE q[i + (hi + 1 - lo)]
  BY <1>1, Cutting, ZenonT(30)
<1>3. ASSUME NEW s \in 1 .. Len(q), s < lo \/ s > hi PROVE cut[Down(lo, hi, s)] = q[s]
  <2>1. CASE s < lo
    <3>1. Down(lo, hi, s) = s /\ s \in 1 .. Len(q) - (hi + 1 - lo)
      BY <1>1, <2>1 DEF Down
    <3>2. QED
      BY <1>2, <2>1, <3>1
  <2>2. CASE s > hi
    <3>1. /\ Down(lo, hi, s) = s - (hi + 1 - lo) /\ s - (hi + 1 - lo) \in 1 .. Len(q) - (hi + 1 - lo)
          /\ ~(s - (hi + 1 - lo) < lo) /\ (s - (hi + 1 - lo)) + (hi + 1 - lo) = s
      BY <1>1, <2>2 DEF Down
    <3>2. QED
      BY <1>2, <3>1
  <2>3. QED
    BY <1>3, <2>1, <2>2
<1>4. QED
  BY <1>2, <1>3 DEF IsCut

(* Leaving a frame keeps a state sound. *)
LEMMA ErasedAt ==
  ASSUME NEW m, Sound(m), NEW b, LaidOut(m, b), b[ThreadCount(m) + 1] = Len(m.explicitData),
         NEW tid \in 1 .. ThreadCount(m), NEW lo, NEW hi, IsLastRange(m, tid, lo, hi),
         NEW p, p = Leave(m, tid)
  PROVE  /\ Sound(p)
         /\ SegmentsDown(m, p, lo, hi)
         /\ LeftWithoutFrame(m, b, p, tid, hi + 1 - lo) \/ LeftWithoutThread(m, b, p, tid, hi + 1 - lo)
<1> DEFINE D == m.explicitData
           M == m.segments_mapping
           n == Len(D)
           d == hi + 1 - lo
           E == SubSeq(D, 1, lo - 1) \o SubSeq(D, hi + 1, Len(D))
           K == SubSeq(M, 1, lo - 1) \o SubSeq(M, hi + 1, Len(M))
           a == EraseSegments(m, LastRange(m, tid))
           q == MovePointers(a, lo, lo - (hi + 1))
           stays(s) == s < lo \/ s > hi
<1>1. /\ m \in MemoryState /\ HasLayout(m) /\ D \in Seq(Segment) /\ n \in Nat
      /\ M \in Seq(1 .. MaxNames) /\ Len(M) = n
      /\ m.fst_unused_id \in Nat /\ m.fst_unused_id \in 1 .. MaxNames + 1 /\ MaxNames \in Nat
      /\ n < m.fst_unused_id /\ \A s \in 1 .. n : M[s] < m.fst_unused_id
      /\ \A s, r \in 1 .. n : M[s] = M[r] => s = r
  <2>1. m \in MemoryState /\ HasLayout(m) /\ StoresAgree(m)
    BY DEF Sound
  <2>2. /\ D \in Seq(Segment) /\ n \in Nat /\ M \in Seq(1 .. MaxNames)
        /\ m.fst_unused_id \in 1 .. MaxNames + 1 /\ m.fst_unused_id \in Nat /\ MaxNames \in Nat
    BY <2>1, StateTypes
  <2>3. QED
    BY <2>1, <2>2 DEF StoresAgree
<1>2. LaidOut(m, b) /\ b[ThreadCount(m) + 1] = n
  OBVIOUS
<1>3. IsLastRange(m, tid, lo, hi) /\ lo = LastRange(m, tid)[1] /\ hi = LastRange(m, tid)[2]
  BY DEF IsLastRange
<1>4. p = DropLastStack(q, tid)
  BY <1>3 DEF Leave
<1>5. a = [m EXCEPT !.explicitData = E, !.segments_mapping = K]
  BY <1>3 DEF EraseSegments
<1> HIDE DEF n
<1>6. lo \in Nat /\ hi \in Nat /\ lo <= hi /\ 1 < lo /\ hi <= n
  <2>1. lo \in Nat /\ hi \in Nat /\ lo <= hi /\ 1 < lo /\ hi <= b[ThreadCount(m) + 1]
    BY <1>1, <1>2, <1>3, LastRangeBounds
  <2>2. QED
    BY <1>2, <2>1
<1>7. /\ n - d \in Nat
      /\ \A s \in 1 .. n : stays(s) => Down(lo, hi, s) \in 1 .. n - d
      /\ \A s, r \in 1 .. n : stays(s) /\ stays(r) /\ Down(lo, hi, s) = Down(lo, hi, r) => s = r
      /\ \A i \in 1 .. n - d : \E s \in 1 .. n : stays(s) /\ i = Down(lo, hi, s)
  <2>1. n \in Nat
    BY <1>1
  <2>2. /\ n - d \in Nat
        /\ \A s \in 1 .. n : stays(s) => Down(lo, hi, s) \in 1 .. n - d
    BY <1>6, <2>1, DownKeepsApart
  <2>3. \A s, r \in 1 .. n : stays(s) /\ stays(r) /\ Down(lo, hi, s) = Down(lo, hi, r) => s = r
    BY <1>6, <2>1, DownKeepsApart
  <2>4. DownReachesAll(n, lo, hi)
    BY <1>6, <2>1, DownKeepsApart
  <2>5. QED
    BY <2>2, <2>3, <2>4 DEF DownReachesAll
<1> HIDE DEF D, M, n
<1>8. /\ E \in Seq(Segment) /\ Len(E) = n - d
      /\ \A s \in 1 .. n : stays(s) => E[Down(lo, hi, s)] = D[s]
  <2>1. D \in Seq(Segment) /\ hi <= Len(D) /\ n = Len(D)
    BY <1>1, <1>6 DEF n
  <2>2. E = SubSeq(D, 1, lo - 1) \o SubSeq(D, hi + 1, Len(D))
    OBVIOUS
  <2> HIDE DEF E
  <2>3. E \in Seq(Segment) /\ IsCut(D, E, lo, hi)
    BY <1>6, <2>1, <2>2, CuttingDown
  <2>4. QED
    BY <2>1, <2>3 DEF IsCut
<1>9. /\ K \in Seq(1 .. MaxNames) /\ Len(K) = n - d
      /\ \A s \in 1 .. n : stays(s) => K[Down(lo, hi, s)] = M[s]
  <2> DEFINE Names == 1 .. MaxNames
  <2>1. M \in Seq(Names) /\ hi <= Len(M) /\ n = Len(M)
    BY <1>1, <1>6
  <2> HIDE DEF Names
  <2>2. K = SubSeq(M, 1, lo - 1) \o SubSeq(M, hi + 1, Len(M))
    OBVIOUS
  <2> HIDE DEF K
  <2>3. K \in Seq(Names) /\ IsCut(M, K, lo, hi)
    BY <1>6, <2>1, <2>2, CuttingDown
  <2>4. QED
    BY <2>1, <2>3 DEF Names, IsCut
<1> HIDE DEF E, K, a, q
<1>10. /\ a \in MemoryState /\ a.explicitData = E /\ a.segments_mapping = K
       /\ a.fst_unused_id = m.fst_unused_id
       /\ a.thread_segments = m.thread_segments /\ a.segments_in_stack = m.segments_in_stack
  BY <1>1, <1>5, <1>8, <1>9 DEF MemoryState
<1>11. lo - (hi + 1) \in Int /\ lo \in Int
  BY <1>6
<1>12. /\ q \in MemoryState
       /\ q.thread_segments = m.thread_segments /\ q.segments_in_stack = m.segments_in_stack
       /\ q.segments_mapping = K /\ q.fst_unused_id = m.fst_unused_id
       /\ Len(q.explicitData) = n - d
       /\ \A s \in 1 .. n - d :
            /\ DOMAIN q.explicitData[s] = DOMAIN E[s]
            /\ \A c \in DOMAIN E[s] : q.explicitData[s][c] = Moved(E[s][c], lo, lo - (hi + 1))
  BY <1>8, <1>10, <1>11, MovingPointers DEF q
<1>13. /\ HasLayout(q) /\ ThreadCount(q) = ThreadCount(m) /\ LaidOut(q, b)
       /\ RegisterSegments(q) = RegisterSegments(m) /\ IsLastRange(q, tid, lo, hi)
  BY <1>1, <1>2, <1>3, <1>12, SameLayout DEF IsLastRange
<1>14. tid \in 1 .. ThreadCount(q)
  BY <1>13
<1>15. /\ p \in MemoryState /\ SameStores(q, p) /\ HasLayout(p)
       /\ Contiguous(p, b[ThreadCount(q) + 1] - (hi + 1 - lo))
       /\ FramesKept(q, p, lo, hi)
       /\ LeftWithoutFrame(q, b, p, tid, hi + 1 - lo) \/ LeftWithoutThread(q, b, p, tid, hi + 1 - lo)
  BY <1>4, <1>12, <1>13, <1>14, LastStackDropped
<1>16. Contiguous(p, n - d)
  BY <1>2, <1>13, <1>15
<1>17. /\ p.segments_mapping = K /\ p.fst_unused_id = m.fst_unused_id
       /\ Len(p.explicitData) = n - d
       /\ \A s \in 1 .. n - d :
            /\ DOMAIN p.explicitData[s] = DOMAIN E[s]
            /\ \A c \in DOMAIN E[s] : p.explicitData[s][c] = Moved(E[s][c], lo, lo - (hi + 1))
  BY <1>12, <1>15 DEF SameStores
<1>18. \A s \in RegisterSegments(p) :
         \E r \in RegisterSegments(m) : r \in 1 .. n /\ stays(r) /\ s = Down(lo, hi, r)
  <2>1. \A r \in RegisterSegments(m) : r \in 1 .. n
    <3>1. \A r \in RegisterSegments(m) : r \in 2 .. n
      BY RegistersExist DEF n, D
    <3>2. QED
      BY <1>1, <3>1
  <2>2. QED
    BY <1>13, <1>15, <2>1 DEF FramesKept
<1>19. ASSUME NEW s \in 1 .. n, stays(s), s \notin RegisterSegments(m)
       PROVE  Down(lo, hi, s) \notin RegisterSegments(p)
  BY <1>7, <1>18, <1>19
<1>20. \A x \in ToSet(K) : \E s \in 1 .. n : stays(s) /\ M[s] = x /\ x \in ToSet(M)
  <2>1. ToSet(M) = {M[i] : i \in 1 .. n} /\ ToSet(K) = {K[i] : i \in 1 .. n - d}
    <3>1. ToSet(M) = {M[i] : i \in 1 .. Len(M)}
      BY <1>1, SetOfSequence
    <3>2. ToSet(K) = {K[i] : i \in 1 .. Len(K)}
      BY <1>9, SetOfSequence
    <3>3. QED
      BY <1>1, <1>9, <3>1, <3>2
  <2> HIDE DEF stays, d
  <2>2. QED
    BY <1>7, <1>9, <2>1
<1>21. ASSUME NEW cell \in CellValue, CellOK(m, cell)
       PROVE  CellOK(p, Moved(cell, lo, lo - (hi + 1)))
  <2> DEFINE moved == Moved(cell, lo, lo - (hi + 1))
  <2>1. /\ moved.is_pointer = cell.is_pointer /\ moved.meant = cell.meant
        /\ moved.seg = IF cell.is_pointer /\ cell.seg > lo
                       THEN (cell.seg + (lo - (hi + 1))) % SegmentRange ELSE cell.seg
        /\ ~cell.is_pointer => moved = cell
    BY <1>11, MovedIsCell DEF Moved
  <2> HIDE DEF moved
  <2>2. moved.meant < p.fst_unused_id
    BY <1>17, <1>21, <2>1 DEF CellOK
  <2>3. moved.is_pointer \/ moved = Blank
    BY <1>21, <2>1 DEF CellOK
  <2>4. ASSUME MayFollow(p, moved)
        PROVE  /\ moved.seg \in 1 .. Len(p.explicitData)
               /\ p.segments_mapping[moved.seg] = moved.meant
               /\ moved.seg \notin RegisterSegments(p)
    <3>1. cell.meant \in ToSet(K)
      BY <1>17, <2>1, <2>4 DEF MayFollow
    <3>2. PICK s \in 1 .. n : stays(s) /\ M[s] = cell.meant /\ cell.meant \in ToSet(M)
      BY <1>20, <3>1
    <3>3. cell.seg \in 1 .. n /\ M[cell.seg] = cell.meant /\ cell.seg \notin RegisterSegments(m)
      BY <1>21, <3>2 DEF CellOK, MayFollow, M, n, D
    <3>4. cell.seg = s
      BY <1>1, <3>2, <3>3
    <3>5. cell.is_pointer
      <4>1. M[cell.seg] \in 1 .. MaxNames
        BY <1>1, <3>3, SMTT(30)
      <4>2. cell # Blank
        BY <1>1, <3>3, <4>1 DEF Blank
      <4>3. QED
        BY <1>21, <4>2 DEF CellOK
    <3>6. moved.seg = Down(lo, hi, cell.seg)
      <4>1. SegmentRange \in Nat /\ n < SegmentRange
        <5>1. SegmentRange \in Nat /\ n + 1 < SegmentRange
          BY SegmentsFit DEF n, D
        <5>2. QED
          BY <1>1, <5>1
      <4>2. CASE cell.seg < lo
        BY <1>6, <2>1, <3>3, <4>2 DEF Down
      <4>3. CASE cell.seg > hi
        <5>0. \A x, l, h, k \in Nat :
                 k < SegmentRange /\ x <= k /\ x > h /\ l <= h /\ 1 < l =>
                   /\ x + (l - (h + 1)) = x - (h + 1 - l)
                   /\ x - (h + 1 - l) \in Nat /\ x - (h + 1 - l) < SegmentRange
                   /\ x > l
          BY <4>1
        <5>4. cell.seg \in Nat /\ cell.seg <= n
          BY <1>1, <3>3
        <5>1. /\ cell.seg + (lo - (hi + 1)) = cell.seg - (hi + 1 - lo)
              /\ cell.seg - (hi + 1 - lo) \in Nat /\ cell.seg - (hi + 1 - lo) < SegmentRange
              /\ cell.seg > lo
          BY <1>1, <1>6, <4>1, <4>3, <5>0, <5>4
        <5>2. (cell.seg - (hi + 1 - lo)) % SegmentRange = cell.seg - (hi + 1 - lo)
          BY <4>1, <5>1
        <5>3. QED
          BY <2>1, <3>5, <4>3, <5>1, <5>2 DEF Down
      <4>4. QED
        BY <3>2, <3>4, <4>2, <4>3
    <3>7. /\ Down(lo, hi, cell.seg) \in 1 .. n - d
          /\ K[Down(lo, hi, cell.seg)] = cell.meant
          /\ Down(lo, hi, cell.seg) \notin RegisterSegments(p)
      BY <1>7, <1>9, <1>19, <3>2, <3>3, <3>4
    <3>8. QED
      BY <1>17, <2>1, <3>6, <3>7
  <2>5. QED
    BY <2>2, <2>3, <2>4 DEF CellOK, moved
<1>22. StoresAgree(p)
  <2> HIDE DEF stays
  <2>1. /\ Len(p.segments_mapping) = Len(p.explicitData)
        /\ Len(p.explicitData) < p.fst_unused_id
    <3>1. Len(p.segments_mapping) = Len(p.explicitData) /\ Len(p.explicitData) = n - d
      BY <1>9, <1>17
    <3>2. n - d < m.fst_unused_id
      BY <1>1, <1>6
    <3>3. QED
      BY <1>17, <3>1, <3>2
  <2>2. ASSUME NEW i \in 1 .. n - d PROVE K[i] < p.fst_unused_id
    <3>1. PICK s \in 1 .. n : stays(s) /\ i = Down(lo, hi, s)
      BY <1>7
    <3>2. K[i] = M[s] /\ M[s] < m.fst_unused_id
      BY <1>1, <1>9, <3>1
    <3>3. QED
      BY <1>17, <3>2
  <2>3. ASSUME NEW i \in 1 .. n - d, NEW j \in 1 .. n - d, K[i] = K[j] PROVE i = j
    <3>1. PICK s \in 1 .. n : stays(s) /\ i = Down(lo, hi, s)
      BY <1>7
    <3>2. PICK r \in 1 .. n : stays(r) /\ j = Down(lo, hi, r)
      BY <1>7
    <3>3. M[s] = M[r]
      BY <1>9, <2>3, <3>1, <3>2
    <3>4. QED
      BY <1>1, <3>1, <3>2, <3>3
  <2>4. QED
    BY <1>17, <2>1, <2>2, <2>3 DEF StoresAgree
<1>23. ASSUME NEW s \in RegisterSegments(p) PROVE DOMAIN p.explicitData[s] = Register
  <2>1. PICK r \in RegisterSegments(m) : r \in 1 .. n /\ stays(r) /\ s = Down(lo, hi, r)
    BY <1>18
  <2>2. DOMAIN D[r] = Register
    BY DEF Sound, D
  <2>3. s \in 1 .. n - d /\ E[s] = D[r]
    BY <1>7, <1>8, <2>1
  <2>4. QED
    BY <1>17, <2>2, <2>3
<1>24. ASSUME NEW i \in 1 .. n - d, NEW c \in DOMAIN E[i] PROVE CellOK(p, p.explicitData[i][c])
  <2>1. PICK s \in 1 .. n : stays(s) /\ i = Down(lo, hi, s)
    BY <1>7
  <2>2. E[i] = D[s]
    BY <1>8, <2>1
  <2>3. D[s][c] \in CellValue /\ CellOK(m, D[s][c])
    BY <2>2, Loading DEF D, n
  <2>4. p.explicitData[i][c] = Moved(D[s][c], lo, lo - (hi + 1))
    BY <1>17, <2>2
  <2>5. QED
    BY <1>21, <2>3, <2>4
<1>25. CellsOK(p)
  BY <1>17, <1>24 DEF CellsOK
<1>26. Sound(p)
  BY <1>15, <1>16, <1>17, <1>22, <1>23, <1>25 DEF Sound
<1>27. SegmentsDown(m, p, lo, hi)
  <2>1. ASSUME NEW s \in 1 .. n, stays(s) PROVE SameMeaning(p.explicitData[Down(lo, hi, s)], D[s])
    <3>1. Down(lo, hi, s) \in 1 .. n - d /\ E[Down(lo, hi, s)] = D[s]
      BY <1>7, <1>8, <2>1
    <3>2. /\ DOMAIN p.explicitData[Down(lo, hi, s)] = DOMAIN D[s]
          /\ \A c \in DOMAIN D[s] :
               p.explicitData[Down(lo, hi, s)][c] = Moved(D[s][c], lo, lo - (hi + 1))
      BY <1>17, <3>1
    <3>3. ASSUME NEW c \in DOMAIN D[s] PROVE Moved(D[s][c], lo, lo - (hi + 1)).meant = D[s][c].meant
      <4>1. D[s][c] \in CellValue
        BY Loading DEF D, n
      <4>2. QED
        BY <1>11, <4>1, MovedIsCell
    <3>4. QED
      BY <3>2, <3>3 DEF SameMeaning
  <2>2. NamesDown(m, p, lo, hi)
    BY <1>9, <1>17 DEF NamesDown, n, D, M
  <2>3. QED
    BY <1>17, <2>1, <2>2 DEF SegmentsDown, n, D
<1>28. /\ q.segments_in_stack = m.segments_in_stack /\ q.thread_segments = m.thread_segments
       /\ ThreadCount(q) = ThreadCount(m)
  BY <1>12, <1>13
<1>29. LeftWithoutFrame(q, b, p, tid, hi + 1 - lo) => LeftWithoutFrame(m, b, p, tid, hi + 1 - lo)
  BY <1>28 DEF LeftWithoutFrame, StacksLeft, OtherStacks, Shifted
<1>30. LeftWithoutThread(q, b, p, tid, hi + 1 - lo) => LeftWithoutThread(m, b, p, tid, hi + 1 - lo)
  BY <1>28 DEF LeftWithoutThread, StacksEnded, Joined
<1>31. QED
  BY <1>15, <1>26, <1>27, <1>29, <1>30

LEMMA Erased ==
  ASSUME NEW m, Sound(m), NEW tid \in 1 .. ThreadCount(m), NEW p, p = Leave(m, tid)
  PROVE  Sound(p)
<1>1. PICK b : LaidOut(m, b) /\ b[ThreadCount(m) + 1] = Len(m.explicitData)
  BY SoundLayout
<1>2. IsLastRange(m, tid, LastRange(m, tid)[1], LastRange(m, tid)[2])
  BY DEF IsLastRange
<1>3. QED
  BY <1>1, <1>2, ErasedAt

-----------------------------------------------------------------------------
(* A thread is started, a frame entered, a segment allocated.              *)

(* A new segment of a thread comes behind its others: the place is that of
   the next thread's first registers, or the end. *)
LEMMA InsertionPlace ==
  ASSUME NEW m, Sound(m), NEW b, LaidOut(m, b), b[ThreadCount(m) + 1] = Len(m.explicitData),
         NEW tid \in 1 .. ThreadCount(m), NEW w, w = b[tid + 1] + 1
  PROVE  /\ w \in 1 .. Len(m.explicitData) + 1 /\ w \in Nat
         /\ w <= Len(m.explicitData) => w \in RegisterSegments(m)
         /\ Last(m.thread_segments[tid]) \in Nat /\ w = Last(m.thread_segments[tid]) + 1
<1>1. HasLayout(m)
  BY DEF Sound
<1>2. ThreadCount(m) \in Nat /\ tid + 1 \in 1 .. ThreadCount(m) + 1
  BY <1>1, LayoutParts
<1>3. b[tid + 1] \in Nat /\ b[tid + 1] <= b[ThreadCount(m) + 1]
  BY <1>1, <1>2, ThreadsAscend
<1>4. Len(m.explicitData) \in Nat
  BY SegmentsFit
<1>5. w \in 1 .. Len(m.explicitData) + 1 /\ w \in Nat
  BY <1>3, <1>4
<1>6. w <= Len(m.explicitData) => w \in RegisterSegments(m)
  BY <1>1, RegistersBehindThread
<1>7. Last(m.thread_segments[tid]) = b[tid + 1]
  BY <1>1, LastFrames
<1>8. QED
  BY <1>3, <1>5, <1>6, <1>7

(* m, laid out by b, became q, laid out by c, with a segment at w. *)
HasInserted(m, b, q, c, w, cells) ==
  /\ LaidOut(m, b) /\ b[ThreadCount(m) + 1] = Len(m.explicitData)
  /\ LaidOut(q, c) /\ c[ThreadCount(q) + 1] = Len(q.explicitData)
  /\ SegmentsUp(m, q, w, cells)

HasEntered(m, q, tid) ==
  /\ StacksEntered(m, q, tid)
  /\ \E b : HasInserted(m, b, q, Shifted(m, b, tid, 1), b[tid + 1] + 1, Register)

HasAllocated(m, q, tid) ==
  /\ StacksWidened(m, q, tid)
  /\ \E b : HasInserted(m, b, q, Shifted(m, b, tid, 1), b[tid + 1] + 1, Cell)

HasStarted(m, q) ==
  /\ StacksStarted(m, q)
  /\ \E b : HasInserted(m, b, q, Extended(m, b), b[ThreadCount(m) + 1] + 1, Register)

LEMMA FrameEntered ==
  ASSUME NEW m, Sound(m), m.fst_unused_id <= MaxNames, NEW tid \in 1 .. ThreadCount(m),
         NEW q, q = EnterFunction(m, tid)
  PROVE  /\ Sound(q) /\ ThreadCount(q) = ThreadCount(m)
         /\ HasEntered(m, q, tid) /\ q.fst_unused_id = m.fst_unused_id + 1
         /\ \A cell \in CellValue :
              CellOK(m, cell) /\ cell.seg <= Last(m.thread_segments[tid]) => CellOK(q, cell)
<1> DEFINE p == NewSegment(NewStack(m, tid), tid)
<1>1. m \in MemoryState /\ HasLayout(m)
  BY DEF Sound
<1>2. PICK b : LaidOut(m, b) /\ b[ThreadCount(m) + 1] = Len(m.explicitData)
  BY SoundLayout
<1> DEFINE w == b[tid + 1] + 1
<1>3. q = MovePointers(AddSegment(p, LastRange(p, tid)[1], Register), LastRange(p, tid)[1], 1)
  BY DEF EnterFunction
<1>4. p = NewSegment(NewStack(m, tid), tid)
  OBVIOUS
<1> HIDE DEF p
<1>5. /\ p \in MemoryState /\ SameStores(m, p) /\ HasLayout(p)
      /\ LaidOut(p, Shifted(m, b, tid, 1)) /\ ThreadCount(p) = ThreadCount(m)
      /\ Shifted(m, b, tid, 1)[ThreadCount(m) + 1] = b[ThreadCount(m) + 1] + 1
      /\ LastRange(p, tid)[1] = b[tid + 1] + 1
      /\ StacksEntered(m, p, tid)
      /\ \A s \in RegisterSegments(p) :
           s = b[tid + 1] + 1 \/ \E r \in RegisterSegments(m) : s = Up(b[tid + 1] + 1, r)
  BY <1>1, <1>2, <1>4, SegmentForFrame
<1>6. Contiguous(p, Len(m.explicitData) + 1)
  BY <1>2, <1>5, LaidOutIsContiguous
<1>7. w = b[tid + 1] + 1
  OBVIOUS
<1> HIDE DEF w
<1>8. /\ w \in 1 .. Len(m.explicitData) + 1 /\ w \in Nat
      /\ w <= Len(m.explicitData) => w \in RegisterSegments(m)
      /\ Last(m.thread_segments[tid]) \in Nat /\ w = Last(m.thread_segments[tid]) + 1
  BY <1>2, <1>7, InsertionPlace
<1>9. RegistersMoved(m, p, w, Register)
  BY <1>5, <1>7 DEF RegistersMoved
<1>10. q = MovePointers(AddSegment(p, w, Register), w, 1)
  BY <1>3, <1>5, <1>7
<1>11. Register \in {Register, Cell}
  OBVIOUS
<1>12. /\ Sound(q) /\ q.thread_segments = p.thread_segments
       /\ q.segments_in_stack = p.segments_in_stack
       /\ Len(q.explicitData) = Len(m.explicitData) + 1
       /\ SegmentsUp(m, q, w, Register) /\ q.fst_unused_id = m.fst_unused_id + 1
       /\ \A cell \in CellValue : CellOK(m, cell) /\ cell.seg < w => CellOK(q, cell)
  BY <1>5, <1>6, <1>8, <1>9, <1>10, <1>11, Inserted
<1>13. ThreadCount(q) = ThreadCount(m)
  BY <1>5, <1>12 DEF ThreadCount
<1>14. ASSUME NEW cell \in CellValue, cell.seg <= Last(m.thread_segments[tid])
       PROVE  cell.seg < w
  <2>1. cell.seg \in Nat
    BY SegmentRangeAssumption DEF CellValue
  <2>2. QED
    BY <1>8, <1>14, <2>1
<1>15. StacksEntered(m, q, tid)
  BY <1>5, <1>12, <1>13 DEF StacksEntered, OtherStacks
<1>16. LaidOut(q, Shifted(m, b, tid, 1))
  BY <1>5, <1>12, SameLayout
<1>17. Shifted(m, b, tid, 1)[ThreadCount(q) + 1] = Len(q.explicitData)
  BY <1>2, <1>5, <1>12, <1>13
<1>18. HasInserted(m, b, q, Shifted(m, b, tid, 1), b[tid + 1] + 1, Register)
  BY <1>2, <1>7, <1>12, <1>16, <1>17 DEF HasInserted
<1>19. HasEntered(m, q, tid)
  BY <1>15, <1>18 DEF HasEntered
<1>20. QED
  BY <1>12, <1>13, <1>14, <1>19

LEMMA ThreadIsStarted ==
  ASSUME NEW m, Sound(m), m.fst_unused_id <= MaxNames, NEW q, q = StartThread(m)
  PROVE  /\ Sound(q) /\ ThreadCount(q) = ThreadCount(m) + 1
         /\ HasStarted(m, q) /\ q.fst_unused_id = m.fst_unused_id + 1
<1> DEFINE p == ThreadStarted(m)
           n == ThreadCount(m)
<1>1. m \in MemoryState /\ HasLayout(m)
  BY DEF Sound
<1>2. PICK b : LaidOut(m, b) /\ b[n + 1] = Len(m.explicitData)
  BY SoundLayout
<1> DEFINE w == b[n + 1] + 1
<1>3. q = MovePointers(AddSegment(p, LastRange(p, n + 1)[1], Register), LastRange(p, n + 1)[1], 1)
  BY DEF StartThread, ThreadStarted
<1>4. p = ThreadStarted(m)
  OBVIOUS
<1> HIDE DEF p
<1>5. /\ p \in MemoryState /\ SameStores(m, p) /\ HasLayout(p)
      /\ LaidOut(p, Extended(m, b)) /\ ThreadCount(p) = ThreadCount(m) + 1
      /\ Extended(m, b)[ThreadCount(p) + 1] = b[ThreadCount(m) + 1] + 1
      /\ LastRange(p, ThreadCount(m) + 1)[1] = b[ThreadCount(m) + 1] + 1
      /\ StacksStarted(m, p)
      /\ \A s \in RegisterSegments(p) :
           s = b[ThreadCount(m) + 1] + 1 \/ s \in RegisterSegments(m)
  BY <1>1, <1>2, <1>4, SegmentForThread
<1>6. Contiguous(p, Len(m.explicitData) + 1)
  BY <1>2, <1>5, LaidOutIsContiguous
<1>7. Len(m.explicitData) \in Nat
  BY SegmentsFit
<1>8. /\ w = Len(m.explicitData) + 1 /\ w \in 1 .. Len(m.explicitData) + 1 /\ w \in Nat
      /\ ~(w <= Len(m.explicitData))
  BY <1>2, <1>7
<1>9. LastRange(p, n + 1)[1] = w /\ w = b[ThreadCount(m) + 1] + 1
  BY <1>5
<1>10. \A s \in RegisterSegments(p) : s = w \/ s \in RegisterSegments(m)
  BY <1>5
<1> HIDE DEF w
<1>11. \A r \in RegisterSegments(m) : r = Up(w, r)
  <2>1. \A r \in RegisterSegments(m) : r \in Nat /\ r > 1 /\ r <= Len(m.explicitData)
    BY <1>1, <1>2, RegistersStartFrames
  <2>2. QED
    BY <1>7, <1>8, <2>1 DEF Up
<1>12. RegistersMoved(m, p, w, Register)
  BY <1>10, <1>11 DEF RegistersMoved
<1>13. q = MovePointers(AddSegment(p, w, Register), w, 1)
  BY <1>3, <1>9
<1>14. Register \in {Register, Cell}
  OBVIOUS
<1>15. /\ Sound(q) /\ q.thread_segments = p.thread_segments
       /\ q.segments_in_stack = p.segments_in_stack
       /\ Len(q.explicitData) = Len(m.explicitData) + 1
       /\ SegmentsUp(m, q, w, Register) /\ q.fst_unused_id = m.fst_unused_id + 1
  BY <1>5, <1>6, <1>8, <1>12, <1>13, <1>14, Inserted
<1>16. ThreadCount(q) = ThreadCount(p)
  BY <1>15 DEF ThreadCount
<1>17. StacksStarted(m, q)
  BY <1>5, <1>15, <1>16 DEF StacksStarted
<1>18. LaidOut(q, Extended(m, b))
  BY <1>5, <1>15, SameLayout
<1>19. Extended(m, b)[ThreadCount(q) + 1] = Len(q.explicitData)
  BY <1>2, <1>5, <1>15, <1>16
<1>20. HasInserted(m, b, q, Extended(m, b), b[ThreadCount(m) + 1] + 1, Register)
  BY <1>2, <1>9, <1>15, <1>18, <1>19 DEF HasInserted
<1>21. HasStarted(m, q)
  BY <1>17, <1>20 DEF HasStarted
<1>22. QED
  BY <1>5, <1>15, <1>16, <1>21

LEMMA SegmentAllocated ==
  ASSUME NEW m, Sound(m), m.fst_unused_id <= MaxNames, NEW tid \in 1 .. ThreadCount(m),
         NEW w, w = WantedSid(m, tid),
         NEW q, q = MovePointers(AddSegment(NewSegment(m, tid), w, Cell), w, 1)
  PROVE  /\ Sound(q) /\ ThreadCount(q) = ThreadCount(m)
         /\ HasAllocated(m, q, tid) /\ q.fst_unused_id = m.fst_unused_id + 1
         /\ PointerTo(q, w).meant = m.fst_unused_id
         /\ PointerTo(q, w) \in CellValue /\ CellOK(q, PointerTo(q, w))
<1> DEFINE p == NewSegment(m, tid)
<1>1. m \in MemoryState /\ HasLayout(m)
  BY DEF Sound
<1>2. PICK b : LaidOut(m, b) /\ b[ThreadCount(m) + 1] = Len(m.explicitData)
  BY SoundLayout
<1>3. /\ p \in MemoryState /\ SameStores(m, p) /\ HasLayout(p)
      /\ w = b[tid + 1] + 1
      /\ LaidOut(p, Shifted(m, b, tid, 1)) /\ ThreadCount(p) = ThreadCount(m)
      /\ StacksWidened(m, p, tid)
      /\ Shifted(m, b, tid, 1)[ThreadCount(m) + 1] = b[ThreadCount(m) + 1] + 1
      /\ \A s \in RegisterSegments(p) : \E r \in RegisterSegments(m) : s = Up(w, r)
  BY <1>1, <1>2, SegmentForAlloca
<1>4. q = MovePointers(AddSegment(p, w, Cell), w, 1)
  OBVIOUS
<1> HIDE DEF p
<1>5. Contiguous(p, Len(m.explicitData) + 1)
  BY <1>2, <1>3, LaidOutIsContiguous
<1>6. /\ w \in 1 .. Len(m.explicitData) + 1 /\ w \in Nat
      /\ w <= Len(m.explicitData) => w \in RegisterSegments(m)
  BY <1>2, <1>3, InsertionPlace
<1>7. RegistersMoved(m, p, w, Cell)
  BY <1>3 DEF RegistersMoved
<1>8. Cell \in {Register, Cell}
  OBVIOUS
<1>9. /\ Sound(q)
      /\ q.thread_segments = p.thread_segments /\ q.segments_in_stack = p.segments_in_stack
      /\ Len(q.explicitData) = Len(m.explicitData) + 1
      /\ q.segments_mapping[w] = m.fst_unused_id
      /\ q.fst_unused_id = m.fst_unused_id + 1
      /\ SegmentsUp(m, q, w, Cell)
  BY <1>3, <1>4, <1>5, <1>6, <1>7, <1>8, Inserted
<1>10. ThreadCount(q) = ThreadCount(m) /\ RegisterSegments(q) = RegisterSegments(p)
  BY <1>3, <1>9, SameLayout
<1>11. w \notin RegisterSegments(q)
  <2>1. \A r \in RegisterSegments(m) : r \in Nat
    BY <1>1, <1>2, RegistersStartFrames
  <2>2. QED
    BY <1>3, <1>6, <1>10, <2>1, UpIsInjective
<1>12. /\ PointerTo(q, w).is_pointer = TRUE /\ PointerTo(q, w).seg = w
       /\ PointerTo(q, w).meant = m.fst_unused_id
       /\ PointerTo(q, w) = [is_pointer |-> TRUE, seg |-> w, meant |-> m.fst_unused_id]
  BY <1>9 DEF PointerTo
<1>13. m.fst_unused_id \in Nat /\ m.fst_unused_id \in 0 .. MaxNames
  <2>1. m.fst_unused_id \in Nat /\ MaxNames \in Nat
    BY <1>1, StateTypes
  <2>2. QED
    BY <2>1
<1>14. w \in 0 .. SegmentRange - 1
  <2>1. Len(m.explicitData) \in Nat /\ SegmentRange \in Nat /\ Len(m.explicitData) + 1 < SegmentRange
    BY SegmentsFit
  <2>2. QED
    BY <1>6, <2>1
<1>15. PointerTo(q, w) \in CellValue
  BY <1>12, <1>13, <1>14 DEF CellValue
<1>16. m.fst_unused_id < q.fst_unused_id
  BY <1>9, <1>13
<1>17. w \in 1 .. Len(q.explicitData)
  BY <1>6, <1>9
<1>18. CellOK(q, PointerTo(q, w))
  BY <1>9, <1>11, <1>12, <1>16, <1>17 DEF CellOK
<1>19. StacksWidened(m, q, tid)
  BY <1>3, <1>9, <1>10 DEF StacksWidened, OtherStacks
<1>20. LaidOut(q, Shifted(m, b, tid, 1))
  BY <1>3, <1>9, SameLayout
<1>21. Shifted(m, b, tid, 1)[ThreadCount(q) + 1] = Len(q.explicitData)
  BY <1>2, <1>3, <1>9, <1>10
<1>22. HasInserted(m, b, q, Shifted(m, b, tid, 1), b[tid + 1] + 1, Cell)
  BY <1>2, <1>3, <1>9, <1>20, <1>21 DEF HasInserted
<1>23. HasAllocated(m, q, tid)
  BY <1>19, <1>22 DEF HasAllocated
<1>24. QED
  BY <1>9, <1>10, <1>12, <1>15, <1>18, <1>23

-----------------------------------------------------------------------------
(* The initial state, and the steps of the program.                        *)

(* The memory of the globals, before main is started. *)
LEMMA GlobalsAreSound ==
  ASSUME NEW m, m = [thread_segments |-> << >>, segments_in_stack |-> << >>,
                     explicitData |-> <<BlankSegment(Cell)>>, segments_mapping |-> << 1 >>,
                     fst_unused_id |-> 2]
  PROVE  Sound(m) /\ m.fst_unused_id <= MaxNames
<1> DEFINE D == <<BlankSegment(Cell)>>
           M == << 1 >>
<1>1. MaxNames \in Nat /\ MaxNames > 1 /\ SegmentRange \in Nat /\ SegmentRange > 0
  BY SegmentRangeAssumption
<1>2. Blank \in CellValue
  BY <1>1 DEF Blank, CellValue
<1>3. /\ BlankSegment(Cell) \in Segment /\ DOMAIN BlankSegment(Cell) = Cell
      /\ \A c \in Cell : BlankSegment(Cell)[c] = Blank
  <2>1. BlankSegment(Cell) = [c \in Cell |-> Blank]
    BY DEF BlankSegment
  <2>2. QED
    BY <1>2, <2>1 DEF Segment
<1>4. D \in Seq(Segment) /\ Len(D) = 1 /\ D[1] = BlankSegment(Cell)
  BY <1>3
<1>5. M \in Seq(1 .. MaxNames) /\ Len(M) = 1 /\ M[1] = 1
  BY <1>1
<1> HIDE DEF D, M
<1>6. << >> \in Seq(Seq(Nat)) /\ Len(<< >>) = 0 /\ DOMAIN << >> = {}
  OBVIOUS
<1>7. /\ m.thread_segments = << >> /\ m.segments_in_stack = << >> /\ m.explicitData = D
      /\ m.segments_mapping = M /\ m.fst_unused_id = 2
  BY DEF D, M
<1>8. m \in MemoryState
  <2>1. 2 \in 1 .. MaxNames + 1
    BY <1>1
  <2>2. m = [thread_segments |-> << >>, segments_in_stack |-> << >>, explicitData |-> D,
             segments_mapping |-> M, fst_unused_id |-> 2]
    BY DEF D, M
  <2>3. \A A, B, C, F, a, x, y, z :
          a \in A /\ x \in B /\ y \in C /\ z \in F =>
            [thread_segments |-> a, segments_in_stack |-> a, explicitData |-> x,
             segments_mapping |-> y, fst_unused_id |-> z] \in
              [thread_segments : A, segments_in_stack : A, explicitData : B,
               segments_mapping : C, fst_unused_id : F]
    OBVIOUS
  <2> DEFINE record == [thread_segments |-> << >>, segments_in_stack |-> << >>, explicitData |-> D,
                        segments_mapping |-> M, fst_unused_id |-> 2]
  <2>4. record \in [thread_segments : Seq(Seq(Nat)), segments_in_stack : Seq(Seq(Nat)),
                    explicitData : Seq(Segment), segments_mapping : Seq(1 .. MaxNames),
                    fst_unused_id : 1 .. MaxNames + 1]
    BY <1>4, <1>5, <1>6, <2>1, <2>3, Zenon
  <2> HIDE DEF record
  <2>5. m = record
    BY <2>2 DEF record
  <2>6. QED
    BY <2>4, <2>5 DEF MemoryState
<1>9. HasLayout(m) /\ ThreadCount(m) = 0
  BY <1>6, <1>7 DEF HasLayout, ThreadCount
<1>10. StoresAgree(m)
  BY <1>4, <1>5, <1>7 DEF StoresAgree
<1>11. Contiguous(m, Len(m.explicitData))
  BY <1>4, <1>6, <1>7, <1>9 DEF Contiguous, SegmentsBefore, GlobalSegment
<1>12. RegisterSegments(m) = {}
  BY <1>6, <1>7 DEF RegisterSegments
<1>13. CellsOK(m)
  <2>1. CellOK(m, Blank)
    BY <1>8, BlankOK
  <2>2. ASSUME NEW s \in 1 .. 1, NEW c \in DOMAIN D[s] PROVE CellOK(m, D[s][c])
    <3>1. s = 1
      OBVIOUS
    <3>2. D[s][c] = Blank
      BY <1>3, <1>4, <3>1
    <3>3. QED
      BY <2>1, <3>2
  <2>3. QED
    BY <1>4, <1>7, <2>2 DEF CellsOK
<1>14. QED
  BY <1>1, <1>7, <1>8, <1>9, <1>10, <1>11, <1>12, <1>13 DEF Sound

LEMMA InitSound == Init => Sound(state)
<1> SUFFICES ASSUME Init PROVE Sound(state)
  OBVIOUS
<1> DEFINE m == [thread_segments |-> << >>, segments_in_stack |-> << >>,
                 explicitData |-> <<BlankSegment(Cell)>>, segments_mapping |-> <<1>>,
                 fst_unused_id |-> 2]
<1>1. state = StartThread(m)
  BY DEF Init
<1>2. m = [thread_segments |-> << >>, segments_in_stack |-> << >>,
           explicitData |-> <<BlankSegment(Cell)>>, segments_mapping |-> <<1>>,
           fst_unused_id |-> 2]
  OBVIOUS
<1> HIDE DEF m
<1>3. Sound(m) /\ m.fst_unused_id <= MaxNames
  BY <1>2, GlobalsAreSound
<1>4. QED
  BY <1>1, <1>3, ThreadIsStarted

(* The globals come before all registers. *)
LEMMA AddressOfGlobalOK ==
  ASSUME NEW m, Sound(m), NEW tid \in 1 .. ThreadCount(m)
  PROVE  PointerTo(m, GlobalSegment) \in CellValue /\ CellOK(m, PointerTo(m, GlobalSegment))
<1>1. /\ \A s \in RegisterSegments(m) : s \in 2 .. Len(m.explicitData)
      /\ LastRange(m, tid)[1] \in RegisterSegments(m)
  BY RegistersExist
<1>2. Len(m.explicitData) \in Nat /\ SegmentRange \in Nat /\ Len(m.explicitData) + 1 < SegmentRange
  BY SegmentsFit
<1>3. 1 \in 1 .. Len(m.explicitData) /\ 1 \in 0 .. SegmentRange - 1 /\ 1 \notin RegisterSegments(m)
  <2>1. LastRange(m, tid)[1] \in 2 .. Len(m.explicitData)
    BY <1>1
  <2>2. 1 \notin RegisterSegments(m)
    BY <1>1, <1>2
  <2>3. 1 <= Len(m.explicitData)
    BY <1>2, <2>1
  <2>4. QED
    BY <1>2, <2>2, <2>3
<1> DEFINE name == m.segments_mapping[1]
<1>4. name \in 0 .. MaxNames /\ name < m.fst_unused_id
  <2>1. m \in MemoryState /\ StoresAgree(m)
    BY DEF Sound
  <2>2. m.segments_mapping \in Seq(1 .. MaxNames) /\ MaxNames \in Nat
    BY <2>1, StateTypes
  <2>3. name < m.fst_unused_id /\ 1 \in 1 .. Len(m.segments_mapping)
    BY <1>3, <2>1 DEF StoresAgree
  <2>4. name \in 1 .. MaxNames
    BY <2>2, <2>3
  <2> HIDE DEF name
  <2>5. QED
    BY <2>2, <2>3, <2>4
<1>5. PointerTo(m, GlobalSegment) = [is_pointer |-> TRUE, seg |-> 1, meant |-> name]
  BY DEF PointerTo, GlobalSegment
<1>6. QED
  BY <1>3, <1>4, <1>5 DEF CellOK, CellValue

LEMMA PthreadCreateSound ==
  ASSUME Sound(state), NEW tid \in 1 .. ThreadCount(state),
         NEW c \in Register, NEW d \in Register, PthreadCreate(tid, c, d)
  PROVE  Sound(state')
<1> DEFINE started == StartThread(state)
           handle  == Registers(started, tid)[c]
<1>1. /\ state.fst_unused_id <= MaxNames /\ MayFollow(started, handle)
      /\ \E x : LET created == Store(started, handle.seg, x, Blank)
                IN  state' \in {created, StoreRegister(created, ThreadCount(created), 1,
                                                      Registers(created, tid)[d])}
  BY DEF PthreadCreate, Room
<1>2. Sound(started) /\ ThreadCount(started) = ThreadCount(state) + 1
  BY <1>1, ThreadIsStarted
<1>3. ThreadCount(state) \in Nat /\ tid \in 1 .. ThreadCount(started)
  <2>1. ThreadCount(state) \in Nat
    BY LayoutParts DEF Sound
  <2>2. QED
    BY <1>2, <2>1
<1> HIDE DEF started
<1>4. handle \in CellValue /\ CellOK(started, handle)
  BY <1>2, <1>3, ReadingRegister
<1>5. handle.seg \in 1 .. Len(started.explicitData)
  BY <1>1, <1>4 DEF CellOK
<1>6. Blank \in CellValue /\ CellOK(started, Blank)
  BY <1>2, BlankOK DEF Sound
<1> HIDE DEF handle
<1>7. PICK x : \/ state' = Store(started, handle.seg, x, Blank)
               \/ state' = StoreRegister(Store(started, handle.seg, x, Blank),
                                         ThreadCount(Store(started, handle.seg, x, Blank)), 1,
                                         Registers(Store(started, handle.seg, x, Blank), tid)[d])
  BY <1>1
<1> DEFINE created == Store(started, handle.seg, x, Blank)
<1>8. Sound(created) /\ created.thread_segments = started.thread_segments
  BY <1>2, <1>5, <1>6, Storing
<1> HIDE DEF created
<1>9. ThreadCount(created) = ThreadCount(started)
  BY <1>8 DEF ThreadCount
<1>10. tid \in 1 .. ThreadCount(created) /\ ThreadCount(created) \in 1 .. ThreadCount(created)
  BY <1>2, <1>3, <1>9
<1>11. Registers(created, tid)[d] \in CellValue /\ CellOK(created, Registers(created, tid)[d])
  BY <1>8, <1>10, ReadingRegister
<1>12. Sound(StoreRegister(created, ThreadCount(created), 1, Registers(created, tid)[d]))
  BY <1>8, <1>10, <1>11, StoringRegister
<1>13. QED
  BY <1>7, <1>8, <1>12 DEF created

LEMMA CallSound ==
  ASSUME Sound(state), ForeignArguments = FALSE, NEW tid \in 1 .. ThreadCount(state),
         NEW c \in Register, Call(tid, c)
  PROVE  Sound(state')
<1> DEFINE param == Registers(state, tid)[c]
           entered == EnterFunction(state, tid)
<1>1. /\ state.fst_unused_id <= MaxNames /\ param.seg <= Last(state.thread_segments[tid])
      /\ state' = StoreRegister(entered, tid, 1, param)
  BY DEF Call, Room
<1>2. param \in CellValue /\ CellOK(state, param)
  BY ReadingRegister
<1> HIDE DEF param
<1>3. entered = EnterFunction(state, tid)
  OBVIOUS
<1> HIDE DEF entered
<1>4. /\ Sound(entered) /\ ThreadCount(entered) = ThreadCount(state)
      /\ CellOK(entered, param)
  BY <1>1, <1>2, <1>3, FrameEntered
<1>5. tid \in 1 .. ThreadCount(entered)
  BY <1>4
<1>6. QED
  BY <1>1, <1>2, <1>4, <1>5, StoringRegister

LEMMA AllocaSound ==
  ASSUME Sound(state), NEW tid \in 1 .. ThreadCount(state), NEW c \in Register, Alloca(tid, c)
  PROVE  Sound(state')
<1> DEFINE w == WantedSid(state, tid)
           added == MovePointers(AddSegment(NewSegment(state, tid), w, Cell), w, 1)
<1>1. /\ state.fst_unused_id <= MaxNames
      /\ state' = StoreRegister(added, tid, c, PointerTo(added, w))
  BY DEF Alloca, Room
<1>2. w = WantedSid(state, tid)
  OBVIOUS
<1> HIDE DEF w
<1>3. added = MovePointers(AddSegment(NewSegment(state, tid), w, Cell), w, 1)
  OBVIOUS
<1> HIDE DEF added
<1>4. /\ Sound(added) /\ ThreadCount(added) = ThreadCount(state)
      /\ PointerTo(added, w) \in CellValue /\ CellOK(added, PointerTo(added, w))
  BY <1>1, <1>2, <1>3, SegmentAllocated
<1>5. tid \in 1 .. ThreadCount(added)
  BY <1>4
<1>6. QED
  BY <1>1, <1>4, <1>5, StoringRegister

LEMMA LoadSound ==
  ASSUME Sound(state), NEW tid \in 1 .. ThreadCount(state),
         NEW c \in Register, NEW d \in Register, Load(tid, c, d)
  PROVE  Sound(state')
<1> DEFINE cell == Registers(state, tid)[d]
<1>1. PICK x \in DOMAIN state.explicitData[cell.seg] :
        state' = StoreRegister(state, tid, c, state.explicitData[cell.seg][x])
  BY DEF Load
<1>2. MayFollow(state, cell)
  BY DEF Load
<1>3. CellOK(state, cell)
  BY ReadingRegister
<1> HIDE DEF cell
<1>4. cell.seg \in 1 .. Len(state.explicitData)
  BY <1>2, <1>3 DEF CellOK
<1>5. /\ state.explicitData[cell.seg][x] \in CellValue
      /\ CellOK(state, state.explicitData[cell.seg][x])
  BY <1>4, Loading
<1>6. QED
  BY <1>1, <1>5, StoringRegister

LEMMA StoreThroughSound ==
  ASSUME Sound(state), NEW tid \in 1 .. ThreadCount(state),
         NEW c \in Register, NEW d \in Register, StoreThrough(tid, c, d)
  PROVE  Sound(state')
<1> DEFINE cell == Registers(state, tid)[d]
           value == Registers(state, tid)[c]
<1>1. MayFollow(state, cell) /\ \E x : state' = Store(state, cell.seg, x, value)
  BY DEF StoreThrough
<1>2. CellOK(state, cell) /\ value \in CellValue /\ CellOK(state, value)
  BY ReadingRegister
<1> HIDE DEF cell, value
<1>3. cell.seg \in 1 .. Len(state.explicitData)
  BY <1>1, <1>2 DEF CellOK
<1>4. QED
  BY <1>1, <1>2, <1>3, Storing

LEMMA ReturnValueSound ==
  ASSUME Sound(state), NEW tid \in 1 .. ThreadCount(state),
         NEW c \in Register, NEW d \in Register, ReturnValue(tid, c, d)
  PROVE  Sound(state')
<1> DEFINE s == PrevRange(state, tid)[1]
           value == Registers(state, tid)[c]
           stored == Store(state, s, d, value)
<1>1. Len(state.segments_in_stack[tid]) > 1 /\ state' = Leave(stored, tid)
  BY DEF ReturnValue
<1>2. value \in CellValue /\ CellOK(state, value)
  BY ReadingRegister
<1>3. s \in 1 .. Len(state.explicitData)
  <2>1. s \in 2 .. Len(state.explicitData)
    BY <1>1, RegistersExist
  <2>2. Len(state.explicitData) \in Nat
    BY SegmentsFit
  <2> HIDE DEF s
  <2>3. QED
    BY <2>1, <2>2
<1> HIDE DEF s, value
<1>4. Sound(stored) /\ stored.thread_segments = state.thread_segments
  BY <1>2, <1>3, Storing
<1> HIDE DEF stored
<1>5. tid \in 1 .. ThreadCount(stored)
  BY <1>4 DEF ThreadCount
<1>6. QED
  BY <1>1, <1>4, <1>5, Erased

-----------------------------------------------------------------------------
(* The theorems.                                                           *)

LEMMA SoundIsKept ==
  ASSUME ForeignArguments = FALSE, Sound(state), [Next]_state
  PROVE  Sound(state')
<1>1. CASE Next
  <2>1. PICK tid \in 1 .. ThreadCount(state) :
          \/ Return(tid)
          \/ \E c \in Register : Call(tid, c) \/ Alloca(tid, c) \/ AddressOfGlobal(tid, c)
          \/ \E c, d \in Register :
               \/ PthreadCreate(tid, c, d)
               \/ Load(tid, c, d)
               \/ StoreThrough(tid, c, d)
               \/ ReturnValue(tid, c, d)
    BY <1>1 DEF Next
  <2>2. CASE Return(tid)
    BY <2>2, Erased DEF Return
  <2>3. CASE \E c \in Register : Call(tid, c)
    BY <2>3, CallSound
  <2>4. CASE \E c \in Register : Alloca(tid, c)
    BY <2>4, AllocaSound
  <2>5. CASE \E c \in Register : AddressOfGlobal(tid, c)
    BY <2>5, AddressOfGlobalOK, StoringRegister DEF AddressOfGlobal
  <2>6. CASE \E c, d \in Register : PthreadCreate(tid, c, d)
    BY <2>6, PthreadCreateSound
  <2>7. CASE \E c, d \in Register : Load(tid, c, d)
    BY <2>7, LoadSound
  <2>8. CASE \E c, d \in Register : StoreThrough(tid, c, d)
    BY <2>8, StoreThroughSound
  <2>9. CASE \E c, d \in Register : ReturnValue(tid, c, d)
    BY <2>9, ReturnValueSound
  <2>10. QED
    BY <2>1, <2>2, <2>3, <2>4, <2>5, <2>6, <2>7, <2>8, <2>9
<1>2. CASE UNCHANGED state
  BY <1>2
<1>3. QED
  BY <1>1, <1>2

(* Wherever a cell is, it is one of a segment. *)
LEMMA WhereCellsAre ==
  ASSUME Sound(state)
  PROVE  /\ AllSegments = 1 .. Len(state.explicitData)
         /\ \A cell \in AllCells : CellOK(state, cell)
<1>1. state.explicitData \in Seq(Segment)
  BY StateTypes DEF Sound
<1>2. AllSegments = 1 .. Len(state.explicitData)
  BY <1>1 DEF AllSegments
<1>3. \A cell \in AllCells :
        \E s \in AllSegments : \E c \in DOMAIN state.explicitData[s] : cell = state.explicitData[s][c]
  BY DEF AllCells, Range
<1>4. \A cell \in AllCells : CellOK(state, cell)
  BY <1>2, <1>3 DEF Sound, CellsOK
<1>5. QED
  BY <1>2, <1>4

LEMMA SoundHasInvariants ==
  ASSUME Sound(state)
  PROVE  TypeOK /\ SegmentsAreContiguous /\ PointersNameObjects /\ PointersAvoidRegisters
<1>1. AllSegments = 1 .. Len(state.explicitData) /\ \A cell \in AllCells : CellOK(state, cell)
  BY WhereCellsAre
<1>2. StoresAgree(state) /\ state \in MemoryState /\ HasLayout(state)
  BY DEF Sound
<1>3. TypeOK
  <2>1. DOMAIN state.segments_mapping = 1 .. Len(state.explicitData)
    BY <1>2, StateTypes DEF StoresAgree
  <2>2. IsInjective(state.segments_mapping)
    BY <1>2, <2>1 DEF StoresAgree, IsInjective
  <2>3. \A s \in RegisterSegments(state) : DOMAIN state.explicitData[s] = Register
    BY DEF Sound
  <2>4. \A cell \in AllCells :
          cell.meant < state.fst_unused_id /\ (cell.is_pointer \/ cell = Blank)
    BY <1>1 DEF CellOK
  <2>5. QED
    BY <1>1, <1>2, <2>2, <2>3, <2>4 DEF TypeOK, StoresAgree, HasLayout
<1>4. SegmentsAreContiguous
  BY DEF Sound, SegmentsAreContiguous
<1>5. PointersNameObjects /\ PointersAvoidRegisters
  BY <1>1 DEF CellOK, PointersNameObjects, PointersAvoidRegisters
<1>6. QED
  BY <1>3, <1>4, <1>5

(* Whatever is called, returned from, started, allocated, loaded and stored:
   the memory stays sound, if no call passes a pointer into the stack of a
   later thread. *)
THEOREM MemoryStaysSound ==
  ForeignArguments = FALSE =>
    (Spec => [](Sound(state) /\ TypeOK /\ SegmentsAreContiguous /\ PointersNameObjects
                /\ PointersAvoidRegisters))
<1> SUFFICES ASSUME ForeignArguments = FALSE
             PROVE  Spec => [](Sound(state) /\ TypeOK /\ SegmentsAreContiguous
                               /\ PointersNameObjects /\ PointersAvoidRegisters)
  OBVIOUS
<1>1. Init => Sound(state)
  BY InitSound
<1>2. Sound(state) /\ [Next]_state => Sound(state)'
  BY SoundIsKept
<1>3. Sound(state) => /\ Sound(state) /\ TypeOK /\ SegmentsAreContiguous
                      /\ PointersNameObjects /\ PointersAvoidRegisters
  BY SoundHasInvariants
<1>4. QED
  BY <1>1, <1>2, <1>3, PTL DEF Spec

(* evaluator.h:512-629, memorylayout.h: the layout, the cells and the names
   stay well-formed. *)
THEOREM TypeCorrect == ForeignArguments = FALSE => (Spec => []TypeOK)
BY MemoryStaysSound, PTL

(* memorylayout.h:129-209: threads and frames share out all segments, in
   order and without a gap. *)
THEOREM LayoutIsKept == ForeignArguments = FALSE => (Spec => []SegmentsAreContiguous)
BY MemoryStaysSound, PTL

(* explicitstore.h:136-152: renumbering keeps every pointer to a live
   segment on that segment. *)
THEOREM PointersKeepTheirObjects == ForeignArguments = FALSE => (Spec => []PointersNameObjects)
BY MemoryStaysSound, PTL

(* explicitstore.h:136-152: the pointers that movePointers leaves alone need
   no move, for none of them is to registers. *)
THEOREM NoPointerToRegisters == ForeignArguments = FALSE => (Spec => []PointersAvoidRegisters)
BY MemoryStaysSound, PTL

-----------------------------------------------------------------------------
(* Memory made of objects: the names of the segments are the objects of    *)
(* Objects.  First the frames, as Memory names them: what each step does   *)
(* to them.                                                                *)

(* The number of the i-th segment of frame k of thread t, by b. *)
Place(m, b, t, k, i) == b[t] + FrameEnds(m.segments_in_stack[t])[k - 1] + i

(* q has the names of the segments of frame k of thread t. *)
IsFrame(q, m, b, t, k) ==
  /\ q \in Seq(Nat) /\ Len(q) = m.segments_in_stack[t][k]
  /\ \A i \in 1 .. m.segments_in_stack[t][k] : q[i] = m.segments_mapping[Place(m, b, t, k, i)]

(* X has those of all frames of thread t, F those of all threads. *)
AreThreadFrames(X, m, b, t) ==
  /\ Len(X) = Len(m.segments_in_stack[t])
  /\ \A k \in 1 .. Len(m.segments_in_stack[t]) : IsFrame(X[k], m, b, t, k)

AreFrames(F, m, b) ==
  /\ F \in Seq(Seq(Seq(Nat))) /\ Len(F) = ThreadCount(m)
  /\ \A t \in 1 .. ThreadCount(m) : AreThreadFrames(F[t], m, b, t)

(* the frames as their segments are named, in any state *)
FramesOf(m) ==
  [t \in DOMAIN m.thread_segments |->
     LET own   == m.thread_segments[t]
         width == m.segments_in_stack[t]
         ends  == FrameEnds(width)
     IN  [k \in DOMAIN width |->
            [i \in 1 .. width[k] |-> m.segments_mapping[own[ends[k - 1] + i]]]]]

(* Every place is one of the thread's segments. *)
LEMMA PlaceIs ==
  ASSUME NEW m, NEW b, HasLayout(m), LaidOut(m, b), NEW t \in 1 .. ThreadCount(m),
         NEW k \in 1 .. Len(m.segments_in_stack[t]), NEW i \in 1 .. m.segments_in_stack[t][k]
  PROVE  /\ Place(m, b, t, k, i) \in Nat
         /\ b[t] < Place(m, b, t, k, i) /\ Place(m, b, t, k, i) <= b[t + 1]
         /\ Place(m, b, t, k, i) <= b[ThreadCount(m) + 1]
         /\ Place(m, b, t, k, i) \in 1 .. b[ThreadCount(m) + 1]
         /\ m.thread_segments[t][FrameEnds(m.segments_in_stack[t])[k - 1] + i] = Place(m, b, t, k, i)
         /\ Place(m, b, t, k, i) = FrameStart(m, b, t, k) + (i - 1)
<1> DEFINE own == m.thread_segments[t]
           w == m.segments_in_stack[t]
           e == FrameEnds(w)
           N == ThreadCount(m)
           s == Place(m, b, t, k, i)
<1>1. N \in Nat /\ own \in Seq(Nat) /\ w \in Seq(Nat) /\ Len(own) \in Nat /\ Len(w) \in Nat
  BY LayoutParts
<1>2. /\ b[t + 1] = b[t] + Len(own)
      /\ \A j \in 1 .. Len(own) : own[j] = b[t] + j
      /\ \A j \in 1 .. Len(w) : w[j] > 0
      /\ e[Len(w)] = Len(own)
  BY DEF LaidOut
<1>3. b[t] \in Nat /\ b[t + 1] <= b[N + 1] /\ b[t + 1] \in Nat /\ b[N + 1] \in Nat
  <2>1. t + 1 \in 1 .. N + 1 /\ t \in 1 .. N + 1 /\ N + 1 \in 1 .. N + 1
    BY <1>1
  <2>2. QED
    BY <2>1, ThreadsAscend
<1>4. /\ \A j \in 0 .. Len(w) : e[j] \in Nat
      /\ \A j \in 1 .. Len(w) : e[j] = e[j - 1] + w[j]
  BY <1>1, FrameEndsAddUp
<1>5. \A j, l \in 0 .. Len(w) : j < l => e[j] < e[l]
  BY <1>1, <1>2, FrameEndsGrow
<1>6. s = b[t] + e[k - 1] + i /\ FrameStart(m, b, t, k) = b[t] + e[k - 1] + 1
  BY DEF Place, FrameStart
<1>7. k \in 1 .. Len(w) /\ i \in 1 .. w[k]
  OBVIOUS
<1> HIDE DEF own, w, e, N, s
<1>8. k \in 0 .. Len(w) /\ k - 1 \in 0 .. Len(w) /\ Len(w) \in 0 .. Len(w) /\ k <= Len(w) /\ w[k] \in Nat
  BY <1>1, <1>7
<1>9. e[k] <= Len(own) /\ e[k] = e[k - 1] + w[k] /\ e[k - 1] \in Nat /\ e[k] \in Nat
  <2>1. e[k] = e[k - 1] + w[k]
    BY <1>4, <1>7
  <2>2. e[k - 1] \in Nat /\ e[k] \in Nat /\ e[Len(w)] \in Nat
    BY <1>4, <1>8
  <2>3. k < Len(w) => e[k] < e[Len(w)]
    BY <1>5, <1>8
  <2>4. k = Len(w) \/ k < Len(w)
    BY <1>1, <1>7
  <2>5. e[k] <= e[Len(w)]
    BY <2>2, <2>3, <2>4
  <2>6. QED
    BY <1>2, <2>1, <2>2, <2>5
<1>10. i \in Nat /\ 0 < i /\ i <= w[k]
  BY <1>7, <1>8
<1> DEFINE a == e[k - 1]
           z == b[t]
           n == Len(own)
<1>11. a \in Nat /\ z \in Nat /\ n \in Nat /\ a + w[k] <= n /\ b[t + 1] = z + n /\ s = z + a + i
  BY <1>1, <1>2, <1>3, <1>6, <1>9
<1>12. own[e[k - 1] + i] = z + (a + i)
  <2> HIDE DEF a
  <2>1. a + i \in 1 .. n
    <3> DEFINE y == w[k]
    <3>1. /\ a \in Nat /\ n \in Nat /\ y \in Nat /\ a + y <= n
          /\ i \in Nat /\ 0 < i /\ i <= y
      BY <1>8, <1>10, <1>11
    <3> HIDE DEF n, y, z
    <3>2. a + i \in Nat /\ 1 <= a + i /\ a + i <= a + y
      BY <3>1
    <3>3. a + i <= n
      BY <3>1, <3>2
    <3>4. QED
      BY <3>1, <3>2, <3>3
  <2>2. QED
    BY <1>2, <2>1 DEF a
<1>13. s \in Nat /\ b[t] < s /\ s <= b[t + 1] /\ own[e[k - 1] + i] = s
  <2> HIDE DEF a, z, n
  <2>1. s \in Nat /\ z < s /\ s <= z + n /\ z + (a + i) = s
    BY <1>8, <1>10, <1>11
  <2>2. QED
    BY <1>11, <1>12, <2>1 DEF z
<1>14. s <= b[N + 1] /\ s \in 1 .. b[N + 1]
  BY <1>3, <1>13
<1>15. s = FrameStart(m, b, t, k) + (i - 1)
  BY <1>3, <1>6, <1>9, <1>10, SMTT(30)
<1>16. QED
  BY <1>13, <1>14, <1>15 DEF s, own, e, w, N

(* The frames have the names of their segments. *)
LEMMA FramesAre ==
  ASSUME NEW m, Sound(m), NEW b, LaidOut(m, b), b[ThreadCount(m) + 1] = Len(m.explicitData)
  PROVE  AreFrames(FramesOf(m), m, b)
<1> DEFINE N == ThreadCount(m)
           M == m.segments_mapping
           W == m.segments_in_stack
           F == FramesOf(m)
<1>1. HasLayout(m) /\ m \in MemoryState /\ StoresAgree(m)
  BY DEF Sound
<1>2. /\ N \in Nat /\ DOMAIN m.thread_segments = 1 .. N
      /\ \A t \in 1 .. N : W[t] \in Seq(Nat) /\ Len(W[t]) \in Nat /\ DOMAIN W[t] = 1 .. Len(W[t])
  BY <1>1, LayoutParts
<1>3. M \in Seq(1 .. MaxNames) /\ Len(M) = Len(m.explicitData) /\ Len(M) \in Nat
  BY <1>1, StateTypes DEF StoresAgree
<1> DEFINE G(t) == [k \in 1 .. Len(W[t]) |->
                      [i \in 1 .. W[t][k] |-> M[m.thread_segments[t][FrameEnds(W[t])[k - 1] + i]]]]
<1>4. F = [t \in 1 .. N |-> G(t)]
  BY <1>2 DEF FramesOf
<1>5. ASSUME NEW t \in 1 .. N, NEW k \in 1 .. Len(W[t])
      PROVE  G(t)[k] \in Seq(Nat) /\ IsFrame(G(t)[k], m, b, t, k)
  <2> DEFINE g == [i \in 1 .. W[t][k] |-> M[m.thread_segments[t][FrameEnds(W[t])[k - 1] + i]]]
  <2>1. G(t)[k] = g
    BY <1>5
  <2>2. W[t][k] \in Nat
    <3> DEFINE w == W[t]
    <3>1. w \in Seq(Nat) /\ k \in 1 .. Len(w)
      BY <1>2, <1>5
    <3> HIDE DEF w
    <3>2. w[k] \in Nat
      BY <3>1
    <3>3. QED
      BY <3>2 DEF w
  <2>3. \A i \in 1 .. W[t][k] : g[i] = M[Place(m, b, t, k, i)]
    BY <1>1, <1>5, PlaceIs
  <2>4. \A i \in 1 .. W[t][k] : M[Place(m, b, t, k, i)] \in Nat
    <3>1. TAKE i \in 1 .. W[t][k]
    <3>2. Place(m, b, t, k, i) \in 1 .. Len(M)
      BY <1>1, <1>3, <1>5, PlaceIs
    <3>3. \A s \in 1 .. Len(M) : M[s] \in 1 .. MaxNames
      <4> DEFINE T == 1 .. MaxNames
      <4>1. M \in Seq(T)
        BY <1>3
      <4> HIDE DEF M, T
      <4>2. \A s \in 1 .. Len(M) : M[s] \in T
        BY <4>1
      <4>3. QED
        BY <4>2 DEF T
    <3>4. M[Place(m, b, t, k, i)] \in 1 .. MaxNames
      BY <3>2, <3>3
    <3>5. QED
      BY <3>4, SegmentRangeAssumption
  <2>5. g \in [1 .. W[t][k] -> Nat]
    BY <2>3, <2>4
  <2>6. g \in Seq(Nat) /\ Len(g) = W[t][k]
    <3> DEFINE x == W[t][k]
    <3>1. x \in Nat /\ g \in [1 .. x -> Nat]
      BY <2>2, <2>5
    <3> HIDE DEF g, x
    <3>2. g \in Seq(Nat) /\ Len(g) = x
      BY <3>1, FunctionAsSequence
    <3>3. QED
      BY <3>2 DEF x
  <2>7. QED
    BY <2>1, <2>3, <2>6 DEF IsFrame
<1>6. ASSUME NEW t \in 1 .. N
      PROVE  G(t) \in Seq(Seq(Nat)) /\ Len(G(t)) = Len(W[t])
  <2> DEFINE T == Seq(Nat)
             g == G(t)
             x == Len(W[t])
  <2>1. g \in [1 .. x -> T] /\ x \in Nat
    BY <1>2, <1>5, <1>6
  <2> HIDE DEF T, g, x
  <2>2. g \in Seq(T) /\ Len(g) = x
    BY <2>1, FunctionAsSequence
  <2>3. QED
    BY <2>2 DEF T, g, x
<1> HIDE DEF G
<1>7. F \in [1 .. N -> Seq(Seq(Nat))]
  BY <1>4, <1>6
<1>8. F \in Seq(Seq(Seq(Nat))) /\ Len(F) = N
  BY <1>2, <1>7, FunctionAsSequence
<1>9. \A t \in 1 .. N : F[t] = G(t)
  BY <1>4
<1>10. ASSUME NEW t \in 1 .. N
       PROVE  Len(F[t]) = Len(W[t]) /\ \A k \in 1 .. Len(W[t]) : IsFrame(F[t][k], m, b, t, k)
  <2>1. F[t] = G(t)
    BY <1>9, <1>10
  <2>2. QED
    BY <1>5, <1>6, <1>10, <2>1
<1>11. QED
  BY <1>8, <1>10 DEF AreFrames, AreThreadFrames

(* They are determined by that. *)
LEMMA SameFrames ==
  ASSUME NEW m, NEW b, NEW F, AreFrames(F, m, b), NEW G, AreFrames(G, m, b)
  PROVE  F = G
<1> DEFINE N == ThreadCount(m)
           W == m.segments_in_stack
<1>1. /\ F \in Seq(Seq(Seq(Nat))) /\ G \in Seq(Seq(Seq(Nat))) /\ Len(F) = N /\ Len(G) = N
  BY DEF AreFrames, AreThreadFrames
<1>2. ASSUME NEW t \in 1 .. N PROVE F[t] = G[t]
  <2>1. F[t] \in Seq(Seq(Nat)) /\ G[t] \in Seq(Seq(Nat))
    <3> HIDE DEF N
    <3>1. QED
      BY <1>1, <1>2
  <2>2. Len(F[t]) = Len(W[t]) /\ Len(G[t]) = Len(W[t])
    BY <1>2 DEF AreFrames, AreThreadFrames
  <2>3. ASSUME NEW k \in 1 .. Len(W[t]) PROVE F[t][k] = G[t][k]
    <3>1. IsFrame(F[t][k], m, b, t, k) /\ IsFrame(G[t][k], m, b, t, k)
      BY <1>2, <2>3 DEF AreFrames, AreThreadFrames
    <3> DEFINE p == F[t][k]
               q == G[t][k]
    <3> HIDE DEF p, q
    <3>2. IsFrame(p, m, b, t, k) /\ IsFrame(q, m, b, t, k)
      BY <3>1 DEF p, q
    <3>3. p \in Seq(Nat) /\ q \in Seq(Nat) /\ Len(p) = Len(q) /\ \A i \in 1 .. Len(p) : p[i] = q[i]
      BY <3>2 DEF IsFrame
    <3>4. p = q
      BY <3>3, SameSequence
    <3>5. QED
      BY <3>4 DEF p, q
  <2> HIDE DEF W
  <2>4. QED
    BY <2>1, <2>2, <2>3, SameSequence
<1> HIDE DEF N
<1>3. QED
  BY <1>1, <1>2, SameSequence

(* the segments of a frame keep their names *)
NamesKept(m, b, q, c, t, k) ==
  \A i \in 1 .. m.segments_in_stack[t][k] :
    q.segments_mapping[Place(q, c, t, k, i)] = m.segments_mapping[Place(m, b, t, k, i)]

(* A segment put in behind the segments of a thread leaves the others their names. *)
LEMMA PlacesUp ==
  ASSUME NEW m, Sound(m), NEW b, LaidOut(m, b), b[ThreadCount(m) + 1] = Len(m.explicitData),
         NEW tid \in 1 .. ThreadCount(m), NEW w, w = b[tid + 1] + 1, NEW q, NamesUp(m, q, w),
         NEW t \in 1 .. ThreadCount(m), NEW k \in 1 .. Len(m.segments_in_stack[t]),
         FrameEnds(q.segments_in_stack[t])[k - 1] = FrameEnds(m.segments_in_stack[t])[k - 1]
  PROVE  NamesKept(m, b, q, Shifted(m, b, tid, 1), t, k)
<1> SUFFICES \A i \in 1 .. m.segments_in_stack[t][k] :
               q.segments_mapping[Place(q, Shifted(m, b, tid, 1), t, k, i)]
                 = m.segments_mapping[Place(m, b, t, k, i)]
  BY DEF NamesKept
<1> TAKE i \in 1 .. m.segments_in_stack[t][k]
<1> DEFINE N == ThreadCount(m)
           s == Place(m, b, t, k, i)
           r == Place(q, Shifted(m, b, tid, 1), t, k, i)
           e == FrameEnds(m.segments_in_stack[t])[k - 1]
<1>1. HasLayout(m)
  BY DEF Sound
<1>2. /\ s \in Nat /\ b[t] < s /\ s <= b[t + 1] /\ s \in 1 .. Len(m.explicitData)
  BY <1>1, PlaceIs
<1>3. s = b[t] + e + i /\ r = Shifted(m, b, tid, 1)[t] + e + i
  BY DEF Place
<1>4. N \in Nat /\ \A j \in 1 .. N : Len(m.segments_in_stack[j]) \in Nat /\ m.segments_in_stack[j] \in Seq(Nat)
  BY <1>1, LayoutParts
<1>5. e \in Nat
  <2>1. k - 1 \in 0 .. Len(m.segments_in_stack[t])
    BY <1>4
  <2>2. QED
    BY <1>4, <2>1, FrameEndsAddUp
<1>6. i \in Nat
  <2> DEFINE v == m.segments_in_stack[t]
  <2>1. v \in Seq(Nat) /\ k \in 1 .. Len(v) /\ i \in 1 .. v[k]
    BY <1>4
  <2> HIDE DEF v
  <2>2. v[k] \in Nat
    BY <2>1, SMTT(30)
  <2>3. QED
    BY <2>1, <2>2
<1>7. /\ \A j \in 1 .. N + 1 : b[j] \in Nat
      /\ \A j, l \in 1 .. N + 1 : j < l => b[j] < b[l]
  BY <1>1, ThreadsAscend
<1>8. Shifted(m, b, tid, 1)[t] = IF t <= tid THEN b[t] ELSE b[t] + 1
  <2>1. t \in 1 .. N + 1
    BY <1>4
  <2>2. QED
    BY <2>1 DEF Shifted
<1> HIDE DEF N, s, r, e
<1>9. t \in 1 .. N + 1 /\ tid + 1 \in 1 .. N + 1 /\ t + 1 \in 1 .. N + 1
  BY <1>4, SMTT(30) DEF N
<1>10. CASE t <= tid
  <2>1. t + 1 = tid + 1 \/ t + 1 < tid + 1
    BY <1>4, <1>10 DEF N
  <2>2. b[t + 1] <= b[tid + 1]
    BY <1>7, <1>9, <2>1
  <2>3. s < w
    BY <1>2, <1>7, <1>9, <2>2
  <2>4. r = s
    BY <1>3, <1>8, <1>10
  <2>5. Up(w, s) = s
    BY <2>3 DEF Up
  <2>6. QED
    BY <1>2, <2>4, <2>5 DEF NamesUp, r, s
<1>11. CASE t > tid
  <2>1. tid + 1 = t \/ tid + 1 < t
    BY <1>4, <1>11 DEF N
  <2>2. b[tid + 1] <= b[t]
    BY <1>7, <1>9, <2>1
  <2>3. ~ s < w
    BY <1>2, <1>7, <1>9, <2>2
  <2>4. r = s + 1
    <3>1. Shifted(m, b, tid, 1)[t] = b[t] + 1
      BY <1>4, <1>8, <1>11 DEF N
    <3> DEFINE z == b[t]
    <3>2. z \in Nat /\ s = z + e + i /\ r = (z + 1) + e + i
      BY <1>3, <1>7, <1>9, <3>1
    <3> HIDE DEF z
    <3>3. QED
      BY <1>5, <1>6, <3>2
  <2>5. Up(w, s) = s + 1
    BY <2>3 DEF Up
  <2>6. QED
    BY <1>2, <2>4, <2>5 DEF NamesUp, r, s
<1>12. t <= tid \/ t > tid
  BY <1>4 DEF N
<1>13. QED
  BY <1>10, <1>11, <1>12

(* So a frame with as many segments as before keeps their names. *)
LEMMA FrameKeptUp ==
  ASSUME NEW m, Sound(m), NEW b, LaidOut(m, b), b[ThreadCount(m) + 1] = Len(m.explicitData),
         NEW tid \in 1 .. ThreadCount(m), NEW w, w = b[tid + 1] + 1, NEW q, NamesUp(m, q, w),
         NEW t \in 1 .. ThreadCount(m), NEW k \in 1 .. Len(m.segments_in_stack[t]),
         FrameEnds(q.segments_in_stack[t])[k - 1] = FrameEnds(m.segments_in_stack[t])[k - 1],
         q.segments_in_stack[t][k] = m.segments_in_stack[t][k],
         NEW x, IsFrame(x, m, b, t, k)
  PROVE  IsFrame(x, q, Shifted(m, b, tid, 1), t, k)
<1>1. NamesKept(m, b, q, Shifted(m, b, tid, 1), t, k)
  BY PlacesUp
<1>2. QED
  BY <1>1 DEF IsFrame, NamesKept

(* So do all frames of a thread that is as it was. *)
LEMMA ThreadKeptUp ==
  ASSUME NEW m, Sound(m), NEW b, LaidOut(m, b), b[ThreadCount(m) + 1] = Len(m.explicitData),
         NEW tid \in 1 .. ThreadCount(m), NEW w, w = b[tid + 1] + 1, NEW q, NamesUp(m, q, w),
         NEW t \in 1 .. ThreadCount(m), q.segments_in_stack[t] = m.segments_in_stack[t],
         NEW X, AreThreadFrames(X, m, b, t)
  PROVE  AreThreadFrames(X, q, Shifted(m, b, tid, 1), t)
<1>1. ASSUME NEW k \in 1 .. Len(m.segments_in_stack[t])
      PROVE  IsFrame(X[k], q, Shifted(m, b, tid, 1), t, k)
  <2>1. IsFrame(X[k], m, b, t, k)
    BY <1>1 DEF AreThreadFrames
  <2>2. /\ FrameEnds(q.segments_in_stack[t])[k - 1] = FrameEnds(m.segments_in_stack[t])[k - 1]
        /\ q.segments_in_stack[t][k] = m.segments_in_stack[t][k]
    OBVIOUS
  <2>3. QED
    BY <1>1, <2>1, <2>2, FrameKeptUp
<1>2. QED
  BY <1>1 DEF AreThreadFrames

(* What is appended to the widths does not move the ends before it. *)
LEMMA EndsBefore ==
  ASSUME NEW u \in Seq(Nat), NEW v \in Seq(Nat), NEW n \in Nat, n <= Len(u), n <= Len(v),
         \A k \in 1 .. n : v[k] = u[k]
  PROVE  /\ \A k \in 0 .. n : FrameEnds(v)[k] = FrameEnds(u)[k]
         /\ \A k \in 1 .. n : FrameEnds(v)[k - 1] = FrameEnds(u)[k - 1]
<1>1. \A k \in 0 .. n : FrameEnds(v)[k] = FrameEnds(u)[k]
  BY FrameEndsAgree
<1>2. \A k \in 1 .. n : k - 1 \in 0 .. n
  OBVIOUS
<1>3. QED
  BY <1>1, <1>2

(* enterFunction: one frame more, of one segment. *)
LEMMA FramesEntered ==
  ASSUME NEW m, Sound(m), NEW b, LaidOut(m, b), b[ThreadCount(m) + 1] = Len(m.explicitData),
         NEW tid \in 1 .. ThreadCount(m), NEW w, w = b[tid + 1] + 1, NEW q, NamesUp(m, q, w),
         StacksEntered(m, q, tid), m.fst_unused_id \in Nat,
         NEW F, AreFrames(F, m, b)
  PROVE  AreFrames([F EXCEPT ![tid] = Append(@, <<m.fst_unused_id>>)], q, Shifted(m, b, tid, 1))
<1> DEFINE N == ThreadCount(m)
           W == m.segments_in_stack
           V == q.segments_in_stack
           f == m.fst_unused_id
           n == Len(W[tid])
           c == Shifted(m, b, tid, 1)
           G == [F EXCEPT ![tid] = Append(@, <<f>>)]
           SS == Seq(Seq(Nat))
<1>1. HasLayout(m)
  BY DEF Sound
<1>2. /\ N \in Nat /\ W \in Seq(Seq(Nat)) /\ Len(W) = N
      /\ \A t \in 1 .. N : W[t] \in Seq(Nat) /\ Len(W[t]) \in Nat
  BY <1>1, LayoutParts DEF HasLayout
<1>3. /\ F \in Seq(SS) /\ Len(F) = N
      /\ \A t \in 1 .. N : AreThreadFrames(F[t], m, b, t)
  BY DEF AreFrames
<1>4. /\ V[tid] = Append(W[tid], 1) /\ \A t \in 1 .. N : t # tid => V[t] = W[t]
      /\ ThreadCount(q) = N
  BY DEF StacksEntered, OtherStacks
<1>5. FrameEnds(W[tid])[n] = Len(m.thread_segments[tid]) /\ b[tid + 1] = b[tid] + Len(m.thread_segments[tid])
  BY DEF LaidOut
<1>6. b[tid] \in Nat /\ Len(m.thread_segments[tid]) \in Nat /\ c[tid] = b[tid]
  <2>1. tid \in 1 .. N + 1
    BY <1>2
  <2>2. b[tid] \in Nat /\ Len(m.thread_segments[tid]) \in Nat
    BY <1>1, <2>1, ThreadsAscend, LayoutParts
  <2>3. c[tid] = b[tid]
    BY <1>2, <2>1 DEF Shifted
  <2>4. QED
    BY <2>2, <2>3
<1>7. tid \in 1 .. N
  OBVIOUS
<1> HIDE DEF N, W, V, f, c, SS, n
<1>8. /\ Append(W[tid], 1) \in Seq(Nat) /\ Len(Append(W[tid], 1)) = Len(W[tid]) + 1
      /\ \A k \in 1 .. Len(W[tid]) : Append(W[tid], 1)[k] = W[tid][k]
      /\ Append(W[tid], 1)[Len(W[tid]) + 1] = 1
  BY <1>2, <1>7, Appending
<1>9. \A k \in 0 .. n : FrameEnds(V[tid])[k] = FrameEnds(W[tid])[k]
  <2> DEFINE v == V[tid]
             w1 == W[tid]
  <2>1. /\ v \in Seq(Nat) /\ w1 \in Seq(Nat) /\ n \in Nat /\ n <= Len(v) /\ n <= Len(w1)
        /\ \A k \in 1 .. n : v[k] = w1[k]
    BY <1>2, <1>4, <1>7, <1>8 DEF n
  <2> HIDE DEF v, w1
  <2>2. \A k \in 0 .. n : FrameEnds(v)[k] = FrameEnds(w1)[k]
    BY <2>1, EndsBefore
  <2>3. QED
    BY <2>2 DEF v, w1
<1>10. F[tid] \in SS /\ <<f>> \in Seq(Nat)
  <2>1. f \in Nat
    BY DEF f
  <2>2. QED
    BY <1>3, <1>7, <2>1
<1>11. /\ Append(F[tid], <<f>>) \in SS /\ Len(Append(F[tid], <<f>>)) = n + 1
       /\ \A k \in 1 .. n : Append(F[tid], <<f>>)[k] = F[tid][k]
       /\ Append(F[tid], <<f>>)[n + 1] = <<f>>
  <2>1. F[tid] \in Seq(Seq(Nat)) /\ Len(F[tid]) = n
    BY <1>3, <1>7, <1>10 DEF SS, n, AreThreadFrames, W
  <2>2. QED
    BY <1>10, <2>1, Appending DEF SS
<1>12. /\ G \in Seq(SS) /\ Len(G) = N /\ G[tid] = Append(F[tid], <<f>>)
       /\ \A t \in 1 .. N : t # tid => G[t] = F[t]
  BY <1>3, <1>7, <1>11
<1> HIDE DEF G
<1>13. ASSUME NEW t \in 1 .. N, t # tid PROVE AreThreadFrames(G[t], q, c, t)
  <2>1. G[t] = F[t] /\ V[t] = W[t] /\ AreThreadFrames(F[t], m, b, t)
    BY <1>3, <1>4, <1>12, <1>13
  <2>2. AreThreadFrames(F[t], q, Shifted(m, b, tid, 1), t)
    BY <1>13, <2>1, ThreadKeptUp DEF N, V, W
  <2>3. QED
    BY <2>1, <2>2 DEF c
<1>14. AreThreadFrames(G[tid], q, c, tid)
  <2>1. Len(G[tid]) = n + 1 /\ Len(V[tid]) = n + 1 /\ n \in Nat
    BY <1>2, <1>4, <1>7, <1>8, <1>11, <1>12 DEF n
  <2>2. ASSUME NEW k \in 1 .. n PROVE IsFrame(G[tid][k], q, c, tid, k)
    <3>1. IsFrame(F[tid][k], m, b, tid, k) /\ G[tid][k] = F[tid][k] /\ V[tid][k] = W[tid][k]
      BY <1>3, <1>4, <1>7, <1>8, <1>11, <1>12, <2>2 DEF n, AreThreadFrames, W
    <3>2. k - 1 \in 0 .. n /\ k \in 1 .. Len(W[tid])
      BY <2>1, <2>2 DEF n
    <3>3. FrameEnds(V[tid])[k - 1] = FrameEnds(W[tid])[k - 1]
      BY <1>9, <3>2
    <3>4. IsFrame(F[tid][k], q, Shifted(m, b, tid, 1), tid, k)
      BY <1>7, <3>1, <3>2, <3>3, FrameKeptUp DEF N, V, W
    <3>5. QED
      BY <3>1, <3>4 DEF c
  <2>3. IsFrame(G[tid][n + 1], q, c, tid, n + 1)
    <3>1. G[tid][n + 1] = <<f>> /\ V[tid][n + 1] = 1
      BY <1>4, <1>8, <1>11, <1>12 DEF n
    <3>2. n \in 0 .. n /\ (n + 1) - 1 = n
      BY <2>1
    <3>3. FrameEnds(V[tid])[(n + 1) - 1] = Len(m.thread_segments[tid])
      BY <1>5, <1>9, <3>2 DEF W
    <3>4. Place(q, c, tid, n + 1, 1) = w
      <4>1. Place(q, c, tid, n + 1, 1) = c[tid] + FrameEnds(V[tid])[(n + 1) - 1] + 1
        BY DEF Place, V
      <4>2. QED
        BY <1>5, <1>6, <3>3, <4>1
    <3>5. q.segments_mapping[w] = f
      BY DEF NamesUp, f
    <3>6. <<f>> \in Seq(Nat) /\ Len(<<f>>) = 1 /\ <<f>>[1] = f /\ \A i \in 1 .. 1 : i = 1
      BY <1>10
    <3>7. QED
      BY <3>1, <3>4, <3>5, <3>6 DEF IsFrame, V
  <2>4. \A k \in 1 .. n + 1 : k \in 1 .. n \/ k = n + 1
    BY <2>1
  <2>5. QED
    BY <2>1, <2>2, <2>3, <2>4 DEF AreThreadFrames, V
<1>15. \A t \in 1 .. N : AreThreadFrames(G[t], q, c, t)
  BY <1>13, <1>14
<1>17. AreFrames(G, q, c)
  BY <1>4, <1>12, <1>15 DEF AreFrames, SS
<1>18. QED
  BY <1>17 DEF G, c, f

(* do_alloca: the last frame of the thread has one segment more. *)
LEMMA FramesAllocated ==
  ASSUME NEW m, Sound(m), NEW b, LaidOut(m, b), b[ThreadCount(m) + 1] = Len(m.explicitData),
         NEW tid \in 1 .. ThreadCount(m), NEW w, w = b[tid + 1] + 1, NEW q, NamesUp(m, q, w),
         StacksWidened(m, q, tid), m.fst_unused_id \in Nat,
         NEW F, AreFrames(F, m, b)
  PROVE  AreFrames([F EXCEPT ![tid] = Append(Front(@), Append(Last(@), m.fst_unused_id))], q,
                   Shifted(m, b, tid, 1))
<1> DEFINE N == ThreadCount(m)
           W == m.segments_in_stack
           V == q.segments_in_stack
           f == m.fst_unused_id
           n == Len(W[tid])
           c == Shifted(m, b, tid, 1)
           X == F[tid]
           u == W[tid]
           v == V[tid]
           Z == Append(Front(X), Append(Last(X), f))
           G == [F EXCEPT ![tid] = Append(Front(@), Append(Last(@), f))]
           SS == Seq(Seq(Nat))
<1>1. HasLayout(m)
  BY DEF Sound
<1>2. /\ N \in Nat /\ W \in Seq(Seq(Nat)) /\ Len(W) = N
      /\ \A t \in 1 .. N : W[t] \in Seq(Nat) /\ Len(W[t]) \in Nat
  BY <1>1, LayoutParts DEF HasLayout
<1>3. /\ F \in Seq(SS) /\ Len(F) = N
      /\ \A t \in 1 .. N : AreThreadFrames(F[t], m, b, t)
  BY DEF AreFrames
<1>4. /\ v = Append(Front(u), Last(u) + 1) /\ \A t \in 1 .. N : t # tid => V[t] = W[t]
      /\ ThreadCount(q) = N
  BY DEF StacksWidened, OtherStacks
<1>5. FrameEnds(u)[n] = Len(m.thread_segments[tid]) /\ b[tid + 1] = b[tid] + Len(m.thread_segments[tid])
  BY DEF LaidOut
<1>6. b[tid] \in Nat /\ Len(m.thread_segments[tid]) \in Nat /\ c[tid] = b[tid]
  <2>1. tid \in 1 .. N + 1
    BY <1>2
  <2>2. b[tid] \in Nat /\ Len(m.thread_segments[tid]) \in Nat
    BY <1>1, <2>1, ThreadsAscend, LayoutParts
  <2>3. c[tid] = b[tid]
    BY <1>2, <2>1 DEF Shifted
  <2>4. QED
    BY <2>2, <2>3
<1>7. tid \in 1 .. N /\ G = [F EXCEPT ![tid] = Z] /\ f \in Nat
  OBVIOUS
<1>8. AreThreadFrames(X, m, b, tid) /\ X \in SS /\ u \in Seq(Nat) /\ n > 0 /\ n = Len(u)
  <2>1. n > 0
    BY <1>1, FrameStarts
  <2>2. X \in SS
    <3> HIDE DEF SS
    <3>1. QED
      BY <1>3, <1>7
  <2>3. QED
    BY <1>2, <1>3, <2>1, <2>2
<1>9. Len(X) = n /\ \A k \in 1 .. n : IsFrame(X[k], m, b, tid, k)
  BY <1>8 DEF AreThreadFrames
<1> HIDE DEF N, W, V, f, c, SS, n, u, v, X, Z, G
<1>10. /\ v \in Seq(Nat) /\ Len(v) = n /\ n \in Nat
       /\ \A k \in 1 .. n - 1 : v[k] = u[k]
       /\ v[n] = u[n] + 1 /\ u[n] \in Nat
  <2>1. /\ Len(u) \in Nat \ {0} /\ Last(u) = u[Len(u)] /\ Last(u) \in Nat
        /\ Front(u) \in Seq(Nat) /\ Len(Front(u)) = Len(u) - 1
        /\ \A k \in 1 .. Len(u) - 1 : Front(u)[k] = u[k]
    <3>1. u # << >>
      BY <1>8
    <3>2. QED
      BY <1>8, <3>1, FrontAndLast
  <2> DEFINE p == Front(u)
             x == Last(u) + 1
  <2>2. p \in Seq(Nat) /\ x \in Nat /\ v = Append(p, x) /\ Len(p) = n - 1 /\ n \in Nat \ {0}
    BY <1>4, <1>8, <2>1
  <2> HIDE DEF p, x
  <2>3. /\ v \in Seq(Nat) /\ Len(v) = n
        /\ \A k \in 1 .. n - 1 : v[k] = p[k]
        /\ v[n] = x
    BY <2>2, Appending
  <2>4. QED
    BY <1>8, <2>1, <2>2, <2>3 DEF p, x
<1>11. /\ Z \in SS /\ Len(Z) = n
       /\ \A k \in 1 .. n - 1 : Z[k] = X[k]
       /\ Z[n] = Append(X[n], f) /\ X[n] \in Seq(Nat)
  <2>1. Len(X) \in Nat \ {0} /\ X # << >> /\ X \in Seq(Seq(Nat))
    BY <1>8, <1>9, <1>10 DEF SS
  <2> DEFINE T == Seq(Nat)
  <2>2. X \in Seq(T)
    BY <2>1
  <2> HIDE DEF T
  <2>3. /\ Last(X) = X[Len(X)] /\ Last(X) \in T
        /\ Front(X) \in Seq(T) /\ Len(Front(X)) = Len(X) - 1
        /\ \A k \in 1 .. Len(X) - 1 : Front(X)[k] = X[k]
    BY <2>1, <2>2, FrontAndLast
  <2>4. Append(Last(X), f) \in T
    BY <1>7, <2>3, Appending DEF T
  <2> DEFINE p == Front(X)
             x == Append(Last(X), f)
  <2>5. p \in Seq(T) /\ x \in T /\ Z = Append(p, x) /\ Len(p) = n - 1
    BY <1>9, <2>3, <2>4 DEF Z
  <2> HIDE DEF p, x
  <2>6. /\ Z \in Seq(T) /\ Len(Z) = n
        /\ \A k \in 1 .. n - 1 : Z[k] = p[k]
        /\ Z[n] = x
    BY <1>10, <2>5, Appending
  <2>7. QED
    BY <1>9, <1>10, <2>1, <2>3, <2>6 DEF p, x, T, SS
<1>12. /\ G \in Seq(SS) /\ Len(G) = N /\ G[tid] = Z
       /\ \A t \in 1 .. N : t # tid => G[t] = F[t]
  BY <1>3, <1>7, <1>11
<1>13. ASSUME NEW t \in 1 .. N, t # tid PROVE AreThreadFrames(G[t], q, c, t)
  <2>1. G[t] = F[t] /\ V[t] = W[t] /\ AreThreadFrames(F[t], m, b, t)
    BY <1>3, <1>4, <1>12, <1>13
  <2>2. AreThreadFrames(F[t], q, Shifted(m, b, tid, 1), t)
    BY <1>13, <2>1, ThreadKeptUp DEF N, V, W
  <2>3. QED
    BY <2>1, <2>2 DEF c
<1>14. \A k \in 1 .. n : FrameEnds(v)[k - 1] = FrameEnds(u)[k - 1]
  <2>1. n - 1 \in Nat /\ n - 1 <= Len(u) /\ n - 1 <= Len(v)
    BY <1>8, <1>10
  <2> DEFINE j == n - 1
  <2>2. /\ j \in Nat /\ j <= Len(u) /\ j <= Len(v) /\ \A k \in 1 .. j : v[k] = u[k]
        /\ u \in Seq(Nat) /\ v \in Seq(Nat)
    BY <1>8, <1>10, <2>1
  <2> HIDE DEF j
  <2>3. \A k \in 0 .. j : FrameEnds(v)[k] = FrameEnds(u)[k]
    BY <2>2, EndsBefore
  <2>4. \A k \in 1 .. n : k - 1 \in 0 .. j
    BY <1>10 DEF j
  <2>5. QED
    BY <2>3, <2>4
<1>15. ASSUME NEW k \in 1 .. n - 1 PROVE IsFrame(Z[k], q, c, tid, k)
  <2>1. k \in 1 .. n
    BY <1>10, <1>15
  <2>2. IsFrame(X[k], m, b, tid, k) /\ Z[k] = X[k] /\ v[k] = u[k]
    BY <1>9, <1>10, <1>11, <1>15, <2>1
  <2>3. FrameEnds(v)[k - 1] = FrameEnds(u)[k - 1]
    BY <1>14, <2>1
  <2>4. IsFrame(X[k], q, Shifted(m, b, tid, 1), tid, k)
    BY <1>7, <2>1, <2>2, <2>3, FrameKeptUp DEF N, V, W, n, u, v
  <2>5. QED
    BY <2>2, <2>4 DEF c
<1>16. IsFrame(Z[n], q, c, tid, n)
  <2>1. n \in 1 .. n
    BY <1>8, <1>10
  <2> DEFINE x == X[n]
             y == Z[n]
             d == u[n]
             e == FrameEnds(u)[n - 1]
             o == Len(m.thread_segments[tid])
  <2>2. IsFrame(x, m, b, tid, n) /\ FrameEnds(v)[n - 1] = FrameEnds(u)[n - 1]
    BY <1>9, <1>14, <2>1
  <2>3. NamesKept(m, b, q, c, tid, n)
    BY <1>7, <2>1, <2>2, PlacesUp DEF N, V, W, n, u, v, c
  <2>4. /\ x \in Seq(Nat) /\ Len(x) = d /\ d \in Nat
        /\ \A i \in 1 .. d : x[i] = m.segments_mapping[Place(m, b, tid, n, i)]
        /\ \A i \in 1 .. d : q.segments_mapping[Place(q, c, tid, n, i)]
                               = m.segments_mapping[Place(m, b, tid, n, i)]
    BY <1>10, <2>2, <2>3 DEF IsFrame, NamesKept, u, W
  <2>5. y = Append(x, f) /\ f \in Nat
    BY <1>7, <1>11
  <2> HIDE DEF x, y, d
  <2>6. /\ y \in Seq(Nat) /\ Len(y) = d + 1 /\ y[d + 1] = f
        /\ \A i \in 1 .. d : y[i] = x[i]
    BY <2>4, <2>5, Appending
  <2>7. e \in Nat /\ e + d = o
    <3>1. n - 1 \in 0 .. Len(u) /\ n \in 1 .. Len(u)
      BY <1>8, <1>10
    <3>2. FrameEnds(u)[n] = FrameEnds(u)[n - 1] + u[n] /\ FrameEnds(u)[n - 1] \in Nat
      BY <1>8, <3>1, FrameEndsAddUp
    <3>3. QED
      BY <1>5, <3>2 DEF d
  <2>8. Place(q, c, tid, n, d + 1) = w
    <3>1. Place(q, c, tid, n, d + 1) = c[tid] + FrameEnds(v)[n - 1] + (d + 1)
      BY DEF Place, v, V
    <3> DEFINE z == b[tid]
    <3>2. z \in Nat /\ Place(q, c, tid, n, d + 1) = z + e + (d + 1) /\ w = (z + o) + 1
      BY <1>5, <1>6, <2>2, <3>1
    <3> HIDE DEF e, o, z
    <3>3. QED
      BY <2>4, <2>7, <3>2
  <2>9. q.segments_mapping[w] = f
    BY DEF NamesUp, f
  <2>10. \A i \in 1 .. d + 1 : i \in 1 .. d \/ i = d + 1
    BY <2>4
  <2>11. \A i \in 1 .. d + 1 : y[i] = q.segments_mapping[Place(q, c, tid, n, i)]
    BY <2>4, <2>6, <2>8, <2>9, <2>10
  <2>12. q.segments_in_stack[tid][n] = d + 1
    BY <1>10 DEF v, V, d
  <2>13. IsFrame(y, q, c, tid, n)
    BY <2>6, <2>11, <2>12 DEF IsFrame
  <2>14. QED
    BY <2>13 DEF y
<1>17. AreThreadFrames(G[tid], q, c, tid)
  <2>1. \A k \in 1 .. n : k \in 1 .. n - 1 \/ k = n
    BY <1>10
  <2>2. QED
    BY <1>10, <1>11, <1>12, <1>15, <1>16, <2>1 DEF AreThreadFrames, v, V
<1>18. \A t \in 1 .. N : AreThreadFrames(G[t], q, c, t)
  BY <1>13, <1>17
<1>20. AreFrames(G, q, c)
  BY <1>4, <1>12, <1>18 DEF AreFrames, SS
<1>21. QED
  BY <1>20 DEF G, c, f

(* startThread: one thread more, with a frame of one segment. *)
LEMMA FramesStarted ==
  ASSUME NEW m, Sound(m), NEW b, LaidOut(m, b), b[ThreadCount(m) + 1] = Len(m.explicitData),
         NEW w, w = b[ThreadCount(m) + 1] + 1, NEW q, NamesUp(m, q, w),
         StacksStarted(m, q), m.fst_unused_id \in Nat,
         NEW F, AreFrames(F, m, b)
  PROVE  AreFrames(Append(F, << <<m.fst_unused_id>> >>), q, Extended(m, b))
<1> DEFINE N == ThreadCount(m)
           W == m.segments_in_stack
           V == q.segments_in_stack
           f == m.fst_unused_id
           c == Extended(m, b)
           x == << <<f>> >>
           G == Append(F, x)
           SS == Seq(Seq(Nat))
<1>1. HasLayout(m)
  BY DEF Sound
<1>2. /\ N \in Nat /\ W \in Seq(Seq(Nat)) /\ Len(W) = N
      /\ \A t \in 1 .. N : W[t] \in Seq(Nat) /\ Len(W[t]) \in Nat
  BY <1>1, LayoutParts DEF HasLayout
<1>3. /\ F \in Seq(SS) /\ Len(F) = N
      /\ \A t \in 1 .. N : AreThreadFrames(F[t], m, b, t)
  BY DEF AreFrames
<1>4. V[N + 1] = <<1>> /\ (\A t \in 1 .. N : V[t] = W[t]) /\ ThreadCount(q) = N + 1
  BY DEF StacksStarted
<1>5. f \in Nat
  OBVIOUS
<1>6. c[N + 1] = b[N + 1] /\ \A t \in 1 .. N : c[t] = b[t]
  <2>1. c = [t \in 1 .. N + 2 |-> IF t <= N + 1 THEN b[t] ELSE b[N + 1] + 1]
    BY DEF Extended
  <2> HIDE DEF c, N
  <2>2. \A t \in 1 .. N + 1 : t \in 1 .. N + 2 /\ t <= N + 1
    BY <1>2
  <2>3. N + 1 \in 1 .. N + 1 /\ \A t \in 1 .. N : t \in 1 .. N + 1
    BY <1>2
  <2>4. QED
    BY <2>1, <2>2, <2>3
<1>7. b[N + 1] \in Nat
  <2>1. N + 1 \in 1 .. N + 1
    BY <1>2
  <2>2. QED
    BY <1>1, <2>1, ThreadsAscend
<1>8. x \in SS /\ Len(x) = 1 /\ x[1] = <<f>> /\ <<f>> \in Seq(Nat) /\ Len(<<f>>) = 1 /\ <<f>>[1] = f
  BY <1>5
<1>9. /\ G \in Seq(SS) /\ Len(G) = N + 1
      /\ \A t \in 1 .. N : G[t] = F[t]
      /\ G[N + 1] = x
  <2> HIDE DEF SS, x
  <2>1. QED
    BY <1>3, <1>8, Appending
<1> HIDE DEF N, W, V, f, c, SS, G, x
<1>10. ASSUME NEW t \in 1 .. N PROVE AreThreadFrames(G[t], q, c, t)
  <2>1. G[t] = F[t] /\ V[t] = W[t] /\ AreThreadFrames(F[t], m, b, t)
    BY <1>3, <1>4, <1>9, <1>10
  <2>2. ASSUME NEW k \in 1 .. Len(W[t]) PROVE IsFrame(F[t][k], q, c, t, k)
    <3> DEFINE p == F[t][k]
               d == W[t][k]
    <3>1. IsFrame(p, m, b, t, k)
      BY <2>1, <2>2 DEF AreThreadFrames, W
    <3>2. ASSUME NEW i \in 1 .. d
          PROVE  q.segments_mapping[Place(q, c, t, k, i)] = m.segments_mapping[Place(m, b, t, k, i)]
      <4> DEFINE s == Place(m, b, t, k, i)
      <4>1. s \in 1 .. Len(m.explicitData) /\ s \in Nat /\ s <= b[N + 1]
        BY <1>1, <1>10, <2>2, <3>2, PlaceIs DEF N, W
      <4>2. Place(q, c, t, k, i) = s
        BY <1>6, <1>10, <2>1 DEF Place, V, W
      <4> HIDE DEF s
      <4>3. s < w
        BY <1>7, <4>1 DEF N
      <4>4. Up(w, s) = s
        BY <4>3 DEF Up
      <4>5. QED
        BY <4>1, <4>2, <4>4 DEF NamesUp, s
    <3>3. q.segments_in_stack[t][k] = d
      BY <2>1 DEF V, W
    <3> HIDE DEF p
    <3>4. IsFrame(p, q, c, t, k)
      BY <3>1, <3>2, <3>3 DEF IsFrame, W
    <3>5. QED
      BY <3>4 DEF p
  <2>3. QED
    BY <2>1, <2>2 DEF AreThreadFrames, V, W
<1>11. AreThreadFrames(G[N + 1], q, c, N + 1)
  <2> DEFINE u == V[N + 1]
  <2>1. u = <<1>> /\ u \in Seq(Nat) /\ Len(u) = 1 /\ u[1] = 1
    BY <1>4
  <2> HIDE DEF u
  <2>2. FrameEnds(u)[1 - 1] = 0
    <3>1. FrameEnds(u)[0] = 0
      BY <2>1, FrameEndsAddUp
    <3>2. 1 - 1 = 0
      OBVIOUS
    <3>3. QED
      BY <3>1, <3>2
  <2>3. Place(q, c, N + 1, 1, 1) = w
    <3>1. Place(q, c, N + 1, 1, 1) = c[N + 1] + FrameEnds(u)[1 - 1] + 1
      BY DEF Place, u, V
    <3> DEFINE z == b[N + 1]
    <3>2. z \in Nat /\ Place(q, c, N + 1, 1, 1) = z + 0 + 1 /\ w = z + 1
      BY <1>6, <1>7, <2>2, <3>1 DEF N
    <3> HIDE DEF z
    <3>3. QED
      BY <3>2
  <2>4. q.segments_mapping[w] = f
    BY DEF NamesUp, f
  <2>5. \A i \in 1 .. 1 : i = 1
    OBVIOUS
  <2>6. IsFrame(<<f>>, q, c, N + 1, 1)
    BY <1>8, <2>1, <2>3, <2>4, <2>5 DEF IsFrame, u, V
  <2>7. QED
    BY <1>8, <1>9, <2>1, <2>5, <2>6 DEF AreThreadFrames, u, V
<1>12. \A t \in 1 .. N + 1 : AreThreadFrames(G[t], q, c, t)
  <2>1. \A t \in 1 .. N + 1 : t \in 1 .. N \/ t = N + 1
    BY <1>2
  <2>2. QED
    BY <1>10, <1>11, <2>1
<1>14. AreFrames(G, q, c)
  BY <1>4, <1>9, <1>12 DEF AreFrames, SS
<1>15. QED
  BY <1>14 DEF G, c, f, x

(* the frames whose places stay: those of earlier threads and of the thread
   itself, and those of later threads *)
Below(m, tid, t, k) == t < tid \/ (t = tid /\ k < Len(m.segments_in_stack[tid]))
Above(tid, t)       == t > tid

(* The frame that goes lies between them. *)
LEMMA PlaceBesides ==
  ASSUME NEW m, NEW b, HasLayout(m), LaidOut(m, b), NEW tid \in 1 .. ThreadCount(m),
         NEW lo, NEW hi, IsLastRange(m, tid, lo, hi),
         NEW t \in 1 .. ThreadCount(m), NEW k \in 1 .. Len(m.segments_in_stack[t]),
         NEW i \in 1 .. m.segments_in_stack[t][k]
  PROVE  /\ Below(m, tid, t, k) => Place(m, b, t, k, i) < lo
         /\ Above(tid, t) => Place(m, b, t, k, i) > hi
<1> DEFINE N == ThreadCount(m)
           s == Place(m, b, t, k, i)
           own == m.thread_segments[tid]
           n == Len(m.segments_in_stack[tid])
           e == FrameEnds(m.segments_in_stack[tid])
<1>1. s \in Nat /\ b[t] < s /\ s <= b[t + 1] /\ s = b[t] + FrameEnds(m.segments_in_stack[t])[k - 1] + i
  BY PlaceIs DEF Place
<1>2. /\ lo \in Nat /\ hi \in Nat /\ lo <= hi
      /\ hi = b[tid + 1] /\ b[tid] < lo /\ e[n - 1] = Len(own) - (hi + 1 - lo)
  BY LastRangeBounds
<1>3. N \in Nat /\ m.segments_in_stack[tid] \in Seq(Nat) /\ n \in Nat /\ Len(own) \in Nat
      /\ m.segments_in_stack[t] \in Seq(Nat)
  BY LayoutParts
<1>4. /\ \A j \in 1 .. N + 1 : b[j] \in Nat
      /\ \A j, l \in 1 .. N + 1 : j < l => b[j] < b[l]
  BY ThreadsAscend
<1>5. b[tid + 1] = b[tid] + Len(own) /\ \A j \in 1 .. n : m.segments_in_stack[tid][j] > 0
  BY DEF LaidOut
<1>6. i \in Nat /\ i <= m.segments_in_stack[t][k] /\ m.segments_in_stack[t][k] \in Nat
  <2> DEFINE v == m.segments_in_stack[t]
  <2>1. v \in Seq(Nat) /\ k \in 1 .. Len(v) /\ i \in 1 .. v[k]
    BY <1>3
  <2> HIDE DEF v
  <2>2. v[k] \in Nat
    BY <2>1
  <2>3. i \in Nat /\ i <= v[k] /\ v[k] \in Nat
    BY <2>1, <2>2
  <2>4. QED
    BY <2>3 DEF v
<1>7. t \in 1 .. N /\ tid \in 1 .. N
  OBVIOUS
<1>k. t = tid => k \in 1 .. n
  OBVIOUS
<1> HIDE DEF N, s, own
<1>8. t \in 1 .. N + 1 /\ tid + 1 \in 1 .. N + 1 /\ t + 1 \in 1 .. N + 1 /\ tid \in 1 .. N + 1
  BY <1>3, <1>7
<1>9. ASSUME t < tid PROVE s < lo
  <2>1. t + 1 = tid \/ t + 1 < tid
    BY <1>3, <1>7, <1>9
  <2>2. b[t + 1] <= b[tid]
    BY <1>4, <1>8, <2>1
  <2> DEFINE x == b[t + 1]
             y == b[tid]
  <2>3. x \in Nat /\ y \in Nat /\ x <= y /\ s <= x /\ y < lo
    BY <1>1, <1>2, <1>4, <1>8, <2>2
  <2> HIDE DEF x, y
  <2>4. QED
    BY <1>1, <1>2, <2>3
<1>10. ASSUME t > tid PROVE s > hi
  <2>1. tid + 1 = t \/ tid + 1 < t
    BY <1>3, <1>7, <1>10
  <2>2. b[tid + 1] <= b[t]
    BY <1>4, <1>8, <2>1
  <2> DEFINE x == b[t]
             y == b[tid + 1]
  <2>3. x \in Nat /\ y \in Nat /\ y <= x /\ x < s /\ hi = y
    BY <1>1, <1>2, <1>4, <1>8, <2>2
  <2> HIDE DEF x, y
  <2>4. QED
    BY <1>1, <1>2, <2>3
<1>11. ASSUME t = tid, k < n PROVE s < lo
  <2> DEFINE u == m.segments_in_stack[tid]
  <2>1. u \in Seq(Nat) /\ k \in 1 .. Len(u) /\ k < Len(u) /\ Len(u) \in Nat /\ Len(u) = n
    BY <1>3, <1>k, <1>11
  <2>2. \A j, l \in 0 .. Len(u) : j < l => e[j] < e[l]
    BY <1>3, <1>5, FrameEndsGrow
  <2>3. /\ \A j \in 0 .. Len(u) : e[j] \in Nat
        /\ \A j \in 1 .. Len(u) : e[j] = e[j - 1] + u[j]
    BY <1>3, FrameEndsAddUp
  <2>4. s = b[tid] + e[k - 1] + i /\ i \in Nat /\ i <= u[k] /\ u[k] \in Nat
    BY <1>1, <1>6, <1>11
  <2> HIDE DEF e, u, n
  <2>5. k - 1 \in 0 .. Len(u) /\ k \in 0 .. Len(u) /\ n - 1 \in 0 .. Len(u)
    BY <2>1
  <2>6. e[k] = e[k - 1] + u[k] /\ e[k - 1] \in Nat /\ e[k] \in Nat /\ e[n - 1] \in Nat
    BY <2>1, <2>3, <2>5
  <2>7. k = n - 1 \/ k < n - 1
    BY <2>1
  <2>8. e[k] <= e[n - 1]
    BY <2>2, <2>5, <2>6, <2>7
  <2> DEFINE x == e[k - 1]
             y == e[k]
             l == e[n - 1]
             z == b[tid]
             o == Len(own)
             d == u[k]
  <2>9. /\ x \in Nat /\ y \in Nat /\ l \in Nat /\ z \in Nat /\ o \in Nat /\ d \in Nat
        /\ y = x + d /\ y <= l /\ l = o - (hi + 1 - lo) /\ hi = z + o /\ s = z + x + i
    BY <1>2, <1>3, <1>4, <1>5, <1>8, <2>4, <2>6, <2>8
  <2>10. i \in Nat /\ i <= d
    BY <2>4
  <2> HIDE DEF x, y, l, z, o, d
  <2>11. QED
    BY <1>2, <2>9, <2>10
<1>12. QED
  BY <1>9, <1>10, <1>11 DEF Below, Above, s, n

(* A frame that stays keeps them, as frame k of thread r. *)
LEMMA FrameKeptDown ==
  ASSUME NEW m, Sound(m), NEW b, LaidOut(m, b), b[ThreadCount(m) + 1] = Len(m.explicitData),
         NEW tid \in 1 .. ThreadCount(m), NEW lo, NEW hi, IsLastRange(m, tid, lo, hi),
         NEW q, NamesDown(m, q, lo, hi), NEW c,
         NEW t \in 1 .. ThreadCount(m), NEW k \in 1 .. Len(m.segments_in_stack[t]), NEW r,
         \/ Below(m, tid, t, k) /\ c[r] = b[t]
         \/ Above(tid, t) /\ c[r] = b[t] - (hi + 1 - lo),
         FrameEnds(q.segments_in_stack[r])[k - 1] = FrameEnds(m.segments_in_stack[t])[k - 1],
         q.segments_in_stack[r][k] = m.segments_in_stack[t][k],
         NEW x, IsFrame(x, m, b, t, k)
  PROVE  IsFrame(x, q, c, r, k)
<1> DEFINE w == m.segments_in_stack[t]
           e == FrameEnds(w)[k - 1]
           d == hi + 1 - lo
           z == b[t]
<1>1. HasLayout(m)
  BY DEF Sound
<1>2. lo \in Nat /\ hi \in Nat /\ lo <= hi
  BY <1>1, LastRangeBounds
<1>3. w \in Seq(Nat) /\ k \in 1 .. Len(w) /\ Len(w) \in Nat /\ ThreadCount(m) \in Nat
  BY <1>1, LayoutParts
<1>4. z \in Nat
  <2>1. t \in 1 .. ThreadCount(m) + 1
    BY <1>3
  <2>2. QED
    BY <1>1, <2>1, ThreadsAscend
<1>5. e \in Nat /\ w[k] \in Nat
  <2> HIDE DEF w
  <2>1. k - 1 \in 0 .. Len(w)
    BY <1>3
  <2>2. \A j \in 0 .. Len(w) : FrameEnds(w)[j] \in Nat
    BY <1>3, FrameEndsAddUp
  <2>3. w[k] \in Nat
    BY <1>3
  <2>4. QED
    BY <2>1, <2>2, <2>3
<1>6. ASSUME NEW i \in 1 .. w[k]
      PROVE  q.segments_mapping[Place(q, c, r, k, i)] = m.segments_mapping[Place(m, b, t, k, i)]
  <2> DEFINE s == Place(m, b, t, k, i)
  <2>1. s \in 1 .. Len(m.explicitData) /\ s \in Nat
    BY <1>1, <1>6, PlaceIs
  <2>2. /\ Below(m, tid, t, k) => s < lo
        /\ Above(tid, t) => s > hi
    BY <1>1, <1>6, PlaceBesides
  <2>3. s = z + e + i /\ Place(q, c, r, k, i) = c[r] + e + i
    BY DEF Place
  <2>4. i \in Nat
    <3> HIDE DEF w
    <3>1. QED
      BY <1>5, <1>6
  <2> HIDE DEF s, e, w
  <2>5. CASE Below(m, tid, t, k) /\ c[r] = b[t]
    <3>1. s < lo /\ Place(q, c, r, k, i) = s
      BY <2>2, <2>3, <2>5
    <3>2. Down(lo, hi, s) = s
      BY <1>2, <2>1, <3>1 DEF Down
    <3>3. QED
      BY <2>1, <3>1, <3>2 DEF NamesDown, s
  <2>6. CASE Above(tid, t) /\ c[r] = b[t] - (hi + 1 - lo)
    <3>1. s > hi /\ Place(q, c, r, k, i) = (z - d) + e + i
      BY <2>2, <2>3, <2>6
    <3>2. Down(lo, hi, s) = s - d
      BY <3>1 DEF Down
    <3>3. d \in Int
      BY <1>2
    <3> HIDE DEF d, z
    <3>4. Place(q, c, r, k, i) = Down(lo, hi, s)
      BY <1>4, <1>5, <2>3, <2>4, <3>1, <3>2, <3>3
    <3>5. QED
      BY <2>1, <3>1, <3>4 DEF NamesDown, s
  <2>7. QED
    BY <2>5, <2>6
<1>7. /\ x \in Seq(Nat) /\ Len(x) = w[k]
      /\ \A i \in 1 .. w[k] : x[i] = m.segments_mapping[Place(m, b, t, k, i)]
  BY DEF IsFrame
<1>8. q.segments_in_stack[r][k] = w[k]
  OBVIOUS
<1> HIDE DEF w
<1>9. QED
  BY <1>6, <1>7, <1>8 DEF IsFrame

(* So does a thread that is not the one. *)
LEMMA ThreadKeptDown ==
  ASSUME NEW m, Sound(m), NEW b, LaidOut(m, b), b[ThreadCount(m) + 1] = Len(m.explicitData),
         NEW tid \in 1 .. ThreadCount(m), NEW lo, NEW hi, IsLastRange(m, tid, lo, hi),
         NEW q, NamesDown(m, q, lo, hi), NEW c,
         NEW t \in 1 .. ThreadCount(m), t # tid, NEW r,
         c[r] = IF t < tid THEN b[t] ELSE b[t] - (hi + 1 - lo),
         q.segments_in_stack[r] = m.segments_in_stack[t],
         NEW X, AreThreadFrames(X, m, b, t)
  PROVE  AreThreadFrames(X, q, c, r)
<1>1. ASSUME NEW k \in 1 .. Len(m.segments_in_stack[t])
      PROVE  IsFrame(X[k], q, c, r, k)
  <2>1. IsFrame(X[k], m, b, t, k)
    BY <1>1 DEF AreThreadFrames
  <2>2. /\ FrameEnds(q.segments_in_stack[r])[k - 1] = FrameEnds(m.segments_in_stack[t])[k - 1]
        /\ q.segments_in_stack[r][k] = m.segments_in_stack[t][k]
    OBVIOUS
  <2>3. \/ Below(m, tid, t, k) /\ c[r] = b[t]
        \/ Above(tid, t) /\ c[r] = b[t] - (hi + 1 - lo)
    <3>1. ThreadCount(m) \in Nat
      BY LayoutParts DEF Sound
    <3>2. t < tid \/ t > tid
      BY <3>1
    <3>3. t > tid => ~ t < tid
      BY <3>1
    <3>4. QED
      BY <3>2, <3>3 DEF Below, Above
  <2>4. QED
    BY <1>1, <2>1, <2>2, <2>3, FrameKeptDown
<1>2. QED
  BY <1>1 DEF AreThreadFrames

(* dropLastStack of a thread that has another frame. *)
LEMMA FramesLeft ==
  ASSUME NEW m, Sound(m), NEW b, LaidOut(m, b), b[ThreadCount(m) + 1] = Len(m.explicitData),
         NEW tid \in 1 .. ThreadCount(m), NEW lo, NEW hi, IsLastRange(m, tid, lo, hi),
         NEW q, NamesDown(m, q, lo, hi), StacksLeft(m, q, tid),
         NEW F, AreFrames(F, m, b)
  PROVE  AreFrames([F EXCEPT ![tid] = Front(@)], q, Shifted(m, b, tid, -(hi + 1 - lo)))
<1> DEFINE N == ThreadCount(m)
           W == m.segments_in_stack
           V == q.segments_in_stack
           d == hi + 1 - lo
           c == Shifted(m, b, tid, -d)
           X == F[tid]
           u == W[tid]
           v == V[tid]
           n == Len(u)
           Z == Front(X)
           G == [F EXCEPT ![tid] = Front(@)]
           SS == Seq(Seq(Nat))
<1>1. HasLayout(m)
  BY DEF Sound
<1>2. /\ N \in Nat /\ W \in Seq(Seq(Nat)) /\ Len(W) = N
      /\ \A t \in 1 .. N : W[t] \in Seq(Nat) /\ Len(W[t]) \in Nat
  BY <1>1, LayoutParts DEF HasLayout
<1>3. /\ F \in Seq(SS) /\ Len(F) = N
      /\ \A t \in 1 .. N : AreThreadFrames(F[t], m, b, t)
  BY DEF AreFrames
<1>4. v = Front(u) /\ (\A t \in 1 .. N : t # tid => V[t] = W[t]) /\ ThreadCount(q) = N
  BY DEF StacksLeft, OtherStacks
<1>5. lo \in Nat /\ hi \in Nat /\ d \in Int
  <2>1. lo \in Nat /\ hi \in Nat
    BY <1>1, LastRangeBounds
  <2>2. QED
    BY <2>1
<1>6. \A t \in 1 .. N : c[t] = IF t <= tid THEN b[t] ELSE b[t] - d
  <2>1. c = [t \in 1 .. N + 1 |-> IF t <= tid THEN b[t] ELSE b[t] + (-d)]
    BY DEF Shifted
  <2>2. \A t \in 1 .. N : t \in 1 .. N + 1
    BY <1>2
  <2>3. \A t \in 1 .. N + 1 : b[t] \in Nat
    BY <1>1, ThreadsAscend
  <2> HIDE DEF c, N, d
  <2>4. ASSUME NEW t \in 1 .. N PROVE c[t] = IF t <= tid THEN b[t] ELSE b[t] - d
    <3> DEFINE z == b[t]
    <3>1. z \in Nat /\ c[t] = IF t <= tid THEN z ELSE z + (-d)
      BY <2>1, <2>2, <2>3, <2>4
    <3> HIDE DEF z
    <3>2. z + (-d) = z - d
      BY <1>5, <3>1
    <3>3. QED
      BY <3>1, <3>2 DEF z
  <2>5. QED
    BY <2>4
<1>7. tid \in 1 .. N /\ G = [F EXCEPT ![tid] = Z]
  OBVIOUS
<1>8. AreThreadFrames(X, m, b, tid) /\ X \in SS /\ u \in Seq(Nat) /\ n > 0 /\ n \in Nat
  <2>1. n > 0
    BY <1>1, FrameStarts
  <2>2. X \in SS
    <3> HIDE DEF SS
    <3>1. QED
      BY <1>3, <1>7
  <2>3. QED
    BY <1>2, <1>3, <2>1, <2>2
<1>9. Len(X) = n /\ \A k \in 1 .. n : IsFrame(X[k], m, b, tid, k)
  BY <1>8 DEF AreThreadFrames
<1> HIDE DEF N, W, V, d, c, SS, n, u, v, X, Z, G
<1>10. /\ v \in Seq(Nat) /\ Len(v) = n - 1
       /\ \A k \in 1 .. n - 1 : v[k] = u[k]
  <2>1. u # << >>
    BY <1>8 DEF n
  <2>2. /\ Front(u) \in Seq(Nat) /\ Len(Front(u)) = Len(u) - 1
        /\ \A k \in 1 .. Len(u) - 1 : Front(u)[k] = u[k]
    BY <1>8, <2>1, FrontAndLast
  <2>3. QED
    BY <1>4, <2>2 DEF n
<1>11. /\ Z \in SS /\ Len(Z) = n - 1
       /\ \A k \in 1 .. n - 1 : Z[k] = X[k]
  <2>1. X # << >> /\ X \in Seq(Seq(Nat))
    BY <1>8, <1>9 DEF SS
  <2> DEFINE T == Seq(Nat)
  <2>2. X \in Seq(T)
    BY <2>1
  <2> HIDE DEF T
  <2>3. /\ Front(X) \in Seq(T) /\ Len(Front(X)) = Len(X) - 1
        /\ \A k \in 1 .. Len(X) - 1 : Front(X)[k] = X[k]
    BY <2>1, <2>2, FrontAndLast
  <2>4. QED
    BY <1>9, <2>3 DEF Z, T, SS
<1>12. /\ G \in Seq(SS) /\ Len(G) = N /\ G[tid] = Z
       /\ \A t \in 1 .. N : t # tid => G[t] = F[t]
  BY <1>3, <1>7, <1>11
<1>13. ASSUME NEW t \in 1 .. N, t # tid PROVE AreThreadFrames(G[t], q, c, t)
  <2>1. G[t] = F[t] /\ V[t] = W[t] /\ AreThreadFrames(F[t], m, b, t)
    BY <1>3, <1>4, <1>12, <1>13
  <2>2. c[t] = IF t < tid THEN b[t] ELSE b[t] - (hi + 1 - lo)
    <3>1. t < tid <=> t <= tid
      BY <1>2, <1>7, <1>13
    <3>2. QED
      BY <1>6, <1>13, <3>1 DEF d
  <2>4. t \in 1 .. ThreadCount(m) /\ t # tid /\ q.segments_in_stack[t] = m.segments_in_stack[t]
    BY <1>13, <2>1 DEF N, V, W
  <2> DEFINE Y == F[t]
  <2>5. AreThreadFrames(Y, m, b, t)
    BY <2>1
  <2> HIDE DEF Y
  <2>6. AreThreadFrames(Y, q, c, t)
    BY <2>2, <2>4, <2>5, ThreadKeptDown
  <2>3. AreThreadFrames(F[t], q, c, t)
    BY <2>6 DEF Y
  <2>7. QED
    BY <2>1, <2>3
<1>14. ASSUME NEW k \in 1 .. n - 1 PROVE IsFrame(Z[k], q, c, tid, k)
  <2>1. k \in 1 .. n /\ k < n
    BY <1>8, <1>14
  <2>2. IsFrame(X[k], m, b, tid, k) /\ Z[k] = X[k] /\ v[k] = u[k]
    BY <1>9, <1>10, <1>11, <1>14, <2>1
  <2>3. FrameEnds(v)[k - 1] = FrameEnds(u)[k - 1]
    <3> DEFINE j == n - 1
    <3>1. /\ j \in Nat /\ j <= Len(u) /\ j <= Len(v) /\ \A l \in 1 .. j : v[l] = u[l]
          /\ u \in Seq(Nat) /\ v \in Seq(Nat) /\ k \in 1 .. j
      BY <1>8, <1>10, <1>14 DEF n
    <3> HIDE DEF j
    <3>2. \A l \in 1 .. j : FrameEnds(v)[l - 1] = FrameEnds(u)[l - 1]
      BY <3>1, EndsBefore
    <3>3. QED
      BY <3>1, <3>2
  <2>4. Below(m, tid, tid, k) /\ c[tid] = b[tid]
    BY <1>2, <1>6, <1>7, <2>1 DEF Below, n, u, W
  <2>5. IsFrame(X[k], q, c, tid, k)
    BY <1>7, <2>1, <2>2, <2>3, <2>4, FrameKeptDown DEF N, V, W, n, u, v
  <2>6. QED
    BY <2>2, <2>5
<1>15. AreThreadFrames(G[tid], q, c, tid)
  BY <1>10, <1>11, <1>12, <1>14 DEF AreThreadFrames, v, V
<1>16. \A t \in 1 .. N : AreThreadFrames(G[t], q, c, t)
  BY <1>13, <1>15
<1>18. AreFrames(G, q, c)
  BY <1>4, <1>12, <1>16 DEF AreFrames, SS
<1>19. QED
  BY <1>18 DEF G, c, d

(* dropLastStack of a thread that has no other frame. *)
LEMMA FramesEnded ==
  ASSUME NEW m, Sound(m), NEW b, LaidOut(m, b), b[ThreadCount(m) + 1] = Len(m.explicitData),
         NEW tid \in 1 .. ThreadCount(m), NEW lo, NEW hi, IsLastRange(m, tid, lo, hi),
         Len(m.thread_segments[tid]) = hi + 1 - lo,
         NEW q, NamesDown(m, q, lo, hi), StacksEnded(m, q, tid),
         NEW F, AreFrames(F, m, b)
  PROVE  AreFrames(RemoveAt(F, tid), q, Joined(m, b, tid, hi + 1 - lo))
<1> DEFINE N == ThreadCount(m)
           W == m.segments_in_stack
           V == q.segments_in_stack
           d == hi + 1 - lo
           c == Joined(m, b, tid, d)
           G == RemoveAt(F, tid)
           SS == Seq(Seq(Nat))
           T == Seq(Nat)
<1>1. HasLayout(m)
  BY DEF Sound
<1>2. N \in Nat /\ W \in Seq(T) /\ Len(W) = N
  BY <1>1, LayoutParts DEF HasLayout
<1>3. /\ F \in Seq(SS) /\ Len(F) = N
      /\ \A t \in 1 .. N : AreThreadFrames(F[t], m, b, t)
  BY DEF AreFrames
<1>7. tid \in 1 .. N
  OBVIOUS
<1>5. b[tid] = b[tid + 1] - d
  <2> DEFINE z == b[tid]
             y == b[tid + 1]
             o == Len(m.thread_segments[tid])
  <2>1. y = z + o /\ o = d
    BY DEF LaidOut
  <2>2. tid \in 1 .. N + 1 /\ tid + 1 \in 1 .. N + 1
    BY <1>2
  <2>3. z \in Nat /\ y \in Nat /\ o \in Nat
    BY <1>1, <2>2, ThreadsAscend, LayoutParts
  <2> HIDE DEF z, y, o, d
  <2>4. z = y - d
    BY <2>1, <2>3
  <2>5. QED
    BY <2>4 DEF z, y
<1>6. /\ c = [t \in 1 .. N |-> IF t <= tid THEN b[t] ELSE b[t + 1] - d] /\ V = RemoveAt(W, tid)
      /\ ThreadCount(q) = N - 1
  BY DEF Joined, StacksEnded
<1> HIDE DEF N, W, V, d, c, SS, G, T
<1>8. /\ Len(V) = N - 1
      /\ \A i \in 1 .. N - 1 : V[i] = IF i < tid THEN W[i] ELSE W[i + 1]
  BY <1>2, <1>6, <1>7, Removing
<1>9. /\ G \in Seq(SS) /\ Len(G) = N - 1
      /\ \A i \in 1 .. N - 1 : G[i] = IF i < tid THEN F[i] ELSE F[i + 1]
  BY <1>3, <1>7, Removing DEF G
<1>10. ASSUME NEW i \in 1 .. N - 1 PROVE AreThreadFrames(G[i], q, c, i)
  <2>1. i \in 1 .. N /\ i + 1 \in 1 .. N
    BY <1>2, <1>10
  <2>2. CASE i < tid
    <3>1. c[i] = b[i] /\ i # tid /\ i <= tid
      BY <1>2, <1>6, <1>7, <2>1, <2>2
    <3>2. V[i] = W[i] /\ G[i] = F[i] /\ AreThreadFrames(F[i], m, b, i)
      BY <1>3, <1>8, <1>9, <1>10, <2>1, <2>2
    <3>3. c[i] = IF i < tid THEN b[i] ELSE b[i] - (hi + 1 - lo)
      BY <2>2, <3>1
    <3>4. AreThreadFrames(F[i], q, c, i)
      BY <2>1, <3>1, <3>2, <3>3, ThreadKeptDown DEF N, V, W
    <3>5. QED
      BY <3>2, <3>4
  <2>3. CASE ~ i < tid
    <3> DEFINE t == i + 1
    <3>1. t \in 1 .. N /\ t # tid /\ ~ t < tid
      BY <1>2, <1>7, <2>1, <2>3
    <3>2. c[i] = b[t] - d
      <4>1. CASE i <= tid
        <5>1. i = tid
          BY <1>2, <1>7, <2>1, <2>3, <4>1
        <5>2. c[i] = b[tid]
          BY <1>6, <2>1, <4>1, <5>1
        <5>3. QED
          BY <1>5, <5>1, <5>2
      <4>2. CASE ~ i <= tid
        BY <1>6, <2>1, <4>2
      <4>3. QED
        BY <4>1, <4>2
    <3>3. V[i] = W[t] /\ G[i] = F[t] /\ AreThreadFrames(F[t], m, b, t)
      BY <1>3, <1>8, <1>9, <1>10, <2>1, <2>3
    <3> HIDE DEF t
    <3>4. c[i] = IF t < tid THEN b[t] ELSE b[t] - (hi + 1 - lo)
      BY <3>1, <3>2 DEF d
    <3>5. AreThreadFrames(F[t], q, c, i)
      BY <3>1, <3>3, <3>4, ThreadKeptDown DEF N, V, W
    <3>6. QED
      BY <3>3, <3>5
  <2>4. QED
    BY <2>2, <2>3
<1>11. AreFrames(G, q, c)
  BY <1>6, <1>9, <1>10 DEF AreFrames, SS
<1>12. QED
  BY <1>11 DEF G, c, d

(* The frames after each of the steps. *)
LEMMA FramesWhenEntered ==
  ASSUME NEW m, Sound(m), NEW q, Sound(q), NEW tid \in 1 .. ThreadCount(m), HasEntered(m, q, tid)
  PROVE  FramesOf(q) = [FramesOf(m) EXCEPT ![tid] = Append(@, <<m.fst_unused_id>>)]
<1>1. StacksEntered(m, q, tid)
  BY DEF HasEntered
<1>2. PICK b : HasInserted(m, b, q, Shifted(m, b, tid, 1), b[tid + 1] + 1, Register)
  BY DEF HasEntered
<1> DEFINE w == b[tid + 1] + 1
           c == Shifted(m, b, tid, 1)
<1>3. /\ LaidOut(m, b) /\ b[ThreadCount(m) + 1] = Len(m.explicitData)
      /\ LaidOut(q, c) /\ c[ThreadCount(q) + 1] = Len(q.explicitData)
      /\ NamesUp(m, q, w)
  BY <1>2 DEF HasInserted, SegmentsUp
<1>4. m.fst_unused_id \in Nat
  BY StateTypes DEF Sound
<1>5. AreFrames(FramesOf(m), m, b)
  BY <1>3, FramesAre
<1>6. w = b[tid + 1] + 1
  OBVIOUS
<1> HIDE DEF w
<1>7. AreFrames([FramesOf(m) EXCEPT ![tid] = Append(@, <<m.fst_unused_id>>)], q, c)
  BY <1>1, <1>3, <1>4, <1>5, <1>6, FramesEntered
<1> HIDE DEF c
<1>8. AreFrames(FramesOf(q), q, c)
  BY <1>3, FramesAre
<1>9. QED
  BY <1>7, <1>8, SameFrames

LEMMA FramesWhenAllocated ==
  ASSUME NEW m, Sound(m), NEW q, Sound(q), NEW tid \in 1 .. ThreadCount(m), HasAllocated(m, q, tid)
  PROVE  FramesOf(q) = [FramesOf(m) EXCEPT ![tid] = Append(Front(@), Append(Last(@), m.fst_unused_id))]
<1>1. StacksWidened(m, q, tid)
  BY DEF HasAllocated
<1>2. PICK b : HasInserted(m, b, q, Shifted(m, b, tid, 1), b[tid + 1] + 1, Cell)
  BY DEF HasAllocated
<1> DEFINE w == b[tid + 1] + 1
           c == Shifted(m, b, tid, 1)
<1>3. /\ LaidOut(m, b) /\ b[ThreadCount(m) + 1] = Len(m.explicitData)
      /\ LaidOut(q, c) /\ c[ThreadCount(q) + 1] = Len(q.explicitData)
      /\ NamesUp(m, q, w)
  BY <1>2 DEF HasInserted, SegmentsUp
<1>4. m.fst_unused_id \in Nat
  BY StateTypes DEF Sound
<1>5. AreFrames(FramesOf(m), m, b)
  BY <1>3, FramesAre
<1>6. w = b[tid + 1] + 1
  OBVIOUS
<1> HIDE DEF w
<1>7. AreFrames([FramesOf(m) EXCEPT ![tid] = Append(Front(@), Append(Last(@), m.fst_unused_id))], q, c)
  BY <1>1, <1>3, <1>4, <1>5, <1>6, FramesAllocated
<1> HIDE DEF c
<1>8. AreFrames(FramesOf(q), q, c)
  BY <1>3, FramesAre
<1>9. QED
  BY <1>7, <1>8, SameFrames

LEMMA FramesWhenStarted ==
  ASSUME NEW m, Sound(m), NEW q, Sound(q), HasStarted(m, q)
  PROVE  FramesOf(q) = Append(FramesOf(m), << <<m.fst_unused_id>> >>)
<1>1. StacksStarted(m, q)
  BY DEF HasStarted
<1>2. PICK b : HasInserted(m, b, q, Extended(m, b), b[ThreadCount(m) + 1] + 1, Register)
  BY DEF HasStarted
<1> DEFINE w == b[ThreadCount(m) + 1] + 1
           c == Extended(m, b)
<1>3. /\ LaidOut(m, b) /\ b[ThreadCount(m) + 1] = Len(m.explicitData)
      /\ LaidOut(q, c) /\ c[ThreadCount(q) + 1] = Len(q.explicitData)
      /\ NamesUp(m, q, w)
  BY <1>2 DEF HasInserted, SegmentsUp
<1>4. m.fst_unused_id \in Nat
  BY StateTypes DEF Sound
<1>5. AreFrames(FramesOf(m), m, b)
  BY <1>3, FramesAre
<1>6. w = b[ThreadCount(m) + 1] + 1
  OBVIOUS
<1> HIDE DEF w
<1>7. AreFrames(Append(FramesOf(m), << <<m.fst_unused_id>> >>), q, c)
  BY <1>1, <1>3, <1>4, <1>5, <1>6, FramesStarted
<1> HIDE DEF c
<1>8. AreFrames(FramesOf(q), q, c)
  BY <1>3, FramesAre
<1>9. QED
  BY <1>7, <1>8, SameFrames

(* The last frame has the last segments. *)
LEMMA LastWidth ==
  ASSUME NEW m, NEW b, HasLayout(m), LaidOut(m, b), NEW tid \in 1 .. ThreadCount(m),
         NEW lo, NEW hi, IsLastRange(m, tid, lo, hi)
  PROVE  /\ m.segments_in_stack[tid][Len(m.segments_in_stack[tid])] = hi + 1 - lo
         /\ m.segments_in_stack[tid][Len(m.segments_in_stack[tid])] \in Nat
<1> DEFINE v == m.segments_in_stack[tid]
           n == Len(v)
           o == Len(m.thread_segments[tid])
           e == FrameEnds(v)
<1>1. v \in Seq(Nat) /\ n \in Nat /\ n > 0 /\ o \in Nat
  BY FrameStarts, LayoutParts
<1>2. e[n] = o
  BY DEF LaidOut
<1>3. lo = b[tid] + e[n - 1] + 1 /\ hi = b[tid + 1] /\ b[tid + 1] = b[tid] + o
  <2>1. lo = FrameStart(m, b, tid, Len(m.segments_in_stack[tid])) /\ hi = b[tid + 1]
    BY LastFrames DEF IsLastRange
  <2>2. b[tid + 1] = b[tid] + o
    BY DEF LaidOut
  <2>3. QED
    BY <2>1, <2>2 DEF FrameStart
<1>4. /\ \A k \in 0 .. Len(v) : e[k] \in Nat
      /\ \A k \in 1 .. Len(v) : e[k] = e[k - 1] + v[k]
  BY <1>1, FrameEndsAddUp
<1>5. b[tid] \in Nat
  <2>1. tid \in 1 .. ThreadCount(m) + 1
    BY LayoutParts
  <2>2. QED
    BY <2>1, ThreadsAscend
<1> HIDE DEF v, o, e
<1>6. n \in 1 .. n /\ n - 1 \in 0 .. n
  BY <1>1
<1>7. v[n] \in Nat
  BY <1>1, <1>6
<1> DEFINE y == v[n]
           z == b[tid]
           a == e[n - 1]
<1>8. e[n] = a + y /\ a \in Nat /\ y \in Nat /\ lo = z + a + 1 /\ hi = z + o /\ z \in Nat
  BY <1>3, <1>4, <1>5, <1>6, <1>7
<1> HIDE DEF y, z, a, n
<1>9. y = hi + 1 - lo
  <2>1. o = a + y
    BY <1>2, <1>8
  <2>2. QED
    BY <1>8, <2>1
<1>10. QED
  BY <1>8, <1>9 DEF y, n, v

(* A thread whose last frame is its first has no segments besides it. *)
LEMMA LastOfFrames ==
  ASSUME NEW m, NEW b, HasLayout(m), LaidOut(m, b), NEW tid \in 1 .. ThreadCount(m),
         NEW lo, NEW hi, IsLastRange(m, tid, lo, hi)
  PROVE  Len(m.segments_in_stack[tid]) = 1 <=> Len(m.thread_segments[tid]) = hi + 1 - lo
<1> DEFINE v == m.segments_in_stack[tid]
           n == Len(v)
           o == Len(m.thread_segments[tid])
           e == FrameEnds(v)
           d == hi + 1 - lo
<1>1. v \in Seq(Nat) /\ n \in Nat /\ n > 0 /\ o \in Nat
  BY FrameStarts, LayoutParts
<1>2. \A k \in 1 .. n : v[k] > 0
  BY DEF LaidOut
<1>3. v[n] = d /\ v[n] \in Nat /\ e[n] = o
  <2>1. e[n] = o
    BY DEF LaidOut
  <2>2. /\ m.segments_in_stack[tid][Len(m.segments_in_stack[tid])] = hi + 1 - lo
        /\ m.segments_in_stack[tid][Len(m.segments_in_stack[tid])] \in Nat
    BY LastWidth
  <2>3. QED
    BY <2>1, <2>2
<1>4. /\ e[0] = 0 /\ \A i \in 0 .. n : e[i] \in Nat
      /\ \A i \in 1 .. n : e[i] = e[i - 1] + v[i]
  BY <1>1, FrameEndsAddUp
<1>5. \A i, j \in 0 .. n : i < j => e[i] < e[j]
  BY <1>1, <1>2, FrameEndsGrow
<1> HIDE DEF v, n, o, e, d
<1>6. d \in Int /\ o = e[n - 1] + d /\ e[n - 1] \in Nat
  <2>1. n \in 1 .. n /\ n - 1 \in 0 .. n
    BY <1>1
  <2>2. QED
    BY <1>3, <1>4, <2>1
<1>7. n = 1 => o = d
  BY <1>4, <1>6
<1>8. n # 1 => o # d
  <2> SUFFICES ASSUME n # 1 PROVE o # d
    OBVIOUS
  <2>1. n - 1 \in 0 .. n /\ 0 \in 0 .. n /\ 0 < n - 1
    BY <1>1
  <2>2. e[n - 1] > 0
    <3>1. e[0] < e[n - 1]
      BY <1>5, <2>1
    <3>2. QED
      BY <1>4, <3>1
  <2>3. QED
    BY <1>6, <2>2
<1>9. QED
  BY <1>7, <1>8 DEF n, o, v, d

LEMMA FramesWhenLeft ==
  ASSUME NEW m, Sound(m), NEW tid \in 1 .. ThreadCount(m), NEW p, p = Leave(m, tid),
         NEW lo, NEW hi, IsLastRange(m, tid, lo, hi)
  PROVE  /\ Sound(p) /\ SegmentsDown(m, p, lo, hi)
         /\ Len(FramesOf(m)[tid]) = Len(m.segments_in_stack[tid])
         /\ FramesOf(p) = IF Len(FramesOf(m)[tid]) = 1 THEN RemoveAt(FramesOf(m), tid)
                          ELSE [FramesOf(m) EXCEPT ![tid] = Front(@)]
<1> DEFINE F == FramesOf(m)
           d == hi + 1 - lo
<1>1. PICK b : LaidOut(m, b) /\ b[ThreadCount(m) + 1] = Len(m.explicitData)
  BY SoundLayout
<1>2. /\ Sound(p) /\ SegmentsDown(m, p, lo, hi)
      /\ LeftWithoutFrame(m, b, p, tid, hi + 1 - lo) \/ LeftWithoutThread(m, b, p, tid, hi + 1 - lo)
  BY <1>1, ErasedAt
<1>3. AreFrames(F, m, b)
  BY <1>1, FramesAre
<1>4. Len(F[tid]) = Len(m.segments_in_stack[tid])
  BY <1>3 DEF AreFrames, AreThreadFrames
<1>5. HasLayout(m)
  BY DEF Sound
<1>6. Len(F[tid]) = 1 <=> Len(m.thread_segments[tid]) = hi + 1 - lo
  BY <1>1, <1>4, <1>5, LastOfFrames
<1>7. NamesDown(m, p, lo, hi)
  BY <1>2 DEF SegmentsDown
<1> HIDE DEF F
<1>8. CASE LeftWithoutFrame(m, b, p, tid, hi + 1 - lo)
  <2> DEFINE c == Shifted(m, b, tid, -(hi + 1 - lo))
  <2>1. /\ Len(F[tid]) # 1 /\ StacksLeft(m, p, tid) /\ LaidOut(p, c)
        /\ c[ThreadCount(p) + 1] = b[ThreadCount(m) + 1] - (hi + 1 - lo)
    BY <1>6, <1>8 DEF LeftWithoutFrame
  <2>2. AreFrames([F EXCEPT ![tid] = Front(@)], p, c)
    BY <1>1, <1>3, <1>7, <2>1, FramesLeft
  <2>3. c[ThreadCount(p) + 1] = Len(p.explicitData)
    BY <1>1, <1>2, <2>1 DEF SegmentsDown
  <2> HIDE DEF c
  <2>4. AreFrames(FramesOf(p), p, c)
    BY <1>2, <2>1, <2>3, FramesAre
  <2>5. FramesOf(p) = [F EXCEPT ![tid] = Front(@)]
    BY <2>2, <2>4, SameFrames
  <2>6. QED
    BY <1>2, <1>4, <2>1, <2>5 DEF F
<1>9. CASE LeftWithoutThread(m, b, p, tid, hi + 1 - lo)
  <2> DEFINE c == Joined(m, b, tid, hi + 1 - lo)
  <2>1. /\ Len(m.thread_segments[tid]) = hi + 1 - lo
        /\ Len(F[tid]) = 1 /\ StacksEnded(m, p, tid) /\ LaidOut(p, c)
        /\ c[ThreadCount(p) + 1] = b[ThreadCount(m) + 1] - (hi + 1 - lo)
    BY <1>6, <1>9 DEF LeftWithoutThread
  <2>2. AreFrames(RemoveAt(F, tid), p, c)
    BY <1>1, <1>3, <1>7, <2>1, FramesEnded
  <2>3. c[ThreadCount(p) + 1] = Len(p.explicitData)
    BY <1>1, <1>2, <2>1 DEF SegmentsDown
  <2> HIDE DEF c
  <2>4. AreFrames(FramesOf(p), p, c)
    BY <1>2, <2>1, <2>3, FramesAre
  <2>5. FramesOf(p) = RemoveAt(F, tid)
    BY <2>2, <2>4, SameFrames
  <2>6. QED
    BY <1>2, <1>4, <2>1, <2>5 DEF F
<1>10. QED
  BY <1>2, <1>8, <1>9

-----------------------------------------------------------------------------
(* The cells, as Memory names them.                                        *)

(* The names of the segments, and what a cell with a name refers to. *)
NamesIn(m) == {m.segments_mapping[s] : s \in 1 .. Len(m.explicitData)}

RefOf(m, name) == IF name = 0 THEN Nothing ELSE IF name \in NamesIn(m) THEN name ELSE Dead

RefsOf(m, segment) == [c \in DOMAIN segment |-> RefOf(m, segment[c].meant)]

(* C has what the cells of each segment refer to. *)
AreCells(C, m) ==
  /\ C = [o \in NamesIn(m) |-> C[o]]
  /\ \A s \in 1 .. Len(m.explicitData) : C[m.segments_mapping[s]] = RefsOf(m, m.explicitData[s])

(* the cells as their segments are named, in any state *)
CellsOf(m) ==
  LET names == m.segments_mapping
  IN  [o \in {names[s] : s \in DOMAIN m.explicitData} |->
         LET segment == m.explicitData[CHOOSE s \in DOMAIN m.explicitData : names[s] = o]
         IN  [c \in DOMAIN segment |-> Reference(names, segment[c])]]

(* What is known of the names of a sound state. *)
LEMMA NamesAre ==
  ASSUME NEW m, Sound(m)
  PROVE  /\ Len(m.explicitData) \in Nat /\ DOMAIN m.explicitData = 1 .. Len(m.explicitData)
         /\ ToSet(m.segments_mapping) = NamesIn(m)
         /\ m.fst_unused_id \in Nat
         /\ \A s \in 1 .. Len(m.explicitData) :
              /\ m.segments_mapping[s] \in Nat /\ m.segments_mapping[s] > 0
              /\ m.segments_mapping[s] < m.fst_unused_id
         /\ \A s, r \in 1 .. Len(m.explicitData) :
              m.segments_mapping[s] = m.segments_mapping[r] => s = r
         /\ \A s \in 1 .. Len(m.explicitData) : \A c \in DOMAIN m.explicitData[s] :
              /\ m.explicitData[s][c].meant < m.fst_unused_id
              /\ m.explicitData[s][c].meant \in Nat
              /\ CellOK(m, m.explicitData[s][c])
<1> DEFINE M == m.segments_mapping
           D == m.explicitData
<1>1. /\ D \in Seq(Segment) /\ Len(D) \in Nat /\ M \in Seq(1 .. MaxNames) /\ MaxNames \in Nat
      /\ Len(M) = Len(D) /\ m.fst_unused_id \in Nat
  BY StateTypes DEF Sound, StoresAgree
<1>2. DOMAIN D = 1 .. Len(D)
  BY <1>1
<1>3. ToSet(M) = NamesIn(m)
  <2>1. DOMAIN M = 1 .. Len(D)
    BY <1>1
  <2>2. QED
    BY <2>1 DEF ToSet, NamesIn
<1>4. /\ \A s \in 1 .. Len(D) : M[s] < m.fst_unused_id
      /\ \A s, r \in 1 .. Len(D) : M[s] = M[r] => s = r
  BY DEF Sound, StoresAgree
<1>5. ASSUME NEW s \in 1 .. Len(D) PROVE M[s] \in Nat /\ M[s] > 0
  <2> DEFINE T == 1 .. MaxNames
  <2>1. M \in Seq(T) /\ s \in 1 .. Len(M)
    BY <1>1
  <2> HIDE DEF T, M
  <2>2. M[s] \in T
    BY <2>1
  <2>3. QED
    BY <1>1, <2>2 DEF T
<1>6. ASSUME NEW s \in 1 .. Len(D), NEW c \in DOMAIN D[s]
      PROVE  D[s][c].meant < m.fst_unused_id /\ D[s][c].meant \in Nat /\ CellOK(m, D[s][c])
  <2>1. D[s][c] \in CellValue /\ CellOK(m, D[s][c])
    BY <1>6, Loading
  <2>2. D[s][c].meant \in Nat
    BY <1>1, <2>1 DEF CellValue
  <2>3. QED
    BY <2>1, <2>2 DEF CellOK
<1>7. QED
  BY <1>1, <1>2, <1>3, <1>4, <1>5, <1>6

(* No reference goes astray. *)
LEMMA ReferenceIs ==
  ASSUME NEW m, Sound(m), NEW s \in 1 .. Len(m.explicitData), NEW c \in DOMAIN m.explicitData[s]
  PROVE  Reference(m.segments_mapping, m.explicitData[s][c]) = RefOf(m, m.explicitData[s][c].meant)
<1> DEFINE cell == m.explicitData[s][c]
           names == m.segments_mapping
<1>1. CellOK(m, cell)
  BY NamesAre
<1>2. ToSet(names) = NamesIn(m) /\ Len(m.explicitData) \in Nat
  BY NamesAre
<1>3. DOMAIN names = 1 .. Len(m.explicitData)
  BY StateTypes DEF Sound, StoresAgree
<1> HIDE DEF cell, names
<1>4. cell.meant \in NamesIn(m) => cell.seg \in DOMAIN names /\ names[cell.seg] = cell.meant
  BY <1>1, <1>2, <1>3 DEF CellOK, MayFollow, names
<1>5. cell.seg \in DOMAIN names /\ names[cell.seg] = cell.meant => cell.meant \in NamesIn(m)
  BY <1>3 DEF NamesIn, names
<1>6. Blank.meant = 0
  BY DEF Blank
<1>7. Reference(names, cell) = RefOf(m, cell.meant)
  BY <1>2, <1>4, <1>5, <1>6 DEF Reference, RefOf
<1>8. QED
  BY <1>7 DEF cell, names

LEMMA CellsAre ==
  ASSUME NEW m, Sound(m)
  PROVE  AreCells(CellsOf(m), m)
<1> DEFINE M == m.segments_mapping
           D == m.explicitData
           C == CellsOf(m)
           at(o) == CHOOSE s \in DOMAIN D : M[s] = o
           refs(s) == [c \in DOMAIN D[s] |-> Reference(M, D[s][c])]
<1>1. DOMAIN D = 1 .. Len(D) /\ \A s, r \in 1 .. Len(D) : M[s] = M[r] => s = r
  BY NamesAre
<1>2. C = [o \in NamesIn(m) |-> refs(at(o))]
  BY <1>1 DEF CellsOf, NamesIn
<1>3. ASSUME NEW s \in 1 .. Len(D) PROVE at(M[s]) = s
  BY <1>1, <1>3
<1>4. ASSUME NEW s \in 1 .. Len(D) PROVE refs(s) = RefsOf(m, D[s])
  BY <1>4, ReferenceIs DEF RefsOf
<1> HIDE DEF C, at, refs
<1>5. ASSUME NEW s \in 1 .. Len(D) PROVE C[M[s]] = RefsOf(m, D[s])
  <2>1. M[s] \in NamesIn(m)
    BY <1>5 DEF NamesIn
  <2>2. QED
    BY <1>2, <1>3, <1>4, <1>5, <2>1
<1>6. C = [o \in NamesIn(m) |-> C[o]]
  BY <1>2
<1>7. QED
  BY <1>5, <1>6 DEF AreCells, C

LEMMA SameCells ==
  ASSUME NEW m, NEW C, AreCells(C, m), NEW D, AreCells(D, m)
  PROVE  C = D
<1>1. \A o \in NamesIn(m) : C[o] = D[o]
  BY SMTT(30) DEF AreCells, NamesIn
<1>2. C = [o \in NamesIn(m) |-> C[o]] /\ D = [o \in NamesIn(m) |-> D[o]]
  BY DEF AreCells
<1>3. QED
  BY <1>1, <1>2

(* A new segment is a new object, of cells without references. *)
LEMMA CellsMade ==
  ASSUME NEW m, Sound(m), NEW q, Sound(q), NEW w \in 1 .. Len(m.explicitData) + 1,
         NEW cells, SegmentsUp(m, q, w, cells), NEW C, AreCells(C, m)
  PROVE  /\ AreCells(Promise!Made(C, m.fst_unused_id, cells), q)
         /\ m.fst_unused_id \notin NamesIn(m)
         /\ NamesIn(q) = NamesIn(m) \cup {m.fst_unused_id}
<1> DEFINE M == m.segments_mapping
           D == m.explicitData
           K == q.segments_mapping
           E == q.explicitData
           n == Len(D)
           f == m.fst_unused_id
           G == Promise!Made(C, f, cells)
<1>1. /\ K[w] = f /\ \A s \in 1 .. n : K[Up(w, s)] = M[s]
      /\ Len(E) = n + 1
      /\ DOMAIN E[w] = cells /\ \A c \in cells : E[w][c].meant = 0
      /\ \A s \in 1 .. n : SameMeaning(E[Up(w, s)], D[s])
      /\ \A i \in 1 .. n + 1 : i = w \/ \E s \in 1 .. n : i = Up(w, s)
  BY DEF SegmentsUp, NamesUp
<1>2. /\ n \in Nat /\ f \in Nat
      /\ \A s \in 1 .. n : M[s] \in Nat /\ M[s] > 0 /\ M[s] < f
      /\ \A s \in 1 .. n : \A c \in DOMAIN D[s] : D[s][c].meant < f /\ D[s][c].meant \in Nat
  BY NamesAre
<1>3. \A s \in 1 .. n : Up(w, s) \in 1 .. n + 1
  BY <1>2 DEF Up
<1>4. f \notin NamesIn(m)
  BY <1>2 DEF NamesIn
<1>5. NamesIn(q) = NamesIn(m) \cup {f}
  <2>1. NamesIn(q) = {K[i] : i \in 1 .. n + 1} /\ NamesIn(m) = {M[s] : s \in 1 .. n}
    BY <1>1 DEF NamesIn
  <2> HIDE DEF M, D, K, E, n, f, G
  <2>2. \A i \in 1 .. n + 1 : K[i] = f \/ \E s \in 1 .. n : K[i] = M[s]
    BY <1>1
  <2>3. \A s \in 1 .. n : \E i \in 1 .. n + 1 : K[i] = M[s]
    BY <1>1, <1>3
  <2>4. \E i \in 1 .. n + 1 : K[i] = f
    BY <1>1 DEF n, D
  <2>5. QED
    BY <2>1, <2>2, <2>3, <2>4
<1>6. C = [o \in NamesIn(m) |-> C[o]] /\ \A s \in 1 .. n : C[M[s]] = RefsOf(m, D[s])
  BY DEF AreCells
<1>7. G = [o \in NamesIn(m) \cup {f} |-> IF o = f THEN [c \in cells |-> 0] ELSE C[o]]
  <2>1. DOMAIN C = NamesIn(m)
    BY <1>6
  <2>2. QED
    BY <2>1 DEF Promise!Made, Nothing
<1> HIDE DEF M, D, K, E, n, f, G
<1>8. ASSUME NEW name \in Nat, name < f PROVE RefOf(q, name) = RefOf(m, name)
  BY <1>2, <1>5, <1>8 DEF RefOf
<1>9. G[K[w]] = RefsOf(q, E[w])
  <2>1. RefsOf(q, E[w]) = [c \in cells |-> 0]
    BY <1>1 DEF RefsOf, RefOf, Nothing
  <2>2. QED
    BY <1>1, <1>7, <2>1
<1>10. ASSUME NEW s \in 1 .. n PROVE G[K[Up(w, s)]] = RefsOf(q, E[Up(w, s)])
  <2> DEFINE x == E[Up(w, s)]
             y == D[s]
  <2>1. DOMAIN x = DOMAIN y /\ \A c \in DOMAIN y : x[c].meant = y[c].meant
    BY <1>1, <1>10 DEF SameMeaning
  <2>2. \A c \in DOMAIN y : y[c].meant < f /\ y[c].meant \in Nat
    BY <1>2, <1>10
  <2>3. M[s] \in NamesIn(m) /\ M[s] # f
    BY <1>4, <1>10 DEF NamesIn, M, n, D
  <2>4. G[K[Up(w, s)]] = RefsOf(m, y)
    BY <1>1, <1>6, <1>7, <1>10, <2>3
  <2> HIDE DEF x, y
  <2>5. RefsOf(q, x) = RefsOf(m, y)
    BY <1>8, <2>1, <2>2 DEF RefsOf
  <2>6. QED
    BY <2>4, <2>5 DEF x
<1>11. \A i \in 1 .. n + 1 : G[K[i]] = RefsOf(q, E[i])
  BY <1>1, <1>9, <1>10
<1>12. G = [o \in NamesIn(q) |-> G[o]]
  BY <1>5, <1>7
<1>13. AreCells(G, q)
  BY <1>1, <1>11, <1>12 DEF AreCells, E, K
<1>14. QED
  BY <1>4, <1>5, <1>13 DEF G, f

(* The objects of the segments that go die. *)
LEMMA CellsLeft ==
  ASSUME NEW m, Sound(m), NEW p, Sound(p), NEW lo \in Nat, NEW hi \in Nat,
         1 < lo, lo <= hi, hi <= Len(m.explicitData), SegmentsDown(m, p, lo, hi),
         NEW dead, dead = {m.segments_mapping[s] : s \in lo .. hi}, NEW C, AreCells(C, m)
  PROVE  AreCells(Promise!Left(C, dead), p)
<1> DEFINE M == m.segments_mapping
           D == m.explicitData
           K == p.segments_mapping
           E == p.explicitData
           n == Len(D)
           d == hi + 1 - lo
           G == Promise!Left(C, dead)
           stays(s) == s < lo \/ s > hi
<1>1. /\ \A s \in 1 .. n : stays(s) => K[Down(lo, hi, s)] = M[s]
      /\ Len(E) = n - d
      /\ \A s \in 1 .. n : stays(s) => SameMeaning(E[Down(lo, hi, s)], D[s])
  BY DEF SegmentsDown, NamesDown
<1>2. /\ n \in Nat
      /\ \A s \in 1 .. n : M[s] \in Nat /\ M[s] > 0
      /\ \A s, r \in 1 .. n : M[s] = M[r] => s = r
      /\ \A s \in 1 .. n : \A c \in DOMAIN D[s] : D[s][c].meant \in Nat
  BY NamesAre
<1>3. /\ \A s \in 1 .. n : stays(s) => Down(lo, hi, s) \in 1 .. n - d
      /\ \A i \in 1 .. n - d : \E s \in 1 .. n : stays(s) /\ i = Down(lo, hi, s)
  <2> HIDE DEF n
  <2>1. n \in Nat /\ hi <= n
    BY <1>2 DEF n
  <2>2. /\ \A s \in 1 .. n : s < lo \/ s > hi => Down(lo, hi, s) \in 1 .. n - (hi + 1 - lo)
        /\ DownReachesAll(n, lo, hi)
    BY <2>1, DownKeepsApart
  <2>3. QED
    BY <2>2 DEF DownReachesAll
<1>4. \A s \in 1 .. n : s \in lo .. hi <=> ~stays(s)
  BY <1>2
<1>5. \A s \in lo .. hi : s \in 1 .. n
  BY <1>2
<1>6. C = [o \in NamesIn(m) |-> C[o]] /\ \A s \in 1 .. n : C[M[s]] = RefsOf(m, D[s])
  BY DEF AreCells
<1>7. NamesIn(p) = {K[i] : i \in 1 .. n - d} /\ NamesIn(m) = {M[s] : s \in 1 .. n}
  BY <1>1 DEF NamesIn
<1>8. dead = {M[s] : s \in lo .. hi}
  OBVIOUS
<1>9. G = [o \in NamesIn(m) \ dead |-> [c \in DOMAIN C[o] |-> Promise!Surviving(C[o][c], dead)]]
  <2>1. DOMAIN C = NamesIn(m)
    BY <1>6
  <2>2. QED
    BY <2>1 DEF Promise!Left
<1> HIDE DEF M, D, K, E, n, d, G, stays
<1>10. \A s \in 1 .. n : M[s] \in dead <=> ~stays(s)
  BY <1>2, <1>4, <1>5, <1>8
<1>11. NamesIn(p) = NamesIn(m) \ dead
  <2>1. \A i \in 1 .. n - d : K[i] \in NamesIn(m) \ dead
    BY <1>1, <1>3, <1>7, <1>10
  <2>2. \A s \in 1 .. n : M[s] \notin dead => \E i \in 1 .. n - d : K[i] = M[s]
    BY <1>1, <1>3, <1>10
  <2>3. QED
    BY <1>7, <2>1, <2>2
<1>12. ASSUME NEW name \in Nat
       PROVE  Promise!Surviving(RefOf(m, name), dead) = RefOf(p, name)
  <2>1. ASSUME NEW o \in dead PROVE o \in NamesIn(m) /\ o \in Nat /\ o > 0
    <3>1. PICK s \in lo .. hi : o = M[s]
      BY <1>8, <2>1
    <3>2. s \in 1 .. n
      BY <1>5, <3>1
    <3>3. QED
      BY <1>2, <1>7, <3>1, <3>2
  <2>2. 0 \notin dead
    <3>1. ~(0 > 0)
      OBVIOUS
    <3>2. QED
      BY <2>1, <3>1
  <2>4. -1 \notin dead
    <3>1. -1 \notin Nat
      OBVIOUS
    <3>2. QED
      BY <2>1, <3>1
  <2>3. QED
    BY <1>11, <1>12, <2>1, <2>2, <2>4 DEF Promise!Surviving, RefOf, Nothing, Dead
<1>13. ASSUME NEW s \in 1 .. n, stays(s)
       PROVE  G[K[Down(lo, hi, s)]] = RefsOf(p, E[Down(lo, hi, s)])
  <2> DEFINE x == E[Down(lo, hi, s)]
             y == D[s]
  <2>1. DOMAIN x = DOMAIN y /\ \A c \in DOMAIN y : x[c].meant = y[c].meant
    BY <1>1, <1>13 DEF SameMeaning
  <2>2. \A c \in DOMAIN y : y[c].meant \in Nat
    BY <1>2, <1>13
  <2>3. M[s] \in NamesIn(m) \ dead /\ K[Down(lo, hi, s)] = M[s]
    BY <1>1, <1>7, <1>10, <1>13
  <2>4. C[M[s]] = RefsOf(m, y)
    BY <1>6, <1>13
  <2>5. G[M[s]] = [c \in DOMAIN C[M[s]] |-> Promise!Surviving(C[M[s]][c], dead)]
    BY <1>9, <2>3
  <2> HIDE DEF x, y
  <2>6. G[M[s]] = [c \in DOMAIN y |-> Promise!Surviving(RefOf(m, y[c].meant), dead)]
    BY <2>4, <2>5 DEF RefsOf
  <2>7. G[M[s]] = [c \in DOMAIN y |-> RefOf(p, y[c].meant)]
    BY <1>12, <2>2, <2>6
  <2>8. G[M[s]] = RefsOf(p, x)
    BY <2>1, <2>7 DEF RefsOf
  <2>9. QED
    BY <2>3, <2>8 DEF x
<1>14. \A i \in 1 .. n - d : G[K[i]] = RefsOf(p, E[i])
  BY <1>3, <1>13
<1>15. G = [o \in NamesIn(p) |-> G[o]]
  BY <1>9, <1>11
<1>16. AreCells(G, p)
  BY <1>1, <1>14, <1>15 DEF AreCells, E, K
<1>17. QED
  BY <1>16 DEF G

(* A cell is stored in one of the cells of an object. *)
CellPut(C, E, o, c, ref) ==
  /\ DOMAIN E = DOMAIN C /\ o \in DOMAIN C /\ c \in DOMAIN C[o]
  /\ \A other \in DOMAIN C \ {o} : E[other] = C[other]
  /\ E[o] = [C[o] EXCEPT ![c] = ref]

LEMMA CellsStored ==
  ASSUME NEW m, Sound(m), NEW sid \in 1 .. Len(m.explicitData), NEW c \in DOMAIN m.explicitData[sid],
         NEW cell \in CellValue, CellOK(m, cell), NEW q, q = Store(m, sid, c, cell)
  PROVE  /\ CellPut(CellsOf(m), CellsOf(q), m.segments_mapping[sid], c, RefOf(m, cell.meant))
         /\ FramesOf(q) = FramesOf(m)
         /\ NamesIn(q) = NamesIn(m)
         /\ q.segments_mapping = m.segments_mapping
<1> DEFINE M == m.segments_mapping
           D == m.explicitData
           E == q.explicitData
           n == Len(D)
           C == CellsOf(m)
           G == CellsOf(q)
<1>1. Sound(q)
  BY Storing
<1>2. D \in Seq(Segment) /\ n \in Nat /\ m \in MemoryState
  BY StateTypes DEF Sound
<1>3. q = [m EXCEPT !.explicitData = [D EXCEPT ![sid] = [D[sid] EXCEPT ![c] = cell]]]
  BY DEF Store
<1>4. /\ q.thread_segments = m.thread_segments /\ q.segments_in_stack = m.segments_in_stack
      /\ q.segments_mapping = M /\ E = [D EXCEPT ![sid] = [D[sid] EXCEPT ![c] = cell]]
  BY <1>2, <1>3 DEF MemoryState
<1>5. /\ Len(E) = n /\ E[sid] = [D[sid] EXCEPT ![c] = cell]
      /\ \A s \in 1 .. n : s # sid => E[s] = D[s]
  BY <1>2, <1>4
<1>6. FramesOf(q) = FramesOf(m)
  BY <1>4 DEF FramesOf
<1>7. NamesIn(q) = NamesIn(m)
  BY <1>4, <1>5 DEF NamesIn
<1>8. AreCells(C, m) /\ AreCells(G, q)
  BY <1>1, CellsAre
<1>9. \A s, r \in 1 .. n : M[s] = M[r] => s = r
  BY NamesAre
<1> HIDE DEF C, G, D, E, n, M
<1>10. \A name : RefOf(q, name) = RefOf(m, name)
  BY <1>7 DEF RefOf
<1>11. /\ DOMAIN C = {M[s] : s \in 1 .. n} /\ DOMAIN G = DOMAIN C
       /\ \A s \in 1 .. n : C[M[s]] = RefsOf(m, D[s])
       /\ \A s \in 1 .. n : G[M[s]] = RefsOf(q, E[s])
  <2>1. C = [o \in NamesIn(m) |-> C[o]] /\ G = [o \in NamesIn(q) |-> G[o]]
    BY <1>8 DEF AreCells
  <2>2. DOMAIN C = NamesIn(m) /\ DOMAIN G = NamesIn(q)
    BY <2>1
  <2>3. NamesIn(m) = {M[s] : s \in 1 .. n}
    BY DEF NamesIn, M, n, D
  <2>4. QED
    BY <1>4, <1>5, <1>7, <1>8, <2>2, <2>3 DEF AreCells, M, n, D, E
<1>12. sid \in 1 .. n /\ c \in DOMAIN D[sid]
  BY DEF n, D
<1>13. ASSUME NEW s \in 1 .. n, s # sid PROVE G[M[s]] = C[M[s]]
  <2>1. E[s] = D[s] /\ C[M[s]] = RefsOf(m, D[s]) /\ G[M[s]] = RefsOf(q, E[s])
    BY <1>5, <1>11, <1>13
  <2>2. \A y : RefsOf(q, y) = RefsOf(m, y)
    BY <1>10 DEF RefsOf
  <2>3. QED
    BY <2>1, <2>2
<1>14. DOMAIN C[M[sid]] = DOMAIN D[sid] /\ C[M[sid]] = [x \in DOMAIN D[sid] |-> RefOf(m, D[sid][x].meant)]
  BY <1>11, <1>12 DEF RefsOf
<1>15. G[M[sid]] = [C[M[sid]] EXCEPT ![c] = RefOf(m, cell.meant)]
  <2> DEFINE y == D[sid]
             x == E[sid]
  <2>1. x = [y EXCEPT ![c] = cell] /\ c \in DOMAIN y
    BY <1>5, <1>12
  <2>2. G[M[sid]] = [z \in DOMAIN x |-> RefOf(m, x[z].meant)]
    BY <1>10, <1>11, <1>12 DEF RefsOf
  <2>3. C[M[sid]] = [z \in DOMAIN y |-> RefOf(m, y[z].meant)]
    BY <1>14
  <2> HIDE DEF x, y
  <2>4. DOMAIN x = DOMAIN y /\ x[c] = cell /\ \A z \in DOMAIN y : z # c => x[z] = y[z]
    BY <2>1
  <2> DEFINE L == [C[M[sid]] EXCEPT ![c] = RefOf(m, cell.meant)]
  <2>5. L = [z \in DOMAIN y |-> IF z = c THEN RefOf(m, cell.meant) ELSE RefOf(m, y[z].meant)]
    BY <2>3
  <2>6. G[M[sid]] = [z \in DOMAIN y |-> IF z = c THEN RefOf(m, cell.meant) ELSE RefOf(m, y[z].meant)]
    BY <2>2, <2>4
  <2>7. QED
    BY <2>5, <2>6
<1>16. \A other \in DOMAIN C \ {M[sid]} : G[other] = C[other]
  BY <1>11, <1>13
<1>17. CellPut(C, G, M[sid], c, RefOf(m, cell.meant))
  BY <1>11, <1>12, <1>14, <1>15, <1>16 DEF CellPut
<1>18. QED
  BY <1>4, <1>6, <1>7, <1>17 DEF C, G, M

(* The last frame of a thread: its registers, those of the caller, and all
   of its segments. *)
LastObjects(m, tid, lo, hi, X) ==
  /\ FramesOf(m) \in Seq(Seq(Seq(Nat))) /\ Len(FramesOf(m)) = ThreadCount(m)
  /\ X \in Seq(Seq(Nat)) /\ Len(X) = Len(m.segments_in_stack[tid]) /\ Len(X) > 0
  /\ Last(X)[1] = m.segments_mapping[lo]
  /\ ToSet(Last(X)) = {m.segments_mapping[s] : s \in lo .. hi}
  /\ Len(X) > 1 => Last(Front(X))[1] = m.segments_mapping[PrevRange(m, tid)[1]]
  /\ lo \in Nat /\ hi \in Nat /\ 1 < lo /\ lo <= hi /\ hi <= Len(m.explicitData)

LEMMA LastFrameNames ==
  ASSUME NEW m, Sound(m), NEW tid \in 1 .. ThreadCount(m),
         NEW lo, NEW hi, IsLastRange(m, tid, lo, hi), NEW X, X = FramesOf(m)[tid]
  PROVE  LastObjects(m, tid, lo, hi, X)
<1> DEFINE M == m.segments_mapping
           W == m.segments_in_stack
           v == W[tid]
           n == Len(v)
<1>1. PICK b : LaidOut(m, b) /\ b[ThreadCount(m) + 1] = Len(m.explicitData)
  BY SoundLayout
<1>2. HasLayout(m)
  BY DEF Sound
<1>3. AreFrames(FramesOf(m), m, b)
  BY <1>1, FramesAre
<1>4. /\ FramesOf(m) \in Seq(Seq(Seq(Nat))) /\ Len(FramesOf(m)) = ThreadCount(m)
      /\ AreThreadFrames(X, m, b, tid)
  BY <1>3 DEF AreFrames
<1>5. X \in Seq(Seq(Nat))
  <2> DEFINE T == Seq(Seq(Nat))
             F == FramesOf(m)
  <2>1. F \in Seq(T) /\ tid \in 1 .. Len(F) /\ X = F[tid]
    BY <1>4
  <2> HIDE DEF T, F
  <2>2. X \in T
    BY <2>1
  <2>3. QED
    BY <2>2 DEF T
<1>6. Len(X) = n /\ \A k \in 1 .. n : IsFrame(X[k], m, b, tid, k)
  BY <1>4 DEF AreThreadFrames
<1>7. n \in Nat /\ n > 0 /\ v \in Seq(Nat)
  BY <1>1, <1>2, FrameStarts, LayoutParts
<1>8. lo \in Nat /\ hi \in Nat /\ lo <= hi /\ 1 < lo /\ hi <= b[ThreadCount(m) + 1]
  BY <1>1, <1>2, LastRangeBounds
<1>9. /\ lo = FrameStart(m, b, tid, n)
      /\ n > 1 => PrevRange(m, tid)[1] = FrameStart(m, b, tid, n - 1)
  BY <1>1, <1>2, LastFrames DEF IsLastRange
<1>10. \A k \in 1 .. n : v[k] > 0
  BY <1>1 DEF LaidOut
<1>11. v[n] = hi + 1 - lo /\ n \in 1 .. n /\ v[n] \in Nat
  <2>1. v[n] = hi + 1 - lo /\ v[n] \in Nat
    BY <1>1, <1>2, LastWidth
  <2>2. n \in 1 .. n
    BY <1>7
  <2>3. QED
    BY <2>1, <2>2
<1>12. \A k \in 1 .. n : v[k] \in Nat /\ v[k] > 0 /\ 1 \in 1 .. v[k]
  <2>1. \A k \in 1 .. n : v[k] \in Nat
    BY <1>7
  <2>2. QED
    BY <1>10, <2>1
<1>13. ASSUME NEW k \in 1 .. n PROVE X[k][1] = M[FrameStart(m, b, tid, k)]
  <2>1. IsFrame(X[k], m, b, tid, k) /\ 1 \in 1 .. W[tid][k]
    BY <1>6, <1>12, <1>13
  <2>2. X[k][1] = M[Place(m, b, tid, k, 1)]
    BY <2>1 DEF IsFrame
  <2>3. \A i \in 1 .. W[tid][k] : /\ Place(m, b, tid, k, i) = FrameStart(m, b, tid, k) + (i - 1)
                                  /\ b[tid] < Place(m, b, tid, k, i)
    BY <1>1, <1>2, <1>13, PlaceIs
  <2>4. FrameStart(m, b, tid, k) \in Nat
    BY <1>1, <1>2, <1>13, FrameStarts
  <2>5. Place(m, b, tid, k, 1) = FrameStart(m, b, tid, k) + (1 - 1)
    BY <2>1, <2>3
  <2>6. FrameStart(m, b, tid, k) + (1 - 1) = FrameStart(m, b, tid, k)
    BY <2>4
  <2>7. QED
    BY <2>2, <2>5, <2>6
<1>14. ToSet(X[n]) = {M[s] : s \in lo .. hi}
  <2> DEFINE x == X[n]
  <2>1. IsFrame(x, m, b, tid, n) /\ Len(x) = v[n] /\ x \in Seq(Nat)
    BY <1>6, <1>11 DEF IsFrame
  <2>2. ASSUME NEW i \in 1 .. v[n] PROVE x[i] = M[lo + (i - 1)]
    <3>1. x[i] = M[Place(m, b, tid, n, i)]
      BY <2>1, <2>2 DEF IsFrame
    <3>2. Place(m, b, tid, n, i) = FrameStart(m, b, tid, n) + (i - 1)
      BY <1>1, <1>2, <1>11, <2>2, PlaceIs
    <3>3. QED
      BY <1>9, <3>1, <3>2
  <2>3. ToSet(x) = {x[i] : i \in 1 .. v[n]}
    BY <2>1, SMTT(30) DEF ToSet
  <2> HIDE DEF x, M
  <2> DEFINE d == v[n]
  <2>4. d = hi + 1 - lo /\ d \in Nat
    BY <1>11
  <2> HIDE DEF d
  <2>5. /\ \A i \in 1 .. d : lo + (i - 1) \in lo .. hi
        /\ \A s \in lo .. hi : s - lo + 1 \in 1 .. d /\ lo + ((s - lo + 1) - 1) = s
    BY <1>8, <2>4
  <2>6. \A i \in 1 .. d : x[i] = M[lo + (i - 1)]
    BY <2>2 DEF d
  <2>7. ToSet(x) = {x[i] : i \in 1 .. d}
    BY <2>3 DEF d
  <2>8. {x[i] : i \in 1 .. d} = {M[s] : s \in lo .. hi}
    BY <2>5, <2>6
  <2>9. QED
    BY <2>7, <2>8 DEF x
<1>15. Last(X) = X[n] /\ X # << >>
  BY <1>5, <1>6, <1>7 DEF Last
<1>16. n > 1 => Last(Front(X)) = X[n - 1] /\ n - 1 \in 1 .. n
  <2> DEFINE T == Seq(Nat)
  <2>1. X \in Seq(T)
    BY <1>5
  <2> HIDE DEF T, n
  <2>2. /\ Front(X) \in Seq(T) /\ Len(Front(X)) = Len(X) - 1
        /\ \A k \in 1 .. Len(X) - 1 : Front(X)[k] = X[k]
    BY <1>15, <2>1, FrontAndLast
  <2>3. QED
    BY <1>6, <1>7, <2>2 DEF Last
<1>17. /\ X[n][1] = M[lo]
       /\ n > 1 => X[n - 1][1] = M[PrevRange(m, tid)[1]]
  BY <1>9, <1>11, <1>13, <1>16
<1>18. QED
  BY <1>1, <1>4, <1>5, <1>6, <1>7, <1>8, <1>14, <1>15, <1>16, <1>17 DEF LastObjects

(* What lives has a name that has been given. *)
LEMMA LiveHasName ==
  ASSUME NEW m, Sound(m), NEW o \in Promise!Live(FramesOf(m))
  PROVE  o = GlobalSegment \/ o \in NamesIn(m)
<1> DEFINE F == FramesOf(m)
           M == m.segments_mapping
<1>1. PICK b : LaidOut(m, b) /\ b[ThreadCount(m) + 1] = Len(m.explicitData)
  BY SoundLayout
<1>2. HasLayout(m)
  BY DEF Sound
<1>3. AreFrames(F, m, b)
  BY <1>1, FramesAre
<1>4. DOMAIN F = 1 .. ThreadCount(m)
  BY <1>3 DEF AreFrames
<1> HIDE DEF F
<1>5. CASE o # GlobalSegment
  <2>1. PICK t \in ToSet(F) : \E x \in ToSet(t) : o \in ToSet(x)
    BY <1>5 DEF F, Promise!Live, Promise!ToSet, ToSet
  <2>2. PICK x \in ToSet(t) : o \in ToSet(x)
    BY <2>1
  <2>3. PICK i \in DOMAIN F : t = F[i]
    BY <2>1 DEF ToSet
  <2>4. PICK k \in DOMAIN t : x = t[k]
    BY <2>2 DEF ToSet
  <2>5. PICK j \in DOMAIN x : o = x[j]
    BY <2>2 DEF ToSet
  <2>6. AreThreadFrames(t, m, b, i) /\ i \in 1 .. ThreadCount(m)
    BY <1>3, <1>4, <2>3 DEF AreFrames
  <2>7. t \in Seq(Seq(Nat))
    <3> DEFINE T == Seq(Seq(Nat))
    <3>1. F \in Seq(T)
      BY <1>3 DEF AreFrames
    <3> HIDE DEF T
    <3>2. t \in T
      BY <2>3, <3>1
    <3>3. QED
      BY <3>2 DEF T
  <2>8. DOMAIN t = 1 .. Len(m.segments_in_stack[i])
    BY <2>6, <2>7 DEF AreThreadFrames
  <2>9. IsFrame(x, m, b, i, k) /\ k \in 1 .. Len(m.segments_in_stack[i])
    BY <2>4, <2>6, <2>8 DEF AreThreadFrames
  <2>10. j \in 1 .. m.segments_in_stack[i][k]
    BY <2>5, <2>9 DEF IsFrame
  <2>11. o = M[Place(m, b, i, k, j)]
    BY <2>5, <2>9, <2>10 DEF IsFrame
  <2>12. Place(m, b, i, k, j) \in 1 .. Len(m.explicitData)
    BY <1>1, <1>2, <2>6, <2>9, <2>10, PlaceIs
  <2>13. QED
    BY <2>11, <2>12 DEF NamesIn
<1>6. QED
  BY <1>5

(* The new object is a fresh one. *)
LEMMA NewIsFresh ==
  ASSUME NEW m, Sound(m), NEW q, m.fst_unused_id \in Promise!Live(FramesOf(q)),
         NEW s \in 1 .. Len(m.explicitData)
  PROVE  m.fst_unused_id \in Promise!Live(FramesOf(q)) \ Promise!Live(FramesOf(m))
<1> DEFINE f == m.fst_unused_id
           n == Len(m.explicitData)
<1>1. n < f
  BY DEF Sound, StoresAgree
<1>2. /\ n \in Nat /\ f \in Nat /\ \A r \in 1 .. n : m.segments_mapping[r] \in Nat
      /\ \A r \in 1 .. n : m.segments_mapping[r] < f
  BY NamesAre
<1>3. f # GlobalSegment
  BY <1>1, <1>2 DEF GlobalSegment
<1>4. f \notin NamesIn(m)
  BY <1>2 DEF NamesIn
<1>5. f \notin Promise!Live(FramesOf(m))
  BY <1>3, <1>4, LiveHasName
<1>6. QED
  BY <1>5

-----------------------------------------------------------------------------
(* The steps of the program are those of Objects.                          *)

(* The mapping of the state and of the next one. *)
LEMMA NamedAre ==
  /\ NamedFrames = FramesOf(state) /\ NamedFrames' = FramesOf(state')
  /\ NamedCells = CellsOf(state) /\ NamedCells' = CellsOf(state')
  BY DEF NamedFrames, NamedCells, FramesOf, CellsOf, AllSegments

(* the first segment is named for the globals *)
GlobalsNamed(m) == m.segments_mapping[1] = GlobalSegment

LEMMA PutIsStored ==
  ASSUME NEW C, NEW E, NEW objects, NEW o \in objects, NEW c, NEW refs, NEW ref \in refs,
         CellPut(C, E, o, c, ref)
  PROVE  Promise!Stored(C, E, objects, refs)
<1>1. /\ DOMAIN E = DOMAIN C /\ o \in DOMAIN C /\ c \in DOMAIN C[o]
      /\ \A other \in DOMAIN C \ {o} : E[other] = C[other]
      /\ E[o] = [C[o] EXCEPT ![c] = ref]
  BY DEF CellPut
<1>2. E[o][c] = ref
  BY <1>1
<1>3. QED
  BY <1>1, <1>2 DEF Promise!Stored

(* What a cell refers to is held by its object. *)
LEMMA RefIsHeld ==
  ASSUME NEW m, Sound(m), NEW s \in 1 .. Len(m.explicitData), NEW c \in DOMAIN m.explicitData[s],
         NEW objects, m.segments_mapping[s] \in objects
  PROVE  /\ RefOf(m, m.explicitData[s][c].meant) \in Promise!Held(CellsOf(m), objects)
         /\ m.segments_mapping[s] \in DOMAIN CellsOf(m)
         /\ DOMAIN CellsOf(m) = NamesIn(m)
         /\ CellsOf(m)[m.segments_mapping[s]] = RefsOf(m, m.explicitData[s])
<1> DEFINE C == CellsOf(m)
           o == m.segments_mapping[s]
           segment == m.explicitData[s]
<1>1. AreCells(C, m)
  BY CellsAre
<1>2. C[o] = RefsOf(m, segment) /\ C = [x \in NamesIn(m) |-> C[x]]
  BY <1>1 DEF AreCells
<1>3. o \in NamesIn(m)
  BY DEF NamesIn
<1> HIDE DEF C, o, segment
<1>4. RefOf(m, segment[c].meant) = C[o][c] /\ c \in DOMAIN C[o]
  BY <1>2 DEF RefsOf, segment
<1>5. o \in objects
  BY DEF o
<1>6. RefOf(m, segment[c].meant) \in Promise!Held(C, objects)
  BY <1>4, <1>5 DEF Promise!Held, Promise!Range
<1>7. DOMAIN C = NamesIn(m)
  BY <1>2
<1>8. QED
  BY <1>2, <1>3, <1>6, <1>7 DEF C, o, segment

(* The registers of the last frame: where a thread's instructions read and
   store. *)
LEMMA RegistersAre ==
  ASSUME NEW m, Sound(m), NEW tid \in 1 .. ThreadCount(m), NEW s, s = LastRange(m, tid)[1]
  PROVE  /\ s \in 1 .. Len(m.explicitData) /\ DOMAIN m.explicitData[s] = Register
         /\ m.segments_mapping[s] = Last(FramesOf(m)[tid])[1]
         /\ Registers(m, tid) = m.explicitData[s]
<1> DEFINE hi == LastRange(m, tid)[2]
           X == FramesOf(m)[tid]
<1>1. s \in RegisterSegments(m) /\ s \in 2 .. Len(m.explicitData) /\ Len(m.explicitData) \in Nat
  BY RegistersExist, SegmentsFit
<1>2. DOMAIN m.explicitData[s] = Register
  BY <1>1 DEF Sound
<1>3. IsLastRange(m, tid, s, hi) /\ X = FramesOf(m)[tid]
  BY DEF IsLastRange
<1> HIDE DEF hi, X
<1>4. Last(X)[1] = m.segments_mapping[s]
  BY <1>3, LastFrameNames DEF LastObjects
<1>5. QED
  BY <1>1, <1>2, <1>4 DEF X, Registers

(* A store of what is held, or of the address of the globals, assigns. *)
LEMMA StoreAssigns ==
  ASSUME Sound(state), NEW sid \in 1 .. Len(state.explicitData),
         NEW c \in DOMAIN state.explicitData[sid],
         NEW cell \in CellValue, CellOK(state, cell), state' = Store(state, sid, c, cell),
         RefOf(state, cell.meant) \in
           Promise!Held(CellsOf(state), DOMAIN CellsOf(state)) \cup {GlobalSegment}
  PROVE  Promise!Assign /\ (GlobalsNamed(state) => GlobalsNamed(state'))
<1> DEFINE C == CellsOf(state)
           G == CellsOf(state')
           o == state.segments_mapping[sid]
           ref == RefOf(state, cell.meant)
           refs == Promise!Held(C, DOMAIN C) \cup {GlobalSegment}
<1>1. /\ CellPut(C, G, o, c, ref)
      /\ FramesOf(state') = FramesOf(state)
      /\ state'.segments_mapping = state.segments_mapping
  BY CellsStored
<1>2. o \in DOMAIN C /\ ref \in refs
  BY <1>1 DEF CellPut
<1> HIDE DEF C, G, o, ref
<1>3. Promise!Stored(C, G, DOMAIN C, refs)
  BY <1>1, <1>2, PutIsStored
<1>4. NamedFrames = FramesOf(state) /\ NamedFrames' = FramesOf(state') /\ NamedCells = C /\ NamedCells' = G
  BY NamedAre DEF C, G
<1>5. Promise!Assign
  BY <1>1, <1>3, <1>4 DEF Promise!Assign
<1>6. QED
  BY <1>1, <1>5 DEF GlobalsNamed

LEMMA LoadAssigns ==
  ASSUME Sound(state), NEW tid \in 1 .. ThreadCount(state),
         NEW c \in Register, NEW d \in Register, Load(tid, c, d)
  PROVE  Promise!Assign /\ (GlobalsNamed(state) => GlobalsNamed(state'))
<1> DEFINE cell == Registers(state, tid)[d]
           s == LastRange(state, tid)[1]
<1>1. PICK x \in DOMAIN state.explicitData[cell.seg] :
        state' = StoreRegister(state, tid, c, state.explicitData[cell.seg][x])
  BY DEF Load
<1>2. MayFollow(state, cell)
  BY DEF Load
<1>3. CellOK(state, cell)
  BY ReadingRegister
<1>4. s \in 1 .. Len(state.explicitData) /\ c \in DOMAIN state.explicitData[s]
  BY RegistersAre
<1> HIDE DEF cell
<1> DEFINE value == state.explicitData[cell.seg][x]
<1>5. cell.seg \in 1 .. Len(state.explicitData)
  BY <1>2, <1>3 DEF CellOK
<1>6. value \in CellValue /\ CellOK(state, value)
  BY <1>5, Loading
<1>7. state' = Store(state, s, c, value)
  BY <1>1 DEF StoreRegister
<1> DEFINE objects == DOMAIN CellsOf(state)
<1>8. state.segments_mapping[cell.seg] \in objects
  BY <1>1, <1>5, RefIsHeld
<1>9. RefOf(state, value.meant) \in Promise!Held(CellsOf(state), objects)
  BY <1>1, <1>5, <1>8, RefIsHeld
<1> HIDE DEF value, s
<1>10. QED
  BY <1>4, <1>6, <1>7, <1>9, StoreAssigns

(* A register's cell refers to what the registers hold. *)
LEMMA RegisterIsHeld ==
  ASSUME NEW m, Sound(m), NEW tid \in 1 .. ThreadCount(m), NEW c \in Register
  PROVE  /\ RefOf(m, Registers(m, tid)[c].meant) \in
              Promise!Held(CellsOf(m), {Last(FramesOf(m)[tid])[1]})
         /\ RefOf(m, Registers(m, tid)[c].meant) \in Promise!Held(CellsOf(m), DOMAIN CellsOf(m))
<1> DEFINE s == LastRange(m, tid)[1]
<1>1. /\ s \in 1 .. Len(m.explicitData) /\ DOMAIN m.explicitData[s] = Register
      /\ m.segments_mapping[s] = Last(FramesOf(m)[tid])[1]
      /\ Registers(m, tid) = m.explicitData[s]
  BY RegistersAre
<1> HIDE DEF s
<1>2. c \in DOMAIN m.explicitData[s]
  BY <1>1
<1>3. m.segments_mapping[s] \in {Last(FramesOf(m)[tid])[1]}
  BY <1>1
<1>4. m.segments_mapping[s] \in DOMAIN CellsOf(m)
  BY <1>1, <1>2, <1>3, RefIsHeld
<1>5. QED
  BY <1>1, <1>2, <1>3, <1>4, RefIsHeld

LEMMA StoreThroughAssigns ==
  ASSUME Sound(state), NEW tid \in 1 .. ThreadCount(state),
         NEW c \in Register, NEW d \in Register, StoreThrough(tid, c, d)
  PROVE  Promise!Assign /\ (GlobalsNamed(state) => GlobalsNamed(state'))
<1> DEFINE cell == Registers(state, tid)[d]
           value == Registers(state, tid)[c]
<1>1. PICK x \in DOMAIN state.explicitData[cell.seg] : state' = Store(state, cell.seg, x, value)
  BY DEF StoreThrough
<1>2. MayFollow(state, cell)
  BY DEF StoreThrough
<1>3. CellOK(state, cell) /\ value \in CellValue /\ CellOK(state, value)
  BY ReadingRegister
<1>4. RefOf(state, value.meant) \in Promise!Held(CellsOf(state), DOMAIN CellsOf(state))
  BY RegisterIsHeld
<1> HIDE DEF cell, value
<1>5. cell.seg \in 1 .. Len(state.explicitData)
  BY <1>2, <1>3 DEF CellOK
<1>6. QED
  BY <1>1, <1>3, <1>4, <1>5, StoreAssigns

LEMMA AddressOfGlobalAssigns ==
  ASSUME Sound(state), GlobalsNamed(state), NEW tid \in 1 .. ThreadCount(state),
         NEW c \in Register, AddressOfGlobal(tid, c)
  PROVE  Promise!Assign /\ GlobalsNamed(state')
<1> DEFINE cell == PointerTo(state, GlobalSegment)
           s == LastRange(state, tid)[1]
<1>1. cell \in CellValue /\ CellOK(state, cell)
  BY AddressOfGlobalOK
<1>2. state' = Store(state, s, c, cell)
  BY DEF AddressOfGlobal, StoreRegister
<1>3. s \in 1 .. Len(state.explicitData) /\ c \in DOMAIN state.explicitData[s]
  BY RegistersAre
<1>4. cell.meant = 1
  BY DEF PointerTo, GlobalsNamed, GlobalSegment
<1>5. 1 \in NamesIn(state)
  <2>1. 1 \in 1 .. Len(state.explicitData)
    BY <1>3
  <2>2. QED
    BY <2>1 DEF NamesIn, GlobalsNamed, GlobalSegment
<1>6. RefOf(state, cell.meant) = GlobalSegment
  BY <1>4, <1>5 DEF RefOf, GlobalSegment
<1> HIDE DEF cell, s
<1>7. RefOf(state, cell.meant) \in
        Promise!Held(CellsOf(state), DOMAIN CellsOf(state)) \cup {GlobalSegment}
  BY <1>6
<1>8. QED
  BY <1>1, <1>2, <1>3, <1>7, StoreAssigns

(* The calling frame lies before the last one. *)
LEMMA CallerBefore ==
  ASSUME NEW m, Sound(m), NEW tid \in 1 .. ThreadCount(m), Len(m.segments_in_stack[tid]) > 1
  PROVE  /\ PrevRange(m, tid)[1] \in 1 .. Len(m.explicitData)
         /\ PrevRange(m, tid)[1] < LastRange(m, tid)[1]
         /\ DOMAIN m.explicitData[PrevRange(m, tid)[1]] = Register
<1> DEFINE v == m.segments_in_stack[tid]
           n == Len(v)
           e == FrameEnds(v)
<1>1. PICK b : LaidOut(m, b) /\ b[ThreadCount(m) + 1] = Len(m.explicitData)
  BY SoundLayout
<1>2. HasLayout(m)
  BY DEF Sound
<1>3. v \in Seq(Nat) /\ n \in Nat /\ n > 1 /\ \A k \in 1 .. n : v[k] > 0
  BY <1>1, <1>2, LayoutParts DEF LaidOut
<1>4. /\ PrevRange(m, tid)[1] \in RegisterSegments(m) /\ Len(m.explicitData) \in Nat
      /\ \A s \in RegisterSegments(m) : s \in 2 .. Len(m.explicitData)
      /\ \A s \in RegisterSegments(m) : DOMAIN m.explicitData[s] = Register
  BY RegistersExist, SegmentsFit DEF Sound
<1>5. /\ LastRange(m, tid)[1] = FrameStart(m, b, tid, n)
      /\ PrevRange(m, tid)[1] = FrameStart(m, b, tid, n - 1)
  BY <1>1, <1>2, LastFrames
<1>6. /\ FrameStart(m, b, tid, n) = b[tid] + e[n - 1] + 1
      /\ FrameStart(m, b, tid, n - 1) = b[tid] + e[(n - 1) - 1] + 1
  BY DEF FrameStart
<1>7. b[tid] \in Nat
  <2>1. tid \in 1 .. ThreadCount(m) + 1
    BY <1>2, LayoutParts
  <2>2. QED
    BY <1>1, <1>2, <2>1, ThreadsAscend
<1>8. /\ \A i, j \in 0 .. n : i < j => e[i] < e[j]
      /\ \A i \in 0 .. n : e[i] \in Nat
  BY <1>3, FrameEndsGrow, FrameEndsAddUp
<1> HIDE DEF v, n, e
<1>9. n - 1 \in 0 .. n /\ (n - 1) - 1 \in 0 .. n /\ (n - 1) - 1 < n - 1
  BY <1>3
<1>10. e[(n - 1) - 1] < e[n - 1] /\ e[(n - 1) - 1] \in Nat /\ e[n - 1] \in Nat
  BY <1>8, <1>9
<1> DEFINE x == e[(n - 1) - 1]
           y == e[n - 1]
           z == b[tid]
<1>11. /\ x < y /\ x \in Nat /\ y \in Nat /\ z \in Nat
       /\ LastRange(m, tid)[1] = z + y + 1 /\ PrevRange(m, tid)[1] = z + x + 1
  BY <1>5, <1>6, <1>7, <1>10
<1> HIDE DEF x, y, z
<1>12. PrevRange(m, tid)[1] < LastRange(m, tid)[1]
  BY <1>11
<1>13. PrevRange(m, tid)[1] \in 2 .. Len(m.explicitData)
  BY <1>4
<1>14. PrevRange(m, tid)[1] \in 1 .. Len(m.explicitData)
  BY <1>4, <1>13
<1>15. QED
  BY <1>4, <1>12, <1>14

(* Leaving a frame: its objects go from the frames and from the cells. *)
LEMMA LeavingIs ==
  ASSUME NEW m, Sound(m), NEW tid \in 1 .. ThreadCount(m), NEW p, p = Leave(m, tid),
         NEW X, X = FramesOf(m)[tid]
  PROVE  /\ Sound(p) /\ (GlobalsNamed(m) => GlobalsNamed(p))
         /\ FramesOf(p) = IF Len(X) = 1 THEN RemoveAt(FramesOf(m), tid)
                          ELSE [FramesOf(m) EXCEPT ![tid] = Front(@)]
         /\ CellsOf(p) = Promise!Left(CellsOf(m), ToSet(Last(X)))
         /\ tid \in DOMAIN FramesOf(m)
         /\ Len(X) = Len(m.segments_in_stack[tid])
<1> DEFINE lo == LastRange(m, tid)[1]
           hi == LastRange(m, tid)[2]
           dead == ToSet(Last(X))
<1>1. IsLastRange(m, tid, lo, hi)
  BY DEF IsLastRange
<1> HIDE DEF lo, hi
<1>2. /\ Sound(p) /\ SegmentsDown(m, p, lo, hi)
      /\ FramesOf(p) = IF Len(X) = 1 THEN RemoveAt(FramesOf(m), tid)
                       ELSE [FramesOf(m) EXCEPT ![tid] = Front(@)]
  BY <1>1, FramesWhenLeft
<1>3. /\ lo \in Nat /\ hi \in Nat /\ 1 < lo /\ lo <= hi /\ hi <= Len(m.explicitData)
      /\ FramesOf(m) \in Seq(Seq(Seq(Nat))) /\ Len(FramesOf(m)) = ThreadCount(m)
      /\ Len(X) = Len(m.segments_in_stack[tid])
      /\ dead = {m.segments_mapping[s] : s \in lo .. hi}
  <2>1. LastObjects(m, tid, lo, hi, X)
    BY <1>1, LastFrameNames
  <2>2. QED
    BY <2>1 DEF LastObjects, dead
<1>4. tid \in DOMAIN FramesOf(m)
  BY <1>3
<1> HIDE DEF dead
<1>5. AreCells(CellsOf(m), m) /\ AreCells(CellsOf(p), p)
  BY <1>2, CellsAre
<1>6. AreCells(Promise!Left(CellsOf(m), dead), p)
  BY <1>2, <1>3, <1>5, CellsLeft
<1>7. CellsOf(p) = Promise!Left(CellsOf(m), dead)
  BY <1>5, <1>6, SameCells
<1>8. ASSUME GlobalsNamed(m) PROVE GlobalsNamed(p)
  <2>1. Len(m.explicitData) \in Nat
    BY SegmentsFit
  <2>2. 1 \in 1 .. Len(m.explicitData) /\ 1 < lo /\ Down(lo, hi, 1) = 1
    BY <1>3, <2>1 DEF Down
  <2>3. p.segments_mapping[Down(lo, hi, 1)] = m.segments_mapping[1]
    BY <1>2, <2>2 DEF SegmentsDown, NamesDown
  <2>4. QED
    BY <1>8, <2>2, <2>3 DEF GlobalsNamed
<1>9. QED
  BY <1>2, <1>3, <1>4, <1>7, <1>8 DEF dead

(* A return leaves, and its value goes to the registers of the caller. *)
LEMMA ReturnLeaves ==
  ASSUME Sound(state), NEW tid \in 1 .. ThreadCount(state), Return(tid)
  PROVE  Promise!Leave /\ (GlobalsNamed(state) => GlobalsNamed(state'))
<1> DEFINE F == FramesOf(state)
           X == F[tid]
           C == CellsOf(state)
<1>1. state' = Leave(state, tid) /\ X = FramesOf(state)[tid]
  BY DEF Return
<1> HIDE DEF X
<1>2. /\ GlobalsNamed(state) => GlobalsNamed(state')
      /\ FramesOf(state') = IF Len(X) = 1 THEN RemoveAt(F, tid) ELSE [F EXCEPT ![tid] = Front(@)]
      /\ CellsOf(state') = Promise!Left(C, ToSet(Last(X)))
      /\ tid \in DOMAIN F
  BY <1>1, LeavingIs
<1> HIDE DEF C, F
<1>3. NamedFrames = F /\ NamedFrames' = FramesOf(state') /\ NamedCells = C /\ NamedCells' = CellsOf(state')
  BY NamedAre DEF C, F
<1>4. X = F[tid]
  BY DEF X
<1>5. Promise!LeftFrame(tid, C, CellsOf(state'))
  <2>1. Promise!ToSet(Promise!Last(NamedFrames[tid])) = ToSet(Last(X))
    BY <1>3, <1>4 DEF Promise!ToSet, Promise!Last, ToSet, Last
  <2>2. QED
    BY <1>2, <2>1 DEF Promise!LeftFrame
<1>6. NamedFrames' = IF Len(NamedFrames[tid]) = 1 THEN Promise!RemoveAt(NamedFrames, tid)
                     ELSE [NamedFrames EXCEPT ![tid] = Promise!Front(@)]
  BY <1>2, <1>3, <1>4 DEF Promise!RemoveAt, RemoveAt, Promise!Front, Front
<1>7. Promise!Leave
  BY <1>2, <1>3, <1>5, <1>6 DEF Promise!Leave
<1>8. QED
  BY <1>2, <1>7

(* What is put in an object that stays is there when others have gone. *)
LEMMA LeftOfPut ==
  ASSUME NEW C, NEW E, NEW o, NEW c, NEW ref, CellPut(C, E, o, c, ref), NEW dead, o \notin dead
  PROVE  CellPut(Promise!Left(C, dead), Promise!Left(E, dead), o, c, Promise!Surviving(ref, dead))
<1> DEFINE L == Promise!Left(C, dead)
           K == Promise!Left(E, dead)
<1>1. /\ DOMAIN E = DOMAIN C /\ o \in DOMAIN C /\ c \in DOMAIN C[o]
      /\ \A other \in DOMAIN C \ {o} : E[other] = C[other]
      /\ E[o] = [C[o] EXCEPT ![c] = ref]
  BY DEF CellPut
<1>2. /\ L = [x \in DOMAIN C \ dead |-> [z \in DOMAIN C[x] |-> Promise!Surviving(C[x][z], dead)]]
      /\ K = [x \in DOMAIN C \ dead |-> [z \in DOMAIN E[x] |-> Promise!Surviving(E[x][z], dead)]]
  BY <1>1 DEF Promise!Left
<1> HIDE DEF L, K
<1>3. DOMAIN L = DOMAIN C \ dead /\ DOMAIN K = DOMAIN C \ dead /\ o \in DOMAIN L
  BY <1>1, <1>2
<1>4. ASSUME NEW other \in DOMAIN L \ {o} PROVE K[other] = L[other]
  <2>1. E[other] = C[other] /\ other \in DOMAIN C \ dead
    BY <1>1, <1>3, <1>4
  <2>2. QED
    BY <1>2, <2>1
<1>5. L[o] = [z \in DOMAIN C[o] |-> Promise!Surviving(C[o][z], dead)]
  BY <1>1, <1>2
<1>6. K[o] = [z \in DOMAIN E[o] |-> Promise!Surviving(E[o][z], dead)]
  BY <1>1, <1>2
<1> DEFINE y == C[o]
           x == E[o]
<1>7. /\ DOMAIN x = DOMAIN y /\ c \in DOMAIN y /\ x[c] = ref
      /\ \A z \in DOMAIN y : z # c => x[z] = y[z]
  BY <1>1
<1>8. /\ L[o] = [z \in DOMAIN y |-> Promise!Surviving(y[z], dead)]
      /\ K[o] = [z \in DOMAIN x |-> Promise!Surviving(x[z], dead)]
  BY <1>5, <1>6
<1> HIDE DEF x, y
<1>9. K[o] = [L[o] EXCEPT ![c] = Promise!Surviving(ref, dead)]
  <2>1. K[o] = [z \in DOMAIN y |-> IF z = c THEN Promise!Surviving(ref, dead)
                                   ELSE Promise!Surviving(y[z], dead)]
    BY <1>7, <1>8
  <2>2. [L[o] EXCEPT ![c] = Promise!Surviving(ref, dead)] =
          [z \in DOMAIN y |-> IF z = c THEN Promise!Surviving(ref, dead)
                              ELSE Promise!Surviving(y[z], dead)]
    BY <1>7, <1>8
  <2>3. QED
    BY <2>1, <2>2
<1>10. c \in DOMAIN L[o]
  BY <1>7, <1>8
<1>11. CellPut(L, K, o, c, Promise!Surviving(ref, dead))
  BY <1>3, <1>4, <1>9, <1>10 DEF CellPut
<1>12. QED
  BY <1>11 DEF L, K

LEMMA ReturnValueLeaves ==
  ASSUME Sound(state), NEW tid \in 1 .. ThreadCount(state),
         NEW c \in Register, NEW d \in Register, ReturnValue(tid, c, d)
  PROVE  Promise!Leave /\ (GlobalsNamed(state) => GlobalsNamed(state'))
<1> DEFINE s == PrevRange(state, tid)[1]
           lo == LastRange(state, tid)[1]
           hi == LastRange(state, tid)[2]
           value == Registers(state, tid)[c]
           stored == Store(state, s, d, value)
           F == FramesOf(state)
           X == F[tid]
           C == CellsOf(state)
           E == CellsOf(stored)
           o == state.segments_mapping[s]
           ref == RefOf(state, value.meant)
           dead == ToSet(Last(X))
<1>1. Len(state.segments_in_stack[tid]) > 1 /\ state' = Leave(stored, tid)
  BY DEF ReturnValue
<1>2. value \in CellValue /\ CellOK(state, value) /\ ref \in Promise!Held(C, {Last(X)[1]})
  BY ReadingRegister, RegisterIsHeld
<1>3. s \in 1 .. Len(state.explicitData) /\ s < lo /\ d \in DOMAIN state.explicitData[s]
  BY <1>1, CallerBefore
<1>4. IsLastRange(state, tid, lo, hi) /\ X = FramesOf(state)[tid] /\ dead = ToSet(Last(X))
  BY DEF IsLastRange
<1>5. stored = Store(state, s, d, value)
  OBVIOUS
<1> HIDE DEF value, lo, hi, s, stored
<1>6. /\ Sound(stored) /\ stored.thread_segments = state.thread_segments
  BY <1>2, <1>3, <1>5, Storing
<1>7. /\ CellPut(C, E, o, d, ref) /\ FramesOf(stored) = F
      /\ stored.segments_mapping = state.segments_mapping
  BY <1>2, <1>3, <1>5, CellsStored
<1>8. tid \in 1 .. ThreadCount(stored) /\ X = FramesOf(stored)[tid]
  BY <1>6, <1>7 DEF ThreadCount
<1> HIDE DEF X
<1>9. /\ lo \in Nat /\ hi \in Nat /\ hi <= Len(state.explicitData)
      /\ ToSet(Last(X)) = {state.segments_mapping[r] : r \in lo .. hi}
      /\ Len(X) = Len(state.segments_in_stack[tid])
      /\ Len(X) > 1 => Last(Front(X))[1] = state.segments_mapping[PrevRange(state, tid)[1]]
  <2>1. LastObjects(state, tid, lo, hi, X)
    BY <1>4, LastFrameNames
  <2>2. QED
    BY <2>1 DEF LastObjects
<1>10. Last(Front(X))[1] = o /\ Len(X) > 1
  BY <1>1, <1>9 DEF s
<1>11. o \notin dead
  <2>1. \A r, t \in 1 .. Len(state.explicitData) :
          state.segments_mapping[r] = state.segments_mapping[t] => r = t
    BY NamesAre
  <2>2. Len(state.explicitData) \in Nat
    BY NamesAre
  <2>3. ASSUME NEW r \in lo .. hi, o = state.segments_mapping[r] PROVE FALSE
    <3>1. r \in 1 .. Len(state.explicitData) /\ r # s
      BY <1>3, <1>9, <2>2, <2>3
    <3>2. QED
      BY <1>3, <2>1, <2>3, <3>1
  <2>4. QED
    BY <1>9, <2>3
<1> HIDE DEF dead
<1>12. /\ GlobalsNamed(stored) => GlobalsNamed(state')
       /\ FramesOf(state') = IF Len(X) = 1 THEN RemoveAt(F, tid) ELSE [F EXCEPT ![tid] = Front(@)]
       /\ CellsOf(state') = Promise!Left(E, dead)
       /\ tid \in DOMAIN F
  <2>1. /\ GlobalsNamed(stored) => GlobalsNamed(state')
        /\ FramesOf(state') = IF Len(X) = 1 THEN RemoveAt(FramesOf(stored), tid)
                              ELSE [FramesOf(stored) EXCEPT ![tid] = Front(@)]
        /\ CellsOf(state') = Promise!Left(CellsOf(stored), ToSet(Last(X)))
        /\ tid \in DOMAIN FramesOf(stored)
    BY <1>1, <1>6, <1>8, LeavingIs
  <2>2. QED
    BY <1>7, <2>1 DEF dead
<1>13. X = F[tid]
  BY DEF X
<1> HIDE DEF C, E, F, o, ref
<1> DEFINE returned == {Promise!Surviving(r, dead) : r \in Promise!Held(C, {Last(X)[1]})}
<1>14. Promise!Surviving(ref, dead) \in returned
  BY <1>2
<1>15. CellPut(Promise!Left(C, dead), Promise!Left(E, dead), o, d, Promise!Surviving(ref, dead))
  BY <1>7, <1>11, LeftOfPut
<1> HIDE DEF returned
<1>16. Promise!Stored(Promise!Left(C, dead), Promise!Left(E, dead), {o}, returned)
  <2>1. o \in {o}
    OBVIOUS
  <2>2. QED
    BY <1>14, <1>15, <2>1, PutIsStored
<1>17. NamedFrames = F /\ NamedFrames' = FramesOf(state') /\ NamedCells = C /\ NamedCells' = CellsOf(state')
  BY NamedAre DEF C, F
<1>18. Promise!LeftFrame(tid, C, CellsOf(state'))
  <2>1. Promise!ToSet(Promise!Last(NamedFrames[tid])) = dead
    BY <1>13, <1>17 DEF Promise!ToSet, Promise!Last, ToSet, Last, dead
  <2>2. Promise!Registers(tid) = {Last(X)[1]}
    BY <1>13, <1>17 DEF Promise!Registers, Promise!Last, Last
  <2>3. {Promise!Last(Promise!Front(NamedFrames[tid]))[1]} = {o}
    BY <1>10, <1>13, <1>17 DEF Promise!Last, Promise!Front, Last, Front
  <2>4. Len(NamedFrames[tid]) > 1
    BY <1>10, <1>13, <1>17
  <2>5. /\ Len(NamedFrames[tid]) > 1
        /\ Promise!Stored(Promise!Left(C, dead), CellsOf(state'),
             {Promise!Last(Promise!Front(NamedFrames[tid]))[1]},
             {Promise!Surviving(r, dead) : r \in Promise!Held(C, Promise!Registers(tid))})
    BY <1>12, <1>16, <2>2, <2>3, <2>4 DEF returned
  <2>6. QED
    BY <2>1, <2>5 DEF Promise!LeftFrame
<1>19. NamedFrames' = IF Len(NamedFrames[tid]) = 1 THEN Promise!RemoveAt(NamedFrames, tid)
                      ELSE [NamedFrames EXCEPT ![tid] = Promise!Front(@)]
  BY <1>12, <1>13, <1>17 DEF Promise!RemoveAt, RemoveAt, Promise!Front, Front
<1>20. Promise!Leave
  BY <1>12, <1>17, <1>18, <1>19 DEF Promise!Leave
<1>21. GlobalsNamed(state) => GlobalsNamed(state')
  BY <1>7, <1>12 DEF GlobalsNamed
<1>22. QED
  BY <1>20, <1>21

(* q has the segment of m's next name besides those of m. *)
HasMade(m, q, own) ==
  /\ CellsOf(q) = Promise!Made(CellsOf(m), m.fst_unused_id, own)
  /\ DOMAIN CellsOf(m) = NamesIn(m)
  /\ m.fst_unused_id \notin NamesIn(m)
  /\ NamesIn(q) = NamesIn(m) \cup {m.fst_unused_id}
  /\ GlobalsNamed(m) => GlobalsNamed(q)
  /\ \A name \in Nat : name < m.fst_unused_id => RefOf(q, name) = RefOf(m, name)

LEMMA InsertingMakes ==
  ASSUME NEW m, Sound(m), NEW q, Sound(q), NEW w \in 1 .. Len(m.explicitData) + 1, w > 1,
         NEW own, SegmentsUp(m, q, w, own)
  PROVE  HasMade(m, q, own)
<1> DEFINE f == m.fst_unused_id
           n == Len(m.explicitData)
<1>1. /\ AreCells(Promise!Made(CellsOf(m), f, own), q)
      /\ f \notin NamesIn(m) /\ NamesIn(q) = NamesIn(m) \cup {f}
  <2>1. AreCells(CellsOf(m), m)
    BY CellsAre
  <2>2. QED
    BY <2>1, CellsMade
<1>2. CellsOf(q) = Promise!Made(CellsOf(m), f, own)
  <2>1. AreCells(CellsOf(q), q)
    BY CellsAre
  <2>2. QED
    BY <1>1, <2>1, SameCells
<1>3. DOMAIN CellsOf(m) = NamesIn(m)
  BY CellsAre DEF AreCells
<1>4. f \in Nat /\ n \in Nat
  BY NamesAre
<1>5. ASSUME GlobalsNamed(m) PROVE GlobalsNamed(q)
  <2>1. 1 \in 1 .. n /\ Up(w, 1) = 1
    BY <1>4 DEF Up
  <2>2. q.segments_mapping[Up(w, 1)] = m.segments_mapping[1]
    BY <2>1 DEF SegmentsUp, NamesUp
  <2>3. QED
    BY <1>5, <2>1, <2>2 DEF GlobalsNamed
<1> HIDE DEF f, n
<1>6. ASSUME NEW name \in Nat, name < f PROVE RefOf(q, name) = RefOf(m, name)
  <2>1. name # f
    BY <1>4, <1>6
  <2>2. QED
    BY <1>1, <2>1 DEF RefOf
<1>7. QED
  BY <1>1, <1>2, <1>3, <1>5, <1>6 DEF HasMade, f

(* What an object holds does not change when another is made. *)
LEMMA HeldWhenMade ==
  ASSUME NEW C, NEW f, f \notin DOMAIN C, NEW own, NEW objects, objects \subseteq DOMAIN C
  PROVE  Promise!Held(Promise!Made(C, f, own), objects) = Promise!Held(C, objects)
<1>1. ASSUME NEW o \in objects PROVE Promise!Made(C, f, own)[o] = C[o]
  BY DEF Promise!Made
<1>2. QED
  BY <1>1 DEF Promise!Held

LEMMA LiveIn ==
  ASSUME NEW F, NEW t \in DOMAIN F, NEW k \in DOMAIN F[t], NEW i \in DOMAIN F[t][k]
  PROVE  F[t][k][i] \in Promise!Live(F)
<1>1. F[t] \in ToSet(F) /\ F[t][k] \in ToSet(F[t]) /\ F[t][k][i] \in ToSet(F[t][k])
  BY DEF ToSet
<1>2. QED
  BY <1>1 DEF Promise!Live, Promise!ToSet, ToSet

(* The first segments are those of the globals. *)
LEMMA SomeSegments ==
  ASSUME NEW m, Sound(m), NEW tid \in 1 .. ThreadCount(m)
  PROVE  /\ 1 \in 1 .. Len(m.explicitData)
         /\ \E b : LaidOut(m, b) /\ b[ThreadCount(m) + 1] = Len(m.explicitData)
<1>1. /\ \A s \in RegisterSegments(m) : s \in 2 .. Len(m.explicitData)
      /\ LastRange(m, tid)[1] \in RegisterSegments(m)
  BY RegistersExist
<1>2. Len(m.explicitData) \in Nat
  BY SegmentsFit
<1> DEFINE x == LastRange(m, tid)[1]
<1>3. x \in 2 .. Len(m.explicitData)
  BY <1>1
<1> HIDE DEF x
<1>4. 1 \in 1 .. Len(m.explicitData)
  BY <1>2, <1>3
<1>5. QED
  BY <1>4, SoundLayout

(* A segment behind those of a thread is not the first. *)
LEMMA InsertedBehind ==
  ASSUME NEW m, Sound(m), NEW b, LaidOut(m, b), b[ThreadCount(m) + 1] = Len(m.explicitData),
         NEW tid \in 1 .. ThreadCount(m), NEW w, w = b[tid + 1] + 1
  PROVE  w \in 1 .. Len(m.explicitData) + 1 /\ w > 1
<1>1. w \in 1 .. Len(m.explicitData) + 1 /\ w \in Nat
  BY InsertionPlace
<1>2. HasLayout(m)
  BY DEF Sound
<1>3. \E hi, lo : IsLastRange(m, tid, lo, hi)
  BY DEF IsLastRange
<1>4. PICK hi, lo : IsLastRange(m, tid, lo, hi)
  BY <1>3
<1>5. hi = b[tid + 1]
  BY <1>2, <1>4, LastFrames DEF IsLastRange
<1>6. lo \in Nat /\ hi \in Nat /\ 1 < lo /\ lo <= hi
  <2>1. LastObjects(m, tid, lo, hi, FramesOf(m)[tid])
    BY <1>4, LastFrameNames
  <2>2. QED
    BY <2>1 DEF LastObjects
<1>7. QED
  BY <1>1, <1>5, <1>6

LEMMA EnteringMakes ==
  ASSUME NEW m, Sound(m), NEW q, Sound(q), NEW tid \in 1 .. ThreadCount(m), HasEntered(m, q, tid)
  PROVE  HasMade(m, q, Register)
<1>1. PICK b : HasInserted(m, b, q, Shifted(m, b, tid, 1), b[tid + 1] + 1, Register)
  BY DEF HasEntered
<1> DEFINE w == b[tid + 1] + 1
<1>2. /\ LaidOut(m, b) /\ b[ThreadCount(m) + 1] = Len(m.explicitData)
      /\ SegmentsUp(m, q, w, Register) /\ w = b[tid + 1] + 1
  BY <1>1 DEF HasInserted
<1> HIDE DEF w
<1>3. w \in 1 .. Len(m.explicitData) + 1 /\ w > 1
  BY <1>2, InsertedBehind
<1>4. QED
  BY <1>2, <1>3, InsertingMakes

LEMMA AllocatingMakes ==
  ASSUME NEW m, Sound(m), NEW q, Sound(q), NEW tid \in 1 .. ThreadCount(m), HasAllocated(m, q, tid)
  PROVE  HasMade(m, q, Cell)
<1>1. PICK b : HasInserted(m, b, q, Shifted(m, b, tid, 1), b[tid + 1] + 1, Cell)
  BY DEF HasAllocated
<1> DEFINE w == b[tid + 1] + 1
<1>2. /\ LaidOut(m, b) /\ b[ThreadCount(m) + 1] = Len(m.explicitData)
      /\ SegmentsUp(m, q, w, Cell) /\ w = b[tid + 1] + 1
  BY <1>1 DEF HasInserted
<1> HIDE DEF w
<1>3. w \in 1 .. Len(m.explicitData) + 1 /\ w > 1
  BY <1>2, InsertedBehind
<1>4. QED
  BY <1>2, <1>3, InsertingMakes

LEMMA StartingMakes ==
  ASSUME NEW m, Sound(m), NEW q, Sound(q), HasStarted(m, q), 1 \in 1 .. Len(m.explicitData)
  PROVE  /\ HasMade(m, q, Register)
         /\ q.segments_mapping[Len(m.explicitData) + 1] = m.fst_unused_id
<1>1. PICK b : HasInserted(m, b, q, Extended(m, b), b[ThreadCount(m) + 1] + 1, Register)
  BY DEF HasStarted
<1> DEFINE w == Len(m.explicitData) + 1
<1>2. SegmentsUp(m, q, w, Register)
  BY <1>1 DEF HasInserted
<1>3. Len(m.explicitData) \in Nat
  BY SegmentsFit
<1>4. w \in 1 .. Len(m.explicitData) + 1 /\ w > 1
  BY <1>3
<1> HIDE DEF w
<1>5. HasMade(m, q, Register)
  BY <1>2, <1>4, InsertingMakes
<1>6. q.segments_mapping[w] = m.fst_unused_id
  BY <1>2 DEF SegmentsUp, NamesUp
<1>7. QED
  BY <1>5, <1>6 DEF w

(* The frames of a thread, and its registers, whatever its last frame is. *)
LEMMA FramesOfThread ==
  ASSUME NEW m, Sound(m), NEW tid \in 1 .. ThreadCount(m), NEW X, X = FramesOf(m)[tid]
  PROVE  /\ FramesOf(m) \in Seq(Seq(Seq(Nat))) /\ Len(FramesOf(m)) = ThreadCount(m)
         /\ tid \in DOMAIN FramesOf(m)
         /\ X \in Seq(Seq(Nat)) /\ X # << >>
         /\ Last(X)[1] \in NamesIn(m) /\ DOMAIN CellsOf(m) = NamesIn(m)
<1> DEFINE lo == LastRange(m, tid)[1]
           hi == LastRange(m, tid)[2]
<1>1. IsLastRange(m, tid, lo, hi)
  BY DEF IsLastRange
<1> HIDE DEF lo, hi
<1>2. LastObjects(m, tid, lo, hi, X)
  BY <1>1, LastFrameNames
<1>3. /\ FramesOf(m) \in Seq(Seq(Seq(Nat))) /\ Len(FramesOf(m)) = ThreadCount(m)
      /\ X \in Seq(Seq(Nat)) /\ Len(X) > 0 /\ Last(X)[1] = m.segments_mapping[lo]
      /\ lo \in Nat /\ 1 < lo /\ hi \in Nat /\ lo <= hi /\ hi <= Len(m.explicitData)
  BY <1>2 DEF LastObjects
<1>4. DOMAIN FramesOf(m) = 1 .. ThreadCount(m)
  BY <1>3
<1>5. lo \in 1 .. Len(m.explicitData)
  BY <1>3, SegmentsFit
<1>6. DOMAIN CellsOf(m) = NamesIn(m)
  BY CellsAre DEF AreCells
<1>7. QED
  BY <1>3, <1>4, <1>5, <1>6 DEF NamesIn

(* A frame with one object at the end of a thread's. *)
LEMMA FrameAdded ==
  ASSUME NEW X, X \in Seq(Seq(Nat)), NEW f \in Nat, NEW G, NEW tid \in DOMAIN G,
         G[tid] = Append(X, <<f>>)
  PROVE  Last(G[tid])[1] = f /\ f \in Promise!Live(G)
<1> DEFINE Y == Append(X, <<f>>)
           T == Seq(Nat)
<1>1. X \in Seq(T)
  OBVIOUS
<1>2. <<f>> \in T /\ <<f>>[1] = f /\ 1 \in DOMAIN <<f>>
  OBVIOUS
<1>3. G[tid] = Y /\ tid \in DOMAIN G
  OBVIOUS
<1> HIDE DEF T
<1>4. Len(Y) = Len(X) + 1 /\ Y[Len(X) + 1] = <<f>> /\ Len(X) \in Nat /\ Y \in Seq(T)
  BY <1>1, <1>2
<1> HIDE DEF Y
<1> DEFINE n == Len(X) + 1
<1>5. n \in DOMAIN Y /\ Y[n] = <<f>> /\ n = Len(Y)
  BY <1>4
<1> HIDE DEF n
<1>6. Last(Y) = <<f>>
  BY <1>5 DEF Last
<1>7. G[tid][n][1] = f /\ n \in DOMAIN G[tid] /\ 1 \in DOMAIN G[tid][n]
  BY <1>2, <1>3, <1>5
<1>8. G[tid][n][1] \in Promise!Live(G)
  BY <1>3, <1>7, LiveIn
<1>9. QED
  BY <1>2, <1>3, <1>6, <1>7, <1>8

(* A call: the register of the parameter gets what a register holds. *)
LEMMA CallCalls ==
  ASSUME Sound(state), ForeignArguments = FALSE, NEW tid \in 1 .. ThreadCount(state),
         NEW c \in Register, Call(tid, c)
  PROVE  Promise!Call /\ (GlobalsNamed(state) => GlobalsNamed(state'))
<1> DEFINE param == Registers(state, tid)[c]
           entered == EnterFunction(state, tid)
           s == LastRange(entered, tid)[1]
           f == state.fst_unused_id
           F == FramesOf(state)
           G == FramesOf(state')
           X == F[tid]
           C == CellsOf(state)
           E == CellsOf(state')
           o == Last(X)[1]
           ref == RefOf(state, param.meant)
<1>1. /\ f <= MaxNames /\ param.seg <= Last(state.thread_segments[tid])
      /\ state' = StoreRegister(entered, tid, 1, param)
  BY DEF Call, Room
<1>2. param \in CellValue /\ CellOK(state, param) /\ ref \in Promise!Held(C, {o})
  BY ReadingRegister, RegisterIsHeld
<1>3. X = FramesOf(state)[tid]
  OBVIOUS
<1> HIDE DEF param, X
<1>4. entered = EnterFunction(state, tid)
  OBVIOUS
<1> HIDE DEF entered
<1>5. /\ Sound(entered) /\ ThreadCount(entered) = ThreadCount(state)
      /\ CellOK(entered, param) /\ HasEntered(state, entered, tid)
  BY <1>1, <1>2, <1>4, FrameEntered
<1>6. HasMade(state, entered, Register)
  BY <1>5, EnteringMakes
<1>7. FramesOf(entered) = [F EXCEPT ![tid] = Append(@, <<f>>)]
  BY <1>5, FramesWhenEntered
<1>8. /\ F \in Seq(Seq(Seq(Nat))) /\ tid \in DOMAIN F /\ X \in Seq(Seq(Nat))
      /\ o \in NamesIn(state) /\ DOMAIN C = NamesIn(state)
  BY <1>3, FramesOfThread
<1>9. f \in Nat /\ param.meant \in Nat /\ param.meant < f
  <2>1. f \in Nat
    BY NamesAre
  <2>2. MaxNames \in Nat
    BY SegmentRangeAssumption
  <2>3. param.meant \in Nat /\ param.meant < f
    BY <1>2, <2>2 DEF CellOK, CellValue
  <2>4. QED
    BY <2>1, <2>3
<1>10. Last(FramesOf(entered)[tid])[1] = f /\ f \in Promise!Live(FramesOf(entered))
  <2> DEFINE H == FramesOf(entered)
  <2>1. /\ X \in Seq(Seq(Nat)) /\ f \in Nat
        /\ tid \in DOMAIN H /\ H[tid] = Append(X, <<f>>)
    BY <1>3, <1>7, <1>8, <1>9
  <2> HIDE DEF H, f
  <2>2. Last(H[tid])[1] = f /\ f \in Promise!Live(H)
    BY <2>1, FrameAdded
  <2>3. QED
    BY <2>2 DEF H
<1>11. /\ s \in 1 .. Len(entered.explicitData) /\ DOMAIN entered.explicitData[s] = Register
       /\ entered.segments_mapping[s] = f
  <2>1. tid \in 1 .. ThreadCount(entered)
    BY <1>5
  <2>2. /\ s \in 1 .. Len(entered.explicitData) /\ DOMAIN entered.explicitData[s] = Register
        /\ entered.segments_mapping[s] = Last(FramesOf(entered)[tid])[1]
    BY <1>5, <2>1, RegistersAre
  <2>3. QED
    BY <1>10, <2>2
<1>12. /\ CellPut(CellsOf(entered), E, f, 1, RefOf(entered, param.meant))
       /\ G = FramesOf(entered) /\ state'.segments_mapping = entered.segments_mapping
  <2>1. 1 \in DOMAIN entered.explicitData[s]
    BY <1>11, RegisterAssumption
  <2>2. state' = Store(entered, s, 1, param)
    BY <1>1 DEF StoreRegister
  <2> HIDE DEF s
  <2>3. /\ CellPut(CellsOf(entered), CellsOf(state'), entered.segments_mapping[s], 1,
                   RefOf(entered, param.meant))
        /\ FramesOf(state') = FramesOf(entered)
        /\ state'.segments_mapping = entered.segments_mapping
    BY <1>2, <1>5, <1>11, <2>1, <2>2, CellsStored
  <2>4. QED
    BY <1>11, <2>3
<1> DEFINE made == Promise!Made(C, f, Register)
<1>13. CellPut(made, E, f, 1, ref)
  <2>1. CellsOf(entered) = made
    BY <1>6 DEF HasMade
  <2>2. RefOf(entered, param.meant) = ref
    BY <1>6, <1>9 DEF HasMade
  <2>3. QED
    BY <1>12, <2>1, <2>2
<1>14. ref \in Promise!Held(made, {o})
  <2>1. f \notin DOMAIN C /\ {o} \subseteq DOMAIN C
    BY <1>6, <1>8 DEF HasMade
  <2> HIDE DEF C, o, f
  <2>2. Promise!Held(made, {o}) = Promise!Held(C, {o})
    BY <2>1, HeldWhenMade
  <2>3. QED
    BY <1>2, <2>2
<1> HIDE DEF ref, C, E, s
<1>15. Promise!Stored(made, E, {f}, Promise!Held(made, {o}))
  <2>1. f \in {f}
    OBVIOUS
  <2> HIDE DEF made
  <2>2. QED
    BY <1>13, <1>14, <2>1, PutIsStored
<1>16. f \in Promise!Live(G) \ Promise!Live(F)
  <2>1. f \in Promise!Live(FramesOf(state'))
    BY <1>10, <1>12
  <2>2. 1 \in 1 .. Len(state.explicitData)
    BY SomeSegments
  <2>3. QED
    BY <2>1, <2>2, NewIsFresh
<1>17. NamedFrames = F /\ NamedFrames' = G /\ NamedCells = C /\ NamedCells' = E
  BY NamedAre DEF C, E
<1>18. G = [F EXCEPT ![tid] = Append(@, <<f>>)]
  BY <1>7, <1>12
<1> HIDE DEF F, G, f, made
<1>19. o = Last(F[tid])[1]
  BY DEF X
<1>20. Promise!Call
  <2>1. f \in Promise!Fresh
    BY <1>16, <1>17 DEF Promise!Fresh
  <2>2. Promise!Registers(tid) = {o}
    BY <1>17, <1>19 DEF Promise!Registers, Promise!Last, Last
  <2>3. tid \in DOMAIN NamedFrames
    BY <1>8, <1>17
  <2>4. NamedFrames' = [NamedFrames EXCEPT ![tid] = Append(@, <<f>>)]
    BY <1>17, <1>18
  <2>5. Promise!Stored(Promise!Made(NamedCells, f, Register), NamedCells', {f},
                       Promise!Held(Promise!Made(NamedCells, f, Register), Promise!Registers(tid)))
    BY <1>15, <1>17, <2>2 DEF made
  <2>6. QED
    BY <2>1, <2>3, <2>4, <2>5 DEF Promise!Call
<1>21. GlobalsNamed(state) => GlobalsNamed(state')
  BY <1>6, <1>12 DEF HasMade, GlobalsNamed
<1>22. QED
  BY <1>20, <1>21

(* A frame has its registers. *)
LEMMA LastFrameHasObjects ==
  ASSUME NEW m, Sound(m), NEW tid \in 1 .. ThreadCount(m), NEW X, X = FramesOf(m)[tid]
  PROVE  Last(X) \in Seq(Nat) /\ Last(X) # << >>
<1> DEFINE lo == LastRange(m, tid)[1]
           hi == LastRange(m, tid)[2]
           T == Seq(Nat)
           last == Last(X)
<1>1. IsLastRange(m, tid, lo, hi)
  BY DEF IsLastRange
<1> HIDE DEF lo, hi
<1>2. LastObjects(m, tid, lo, hi, X)
  BY <1>1, LastFrameNames
<1>3. /\ X \in Seq(T) /\ Len(X) > 0
      /\ ToSet(last) = {m.segments_mapping[s] : s \in lo .. hi}
      /\ lo \in Nat /\ hi \in Nat /\ lo <= hi
  BY <1>2 DEF LastObjects
<1>4. Last(X) \in T
  <2>1. Len(X) \in 1 .. Len(X) /\ Last(X) = X[Len(X)]
    BY <1>3 DEF Last
  <2> HIDE DEF T
  <2>2. QED
    BY <1>3, <2>1
<1>5. lo \in lo .. hi
  BY <1>3
<1>6. ToSet(last) # {}
  BY <1>3, <1>5
<1> HIDE DEF last
<1>7. last # << >>
  <2>1. CASE last = << >>
    <3>1. DOMAIN last = {}
      BY <2>1
    <3>2. QED
      BY <1>6, <3>1 DEF ToSet
  <2>2. QED
    BY <2>1
<1>8. QED
  BY <1>4, <1>7 DEF last, T

(* An object more at the end of a thread's last frame. *)
LEMMA ObjectAdded ==
  ASSUME NEW X, X \in Seq(Seq(Nat)), X # << >>, Last(X) \in Seq(Nat), Last(X) # << >>,
         NEW f \in Nat, NEW G, NEW tid \in DOMAIN G,
         G[tid] = Append(Front(X), Append(Last(X), f))
  PROVE  Last(G[tid])[1] = Last(X)[1] /\ f \in Promise!Live(G)
<1> DEFINE T == Seq(Nat)
           x == Last(X)
           y == Append(x, f)
           Z == Front(X)
           Y == Append(Z, y)
<1>1. X \in Seq(T)
  OBVIOUS
<1>2. G[tid] = Y /\ tid \in DOMAIN G
  OBVIOUS
<1>3. x \in Seq(Nat) /\ x # << >> /\ Len(x) \in Nat /\ Len(x) > 0
  OBVIOUS
<1> HIDE DEF x
<1>4. /\ y \in T /\ Len(y) = Len(x) + 1 /\ y[Len(x) + 1] = f /\ y[1] = x[1]
  BY <1>3
<1> HIDE DEF T, y
<1>5. Z \in Seq(T)
  BY <1>1, FrontAndLast
<1> HIDE DEF Z
<1>6. Len(Y) = Len(Z) + 1 /\ Y[Len(Z) + 1] = y /\ Len(Z) \in Nat /\ Y \in Seq(T)
  BY <1>4, <1>5
<1> HIDE DEF Y
<1> DEFINE n == Len(Z) + 1
           k == Len(x) + 1
<1>7. n \in DOMAIN Y /\ Y[n] = y /\ n = Len(Y)
  BY <1>6
<1>8. k \in DOMAIN y /\ y[k] = f
  BY <1>3, <1>4 DEF T
<1> HIDE DEF n, k
<1>9. Last(Y) = y
  BY <1>7 DEF Last
<1>10. G[tid][n][k] = f /\ n \in DOMAIN G[tid] /\ k \in DOMAIN G[tid][n]
  BY <1>2, <1>7, <1>8
<1>11. G[tid][n][k] \in Promise!Live(G)
  BY <1>2, <1>10, LiveIn
<1>12. QED
  BY <1>2, <1>4, <1>9, <1>10, <1>11 DEF x

(* do_alloca: a register gets the reference to what is made. *)
LEMMA AllocaAllocates ==
  ASSUME Sound(state), NEW tid \in 1 .. ThreadCount(state), NEW c \in Register, Alloca(tid, c)
  PROVE  Promise!Allocate /\ (GlobalsNamed(state) => GlobalsNamed(state'))
<1> DEFINE w == WantedSid(state, tid)
           added == MovePointers(AddSegment(NewSegment(state, tid), w, Cell), w, 1)
           cell == PointerTo(added, w)
           s == LastRange(added, tid)[1]
           f == state.fst_unused_id
           F == FramesOf(state)
           G == FramesOf(state')
           X == F[tid]
           C == CellsOf(state)
           E == CellsOf(state')
           o == Last(X)[1]
<1>1. f <= MaxNames /\ state' = StoreRegister(added, tid, c, cell)
  BY DEF Alloca, Room
<1>2. w = WantedSid(state, tid) /\ X = FramesOf(state)[tid]
  OBVIOUS
<1> HIDE DEF w, X
<1>3. added = MovePointers(AddSegment(NewSegment(state, tid), w, Cell), w, 1)
  OBVIOUS
<1> HIDE DEF added
<1>4. /\ Sound(added) /\ ThreadCount(added) = ThreadCount(state)
      /\ HasAllocated(state, added, tid)
      /\ cell.meant = f /\ cell \in CellValue /\ CellOK(added, cell)
  BY <1>1, <1>2, <1>3, SegmentAllocated
<1> HIDE DEF cell
<1>5. HasMade(state, added, Cell)
  BY <1>4, AllocatingMakes
<1>6. FramesOf(added) = [F EXCEPT ![tid] = Append(Front(@), Append(Last(@), f))]
  BY <1>4, FramesWhenAllocated
<1>7. /\ tid \in DOMAIN F /\ X \in Seq(Seq(Nat)) /\ X # << >>
      /\ o \in NamesIn(state) /\ DOMAIN C = NamesIn(state)
  BY <1>2, FramesOfThread
<1>8. Last(X) \in Seq(Nat) /\ Last(X) # << >>
  BY <1>2, LastFrameHasObjects
<1>9. f \in Nat /\ f # 0
  <2>1. 1 \in 1 .. Len(state.explicitData)
    BY SomeSegments
  <2>2. /\ f \in Nat
        /\ \A r \in 1 .. Len(state.explicitData) :
             /\ state.segments_mapping[r] \in Nat /\ state.segments_mapping[r] > 0
             /\ state.segments_mapping[r] < f
    BY NamesAre
  <2>3. QED
    BY <2>1, <2>2
<1>10. Last(FramesOf(added)[tid])[1] = o /\ f \in Promise!Live(FramesOf(added))
  <2> DEFINE H == FramesOf(added)
  <2>1. /\ f \in Nat /\ X \in Seq(Seq(Nat)) /\ X # << >>
        /\ Last(X) \in Seq(Nat) /\ Last(X) # << >>
        /\ tid \in DOMAIN H /\ H[tid] = Append(Front(X), Append(Last(X), f))
    BY <1>2, <1>6, <1>7, <1>8, <1>9
  <2> HIDE DEF F, f, H
  <2>2. Last(H[tid])[1] = Last(X)[1] /\ f \in Promise!Live(H)
    BY <2>1, ObjectAdded
  <2>3. QED
    BY <2>2 DEF H
<1>11. /\ s \in 1 .. Len(added.explicitData) /\ DOMAIN added.explicitData[s] = Register
       /\ added.segments_mapping[s] = o
  <2>1. tid \in 1 .. ThreadCount(added)
    BY <1>4
  <2>2. /\ s \in 1 .. Len(added.explicitData) /\ DOMAIN added.explicitData[s] = Register
        /\ added.segments_mapping[s] = Last(FramesOf(added)[tid])[1]
    BY <1>4, <2>1, RegistersAre
  <2>3. QED
    BY <1>10, <2>2
<1>12. /\ CellPut(CellsOf(added), E, o, c, RefOf(added, cell.meant))
       /\ G = FramesOf(added) /\ state'.segments_mapping = added.segments_mapping
  <2>1. c \in DOMAIN added.explicitData[s]
    BY <1>11
  <2>2. state' = Store(added, s, c, cell)
    BY <1>1 DEF StoreRegister
  <2> HIDE DEF s
  <2>3. /\ CellPut(CellsOf(added), CellsOf(state'), added.segments_mapping[s], c,
                   RefOf(added, cell.meant))
        /\ FramesOf(state') = FramesOf(added)
        /\ state'.segments_mapping = added.segments_mapping
    BY <1>4, <1>11, <2>1, <2>2, CellsStored
  <2>4. QED
    BY <1>11, <2>3
<1> DEFINE made == Promise!Made(C, f, Cell)
<1>13. CellPut(made, E, o, c, f)
  <2>1. CellsOf(added) = made /\ f \in NamesIn(added)
    BY <1>5 DEF HasMade
  <2>2. RefOf(added, cell.meant) = f
    BY <1>4, <1>9, <2>1 DEF RefOf
  <2>3. QED
    BY <1>12, <2>1, <2>2
<1> HIDE DEF C, E, s
<1>14. Promise!Stored(made, E, {o}, {f})
  <2>1. f \in {f} /\ o \in {o}
    OBVIOUS
  <2> HIDE DEF made, o, f
  <2>2. QED
    BY <1>13, <2>1, PutIsStored
<1>15. f \in Promise!Live(G) \ Promise!Live(F)
  <2>1. f \in Promise!Live(FramesOf(state'))
    BY <1>10, <1>12
  <2>2. 1 \in 1 .. Len(state.explicitData)
    BY SomeSegments
  <2>3. QED
    BY <2>1, <2>2, NewIsFresh
<1>16. NamedFrames = F /\ NamedFrames' = G /\ NamedCells = C /\ NamedCells' = E
  BY NamedAre DEF C, E
<1>17. G = [F EXCEPT ![tid] = Append(Front(@), Append(Last(@), f))]
  BY <1>6, <1>12
<1> HIDE DEF F, G, f, made
<1>18. o = Last(F[tid])[1]
  BY DEF X
<1>19. Promise!Allocate
  <2>1. f \in Promise!Fresh
    BY <1>15, <1>16 DEF Promise!Fresh
  <2>2. Promise!Registers(tid) = {o}
    BY <1>16, <1>18 DEF Promise!Registers, Promise!Last, Last
  <2>3. tid \in DOMAIN NamedFrames
    BY <1>7, <1>16
  <2>4. NamedFrames' = [NamedFrames EXCEPT ![tid] =
                          Append(Promise!Front(@), Append(Promise!Last(@), f))]
    BY <1>16, <1>17 DEF Promise!Front, Promise!Last, Front, Last
  <2>5. Promise!Stored(Promise!Made(NamedCells, f, Cell), NamedCells', Promise!Registers(tid), {f})
    BY <1>14, <1>16, <2>2 DEF made
  <2>6. QED
    BY <2>1, <2>3, <2>4, <2>5 DEF Promise!Allocate
<1>20. GlobalsNamed(state) => GlobalsNamed(state')
  BY <1>5, <1>12 DEF HasMade, GlobalsNamed
<1>21. QED
  BY <1>19, <1>20

(* A thread that is started has registers behind all segments. *)
LEMMA StartedBehind ==
  ASSUME NEW m, Sound(m), NEW q, Sound(q), HasStarted(m, q), 1 \in 1 .. Len(m.explicitData)
  PROVE  /\ Len(q.explicitData) = Len(m.explicitData) + 1
         /\ \A s \in 1 .. Len(m.explicitData) : DOMAIN q.explicitData[s] = DOMAIN m.explicitData[s]
<1>1. PICK b : HasInserted(m, b, q, Extended(m, b), b[ThreadCount(m) + 1] + 1, Register)
  BY DEF HasStarted
<1> DEFINE w == Len(m.explicitData) + 1
<1>2. SegmentsUp(m, q, w, Register)
  BY <1>1 DEF HasInserted
<1>3. Len(m.explicitData) \in Nat
  BY SegmentsFit
<1>4. \A s \in 1 .. Len(m.explicitData) : Up(w, s) = s
  BY <1>3 DEF Up
<1> HIDE DEF w
<1>5. \A s \in 1 .. Len(m.explicitData) : DOMAIN q.explicitData[s] = DOMAIN m.explicitData[s]
  BY <1>2, <1>4 DEF SegmentsUp, SameMeaning
<1>6. QED
  BY <1>2, <1>5 DEF SegmentsUp

(* The handle is stored in an object that is not the new one, and the
   parameter, if there is one, in that. *)
LEMMA SpawnedAre ==
  ASSUME NEW made, NEW U, NEW E, NEW f \in DOMAIN made, NEW o, o # f, NEW x,
         CellPut(made, U, o, x, Nothing), NEW maker,
         U = [z \in DOMAIN made |-> U[z]], E = [z \in DOMAIN made |-> E[z]],
         \/ E = U
         \/ \E y : \E ref \in Promise!Held(U, maker) : CellPut(U, E, f, y, ref)
  PROVE  DOMAIN E = DOMAIN made /\ Promise!Spawned(made, E, f, maker)
<1> DEFINE unset == [E EXCEPT ![f] = made[f]]
<1>1. DOMAIN E = DOMAIN made /\ DOMAIN U = DOMAIN made
  OBVIOUS
<1>2. U[f] = made[f]
  BY DEF CellPut
<1>3. ASSUME NEW z \in DOMAIN made, z # f PROVE E[z] = U[z]
  BY <1>1, <1>3 DEF CellPut
<1>4. unset = [z \in DOMAIN made |-> IF z = f THEN made[f] ELSE E[z]]
  BY <1>1
<1>5. unset = [z \in DOMAIN made |-> U[z]]
  BY <1>2, <1>3, <1>4
<1>6. unset = U
  BY <1>5
<1> HIDE DEF unset
<1>7. Promise!Stored(made, unset, DOMAIN made, {Nothing})
  <2>1. o \in DOMAIN made /\ Nothing \in {Nothing}
    BY DEF CellPut
  <2>2. CellPut(made, unset, o, x, Nothing)
    BY <1>6
  <2>3. QED
    BY <2>1, <2>2, PutIsStored
<1>8. E = unset \/ Promise!Stored(unset, E, {f}, Promise!Held(unset, maker))
  <2>1. CASE E # U
    <3>1. PICK y : \E ref \in Promise!Held(U, maker) : CellPut(U, E, f, y, ref)
      BY <2>1
    <3>2. PICK ref \in Promise!Held(unset, maker) : CellPut(unset, E, f, y, ref)
      BY <1>6, <3>1
    <3>3. f \in {f}
      OBVIOUS
    <3>4. QED
      BY <3>2, <3>3, PutIsStored
  <2>2. QED
    BY <1>6, <2>1
<1>9. QED
  BY <1>1, <1>7, <1>8 DEF Promise!Spawned, unset

(* startThread: the new thread has one frame of one object. *)
LEMMA ThreadAdded ==
  ASSUME NEW f, NEW G, NEW n \in DOMAIN G, G[n] = << <<f>> >>
  PROVE  Last(G[n])[1] = f /\ f \in Promise!Live(G)
<1> DEFINE X == << <<f>> >>
<1>1. X[1] = <<f>> /\ 1 \in DOMAIN X /\ Len(X) = 1 /\ G[n] = X
  OBVIOUS
<1> HIDE DEF X
<1>2. Last(X) = <<f>> /\ <<f>>[1] = f /\ 1 \in DOMAIN <<f>>
  BY <1>1 DEF Last
<1>3. G[n][1][1] = f /\ 1 \in DOMAIN G[n] /\ 1 \in DOMAIN G[n][1]
  BY <1>1, <1>2
<1>4. G[n][1][1] \in Promise!Live(G)
  BY <1>3, LiveIn
<1>5. QED
  BY <1>1, <1>2, <1>3, <1>4

(* do_pthread_create: the handle is a number in an object that lived, and
   the parameter what a register of the creating thread holds. *)
LEMMA PthreadCreateSpawns ==
  ASSUME Sound(state), NEW tid \in 1 .. ThreadCount(state),
         NEW c \in Register, NEW d \in Register, PthreadCreate(tid, c, d)
  PROVE  Promise!Spawn /\ (GlobalsNamed(state) => GlobalsNamed(state'))
<1> DEFINE started == StartThread(state)
           handle == Registers(started, tid)[c]
           f == state.fst_unused_id
           n == Len(state.explicitData)
           F == FramesOf(state)
           G == FramesOf(state')
           C == CellsOf(state)
           E == CellsOf(state')
           made == Promise!Made(C, f, Register)
<1>1. /\ f <= MaxNames /\ MayFollow(started, handle)
      /\ \E x \in DOMAIN state.explicitData[handle.seg] :
           LET created == Store(started, handle.seg, x, Blank)
           IN  state' \in {created, StoreRegister(created, ThreadCount(created), 1,
                                                 Registers(created, tid)[d])}
  BY DEF PthreadCreate, Room
<1>2. /\ Sound(started) /\ ThreadCount(started) = ThreadCount(state) + 1
      /\ HasStarted(state, started)
  BY <1>1, ThreadIsStarted
<1>3. ThreadCount(state) \in Nat /\ tid \in 1 .. ThreadCount(started)
  <2>1. ThreadCount(state) \in Nat
    BY LayoutParts DEF Sound
  <2>2. QED
    BY <1>2, <2>1
<1> HIDE DEF started
<1> DEFINE tc == ThreadCount(started)
<1>4. tc \in 1 .. tc /\ tc = ThreadCount(state) + 1
  BY <1>2, <1>3
<1> HIDE DEF tc
<1>5. handle \in CellValue /\ CellOK(started, handle)
  BY <1>2, <1>3, ReadingRegister
<1>6. /\ handle.seg \in 1 .. Len(started.explicitData)
      /\ handle.seg \notin RegisterSegments(started)
  BY <1>1, <1>5 DEF CellOK
<1>7. Blank \in CellValue /\ CellOK(started, Blank)
  BY <1>2, BlankOK DEF Sound
<1> HIDE DEF handle
<1>8. 1 \in 1 .. n /\ n \in Nat
  BY SomeSegments, SegmentsFit
<1>9. HasMade(state, started, Register) /\ started.segments_mapping[n + 1] = f
  BY <1>2, <1>8, StartingMakes
<1>10. /\ Len(started.explicitData) = n + 1
       /\ \A s \in 1 .. n : DOMAIN started.explicitData[s] = DOMAIN state.explicitData[s]
  BY <1>2, <1>8, StartedBehind
<1>11. FramesOf(started) = Append(F, << <<f>> >>)
  BY <1>2, FramesWhenStarted
<1>12. /\ F \in Seq(Seq(Seq(Nat))) /\ Len(F) = ThreadCount(state) /\ tid \in DOMAIN F
       /\ Last(F[tid])[1] \in NamesIn(state) /\ f \in Nat
  BY FramesOfThread, NamesAre
<1>13. /\ Last(FramesOf(started)[tc])[1] = f /\ f \in Promise!Live(FramesOf(started))
       /\ FramesOf(started)[tid] = F[tid]
  <2> DEFINE H == FramesOf(started)
             T == Seq(Seq(Nat))
             X == << <<f>> >>
  <2>1. F \in Seq(T) /\ tid \in DOMAIN F /\ X \in T /\ H = Append(F, X)
    BY <1>11, <1>12
  <2>2. tc = Len(F) + 1 /\ X = << <<f>> >>
    BY <1>4, <1>12
  <2> HIDE DEF T, X, F, H
  <2>3. tc \in DOMAIN H /\ H[tc] = X /\ H[tid] = F[tid]
    BY <2>1, <2>2
  <2> HIDE DEF f
  <2>4. Last(H[tc])[1] = f /\ f \in Promise!Live(H)
    BY <2>2, <2>3, ThreadAdded
  <2>5. QED
    BY <2>3, <2>4 DEF H
<1> DEFINE last == LastRange(started, tc)[1]
<1>14. last \in RegisterSegments(started) /\ last \in 1 .. n + 1 /\ started.segments_mapping[last] = f
  <2>1. last \in RegisterSegments(started)
    BY <1>2, <1>4, RegistersExist DEF tc
  <2>2. /\ last \in 1 .. Len(started.explicitData)
        /\ started.segments_mapping[last] = Last(FramesOf(started)[tc])[1]
    BY <1>2, <1>4, RegistersAre DEF tc
  <2>3. QED
    BY <1>10, <1>13, <2>1, <2>2
<1> HIDE DEF last
<1>15. \A s, r \in 1 .. n + 1 :
         started.segments_mapping[s] = started.segments_mapping[r] => s = r
  BY <1>2, <1>10, NamesAre
<1>16. handle.seg \in 1 .. n /\ started.segments_mapping[handle.seg] # f
  <2>1. n + 1 \in 1 .. n + 1
    BY <1>8
  <2>2. last = n + 1
    BY <1>9, <1>14, <1>15, <2>1
  <2>3. handle.seg # n + 1 /\ handle.seg \in 1 .. n + 1
    BY <1>6, <1>10, <1>14, <2>2
  <2>4. handle.seg \in 1 .. n
    BY <1>8, <2>3
  <2>5. QED
    BY <1>9, <1>15, <2>1, <2>3, <2>4
<1>17. PICK x \in DOMAIN state.explicitData[handle.seg] :
         LET created == Store(started, handle.seg, x, Blank)
         IN  state' \in {created, StoreRegister(created, ThreadCount(created), 1,
                                               Registers(created, tid)[d])}
  BY <1>1
<1> DEFINE created == Store(started, handle.seg, x, Blank)
           U == CellsOf(created)
           o == started.segments_mapping[handle.seg]
<1>18. /\ Sound(created) /\ ThreadCount(created) = tc
       /\ CellPut(CellsOf(started), U, o, x, RefOf(started, Blank.meant))
       /\ FramesOf(created) = FramesOf(started) /\ NamesIn(created) = NamesIn(started)
       /\ created.segments_mapping = started.segments_mapping
  <2>1. x \in DOMAIN started.explicitData[handle.seg]
    BY <1>10, <1>16, <1>17
  <2>2. Sound(created) /\ created.thread_segments = started.thread_segments
    BY <1>2, <1>6, <1>7, Storing
  <2>3. created = Store(started, handle.seg, x, Blank)
    OBVIOUS
  <2> HIDE DEF created
  <2>4. ThreadCount(created) = tc
    BY <2>2 DEF ThreadCount, tc
  <2>5. QED
    BY <1>2, <1>6, <1>7, <2>1, <2>2, <2>3, <2>4, CellsStored
<1>19. \/ state' = created
       \/ state' = StoreRegister(created, tc, 1, Registers(created, tid)[d])
  BY <1>17, <1>18
<1> HIDE DEF created
<1>20. CellPut(made, U, o, x, Nothing) /\ o # f /\ f \in DOMAIN made
  <2>1. CellsOf(started) = made /\ RefOf(started, Blank.meant) = Nothing
    BY <1>9 DEF HasMade, RefOf, Blank
  <2>2. f \in DOMAIN made
    BY DEF Promise!Made
  <2>3. QED
    BY <1>16, <1>18, <2>1, <2>2
<1>21. DOMAIN made = NamesIn(started)
  <2>1. CellsOf(started) = made
    BY <1>9 DEF HasMade
  <2>2. AreCells(CellsOf(started), started)
    BY <1>2, CellsAre
  <2>3. QED
    BY <2>1, <2>2 DEF AreCells
<1> DEFINE maker == {Last(F[tid])[1]}
           value == Registers(created, tid)[d]
<1>22. ASSUME state' = created
       PROVE  /\ E = U /\ G = FramesOf(started) /\ NamesIn(state') = NamesIn(started)
              /\ state'.segments_mapping = started.segments_mapping
  BY <1>18, <1>22
<1>23. ASSUME state' = StoreRegister(created, tc, 1, value)
       PROVE  /\ \E ref \in Promise!Held(U, maker) : CellPut(U, E, f, 1, ref)
              /\ G = FramesOf(started) /\ NamesIn(state') = NamesIn(started)
              /\ state'.segments_mapping = started.segments_mapping
  <2>1. tid \in 1 .. ThreadCount(created) /\ tc \in 1 .. ThreadCount(created)
    BY <1>3, <1>4, <1>18 DEF tc
  <2>2. value \in CellValue /\ CellOK(created, value)
    BY <1>18, <2>1, ReadingRegister
  <2>3. RefOf(created, value.meant) \in Promise!Held(U, maker)
    <3>1. RefOf(created, value.meant) \in Promise!Held(U, {Last(FramesOf(created)[tid])[1]})
      BY <1>18, <2>1, RegisterIsHeld
    <3>2. FramesOf(created)[tid] = F[tid]
      BY <1>13, <1>18
    <3>3. QED
      BY <3>1, <3>2
  <2> HIDE DEF value
  <2> DEFINE s == LastRange(created, tc)[1]
  <2>4. /\ s \in 1 .. Len(created.explicitData) /\ DOMAIN created.explicitData[s] = Register
        /\ created.segments_mapping[s] = Last(FramesOf(created)[tc])[1]
    BY <1>18, <2>1, RegistersAre
  <2>5. created.segments_mapping[s] = f /\ 1 \in DOMAIN created.explicitData[s]
    BY <1>13, <1>18, <2>4, RegisterAssumption
  <2>6. state' = Store(created, s, 1, value)
    BY <1>23 DEF StoreRegister
  <2> HIDE DEF s
  <2>7. /\ CellPut(CellsOf(created), CellsOf(state'), created.segments_mapping[s], 1,
                   RefOf(created, value.meant))
        /\ FramesOf(state') = FramesOf(created)
        /\ NamesIn(state') = NamesIn(created)
        /\ state'.segments_mapping = created.segments_mapping
    BY <1>18, <2>2, <2>4, <2>5, <2>6, CellsStored
  <2>8. /\ CellPut(U, E, f, 1, RefOf(created, value.meant))
        /\ G = FramesOf(started) /\ NamesIn(state') = NamesIn(started)
        /\ state'.segments_mapping = started.segments_mapping
    BY <1>18, <2>5, <2>7
  <2>9. QED
    BY <2>3, <2>8
<1>24. /\ E = U \/ \E y : \E ref \in Promise!Held(U, maker) : CellPut(U, E, f, y, ref)
       /\ G = FramesOf(started) /\ NamesIn(state') = NamesIn(started)
       /\ state'.segments_mapping = started.segments_mapping
  BY <1>19, <1>22, <1>23
<1>25. U = [z \in DOMAIN made |-> U[z]] /\ E = [z \in DOMAIN made |-> E[z]]
  <2>1. Sound(state')
    BY PthreadCreateSound
  <2>2. AreCells(U, created) /\ AreCells(E, state')
    BY <1>18, <2>1, CellsAre
  <2>3. QED
    BY <1>18, <1>21, <1>24, <2>2 DEF AreCells
<1>26. f \in Promise!Live(G) \ Promise!Live(F)
  <2>1. f \in Promise!Live(FramesOf(state'))
    BY <1>13, <1>24
  <2>2. QED
    BY <1>8, <2>1, NewIsFresh
<1>27. NamedFrames = F /\ NamedFrames' = G /\ NamedCells = C /\ NamedCells' = E
  BY NamedAre
<1>28. G = Append(F, << <<f>> >>)
  BY <1>11, <1>24
<1>29. GlobalsNamed(state) => GlobalsNamed(state')
  BY <1>9, <1>24 DEF HasMade, GlobalsNamed
<1>30. made = Promise!Made(C, f, Register) /\ maker = {Last(F[tid])[1]}
  OBVIOUS
<1> HIDE DEF made, maker, E, U, o, F, G, C, f, n
<1>31. DOMAIN E = DOMAIN made /\ Promise!Spawned(made, E, f, maker)
  BY <1>20, <1>24, <1>25, SpawnedAre
<1>32. Promise!Spawn
  <2>1. f \in Promise!Fresh
    BY <1>26, <1>27 DEF Promise!Fresh
  <2>2. Promise!Registers(tid) = maker
    BY <1>27, <1>30 DEF Promise!Registers, Promise!Last, Last
  <2>3. tid \in DOMAIN NamedFrames
    BY <1>12, <1>27
  <2>4. NamedFrames' = Append(NamedFrames, << <<f>> >>)
    BY <1>27, <1>28
  <2>5. made = Promise!Made(NamedCells, f, Register) /\ E = NamedCells'
    BY <1>27, <1>30
  <2>6. /\ DOMAIN NamedCells' = DOMAIN Promise!Made(NamedCells, f, Register)
        /\ Promise!Spawned(Promise!Made(NamedCells, f, Register), NamedCells', f,
                           Promise!Registers(tid))
    BY <1>31, <2>2, <2>5
  <2>7. QED
    BY <2>1, <2>3, <2>4, <2>6 DEF Promise!Spawn
<1>33. QED
  BY <1>29, <1>32

(* initial(): the objects of the globals and of main's frame. *)
LEMMA InitMakes == Init => Promise!Init /\ GlobalsNamed(state)
<1> SUFFICES ASSUME Init PROVE Promise!Init /\ GlobalsNamed(state)
  OBVIOUS
<1> DEFINE D == <<BlankSegment(Cell)>>
           m == [thread_segments |-> << >>, segments_in_stack |-> << >>,
                 explicitData |-> <<BlankSegment(Cell)>>, segments_mapping |-> <<1>>,
                 fst_unused_id |-> 2]
           own == [c \in Register |-> Nothing]
           C == CellsOf(m)
           E == CellsOf(state)
<1>1. state = StartThread(m)
  BY DEF Init
<1>2. m = [thread_segments |-> << >>, segments_in_stack |-> << >>,
           explicitData |-> <<BlankSegment(Cell)>>, segments_mapping |-> <<1>>,
           fst_unused_id |-> 2]
  OBVIOUS
<1>3. /\ m.fst_unused_id = 2 /\ m.segments_mapping[1] = 1 /\ Len(m.explicitData) = 1
      /\ m.explicitData[1] = BlankSegment(Cell) /\ Len(m.thread_segments) = 0
  OBVIOUS
<1> HIDE DEF m
<1>4. Sound(m) /\ m.fst_unused_id <= MaxNames
  BY <1>2, GlobalsAreSound
<1>5. Sound(state) /\ HasStarted(m, state)
  BY <1>1, <1>4, ThreadIsStarted
<1>6. 1 \in 1 .. Len(m.explicitData)
  BY <1>3
<1>7. HasMade(m, state, Register)
  BY <1>4, <1>5, <1>6, StartingMakes
<1>8. FramesOf(m) = << >>
  <2>1. PICK b : LaidOut(m, b) /\ b[ThreadCount(m) + 1] = Len(m.explicitData)
    BY <1>4, SoundLayout
  <2>2. AreFrames(FramesOf(m), m, b)
    BY <1>4, <2>1, FramesAre
  <2>3. Len(FramesOf(m)) = 0 /\ FramesOf(m) \in Seq(Seq(Seq(Nat)))
    BY <1>3, <2>2 DEF AreFrames, ThreadCount
  <2> DEFINE T == Seq(Seq(Nat))
             H == FramesOf(m)
  <2>4. H \in Seq(T) /\ Len(H) = 0
    BY <2>3
  <2> HIDE DEF T, H
  <2>5. H = << >>
    BY <2>4
  <2>6. QED
    BY <2>5 DEF H
<1>9. FramesOf(state) = << << <<2>> >> >>
  <2>1. FramesOf(state) = Append(FramesOf(m), << <<m.fst_unused_id>> >>)
    BY <1>4, <1>5, FramesWhenStarted
  <2>2. FramesOf(state) = Append(<< >>, << <<2>> >>)
    BY <1>3, <1>8, <2>1
  <2>3. QED
    BY <2>2
<1>10. NamesIn(m) = {1} /\ GlobalsNamed(m)
  <2>1. NamesIn(m) = {m.segments_mapping[s] : s \in 1 .. 1}
    BY <1>3 DEF NamesIn
  <2>2. 1 .. 1 = {1}
    OBVIOUS
  <2>3. QED
    BY <1>3, <2>1, <2>2 DEF GlobalsNamed, GlobalSegment
<1>11. /\ E = Promise!Made(C, 2, Register) /\ DOMAIN C = {1} /\ DOMAIN E = {1, 2}
       /\ GlobalsNamed(state)
  <2>1. DOMAIN E = NamesIn(state)
    BY <1>5, CellsAre DEF AreCells
  <2>2. NamesIn(state) = {1} \cup {2}
    BY <1>3, <1>7, <1>10 DEF HasMade
  <2>3. QED
    BY <1>3, <1>7, <1>10, <2>1, <2>2 DEF HasMade
<1>12. C[1] = [c \in Cell |-> Nothing]
  <2>1. C[1] = RefsOf(m, BlankSegment(Cell))
    <3>1. AreCells(C, m)
      BY <1>4, CellsAre
    <3>2. C[m.segments_mapping[1]] = RefsOf(m, m.explicitData[1])
      BY <1>6, <3>1 DEF AreCells
    <3>3. QED
      BY <1>3, <3>2
  <2>2. RefsOf(m, BlankSegment(Cell)) = [c \in Cell |-> RefOf(m, 0)]
    BY DEF RefsOf, BlankSegment, Blank
  <2>3. QED
    BY <2>1, <2>2 DEF RefOf
<1> HIDE DEF C, E
<1>13. E[1] = [c \in Cell |-> Nothing] /\ E[2] = [c \in Register |-> Nothing]
  BY <1>11, <1>12 DEF Promise!Made
<1>14. Promise!Held(E, DOMAIN E) = {Nothing}
  <2>1. Promise!Held(E, DOMAIN E) = UNION {Promise!Range(E[o]) : o \in {1, 2}}
    BY <1>11 DEF Promise!Held
  <2>2. Promise!Range(E[1]) \subseteq {Nothing}
    BY <1>13 DEF Promise!Range
  <2>3. Promise!Range(E[2]) = {Nothing}
    BY <1>13, RegisterAssumption DEF Promise!Range
  <2>4. QED
    BY <2>1, <2>2, <2>3
<1>15. NamedFrames = << << <<2>> >> >> /\ NamedCells = E
  BY <1>9, NamedAre DEF E
<1>16. Promise!Init
  <2>1. 2 \in DOMAIN NamedCells \ {GlobalSegment} /\ DOMAIN NamedCells = {GlobalSegment, 2}
    BY <1>11, <1>15 DEF GlobalSegment
  <2>2. QED
    BY <1>14, <1>15, <2>1 DEF Promise!Init
<1>17. QED
  BY <1>11, <1>16

LEMMA StepsAreOfObjects ==
  ASSUME ForeignArguments = FALSE, Sound(state), GlobalsNamed(state), [Next]_state
  PROVE  [Promise!Next]_Promise!vars /\ GlobalsNamed(state')
<1>1. CASE Next
  <2>1. PICK tid \in 1 .. ThreadCount(state) :
          \/ Return(tid)
          \/ \E c \in Register : Call(tid, c) \/ Alloca(tid, c) \/ AddressOfGlobal(tid, c)
          \/ \E c, d \in Register :
               \/ PthreadCreate(tid, c, d)
               \/ Load(tid, c, d)
               \/ StoreThrough(tid, c, d)
               \/ ReturnValue(tid, c, d)
    BY <1>1 DEF Next
  <2>2. CASE Return(tid)
    BY <2>2, ReturnLeaves DEF Promise!Next
  <2>3. CASE \E c \in Register : Call(tid, c)
    BY <2>3, CallCalls DEF Promise!Next
  <2>4. CASE \E c \in Register : Alloca(tid, c)
    BY <2>4, AllocaAllocates DEF Promise!Next
  <2>5. CASE \E c \in Register : AddressOfGlobal(tid, c)
    BY <2>5, AddressOfGlobalAssigns DEF Promise!Next
  <2>6. CASE \E c, d \in Register : PthreadCreate(tid, c, d)
    BY <2>6, PthreadCreateSpawns DEF Promise!Next
  <2>7. CASE \E c, d \in Register : Load(tid, c, d)
    BY <2>7, LoadAssigns DEF Promise!Next
  <2>8. CASE \E c, d \in Register : StoreThrough(tid, c, d)
    BY <2>8, StoreThroughAssigns DEF Promise!Next
  <2>9. CASE \E c, d \in Register : ReturnValue(tid, c, d)
    BY <2>9, ReturnValueLeaves DEF Promise!Next
  <2>10. QED
    BY <2>1, <2>2, <2>3, <2>4, <2>5, <2>6, <2>7, <2>8, <2>9
<1>2. CASE UNCHANGED state
  <2>1. UNCHANGED <<NamedFrames, NamedCells>>
    BY <1>2, NamedAre
  <2>2. QED
    BY <1>2, <2>1 DEF Promise!vars, GlobalsNamed
<1>3. QED
  BY <1>1, <1>2

(* evaluator.h:230-271, 512-629, 784-819: whatever is called, returned from,
   started and allocated, the renumbered segments are memory made of objects,
   if no call passes a pointer into the stack of a later thread. *)
THEOREM MemoryIsMadeOfObjects == ForeignArguments = FALSE => (Spec => ImplementsObjects)
<1> SUFFICES ASSUME ForeignArguments = FALSE PROVE Spec => ImplementsObjects
  OBVIOUS
<1>1. Init => Sound(state) /\ Promise!Init /\ GlobalsNamed(state)
  BY InitSound, InitMakes
<1>2. Sound(state) /\ GlobalsNamed(state) /\ [Next]_state
        => Sound(state)' /\ GlobalsNamed(state)' /\ [Promise!Next]_Promise!vars
  BY SoundIsKept, StepsAreOfObjects
<1>3. QED
  BY <1>1, <1>2, PTL DEF Spec, ImplementsObjects, Promise!Spec
=============================================================================
