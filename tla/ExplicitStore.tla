--------------------------- MODULE ExplicitStore ---------------------------
(***************************************************************************)
(* ValueStore< uint64_t > (explicitstore.h) as operators on a record of    *)
(* its members.  The 64 bits of a word are WordWidth bits here, and        *)
(* MachineWidths are the widths with a case of their own in the switches   *)
(* over 64, 32, 16 and 8; another width aborts there.  Segments and        *)
(* offsets count from one.  The pointer flags are in Memory.               *)
(***************************************************************************)
EXTENDS Words, Blobutils

CONSTANTS
  WordWidth,      \* the width of a machine word: 64
  MachineWidths   \* the widths of int64_t, int32_t, int16_t and int8_t

ASSUME WidthsAssumption ==
  /\ WordWidth \in Nat \ {0}
  /\ MachineWidths \subseteq 1 .. WordWidth

EmptyExplicit == [data |-> << >>, bw |-> << >>, empty |-> FALSE]

uint64(n) == Lower(n, WordWidth)
lower_to_nbits(what, bw) == IF bw = WordWidth THEN what ELSE Lower(what, bw)
signed_cast(what, bw) == Signed(Lower(what, bw), bw)      \* static_cast< int32_t > and its like

get(store, a)   == IF a.type = "Constant" THEN a.value ELSE store.data[a.seg][a.off]
getBw(store, a) == IF a.type = "Constant" THEN a.bw ELSE store.bw[a.seg][a.off]

(* variant: the word is kept as the operation left it *)
AssignWithoutLowering(store, result, value) ==
  [store EXCEPT !.data[result.seg][result.off] = uint64(value)]

(* at( result ) = lower_to_nbits( value, getBw( result ) ) *)
assign(store, result, value) ==
  [store EXCEPT !.data[result.seg][result.off] = lower_to_nbits(uint64(value), getBw(store, result))]

(* implement_add and the others; implement_div serves UDiv and SDiv *)
Computed(op, x, y, bw) ==
  CASE op = "Add"  -> x + y
    [] op = "Sub"  -> x - y
    [] op = "Mul"  -> x * y
    [] op \in {"UDiv", "SDiv"} -> x \div y
    [] op = "URem" -> x % y
    [] op = "SRem" -> Remainder(signed_cast(x, bw), signed_cast(y, bw))
    [] op = "And"  -> BitAnd(x, y, WordWidth)
    [] op = "Or"   -> BitOr(x, y, WordWidth)
    [] op = "Xor"  -> BitXor(x, y, WordWidth)
    [] op = "Shl"  -> x * 2^y
    [] op = "LShr" -> x \div 2^y

explicit_binary(store, op, result, a, b) ==
  assign(store, result, Computed(op, get(store, a), get(store, b), getBw(store, a)))

(* implement_store, and implement_ZExt, SExt and Trunc, which are the same *)
explicit_store(store, result, what) == assign(store, result, get(store, what))

(* prune: signed comparisons by casts, the others on the whole words *)
HoldsExplicitly(predicate, x, y, bw) ==
  CASE predicate = "EQ"  -> x = y
    [] predicate = "NE"  -> x # y
    [] predicate = "UGT" -> x > y
    [] predicate = "UGE" -> x >= y
    [] predicate = "ULT" -> x < y
    [] predicate = "ULE" -> x <= y
    [] predicate = "SGT" -> signed_cast(x, bw) > signed_cast(y, bw)
    [] predicate = "SGE" -> signed_cast(x, bw) >= signed_cast(y, bw)
    [] predicate = "SLT" -> signed_cast(x, bw) < signed_cast(y, bw)
    [] predicate = "SLE" -> signed_cast(x, bw) <= signed_cast(y, bw)

(* _empty is never reset but by reading a state again *)
explicit_prune(store, a, b, predicate) ==
  [store EXCEPT !.empty =
     @ \/ ~HoldsExplicitly(predicate, get(store, a), get(store, b), getBw(store, a))]

(* a new cell holds zero *)
explicit_addSegment(store, id, bit_widths) ==
  [store EXCEPT !.data = InsertAt(@, id, VectorOf(Len(bit_widths), 0)),
                !.bw   = InsertAt(@, id, bit_widths)]

explicit_eraseSegment(store, id) ==
  [store EXCEPT !.data = RemoveAt(@, id), !.bw = RemoveAt(@, id)]

explicit_writeData(store) == WriteVectors(store.data) \o WriteVectors(store.bw) \o <<store.empty>>

ExplicitOf(got) ==
  [value |-> [data |-> got.value[1], bw |-> got.value[2], empty |-> got.value[3]], rest |-> got.rest]
explicit_readData(mem) ==
  ExplicitOf(NextValue(NextVectors(NextVectors(From(mem)))))
=============================================================================
