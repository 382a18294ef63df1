----------------------------- MODULE Blobutils -----------------------------
(***************************************************************************)
(* blobutils.h: states as blocks of memory.  A blob is a sequence of words *)
(* here, and a word is the bytes of one value that is not a vector.        *)
(* Reading returns the value at the front of a blob and the rest of it.    *)
(***************************************************************************)
EXTENDS Naturals, Sequences, SequencesExt

WriteValue(e) == <<e>>
ReadValue(mem) == [value |-> Head(mem), rest |-> Tail(mem)]

(* blobWrite of a vector: its length, then its elements *)
WriteEach(Write(_), e) == <<Len(e)>> \o FlattenSeq([n \in DOMAIN e |-> Write(e[n])])

(* reading one value after another: what was read so far, a sequence, and the rest *)
From(mem) == [value |-> << >>, rest |-> mem]
Appended(got, next) == [value |-> Append(got.value, next.value), rest |-> next.rest]

(* blobRead of a vector: resized first, whatever it held *)
ReadEach(Read(_), mem) ==
  LET upto[n \in 0 .. Head(mem)] ==
        IF n = 0 THEN From(Tail(mem))
        ELSE LET got == upto[n - 1] IN Appended(got, Read(got.rest))
  IN  upto[Head(mem)]

WriteVector(e)   == WriteEach(WriteValue, e)
ReadVector(mem)  == ReadEach(ReadValue, mem)
WriteVectors(e)  == WriteEach(WriteVector, e)
ReadVectors(mem) == ReadEach(ReadVector, mem)

NextValue(got)   == Appended(got, ReadValue(got.rest))
NextVector(got)  == Appended(got, ReadVector(got.rest))
NextVectors(got) == Appended(got, ReadVectors(got.rest))

(* what the loops over sets and maps write: their elements, in some order *)
Elements(S) == FoldSet(LAMBDA e, seq : Append(seq, e), << >>, S)

(* std::vector( n, e ) *)
VectorOf(n, e) == FoldSet(LAMBDA k, seq : Append(seq, e), << >>, 1 .. n)

(* representation_size, in words *)
VectorSize(e)  == 1 + Len(e)
VectorsSize(e) == FoldSeq(LAMBDA v, size : size + VectorSize(v), 1, e)
=============================================================================
