-------------------------------- MODULE GoInt --------------------------------
(***************************************************************************)
(* Fixed-width Go integer conversions used by the EL-sync range code of    *)
(* state.go, and clamp (state.go 647-657).  Word is the modulus of uint64  *)
(* (2^64 in the build).  A model uses a smaller power of two: every        *)
(* comparison the driver makes between a wrapped value and a block number *)
(* of the model comes out the same as with 2^64 as long as Word exceeds    *)
(* twice the block numbers plus the literals the code subtracts (5, 1).   *)
(***************************************************************************)
EXTENDS Integers

CONSTANT Word

ASSUME WordAssumption == Word \in Nat /\ Word >= 2

\* Conversion of an integer to uint64 (wrap-around).
U64(x) == x % Word

\* int64(u) for a uint64 u: the two's complement reading.
I64(u) == IF u >= Word \div 2 THEN u - Word ELSE u

\* (*big.Int).Uint64(): the low word of the absolute value; the sign is
\* dropped (the documentation calls it undefined, the build does this).
BigUint64(x) == U64(IF x < 0 THEN -x ELSE x)

\* clamp(start, end, size): the end of a batch of at most size blocks.
Clamp(start, end, size) ==
  LET count == U64(BigUint64(end - start) + 1)
  IN IF count <= size THEN end
     ELSE start + I64(U64(size - 1))
=============================================================================
