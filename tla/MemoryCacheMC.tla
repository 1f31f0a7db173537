--------------------------- MODULE MemoryCacheMC ----------------------------
(* Three pointers, an arena of up to five bytes, blocks of up to two: every  *)
(* order of calls fills it, spills out of it, and clears it.                 *)
EXTENDS MemoryCache, TLC

CONSTANTS p, q, r

MCSymmetry == Permutations(Slot)
=============================================================================
