--------------------------- MODULE MCLivePointerSet ---------------------------
(***************************************************************************)
(* A table of 4 slots that may grow to 8: the third insertion grows it,    *)
(* and a growth that fails leaves a table that can fill up.  The hashes    *)
(* collide, and their runs wrap around the end of the table.               *)
(***************************************************************************)
EXTENDS LivePointerSet, TLC

PointerSymmetry == Permutations(Pointers)
==============================================================================
