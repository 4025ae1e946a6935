--------------------------- MODULE MCTokenBucket ---------------------------
(***************************************************************************)
(* TokenBucket for TLC.  With three-bit integers of value (IntMax = 7), a  *)
(* refill of three seconds overflows as one of three hours does in C.      *)
(***************************************************************************)
EXTENDS TokenBucket, TLC

MCShape == {[cps |-> 3, burst |-> 5]}
MCTime == 0 .. 3

Symmetry == Permutations(Caller)
=============================================================================
