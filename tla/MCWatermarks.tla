----------------------------- MODULE MCWatermarks -----------------------------
(* Small instances of Watermarks for TLC: two ticks of a DATE, each of two  *)
(* microseconds of three instants, so that a seventh digit rounds both ways. *)
EXTENDS Watermarks, TLC

CONSTANTS k1, k2

KeySymmetry == Permutations(Keys)

=============================================================================
