------------------------------- MODULE MCSeed -------------------------------
(***************************************************************************)
(* Seed for TLC: two runs, which are interchangeable, and one edit.        *)
(***************************************************************************)
EXTENDS Seed, TLC

Symmetry == Permutations(Runs)
=============================================================================
