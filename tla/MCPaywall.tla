----------------------------- MODULE MCPaywall -----------------------------
(***************************************************************************)
(* Paywall for TLC: organizations and requests are each interchangeable,   *)
(* and only safety is checked.                                             *)
(***************************************************************************)
EXTENDS Paywall, TLC

Symmetry == Permutations(Orgs) \cup Permutations(Requests)
=============================================================================
