----------------------------- MODULE MCAccounts -----------------------------
(***************************************************************************)
(* Model values for Accounts.                                              *)
(***************************************************************************)
EXTENDS Accounts, TLC

\* Requests and administrators' calls are interchangeable.
Symmetry == Permutations(Requests) \cup Permutations(Admins)
=============================================================================
