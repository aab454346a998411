-------------------------- MODULE MCUserManagement --------------------------
(***************************************************************************)
(* UserManagement for TLC: users are interchangeable, only safety.         *)
(***************************************************************************)
EXTENDS UserManagement, TLC

Symmetry == Permutations(Users)
=============================================================================
