------------------------------ MODULE MCClient ------------------------------
(***************************************************************************)
(* Client for TLC: two concurrent requests; temporal properties, so no     *)
(* symmetry.                                                               *)
(***************************************************************************)
EXTENDS Client
=============================================================================
