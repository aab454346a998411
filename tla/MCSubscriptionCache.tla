------------------------ MODULE MCSubscriptionCache ------------------------
(***************************************************************************)
(* SubscriptionCache for TLC.  The readers are interchangeable; symmetry   *)
(* is used by the safety runs only.                                        *)
(***************************************************************************)
EXTENDS SubscriptionCache, TLC

Symmetry == Permutations(Readers) \cup Permutations(Hooks)
=============================================================================
