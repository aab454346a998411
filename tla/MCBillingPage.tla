---------------------------- MODULE MCBillingPage ----------------------------
(***************************************************************************)
(* BillingPage for TLC: two interchangeable subscriptions, a month of two  *)
(* days and billing periods of one, so that a period ends exactly where    *)
(* the month's last day begins.                                            *)
(***************************************************************************)
EXTENDS BillingPage, TLC

Symmetry == Permutations(Subs)
=============================================================================
