----------------------------- MODULE MCBilling -----------------------------
(***************************************************************************)
(* Billing for TLC: requests, customers, subscriptions and plans are each  *)
(* interchangeable, and only safety is checked.                            *)
(***************************************************************************)
EXTENDS Billing, TLC

Symmetry == UNION {Permutations(Requests), Permutations(Customers),
                   Permutations(Subs), Permutations(Plans)}
=============================================================================
