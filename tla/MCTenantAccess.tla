--------------------------- MODULE MCTenantAccess ---------------------------
(***************************************************************************)
(* TenantAccess for TLC: organizations, projects and requests are each     *)
(* interchangeable, and only safety is checked.                            *)
(***************************************************************************)
EXTENDS TenantAccess, TLC

Symmetry == UNION {Permutations(Orgs), Permutations(Projects), Permutations(Requests)}
=============================================================================
