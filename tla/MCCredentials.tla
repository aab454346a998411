--------------------------- MODULE MCCredentials ---------------------------
(***************************************************************************)
(* Credentials for TLC: two inputs, one of which is a weak password; every *)
(* page can be visited, and left with a call under way.                    *)
(***************************************************************************)
EXTENDS Credentials
=============================================================================
