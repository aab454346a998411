---------------------------- MODULE MCMembership ----------------------------
(***************************************************************************)
(* Membership for TLC: two bootstrap administrators, one of the domain and *)
(* one whose domain only ends alike, and a user below the domain, whose    *)
(* sign-up waits for them.                                                 *)
(***************************************************************************)
EXTENDS Membership, TLC

CONSTANTS ada, bob, cyd

MCUsers == {ada, bob, cyd}
MCOwned == <<"acme", "co", "uk">>
MCAddress == ada :> <<"other", "co", "uk">> @@ bob :> MCOwned @@ cyd :> <<"mail">> \o MCOwned
MCSuffixes == {<<"co", "uk">>}
=============================================================================
