----------------------------- MODULE MCAccounts -----------------------------
(* Accounts with two requests, two addresses and one name: registrations   *)
(* that collide in either index, and edits of different columns of a row.  *)
EXTENDS Accounts, TLC

MCBodies == {{"first"}, {"last"}, {"password"}, {"bio"}}

(* Two requests, and two addresses, are alike.                             *)
Symmetry == Permutations(Requests) \cup Permutations(Emails)
=============================================================================
