----------------------------- MODULE MCTokens -----------------------------
(* One user, two requests at a time and a clock of a few seconds: access   *)
(* tokens live for one second and refresh tokens for two, so that entries  *)
(* end, and tokens expire, between any two steps.  Every token has one     *)
(* spelling besides that of the service.                                   *)
EXTENDS Tokens, TLC
CONSTANTS alice, p1, p2
MCUsers == {alice}
MCProcs == {p1, p2}
MCSpellings == {"issued", "other"}
Symm == Permutations(MCProcs)
=============================================================================
