--------------------------- MODULE MCRateLimiter ---------------------------
(* Instances of RateLimiter.tla for TLC: one guest address and two tokens  *)
(* of the server, two requests at a time, windows of two seconds.  A       *)
(* string with a prefix of its own is a bucket like that of the guest.     *)
EXTENDS RateLimiter, TLC
CONSTANTS t1, t2
MCBearers == {t1, t2}
MCPrefix == [b \in MCBearers |-> "header"]
Symm == Permutations(Requests)
=============================================================================
