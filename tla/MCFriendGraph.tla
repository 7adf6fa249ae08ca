--------------------------- MODULE MCFriendGraph ---------------------------
(* Two users and two handlers: every race of two operations on one pair,   *)
(* in either direction.  The proofs are for any number of either.          *)
EXTENDS FriendGraph
CONSTANTS a, b, p1, p2
MCUsers == {a, b}
MCProcs == {p1, p2}
=============================================================================
