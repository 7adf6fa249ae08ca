---------------------------- MODULE MCReactions ----------------------------
(* Two users and two types on one post; three reaction rows allow a first  *)
(* reaction, its replacement, and one more by either user.                 *)
EXTENDS Reactions, TLC
CONSTANTS u1, u2, love, sad, p1, p2
MCUsers == {u1, u2}
MCTypes == {love, sad}
MCProcs == {p1, p2}
Symm == Permutations(MCUsers) \cup Permutations(MCTypes) \cup Permutations(MCProcs)
=============================================================================
