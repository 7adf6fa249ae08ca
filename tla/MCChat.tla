------------------------------- MODULE MCChat -------------------------------
(* Instance of Chat.tla for TLC: up to three messages on two timestamps,   *)
(* pages of one, and page sizes at and below the least LIMIT.              *)
EXTENDS Chat, TLC
MCFirsts == {-2, 0, 1}
=============================================================================
