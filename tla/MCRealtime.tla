---------------------------- MODULE MCRealtime ----------------------------
(* A user with two tabs and a follower with one connection.               *)
EXTENDS Realtime
CONSTANTS alice, bob, tab1, tab2, phone
MCUsers == {alice, bob}
MCSockets == {tab1, tab2, phone}
MCOwner == [s \in MCSockets |-> IF s = phone THEN bob ELSE alice]
MCFollowers == [u \in MCUsers |-> IF u = alice THEN {bob} ELSE {}]
=============================================================================
