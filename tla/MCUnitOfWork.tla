--------------------------- MODULE MCUnitOfWork ---------------------------
(* One flat and two nested requests (one of them guarded) on a pool of two *)
(* connections: enough for two sessions left behind to starve the flat one. *)
EXTENDS UnitOfWork
CONSTANTS f1, n1, n2, w1, w2
MCReqs == {f1, n1, n2}
MCNested == {n1, n2}
MCGuarded == {n2}
MCRows == {w1, w2}
=============================================================================
