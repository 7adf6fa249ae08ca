---------------------------- MODULE MCCacheAside ----------------------------
(* Instance of CacheAside.tla for TLC: two requests at a time, two writings *)
(* of an id, one change of a row and one entry in Redis at a time.         *)
EXTENDS CacheAside

MCWritings == {"str", "other"}
=============================================================================
