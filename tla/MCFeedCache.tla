---------------------------- MODULE MCFeedCache ----------------------------
(* Instance of FeedCache.tla for TLC: an author and a follower, one post   *)
(* that is created, edited and deleted, one reader at a time.  A feed can  *)
(* hold the post twice, once from the fan-out and once from a read.        *)
EXTENDS FeedCache, TLC
=============================================================================
