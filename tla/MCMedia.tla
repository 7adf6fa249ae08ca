------------------------------ MODULE MCMedia ------------------------------
(* Instance of Media.tla for TLC: one media id, two requests or            *)
(* pipelines in flight, the pipeline started twice, a file of three bytes  *)
(* that is read in chunks of two.                                          *)
EXTENDS Media
=============================================================================
