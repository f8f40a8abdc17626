-------------------------- MODULE MCContentPipeline --------------------------
(* A finite instance of ContentPipeline for TLC: one request, in an         *)
(* experiment or not, and a brief of up to two opportunities.               *)
EXTENDS ContentPipeline

MCRequests == {<<"r1">>}
==============================================================================
