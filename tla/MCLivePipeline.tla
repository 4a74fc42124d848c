--------------------------- MODULE MCLivePipeline ---------------------------
(* An instance of LivePipeline for TLC. *)
EXTENDS LivePipeline
=============================================================================
