-------------------------- MODULE MCRenderStream --------------------------
(* Constants of the model-checking runs of RenderStream. *)
EXTENDS RenderStream

CONSTANTS p1, p2
=============================================================================
