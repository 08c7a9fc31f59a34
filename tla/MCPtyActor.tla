---------------------------- MODULE MCPtyActor ----------------------------
(* Constants of the model-checking runs of PtyActor. *)
EXTENDS PtyActor, TLC

CONSTANTS w1, w2

\* Writers are interchangeable; used by the runs that check no liveness.
WriterSymmetry == Permutations(Writers)
=============================================================================
