--------------------------- MODULE MCFollowupQueue ---------------------------
(* Constants of the model-checking runs of FollowupQueue. *)
EXTENDS FollowupQueue, TLC

CONSTANTS i1, i2, i3, s1, live1, claude, codex

\* Suggestions about a conversation of the catalog and (i3) about an unreported one.
MCSessionOf == [i \in Ids |-> IF i = i3 THEN live1 ELSE s1]
MCBackendOf == [s \in Sessions |-> claude]

\* Panes, and the suggestions about one session, are interchangeable; used for safety only.
PaneSymmetry == Permutations(Panes) \cup Permutations(Ids \ {i3})
=============================================================================
