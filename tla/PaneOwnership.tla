---------------------------- MODULE PaneOwnership ----------------------------
(***************************************************************************)
(* What a live handoff promises about the panes: no pane is ever read by   *)
(* two servers, the old server reads them until the handoff is committed   *)
(* and the new one only afterwards, and the commit finds every pane given  *)
(* up by the old server.                                                   *)
(***************************************************************************)
CONSTANT Panes

VARIABLES
    readers,    \* the servers that read each pane
    committed   \* the handoff is decided

Init ==
    /\ readers = [p \in Panes |-> {"old"}]
    /\ committed = FALSE

\* Servers stop reading panes, or die.
Stop ==
    /\ readers' \in [Panes -> {{}, {"old"}, {"new"}}]
    /\ \A p \in Panes : readers'[p] \subseteq readers[p]
    /\ UNCHANGED committed

\* A handoff that is not committed gives panes back to the old server.
Resume ==
    /\ ~committed
    /\ readers' \in [Panes -> {{}, {"old"}}]
    /\ \A p \in Panes : readers[p] \subseteq readers'[p]
    /\ UNCHANGED committed

Commit ==
    /\ ~committed
    /\ \A p \in Panes : readers[p] = {}
    /\ committed' = TRUE
    /\ UNCHANGED readers

Adopt ==
    /\ committed
    /\ \A p \in Panes : readers[p] = {}
    /\ readers' = [p \in Panes |-> {"new"}]
    /\ UNCHANGED committed

Next == Stop \/ Resume \/ Commit \/ Adopt

Spec == Init /\ [][Next]_<<readers, committed>>
=============================================================================
