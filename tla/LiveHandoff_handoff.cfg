SPECIFICATION FairSpec
CONSTANTS
    Panes = {p1, p2}
    Starters = {"other"}
    Crashing = {"old", "new", "other"}
    Timeouts = TRUE
    Stoppable = TRUE
INVARIANTS IndInv PanesKept ReachableIfAlone
PROPERTIES OwnershipSpec HandoffEnds ImportEnds
CHECK_DEADLOCK FALSE
