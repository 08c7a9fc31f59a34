SPECIFICATION Spec
CONSTANTS
    Panes = {p1}
    Starters = {"other"}
    Crashing = {}
    Timeouts = FALSE
    Stoppable = FALSE
INVARIANT PanesAreReachable
CHECK_DEADLOCK FALSE
