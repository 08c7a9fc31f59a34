CONSTANTS
    a1 = a1
    a2 = a2
    d1 = d1
    d2 = d2
    t1 = t1
    t2 = t2
    s1 = s1
    s2 = s2
    Clients = {a1, a2, d1, d2}
    DirectClients = {d1, d2}
    Terminals = {t1, t2}
    Popups = {t2}
    Sizes = {s1, s2}
    NoClient = NoClient
    NoTerminal = NoTerminal
    MinSize = MinSize
SPECIFICATION Spec
INVARIANTS OwnerIsAttached LocksAreOwned AttachedHasItsSize SomeoneIsForeground OthersFitTheForeground NobodyShowsTheGone
SYMMETRY Symmetry
CHECK_DEADLOCK FALSE
