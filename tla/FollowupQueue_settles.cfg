CONSTANTS
    i1 = i1
    i2 = i2
    i3 = i3
    s1 = s1
    live1 = live1
    claude = claude
    codex = codex
    NoSession = NoSession
    NoAgent = NoAgent
    NoPane = NoPane
    Ids = {i1, i3}
    Sessions = {s1, live1}
    Live = {live1}
    Backends = {claude}
    SessionOf <- MCSessionOf
    BackendOf <- MCBackendOf
    Panes = {p1, p2}
    MaxFollowups = 1
    MaxPending = 1
    Drafted = {s1}
SPECIFICATION FairSpec
PROPERTY QueuedSettles
CHECK_DEADLOCK FALSE
