CONSTANTS
    NoClient = NoClient
    p1 = p1
    p2 = p2
    Clients = {1}
    AnsiClients = {1}
    Leavers = {}
    Panes = {p1, p2}
    Senders = {1}
    Kinds = {"key", "reply", "focus", "detach", "resize"}
    MaxWrites = 1
    MaxChanges = 1
    MaxMessages = 1
SPECIFICATION Spec
INVARIANTS
    DiffsInv
    StaleIsDirty
    DeferralIsWoken
CHECK_DEADLOCK FALSE
