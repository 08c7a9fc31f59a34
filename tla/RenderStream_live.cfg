CONSTANTS
    NoClient = NoClient
    p1 = p1
    p2 = p2
    Clients = {1, 2}
    AnsiClients = {1, 2}
    Leavers = {2}
    Panes = {p1}
    Senders = {}
    Kinds = {}
    MaxWrites = 1
    MaxChanges = 0
    MaxMessages = 0
SPECIFICATION FairSpec
INVARIANTS
    DiffsFit
PROPERTY CatchesUp
CHECK_DEADLOCK FALSE
