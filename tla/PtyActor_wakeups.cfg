CONSTANTS
    w1 = w1
    w2 = w2
    Writers = {w1}
    Buffer = 1
    Sizes = {1, 2}
    InitiallyQuiesced = {FALSE}
    CallsTimeOut = FALSE
    IdleTimeout = FALSE
    IoErrors = FALSE
    MaxWrites = 2
    MaxHandoffs = 1
    MaxNudges = 0
    MaxResponses = 1
    MaxOutput = 1
SPECIFICATION FairSpec
INVARIANTS
    RolledBackPaneAcceptsInput
    
PROPERTIES
    AcceptedIsDelivered
    CommandsAreHandled
CHECK_DEADLOCK FALSE
