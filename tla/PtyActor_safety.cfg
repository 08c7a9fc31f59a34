CONSTANTS
    w1 = w1
    w2 = w2
    Writers = {w1, w2}
    Buffer = 1
    Sizes = {1, 2}
    InitiallyQuiesced = {FALSE, TRUE}
    CallsTimeOut = TRUE
    IdleTimeout = TRUE
    IoErrors = TRUE
    MaxWrites = 2
    MaxHandoffs = 2
    MaxNudges = 1
    MaxResponses = 0
    MaxOutput = 1
SPECIFICATION Spec
SYMMETRY WriterSymmetry
INVARIANTS
    OpenGateMeansRunning
    QuiescedIsDry
    InputInOrder
PROPERTY ContractSpec
CHECK_DEADLOCK FALSE
