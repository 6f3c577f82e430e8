SPECIFICATION Spec
CONSTANTS
    Writers = {w1, w2}
    Buffer = 2
    ChunkLen = 2
    MaxInputs = 3
    MaxCalls = 4
    MaxResponses = 3
    MaxResizes = 2
    MaxProbes = 0
    Server = server
    Responder = responder
    Prober = prober
SYMMETRY WriterSymmetry
CONSTRAINT Budget
CHECK_DEADLOCK FALSE
INVARIANTS
    TypeOK
    InFlight
    QuiescedIsDrained
    OpenGateMeansRunning
    GateReopens
    OrderKept
