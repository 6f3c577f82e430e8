SPECIFICATION FairSpec
CONSTANTS
    Writers = {w1, w2}
    Buffer = 1
    ChunkLen = 1
    MaxInputs = 2
    MaxCalls = 2
    MaxResponses = 0
    MaxResizes = 0
    MaxProbes = 1
    Server = server
    Responder = responder
    Prober = prober
CHECK_DEADLOCK FALSE
PROPERTIES
    InputSettles
