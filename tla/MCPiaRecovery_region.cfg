\* The operator edits PIA_REGION or deletes state.json between two boots.
CONSTANTS
    NoServer = NoServer
    Regions = {{a1, a2}, {b1}}
    FailThreshold = 2
    SameServerAttempts = 2
    MinServerChange = 2
    RegisterAttempts = 3
    LiveServers = 1
    KilledAnywhere = FALSE
    OperatorEdits = TRUE
SPECIFICATION Spec
INVARIANTS
    SignatureFollowsServer
