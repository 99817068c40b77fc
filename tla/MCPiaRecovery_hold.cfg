\* Two regions, nothing killed, nothing edited: the scripts alone.
CONSTANTS
    NoServer = NoServer
    Regions = {{a1, a2}, {b1}}
    FailThreshold = 2
    SameServerAttempts = 2
    MinServerChange = 2
    RegisterAttempts = 3
    LiveServers = 1
    KilledAnywhere = FALSE
    OperatorEdits = FALSE
SPECIFICATION Spec
INVARIANTS
    GoneIsLeft
