\* Everything that can go wrong may go wrong; two of the servers stay alive.
CONSTANTS
    NoServer = NoServer
    Regions = {{a1, a2, a3}}
    FailThreshold = 2
    SameServerAttempts = 2
    MinServerChange = 1
    RegisterAttempts = 2
    LiveServers = 2
    KilledAnywhere = TRUE
    OperatorEdits = TRUE
SPECIFICATION FairSpec
INVARIANTS
    CopiesAgree
PROPERTIES
    ChangeDropsSignature
    ServerChangesAreSpaced
    Recovers
