\* Two servers; a spare key beside those that the servers and state.json may
\* remember; a token that is good for one tick, or none; one thing that goes wrong.
CONSTANTS
    Server = {a1, a2}
    Key = {k1, k2, k3, k4}
    NoServer = NoServer
    NoKey = NoKey
    Lifetime = 2
    Safety = 1
    MaxUpsets = 1
SPECIFICATION FairSpec
INVARIANT
    SavedKeyIsHeld
PROPERTIES
    Resumes
    AtomicSpec
