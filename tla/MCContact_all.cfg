\* Two calls and two stops: a contact in flight or queued on each side of a stop.
\* No symmetry: it is unsound for liveness.
CONSTANTS
    Caller = {c1, c2}
    Stopper = {s1, s2}
    Cookie = {k1, k2}
    EmptyCookie = EmptyCookie
    NoCookie = NoCookie
SPECIFICATION FairSpec
INVARIANTS
    MutualExclusion
    NoLostUpdate
    QueueIsExact
    LoopAlive
    StopIsFinal
    ExitIsClean
PROPERTIES
    AtomicSpec
    DiskStaysReadable
    UnreadableIsKept
    CookieIsKept
    CallsAreAnswered
    StopTerminates
    ContactsRecur
