\* Two sessions, two streams; a duration that setTimeout can take.
CONSTANTS
    Session = {a, b}
    NoSession = NoSession
    Stream = {x, y}
    Duration = 2
    MaxDelay = 2
    EndOfTime = 3
SPECIFICATION FairSpec
INVARIANTS
    TimersMatchSessions
    StreamsEndWithSession
    RegistryIsExact
PROPERTIES
    AtomicSpec
    ExpiredIsRejected
    SessionLastsItsDuration
    SessionsEnd
