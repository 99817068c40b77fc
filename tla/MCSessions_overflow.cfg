\* A duration beyond what setTimeout can take.
CONSTANTS
    Session = {a}
    NoSession = NoSession
    Stream = {x}
    Duration = 3
    MaxDelay = 2
    EndOfTime = 3
SPECIFICATION Spec
PROPERTIES
    SessionLastsItsDuration
