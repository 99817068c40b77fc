\* One request at a time and one session id, used up by a login.
CONSTANTS
    Text <- Texts
    NoText = NoText
    Unset = Unset
    Unreadable = Unreadable
    Malformed = Malformed
    SessionId = {s1}
    NoSession = NoSession
    here = here
    Name = {here}
    Port = {80, 5010}
    NoPort = NoPort
    BadHost = BadHost
    NoOrigin = NoOrigin
    OpaqueOrigin = OpaqueOrigin
    DefaultHosts <- LocalHosts
    HostLists <- HostRules
    OriginLists <- OriginRules
SPECIFICATION Spec
INVARIANTS
    NeverNotConfigured
    Entitled
    CrossSite
