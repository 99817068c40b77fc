\* One mutation; one commit, of the mutation or of another contact, and one contact
\* that fails before or after it; the session of an earlier visit and one of a
\* login, or two of two logins.
CONSTANTS
    Mutation = {m1}
    NoData = NoData
    Unauthorized = Unauthorized
    MaxVersion = 1
    MaxFailed = 1
    MaxSession = 2
SPECIFICATION FairSpec
INVARIANTS
    NothingIsMissed
    LogoutCloses
    LoginOpens
PROPERTIES
    CatchesUp
    SpinnerEnds
