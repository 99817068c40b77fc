\* No mutation, no contact: the session of an earlier visit ends.
CONSTANTS
    Mutation = {}
    NoData = NoData
    Unauthorized = Unauthorized
    MaxVersion = 0
    MaxFailed = 0
    MaxSession = 1
SPECIFICATION FairSpec
PROPERTIES
    LandsOnLogin
