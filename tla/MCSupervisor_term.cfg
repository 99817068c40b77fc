\* The same instance.
CONSTANT MaxRegistrations = 3
SPECIFICATION FairSpec
PROPERTIES
    TermEnds
CHECK_DEADLOCK FALSE
