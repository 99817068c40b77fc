\* Three registrations: one may be served, one asked for and one under way.
CONSTANT MaxRegistrations = 3
SPECIFICATION FairSpec
INVARIANTS
    StatusIsGluetuns
    RunsNewest
PROPERTIES
    AtomicSpec
    OneGluetun
    StopsOnceHeard
CHECK_DEADLOCK FALSE
