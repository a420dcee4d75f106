SPECIFICATION FairSpec
CONSTANTS
    LastAddr = 1
    MaxLoads = 2
    UserIsQuick = TRUE
    UserMayPoke = TRUE
INVARIANTS TypeOK TrapsAreBreakpoints
PROPERTIES ContinuesInPlace BreakpointsStop
