SPECIFICATION FairSpec
CONSTANTS
    Sessions = {s1, s2}
    DefaultMaxSessions = 0
    Limits = {0, 1}
PROPERTIES
    AcceptLoopEnds
    WaitingIsAccepted
    StoppedSessionEnds
    PeerGoneFreesPlace
CHECK_DEADLOCK FALSE
