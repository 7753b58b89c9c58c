SPECIFICATION Spec
CONSTANTS
    Sessions = {s1, s2}
    DefaultMaxSessions = 1
    Limits = {1}
SYMMETRY SessionSymmetry
INVARIANT MaxSessionsRespected
CHECK_DEADLOCK FALSE
