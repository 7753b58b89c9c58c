SPECIFICATION Spec
CONSTANTS
    Sessions = {s1, s2, s3}
    DefaultMaxSessions = 1
    Limits = {1}
SYMMETRY SessionSymmetry
INVARIANTS
    TypeOK
    RegistryBounded
    RunningIsRegistered
    EndedIsReleased
    LateListenerServesNobody
PROPERTIES
    ImplementsRegistry
    AbortNeedsCause
CHECK_DEADLOCK FALSE
