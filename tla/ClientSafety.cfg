SPECIFICATION Spec
CONSTANTS
    Requests = {r1, r2, r3}
    Timed = {r1, r2, r3}
    Connections = {c1, c2}
    Null = Null
    IdMod = 3
    ServerLengths = {"fits", "over"}
    MaxGarbled = 0
    MaxConfigs = 1
SYMMETRY ClientSymmetry
INVARIANTS
    TypeOK
    ConnectionExclusive
    OlderAnswersSkipped
    CleanHistoryOwnAnswer
CHECK_DEADLOCK FALSE
