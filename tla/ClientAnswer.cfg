SPECIFICATION Spec
CONSTANTS
    Requests = {r1, r2}
    Timed = {r1, r2}
    Connections = {c1}
    Null = Null
    IdMod = 65536
    ServerLengths = {"fits"}
    MaxGarbled = 0
    MaxConfigs = 1
INVARIANT AnswerMatches
CHECK_DEADLOCK FALSE
