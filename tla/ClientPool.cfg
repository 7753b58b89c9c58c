SPECIFICATION FairSpec
CONSTANTS
    Requests = {r1, r2}
    Timed = {r1}
    Connections = {c1}
    Null = Null
    IdMod = 3
    ServerLengths = {"fits"}
    MaxGarbled = 0
    MaxConfigs = 1
PROPERTY TimeoutBoundsWait
CHECK_DEADLOCK FALSE
