SPECIFICATION FairSpec
CONSTANTS
    Requests = {r1, r2}
    Timed = {r1, r2}
    Connections = {c1}
    Null = Null
    IdMod = 2
    ServerLengths = {"fits", "over", "zero"}
    MaxGarbled = 1
    MaxConfigs = 1
PROPERTY TimedCallsReturn
CHECK_DEADLOCK FALSE
