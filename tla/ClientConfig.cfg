SPECIFICATION Spec
CONSTANTS
    Requests = {r1}
    Timed = {r1}
    Connections = {c1}
    Null = Null
    IdMod = 3
    ServerLengths = {"fits"}
    MaxGarbled = 0
    MaxConfigs = 1
INVARIANT ConfigSetWhenNotRunning
CHECK_DEADLOCK FALSE
