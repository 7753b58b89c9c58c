SPECIFICATION FairSpec
CONSTANTS
    Requests = {r1, r2}
    Timed = {r1}
    Connections = {c1}
    Null = Null
    IdMod = 2
    ServerLengths = {"fits", "over"}
    MaxGarbled = 6
    MaxConfigs = 1
INVARIANT HealthyInOnePlace
PROPERTIES
    ImplementsClient
    HealthyOwnAnswer
    HealthyConnectionAnswers
CHECK_DEADLOCK FALSE
