SPECIFICATION Spec
CONSTANTS
    Replicas = {"a", "b", "d"}
    Daemons = {"a", "b"}
    Clients = {"c"}
    Departed = "z"
    InitialRecords <- Old
    TTLOf <- TTLs
    DefaultTTL = 1
    Minute = 1
    Skew <- Ahead
    MaxAttempts = 2
    MaxLookup = 1
    MaxTime = 2
    MaxCalls = 2
    MaxFaults = 1
CHECK_DEADLOCK FALSE
INVARIANTS ReplicasAgree SomeoneHolds AnswerAge
PROPERTIES TakenOverOnlyByRaces
