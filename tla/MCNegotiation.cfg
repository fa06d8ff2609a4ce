SPECIFICATION FairSpec
CONSTANTS
    h1 = h1
    c1 = c1
    d1 = d1
    d2 = d2
    Names = {1, 2, 3}
    Peers = {h1}
    Clients = {c1}
    Calls = {d1, d2}
    PeerOf <- OneHost
    ClientOf <- Shared
    DefaultOrder <- VlessVmessPlain
    Vmess = 2
    Unset = Unset
    NodeConfigs <- Configs
    AttemptsOf <- OneRetry
    MaxRestarts = 1
CHECK_DEADLOCK FALSE
INVARIANTS OrderlyDialsAgree OnlyAnswersAreKept
PROPERTIES DialsFinish
