SPECIFICATION ManagersSpec
CONSTANTS
    Names = {1, 2, 3}
    MaxList = 2
    NodeTransports <- TcpAndWs
INVARIANTS OffersInOrder AnswerIsClientsBest
