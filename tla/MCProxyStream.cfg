SPECIFICATION FairSpec
CONSTANTS
    Setups <- AllSetups
    TextTokens = {"Text"}
    MaxData = 2
CHECK_DEADLOCK FALSE
INVARIANTS OkMeansTunnel FedInOrder GotInOrder WaitExplained
PROPERTIES RelayEnds DialReturns
