SPECIFICATION Spec
CONSTANTS
    Kinds = {"socks5", "http", "dokodemo", "reality", "forwarder", "tlsfront"}
    MaxData = 2
    MaxErrors = 1
CHECK_DEADLOCK FALSE
INVARIANTS RelayedInOrder NothingCut
PROPERTIES HandlersEnd ServeStops
