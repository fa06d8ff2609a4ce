SPECIFICATION Spec
CONSTANTS
    Adapters = {"plain", "shadowsocks", "hysteria2", "padding"}
    Window = 1
    MaxFrame = 2
    MaxPad = 1
    Writes = {0, 1, 3}
    Buffers = {1, 3}
    MaxWrites <- WritesOf
    MaxDummies = 1
CHECK_DEADLOCK FALSE
INVARIANTS ReadInOrder
PROPERTIES CallsReturn CloseEndsReaders
