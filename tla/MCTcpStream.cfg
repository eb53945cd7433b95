SPECIFICATION StreamSpec
CONSTANTS
    x = x
    y = y
    X = x
    Y = y
    None = None
    Mod = 16
    Packets <- MCPackets
    MaxPackets = 5
    Inputs = {}
    MaxReassembly = 12
INVARIANTS StreamComplete
CHECK_DEADLOCK FALSE
