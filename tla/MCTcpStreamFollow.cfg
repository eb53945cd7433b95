SPECIFICATION StreamSpec
CONSTANTS
    x = x
    y = y
    X = x
    Y = y
    None = None
    Mod = 16
    Packets <- MCPackets
    MaxPackets = 4
    Inputs = {}
    MaxReassembly = 12
INVARIANT FollowKeepsEveryByte
CHECK_DEADLOCK FALSE
