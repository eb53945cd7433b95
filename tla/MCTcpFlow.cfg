SPECIFICATION FlowSpec
CONSTANTS
    x = x
    y = y
    X = x
    Y = y
    None = None
    Mod = 16
    Packets <- MCPackets
    MaxPackets = 5
INVARIANTS FlowTypeOK DirsSettle RetransIsBehind
PROPERTY ImplementsLedger
CHECK_DEADLOCK FALSE
