SPECIFICATION FairSpec
CONSTANTS
    c1 = c1
    c2 = c2
    cBad = cBad
    None = None
    f = f
    eBad = eBad
    NoText = NoText
    Captures <- MCTwoCaptures
    Unreadable <- MCUnreadable
    PacketNos = {1}
    PacketsOf <- MCTwoPacketsOf
    Exprs <- MCExprs
    Invalid <- MCInvalid
    Matches <- MCMatches
    Bundled = FALSE
    MaxCalls = 3
    MaxGen = 1
PROPERTIES EveryCallEnds ProgressEnds
CHECK_DEADLOCK FALSE
