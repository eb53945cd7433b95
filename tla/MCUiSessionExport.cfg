SPECIFICATION Spec
CONSTANTS
    c1 = c1
    c2 = c2
    cBad = cBad
    None = None
    f = f
    eBad = eBad
    NoText = NoText
    Captures <- MCCaptures
    Unreadable <- MCUnreadable
    PacketNos = {1, 2}
    PacketsOf <- MCPacketsOf
    Exprs <- MCExprs
    Invalid <- MCInvalid
    Matches <- MCMatches
    Bundled = TRUE
    MaxCalls = 4
    MaxGen = 1
INVARIANT ExportsWhatIsListed
CHECK_DEADLOCK FALSE
