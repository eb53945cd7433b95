SPECIFICATION ArtifactsSpec
CONSTANTS
    Inputs <- MCInputs
    MaxReassembly = 30
    Connections <- MCConnections
    None = None
    Talks <- MCTalks
INVARIANTS InOrderOnce GapsAreMissing NothingLost BudgetIsKept OffsetsAreTraced FilesOfTheirMessages
CHECK_DEADLOCK FALSE
