SPECIFICATION Spec
CONSTANTS
    Files <- MCFiles
    UsPerSec = 2
    TicksPerUs = 2
    None = None
INVARIANTS ReadsEveryPacket OwnInterface BytesOfItsBlock StopsAreReported ReadsBack
CHECK_DEADLOCK FALSE
