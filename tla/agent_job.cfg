SPECIFICATION FairSpec
CONSTANTS
    SlotCap = 2
    Window = 2
    PendingCap = 4
    InputCap = 1
    MaxChunks = 5
    MaxInput = 2
INVARIANTS TypeOK SlotsExact DownloadFits DownloadIsPrefix ExitOnce
PROPERTIES UnattendedWorkEnds AnsweredWithoutTimer
CHECK_DEADLOCK FALSE
