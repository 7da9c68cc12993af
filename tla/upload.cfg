SPECIFICATION FairSpec
CONSTANTS
    Window = 4
    PendingCap = 8
    MaxChunks = 6
INVARIANTS TypeOK AgentQueueFits PendingFits CommittedIsWhole OkMeansCommitted
PROPERTIES StoppedNeverCommits UploadReleased ImplementsAtomicUpload
CHECK_DEADLOCK FALSE
