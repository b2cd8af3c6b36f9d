SPECIFICATION FairSpec
CONSTANTS
    Uploads <- MCUploads
    UserOf <- MCUserOf
    DocOf <- MCDocOf
    TextLength <- MCTextLength
    ChunkSize = 4
    ChunkOverlap = 1
    TopK = 2
    Wanted <- MCWanted
    McpEnabled = {"a1"}
    Requested <- MCRequested
    MaxSize = 2
    ToolSets <- MCToolSets
    MaxAttempts = 2
    MaxStops = 1
    MaxJobs = 2
    None = None
INVARIANTS
    TypeOK
    ContextOfSameMaterial
    StaleChunkExplained
    WholeTextInContext
    RowsKeepContract
    NothingLostSilently
    ResultKeepsContract
PROPERTIES
    OnlyOwnIdsReplaced
    ContractSpec
    JobsEnd
CHECK_DEADLOCK FALSE
