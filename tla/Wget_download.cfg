CONSTANTS
    Length <- Shrinking
    BufSize = 2
    RedirLimit = 3
    MaxRuns = 3
    MaxInterim = 2
    ServerMay = {"range", "chunked", "close", "redirect", "continue", "error", "cut", "padded", "update"}
SPECIFICATION FairSpec
INVARIANTS TypeOK InPlace CompleteFile BlameIsRight
PROPERTIES Terminates
CHECK_DEADLOCK FALSE
