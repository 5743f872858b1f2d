SPECIFICATION RemoteSpec
CONSTANTS
    Ids = {r1, r2}
    NoId = NoId
    PodInits = {TRUE, FALSE}
    MaxReplaced = 1
    MaxAdrift = 1
    LARGE_FILE_THRESHOLD = 1
    MAX_DOWNLOAD_RETRIES = 3
    MaxSize = 3
    MaxArchives = 2
    MaxPods = 1
INVARIANTS
    FalseAnswersExplained
    ExitCodeIsTrue
    DownloadIsTrue
    ChunksAreCleaned
SYMMETRY SymIds
VIEW Seen
