SPECIFICATION Spec
CONSTANTS
    Jobs = {j1, j2}
    Workers = {w1, w2}
    NoMessage = none
    MAX_RETRIES = 1
    MaxCrashes = 1
    MaxLinks = 2
    PROGRESS_EVERY = 1
    MaxItems = 1
INVARIANTS
    TypeOK
    CrawlCountsAgree
    ResultsMatchJob
    FilesMatchRows
PROPERTIES
    ScansImplementLife
    CombinedTracks
    JobsSettle
    PurgeCatchesUp
