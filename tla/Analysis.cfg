SPECIFICATION Spec
CONSTANTS
    Jobs = {r1, r2}
    Owned = {r1, r2}
    Workers = {w1, w2}
    NoMessage = none
    MAX_RETRIES = 1
    MaxCrashes = 1
INVARIANTS
    TypeOK
    HistoryExplained
    StaleOnlyByRace
PROPERTIES
    ImplementsLife
    AlwaysStops
