SPECIFICATION Spec
CONSTANTS
    Jobs = {r1}
    Owned = {r1}
    Workers = {w1}
    NoMessage = none
    MAX_RETRIES = 1
    MaxCrashes = 1
INVARIANTS
    CountedOnce
