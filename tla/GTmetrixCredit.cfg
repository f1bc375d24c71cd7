SPECIFICATION Spec
CONSTANTS
    Jobs = {r1}
    Workers = {w1, w2}
    NoMessage = none
    MAX_RETRIES = 1
    MaxCrashes = 1
    MaxLost = 1
INVARIANT AtMostOneCredit
