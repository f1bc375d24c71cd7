SPECIFICATION Spec
CONSTANTS
    Users = {u1, u2}
    Requests = {r1, r2, r3}
    NoRequest = none
    NoUser = nobody
    Amounts = {0, 1, 2}
    AddTypes = {"purchase"}
    MaxInt = 3
INVARIANTS
    TypeOK
    BalanceInSync
    LedgerReplays
PROPERTIES
    EveryChangeBooked
    EveryCallAnswered
    ImplementsAccount
