SPECIFICATION AuditSpec
CONSTANTS
    Users = {u1}
    Requests = {r1, r2}
    NoRequest = none
    NoUser = nobody
    Amounts = {1, 2}
    AddTypes = {"purchase"}
    MaxInt = 3
PROPERTY DeletedStaysDeleted
