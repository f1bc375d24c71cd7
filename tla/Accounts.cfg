SPECIFICATION Spec
CONSTANTS
    Requests = {r1, r2, r3}
    Owner = owner
    Emails = {e1, e2}
    Usernames = {n1, n2}
INVARIANTS
    TypeOK
    OneTimeToken
    RegistrationsExplained
PROPERTIES
    NothingReturns
    RegisteredIsAnswered
