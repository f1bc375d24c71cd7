SPECIFICATION Spec
CONSTANTS
    Requests = {r1}
    Owner = owner
    Emails = {e1, e2}
    Usernames = {n1, n2}
PROPERTIES
    RegisteredIsMailed
