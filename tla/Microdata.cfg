SPECIFICATION Spec
CONSTANTS
    None = None
    Urls = {u1}
    MAX_REDIRECTS = 1
    max_links = 2
    MaxElements = 2
    MaxNames = 1
    MaxDefects = 0
    Subjects = {"markup"}
INVARIANT NestedItemsCaptured
