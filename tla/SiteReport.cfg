SPECIFICATION Spec
CONSTANTS
    None = None
    Urls = {u1, u2, u3}
    MAX_REDIRECTS = 1
    max_links = 2
    MaxElements = 4
    MaxNames = 2
    MaxDefects = 3
    Subjects = {"ssl", "links", "pages", "markup", "json", "objects", "mix"}
INVARIANTS
    ScoresTell
    AdviceExplains
    FindingsExact
