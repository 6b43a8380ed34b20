SPECIFICATION MCSpec
CONSTANTS
    inbox = inbox  work = work  home = home  b1 = b1  b2 = b2
    v1 = v1  v2 = v2  v3 = v3  INBOX = INBOX  Work = Work  Home = Home
    Messages = {1, 2}
    Versions = {v1, v2, v3}
    NoVersion = NoVersion
    Owner <- Owners
    Ops = {1, 2, 3, 4, 5, 6, 7}
    Keys = {1, 2, 3, 4, 5, 6, 7}
    Folders = {inbox, work, home}
    Keywords = {}
    maxParents = 2
    maxKeywords = 1
    maxRevisionCount = 6
    Names = {INBOX, Work, Home}
    NoName = NoName
    NoRole = NoRole
    Fold <- Folded
    Lower <- Folded
    Standard = {inbox}
    StandardName <- StandardNames
    Prior <- Grown
    Builders = {b1, b2}
    FreshOps = {1, 7}
    maxCommits = 4
    None = None
    maxFaults = 2
CHECK_DEADLOCK FALSE
INVARIANTS VisitSeesContent  WinnersAreLatest
PROPERTIES ImplementsSnapshotRead Recovers ClosedIsCleared
