SPECIFICATION SeededSpec
CONSTANTS
    v1 = v1  v2 = v2
    m1 = m1
    f1 = f1  f2 = f2
    k1 = k1  k2 = k2
    r0 = r0
    None = None
    NoVersion = NoVersion
    Messages = {m1}
    Versions = {v1, v2}
    Owner <- OneMessage
    Requests = {r0, r1, r2}
    Keys = {r0, r1, r2}
    Ops = {1, 2, 3, 4, 5}
    Initial = 2
    VersionOp <- VersionOps
    ClientOps = {1}
    Folders = {f1, f2}
    Keywords = {k1, k2}
    MailboxChoices <- OneBox
    KeywordChoices <- OneKeyword
    maxParents = 4
    maxKeywords = 4
    maxRevisionCount = 2
SYMMETRY Symmetry
CHECK_DEADLOCK FALSE
INVARIANT WithinRevisionLimit
