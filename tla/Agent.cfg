SPECIFICATION FairSpec
CONSTANTS
    o1 = o1  o2 = o2  o3 = o3  k = k  b1 = b1  b2 = b2  b3 = b3  inbox = inbox  drafts = drafts
    NoCID = NoCID
    NoKey = NoKey
    Requests = {r1, r2}
    SourceKeys = {k}
    Bodies = {b1, b2, b3}
    Mailboxes = {inbox, drafts}
    Captures <- Edits
    Mirrors <- Inbound
    Ops = {o1, o2, o3}
    Mutation <- Changes
    Rank <- Ranks
    Size <- Sizes
    pageLimit = 2
    maxPageSize = 2
CHECK_DEADLOCK FALSE
INVARIANTS Complete ExactlyOnce InventoryComplete
PROPERTIES EditKeepsOneLive ImplementsVersionedStore WalkEnds
