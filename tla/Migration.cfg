SPECIFICATION FairSpec
CONSTANTS
    i1 = i1  i2 = i2  b = b  m1 = m1  m2 = m2  x = x  y = y  c1 = c1  c2 = c2
    inbox = inbox  archive = archive
    Bodies = {x, y}
    Chunks <- Contents
    Rank <- Ranks
    pageSize = 1
    Importers = {i1, i2}
    Builders = {b}
    Folders <- FolderOrder
    Messages <- MessageOrder
    Source <- Snapshot
    Validity <- Validities
    StableValidity <- AgentValidities
    UserOps <- Ops
    maxUID = 2
    maxRevision = 2
    maxFaults = 1
CHECK_DEADLOCK FALSE
INVARIANTS AlwaysRecoverable PassedMeansComplete ProjectionFaithful UIDsDistinct
PROPERTIES Resumes ImplementsVersionedStore
