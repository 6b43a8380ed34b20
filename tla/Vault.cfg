SPECIFICATION FairSpec
CONSTANTS
    c1 = c1  c2 = c2  c3 = c3  p1 = p1  p2 = p2
    Calls = {c1, c2, c3}
    Processes = {p1, p2}
    ProcessOf <- Placement
    CallKinds <- SomeKinds
    Names = {n1, n2}
    Values = {u}
    None = None
    Never = Never
    maxTime = 1
    maxRecords = 1
CHECK_DEADLOCK FALSE
INVARIANTS TakenOnce
PROPERTIES ImplementsRecordStore Returns
