SPECIFICATION FairSpec
CONSTANTS
    a = a  b = b  d = d  seedStages = {"steady"}
    None = None
    Requests = {r1, r2, r3}
    Flows = {f1}
    Roles <- AllRoles
    maxAttempts = 2
    maxRetired = 2
CHECK_DEADLOCK FALSE
INVARIANTS SingleUse
PROPERTIES Answered
