SPECIFICATION SeededSpec
CONSTANTS
    a = a  b = b  d = d  seedStages = {"steady"}
    None = None
    Requests = {a, b, d, r1}
    Flows = {f1}
    Roles <- CallbackRoles
    maxAttempts = 2
    maxRetired = 2
CHECK_DEADLOCK FALSE
INVARIANTS RejectedNeverOrphaned
