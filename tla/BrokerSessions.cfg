SPECIFICATION SeededSpec
CONSTANTS
    a = a  b = b  d = d  seedStages = {"steady", "provision"}
    None = None
    Requests = {a, b, d, r1, r2}
    Flows = {f1, f2}
    Roles <- AllRoles
    maxAttempts = 2
    maxRetired = 2
CHECK_DEADLOCK FALSE
SYMMETRY Symmetry
INVARIANTS RevokeComplete Retained RecordsValid ActiveUntouched ProvisionedExactly
PROPERTIES HandleKept RevokeDrains
