SPECIFICATION FairSpec
CONSTANTS
    Folders = {f1, f2, f3}
    Requests = {r1, r2, r3}
CHECK_DEADLOCK FALSE
INVARIANTS RetrySuffices FoldersComplete
PROPERTIES FolderStep Ends
