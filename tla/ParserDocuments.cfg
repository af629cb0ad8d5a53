\* Scanned elements, loops, second passes, scopes and skipped elements, without errors.
SPECIFICATION Spec
CONSTANTS
    Constructs <- ScannedDocuments
    MaxFrames = 4
    MaxDeps = 2
    MaxOpen = 3
    MaxSessions = 1
    MaxErrors = 0
INVARIANTS Balanced ScopeFollowsDocument
