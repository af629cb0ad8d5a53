\* Sessions, updates, searches and the errors an update swallows.
SPECIFICATION Spec
CONSTANTS
    Constructs <- SessionDocuments
    MaxFrames = 4
    MaxDeps = 2
    MaxOpen = 4
    MaxSessions = 2
    MaxErrors = 1
INVARIANTS TypeOK NoUnderflow Balanced SessionsClosedAsAsked
