\* An error swallowed by an update leaves the session that closes uncleared.
SPECIFICATION Spec
CONSTANTS
    Constructs <- SessionDocuments
    MaxFrames = 4
    MaxDeps = 2
    MaxOpen = 4
    MaxSessions = 2
    MaxErrors = 1
PROPERTIES ClearedOnClose
