\* A session with two children is still in scope after its end tag.
SPECIFICATION Spec
CONSTANTS
    Constructs <- ExampleDocuments
    MaxFrames = 4
    MaxDeps = 2
    MaxOpen = 4
    MaxSessions = 1
    MaxErrors = 0
INVARIANTS SessionEndsAtItsEndTag
