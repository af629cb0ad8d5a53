\* The same blocks: what update_pends() takes for granted.
SPECIFICATION Spec
CONSTANTS
    MaxRow = 4
    RowBits = 3
    OldRows <- MCOldRows
    OldRelation <- MCOldRelation
    Named <- MCNamed
    Dependable <- MCDependable
    MaxRecords = 2
    MaxOpen = 4
    MaxDeps = 3
INVARIANTS OnlyUpdatesInPends
