\* Blocks of up to two records, in pends or one after the other.
SPECIFICATION Spec
CONSTANTS
    MaxRow = 4
    RowBits = 3
    OldRows <- MCOldRows
    OldRelation <- MCOldRelation
    Named <- MCNamed
    Dependable <- MCDependable
    MaxRecords = 2
    MaxOpen = 4
    MaxDeps = 3
INVARIANTS TypeOK ReadAsNested RelationsAsDeclared RowsTold EachTaken OthersStay
