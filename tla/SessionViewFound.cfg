\* A search and a record in a session that has written to the collection.
SPECIFICATION Spec
CONSTANTS
    s1 = s1
    s2 = s2
    Sessions = {s1}
    MaxRow = 2
    MaxNew = 1
    MaxWrites = 4
INVARIANTS FoundRowsRead
