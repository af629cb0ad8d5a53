\* Two sessions, nested in either order or one after the other.
SPECIFICATION Spec
CONSTANTS
    s1 = s1
    s2 = s2
    Sessions = {s1, s2}
    MaxRow = 2
    MaxNew = 2
    MaxWrites = 4
INVARIANTS OwnWritesRead SearchShowsView
PROPERTIES ShownIsCommitted NewerStays Transactional
