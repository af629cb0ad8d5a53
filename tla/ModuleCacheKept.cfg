\* Two loads of one file, with every redirect that is followed.
SPECIFICATION FairSpec
CONSTANTS
    l1 = l1
    l2 = l2
    Loads = {l1, l2}
    MaxHops = 5
    MaxVersions = 2
INVARIANTS KeptWhole
PROPERTIES Settled LoadsEnd
