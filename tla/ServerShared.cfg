\* Two clients of one database, one with documents that substitute includes.
SPECIFICATION FairSpec
CONSTANTS
    c1 = c1
    c2 = c2
    d1 = d1
    d2 = d2
    None = None
    Clients = {c1, c2}
    Dbs = {d1}
    DbOf <- OneDb
    Lazy = {}
    Silent = {}
    Substituting = {c1}
    Endless = {}
    MaxRequests = 2
    MaxIncludes = 2
INVARIANTS Exclusive NeverGarbled OwnAnswer NoDeadlock AtMostOnce
PROPERTIES Serially Returns
