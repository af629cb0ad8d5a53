\* A client that may never send its name, never answer an include, or be
\* interpreted for ever, beside one of another database.
SPECIFICATION FairSpec
CONSTANTS
    c1 = c1
    c2 = c2
    d1 = d1
    d2 = d2
    None = None
    Clients = {c1, c2}
    Dbs = {d1, d2}
    DbOf <- OwnDb
    Lazy = {c1}
    Silent = {c1}
    Substituting = {c1}
    Endless = {c1}
    MaxRequests = 2
    MaxIncludes = 1
PROPERTIES Returns
