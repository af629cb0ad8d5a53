\* Two workers; one request of three for an endless host.
SPECIFICATION FairSpec
CONSTANTS
    plain = plain
    slow = slow
    other = other
    site = site
    endless = endless
    style = style
    home = home
    pages = pages
    None = None
    Requests = {plain, slow, other}
    Hosts = {site, endless}
    HostOf <- HostsNamed
    Static <- PathsNamed
    Included <- IncludedFiles
    RequestXml <- RequestFiles
    Slow = {slow}
    Endless = {endless}
    Workers = 2
    MaxEdits = 1
INVARIANTS TypeOK OneVersion Fresh ShownAsRun WorkersGoOn
PROPERTY AllAnswered
CHECK_DEADLOCK FALSE
