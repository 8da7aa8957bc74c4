\* Two handlers, two requests, two job ids; a crash of the server.
\* No step is left once the ids are used up and the clock has ended, hence no deadlock check.
CONSTANTS
    h1 = h1
    h2 = h2
    l1 = l1
    l2 = l2
    j1 = j1
    j2 = j2
    k1 = k1
    Jobs = {j1, j2}
    NoJob = NoJob
    Keys = {k1}
    KeyOf <- OneKey
    MaxEntries = 1
    Retention = 9
    MaxClock = 1
    Handlers = {h1, h2}
    Links = {l1, l2}
    NoLink = NoLink
    KeyOfLink <- OneLinkKey
    Ttl = 0
    Week = 0
    EmailMax = 1
    WeekMax = 2
    BigQueueMax = 1
    MaxCrashes = 1
SPECIFICATION FairSpec
INVARIANTS
    SpentLinkHasItsJob
    QueueOvershoot
    UnsentLeavesNoAddress
    SweptLinksAreDead
PROPERTIES
    ImplementsLinks
    AddressForgotten
CHECK_DEADLOCK FALSE
