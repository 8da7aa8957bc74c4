\* Two handlers, one address, two job ids; the limiter admits one request in each of two ticks.
\* No step is left once the ids are used up, hence no deadlock check.
CONSTANTS
    h1 = h1
    h2 = h2
    a1 = a1
    j1 = j1
    j2 = j2
    k1 = k1
    Jobs = {j1, j2}
    NoJob = NoJob
    Keys = {k1}
    KeyOf <- OneKey
    MaxEntries = 1
    Retention = 9
    MaxClock = 0
    Handlers = {h1, h2}
    Ips = {a1}
    NoIp = NoIp
    GlobalQueue = 2
    PerIp = 1
    Daily = 2
    RateMax = 2
    Window = 1
    MaxMono = 1
    SlotMax = 1
SPECIFICATION FairSpec
INVARIANTS
    SlotsAreHeld
    NothingLeftBehind
    LoadIsBounded
    RateIsBounded
PROPERTIES
    RequestsEnd
CHECK_DEADLOCK FALSE
