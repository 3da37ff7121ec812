SPECIFICATION PanelSpec
CONSTANTS
    u1 = u1
    a1 = a1
    a2 = a2
    Admin <- Admins
    MaxTime = 1
    Day = 2
    Term = 1
    LateDuration = FALSE
    Editor <- Admins
    Hundredth = 3
    MaxBytes = 4
    Operator <- Admins
    Account <- OneAccount
    MaxSecret = 3
    MaxSession = 1
    MaxChain = 2
    b1 = b1
    b2 = b2
    Browser <- Browsers
    s1 = s1
    s2 = s2
    s3 = s3
    SessionRow <- Rows
    MaxPassword = 3
    e1 = e1
    e2 = e2
    e3 = e3
    Endpoint <- Endpoints
    First = e1
    h1 = h1
    RelayHost <- Hosts
    LateFaults = FALSE
    v1 = v1
    v2 = v2
    Visitor <- Visitors
    q1 = q1
    q2 = q2
    Site <- Sites
    Built = q1
    RelayName = h1
    CacheTtl = 1
    LastInstant = 2
    LastRoot = 2
    Interval = 1
    Parts = 2
    o1 = o1
    Owner <- OneOwner
    m1 = m1
    Mozilla <- OneMozilla
    c1 = c1
    Country <- OneCountry
    k1 = k1
    k2 = k2
    Socket <- Sockets
    Limit = 1
    MaxGen = 2
    MaxWrites = 2
SYMMETRY Symmetries
VIEW PartState
INVARIANTS
    PanelType TermStarts ReportedLoaded QuietSynced OldSessionsEnd EndpointAgrees RelayFollows
    RecordStands WholeArchive SlotsExact OnlyCurrent ReportedOnDisk
PROPERTIES
    FirstConnectionStands SaleKept LimitStands ResetCutsOff ProfilesCurrent Spaced BoundedSlots
CHECK_DEADLOCK FALSE
