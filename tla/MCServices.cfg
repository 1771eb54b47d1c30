SPECIFICATION ServicesSpec
CONSTANTS
    NULL = NULL
    People = {a1, a2, a3}
    Invitations = {b1, b2}
    ApiKeys = {k1}
    Sessions = {b1, b2}
    ResetLinks = {b1, b2}
    BackupCodes = {c1}
    MaxPasswords = 2
    MaxSeries = 2
    MaxClock = 2
    Files = {b1, b2}
    Home = home
    Sites = {home, away}
    Sizes = {1, 2}
    projectQuotaBytes = 3
    organizationQuotaBytes = 4
    maximumVersionsPerDocument = 2
    Contracts = {g1}
    Parties = {b1, b2}
    Signatures = {h1, h2}
    ValuationKeys = {v1}
    Worths = {w1, w2}
    Listings = {1, 2, 3}
    Services = {y1}
    MaxNow = 2
    MaxEvents = 4
    Limit = 2
    Window = 3
    MaxInstant = 6
    Rooms = {b1, b2}
    Streams = {a1, a2, a3, c1}
    MaxClients = 3
    MaxPerTopic = 2
    Copies = {c1}
    Restores = {1, 2}
    Releases = {1, 2}
    MaxWrites = 2
SYMMETRY Symmetric
INVARIANTS
    AccessSound
    CredentialsSound
    DocumentsSound
    PagesMissNothing
    TransactionsChain
    LimitsHold
    StorageSound
PROPERTIES
    OwnerStays
CHECK_DEADLOCK FALSE
