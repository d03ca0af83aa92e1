INIT PartsInit
NEXT PartsNext
CONSTANTS
    c1 = c1
    c2 = c2
    ch = ch
    hostA = hostA
    hostB = hostB
    lan = lan
    alice = alice
    bob = bob
    former = former
    fresh = fresh
    LogoReqs = {c1, c2}
    LogoNames <- MCLogoNames
    Countries = {"france"}
    Files <- MCFiles
    TwoLetters = {"fr", "ch", "hd"}
    ThreeLetters = {"rmc", "rts"}
    Rank <- MCRank
    Digits = {"1", "5", "24"}
    ListingTtl = 2
    RetryBackoff = 1
    LogoTasks = {1, 2}
    LogoMaxTime = 2
    NoListing = NoListing
    NoTask = NoTask
    NoKey = NoKey
    XmlCallers = {c1, c2}
    Wishes <- MCWishes
    Dumps <- MCDumps
    SourceCount = 2
    Retention = 1
    Horizon = 3
    RefreshInterval = 2
    XmlBackoff = 1
    XmlTasks = {1, 2}
    XmlMaxTime = 2
    NoRefresh = 0
    EpgReqs = {c1, c2}
    Channels = {ch}
    Guides = {{}, {1}, {2}}
    Tables = {{}, {ch}}
    FoundTtl = 2
    EmptyTtl = 1
    TableTtl = 2
    TableRetry = 1
    Loads = {1, 2}
    EpgMaxTime = 1
    NoLoad = 0
    ProxyReqs = {c1, c2}
    ProxyKeys = {ch}
    Hosts = {hostA, hostB, lan}
    Forbidden = {lan}
    ImageHosts = {hostA}
    Threshold = 2
    DownTtl = 1
    PlaylistTtl = 1
    MaxRedirects = 1
    ProxyMaxTime = 2
    NoHost = NoHost
    AccReqs = {c1, c2}
    Users = {alice, bob}
    Admins = {alice}
    Passwords = {former, fresh}
    Tokens = {1}
    SessionTtl = 1
    AccMaxTime = 1
    Nobody = Nobody
    RuleReqs = {c1, c2}
    Owners = {alice, bob}
    RowAdmins = {alice}
    PlaylistIds = {1, 2, 3}
    RuleIds = {1, 2}
    NoOwner = NoOwner
    NoPlaylist = 0
    RetryUnit = 2
    RetryMost = 6
    CaptureHealthy = 5
    StallTimeout = 2
    ProxyRetries = 2
    ProxyPause = 1
    ProxyHealthy = 4
    Span = 4
    MostOpenings = 3
    PassIds = {1, 2}
    PassChannel <- MCPassChannel
    PassShow <- MCPassShow
    PassGuides <- MCPassGuides
    MatchesShow <- MCMatches
    Tolerance = 1
    MaxPerScan = 1
    RowIds = {1, 2}
    PassMaxTime = 1
    NoRow = NoRow
    NoPass = NoPass
    Machines = {"m1", "m2"}
    Trusted = {"proxy", "lo"}
    Loopback = "lo"
    OwnLine = {"lo"}
    Illegible = "??"
    Garbled = "garbled"
    Written <- MCWritten
    Paths <- MCPaths
    GlobalLimit = 2
    LoginLimit = 1
    Window = 1
    KeepFor = 2
    TidyEvery = 3
    DiskRecs = {1, 2}
    QuotaBytes = 1
    FileMost = 2
    NoDiskRec = 0
INVARIANTS
    KnownListingServes
    LogoOfTheChannel
    GuideIsItsOwn
    CurrentGuideWins
    CallsStayOnThePanel
    NoSessionOutlivesItsUser
    OneRulePerPlaylist
    StartFailsOnlyOn
    SourceIsSpared
    EpisodeIsCovered
    NoMoreThanTheLimit
    RotationSparesCaptures
PROPERTIES
    ListingsAreShared
    RefreshIsShared
    TableIsShared
SYMMETRY Symmetric
CHECK_DEADLOCK FALSE
