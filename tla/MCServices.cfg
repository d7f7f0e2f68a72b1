CONSTANTS
    BoxNames = {"work"}
    Sites = {s1, s2}
    MaxBoxes = 2
    MaxCookies = 2
    Hosts = {h1}
    Serials = {1, 2}
    NoPin = NoPin
    MaxDownloads = 2
    Windows = {a, b}
    Workers = {g1, g2}
    MaxMessages = 2
    MaxPages = 1
    MaxOpens = 2
    MaxSends = 2
    Exts = {a, b}
    Goroutines = {g1, g2}
    MaxListeners = 2
    MaxCalls = 3
    Pages <- CookiePages
    CookieLines <- SomeLines
    MaxLines = 2
    Fetchers = {g1, g2}
    RemoteHosts = {"example.com"}
    MaxCached = 1
    MaxFetches = 2
    MaxArguments = 3
    MaxDepth = 1
    ListingIDs = {"ad", "dark"}
    Offers <- SomeOffers
    PackageFiles = {"x", "y"}
    Archives <- SomeArchives
    Deliveries <- SomeDeliveries
    Installers = {g1, g2}
    PackageRoot = ""
    NoArchive <- Unstaged
    Running <- ThisVersion
    Channel = "stable"
    Manifests <- SomeManifests
    Percentages = {20, 70}
    Bodies = {"good", "other"}
    NoBody = "nothing"
    Updaters = {g1, g2}
    MenuIDs = {"", "x", "menu-1"}
    Grants = {"tabs", "cookies"}
    NoteIDs = {"n"}
    Callers = {g1, g2}
    MaxNotes = 2
    Submitters = {g1, g2}
    MaxMetrics = 3
    Crashers = {a, b}
    Menders = {g1, g2}
    MostEvents = 2
    MaxFaults = 4
SPECIFICATION Spec
SYMMETRY Symmetry
INVARIANTS
    TypeOK
    StoresAreOnDisk
    OnePlaceEach
    ResultsAreTrue
    NothingSaidIsLost
    
CHECK_DEADLOCK FALSE
