CONSTANTS
    Pages = {home, other}
    Homepage = home
    Blank = Blank
    NoTab = NoTab
    MaxTabs = 2
    MaxClosed = 1
    MaxHistory = 1
    WebPages = {"a"}
    MaxIDs = 4
    MaxVisits = 2
    Buttons <- SomeButtons
    Trees <- SomeTrees
    Inputs <- SomeInputs
    MenuEntries = {"copy"}
    MaxLength = 1
    Panes = {"v", "w", "x"}
    NoPane = NoPane
    MostTabs = 3
    Limits = {0, 1}
SPECIFICATION PartsSpec
INVARIANTS
    InjectedTracksOpenTabs
    SurroundingsAgree
PROPERTY SessionKeepsTabs
