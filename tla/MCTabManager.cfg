CONSTANTS
    Pages = {p, q}
    Blank = Blank
    NoTab = NoTab
    MaxTabs = 3
    MaxClosed = 2
    MaxHistory = 2
SPECIFICATION TabSpec
INVARIANTS
    TabsTypeOK
    OneActiveTab
    NoTabInTwoPlaces
PROPERTY ImplementsBrowsingHistory
SYMMETRY PageSymmetry
