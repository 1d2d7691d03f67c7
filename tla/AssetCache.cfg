CONSTANTS
    Openers = {p1, p2}
    DirFiles = {d}
    ZipFiles = {z}
    Missing = {m}
    Alias = alias
    Aliased = z
    Maps = {k1, k2, k3}
    Heaps = {h1, h2, h3}
    NoKey = nokey
    NotExist = notexist
    Failed = failed
    Budget = 1
    Slots = 1
    MaxGeneration = 2
SPECIFICATION Spec
SYMMETRY Symmetry
INVARIANTS AssetTypeOK BudgetKept NothingLeaks RetiredLetsGo SingleFlight
PROPERTY PinHolds
