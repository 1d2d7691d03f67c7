CONSTANTS
    Procs = {p1, p2}
    Packages = {a, b}
    LegacyFiles = {a}
    Missing = missing
    Broken = broken
    MaxDamage = 1
SPECIFICATION Spec
INVARIANTS StoreTypeOK RetainedFirst ServesActive NoSpuriousFailure
PROPERTIES NoGoodTreeLost
SYMMETRY Symmetry
CHECK_DEADLOCK FALSE
