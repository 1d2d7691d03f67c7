CONSTANTS
    Procs = {p1, p2}
    Packages = {a, b}
    LegacyFiles = {a}
    Missing = missing
    Broken = broken
    MaxDamage = 0
SPECIFICATION Spec
PROPERTIES DevelopmentKept
CHECK_DEADLOCK FALSE
