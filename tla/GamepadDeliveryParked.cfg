CONSTANTS
    Devices = {1}
    Controls = {a}
    NoPad = 0
SPECIFICATION Spec
INVARIANT ParkedPadIsWithdrawn
