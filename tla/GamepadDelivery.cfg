CONSTANTS
    Devices = {1, 2}
    Controls = {a}
    NoPad = 0
SPECIFICATION FairSpec
INVARIANTS TypeOK EngineAsTold NoStuckControl
PROPERTIES SilentAfterStop StopReturns ControllerComesOn
