SPECIFICATION FairSpec
CONSTANTS
    Factory = Factory
    Mine = Mine
    Hangs = Hangs
    Bypass = Bypass
    None = None
    ConfigVersion = 2
    CrashCounterThreshold = 3
    CounterLimit = 4
    Contents <- MCContents
    Defaults = Factory
    Crashing <- MCCrashing
    PinGuardFlags <- MCFlags
    NoFlags = None
    MaxVersion = 2
INVARIANT LoadedIsStored
PROPERTIES GuardInTime CrashLoopEnds OnlyForward AutoUpdateCatchesUp
