SPECIFICATION MCSpec
CONSTANTS
    None = None
    MaxValue = 2
    MaxActs = 3
    MaxTroubles = 1
    Relays = {1, 2}
    PulseSeconds = 1
    Names = {"A", "B"}
    NoName = ""
    MaxSensors = 3
INVARIANTS
    PulsedRelayIsTimed
PROPERTIES
    SavedMeansStored
    UntouchedKept
    DashboardCatchesUp
    FeedCatchesUp
    PulsedRelayGoesOff
    ImplementsList
CHECK_DEADLOCK FALSE
