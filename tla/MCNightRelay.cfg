SPECIFICATION NightSpec
CONSTANTS
    RelayCount = 2
    Pins <- MCPins
    BlockedPins <- MCBlockedPins
    LinkSlots = 1
    DaytimeConfirmReadings = 3
INVARIANTS
    RolesAgree
    OutputMatchesStatus
PROPERTIES
    ReservedOnlyThroughLink
    Debounced
    FollowsLight
