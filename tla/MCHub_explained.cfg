SPECIFICATION HubSpec
CONSTRAINT MCBound
CONSTANTS
    RelayCount = 2
    Pins <- MCPins
    BlockedPins <- MCBlockedPins
    LinkSlots = 1
    Signals <- MCSignals
    StartDelays <- MCStartDelays
    MaxStall = 1
    SoundBlastShortMs = 1
    SoundBlastLongMs = 1
    SoundBlastGapMs = 1
    MorseCodeShortMs = 1
    MorseCodeLongMs = 1
    MorseCodeGapMs = 1
    FogRepeatMs = 1
    SosRepeatMs = 1
    ReassignDuringBlast = FALSE
INVARIANTS
    EveryOutputExplained
