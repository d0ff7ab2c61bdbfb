SPECIFICATION MCFairSpec
CONSTANTS
    Relays <- MCRelays
    Pins <- MCPins
    SoundBlastShortMs = 2
    SoundBlastLongMs = 4
    SoundBlastGapMs = 3
    MorseCodeShortMs = 1
    MorseCodeLongMs = 2
    MorseCodeGapMs = 1
    FogRepeatMs = 8
    SosRepeatMs = 6
    StartDelays <- MCStartDelays
    MaxStall = 2
    Signals <- MCRepeating
PROPERTIES
    FogHeardUntilCancelled
