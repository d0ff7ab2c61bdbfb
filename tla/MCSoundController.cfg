SPECIFICATION MCFairSpec
CONSTANTS
    Relays <- MCRelays
    Pins <- MCPins
    SoundBlastShortMs = 2
    SoundBlastLongMs = 3
    SoundBlastGapMs = 2
    MorseCodeShortMs = 1
    MorseCodeLongMs = 2
    MorseCodeGapMs = 1
    FogRepeatMs = 4
    SosRepeatMs = 3
    StartDelays <- MCStartDelays
    MaxStall = 2
    Signals <- MCAllSignals
PROPERTIES
    ImplementsListener
    OneShotEnds
