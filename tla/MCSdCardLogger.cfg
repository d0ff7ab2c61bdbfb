CONSTANTS
    c1 = c1
    c2 = c2
    r1 = r1
    r2 = r2
    NoCard = NoCard
    Invalid = Invalid
    Card = {c1, c2}
    NearlyFull <- MCNearlyFull
    WithConfig <- MCWithConfig
    Slot <- MCSlot
    SettlingDelay = 1
    PresenceInterval = 1
    Snapshot = {r1, r2}
    BufferSize = 2
    MaxWrites = 1
    Date <- MCDate
    WriteInterval = 1
    FileCheckInterval = 1
    StatusInterval = 1
SPECIFICATION MCSpec
PROPERTIES
    LogGoesToTheLog
    ImplementsQueue
    LogsAgain
    EveryCardLoaded
