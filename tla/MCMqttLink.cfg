SPECIFICATION FairSpec
CONSTANTS
    RelayCount = 3
    EnabledRelays = {0, 2}
    ReservedRelays = {0}
    MaxRetries = 2
    RetryDelays <- Delays
    ConnectTimeout = 1
    KeepAliveInterval = 1
    PingTimeout = 2
INVARIANTS
    StatesAgree
    AnnouncedInFull
PROPERTIES
    Returns
