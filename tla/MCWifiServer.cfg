SPECIFICATION FairSpec
CONSTANTS
    MaxConcurrentClients = 2
    MaxPersistentClients = 1
    ConnectionCheckInterval = 1
    ConnectionTimeout = 2
    ConnectionRetryInterval = 1
    BackoffInterval = 2
    RestartDelay = 0
    ClientReadTimeout = 1
    PersistentTimeout = 1
    MaxConsecutiveFailures = 2
    FailureRange = 3
    StoredModes = {"Off", "AccessPoint", "Client"}
INVARIANTS
    QuotaKept
PROPERTIES
    ServerFollowsConnection
    Reconnects
    SlotsComeFree
