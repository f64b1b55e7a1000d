\* Two tasks use the pool, two flows two permits.
CONSTANTS
    Parts = {"pool", "outer", "counters", "lifecycle", "forwarder", "local", "slow", "udp", "udp_tun", "udp_control"}
    Tasks = {t1, t2}
    MaxOpens = 2
    MaxConnections = 2
    NoTask = NoTask
    NoConnection = NoConnection
    Flows = {t1, t2}
SPECIFICATION ClientFairSpec
INVARIANTS ConnectedIsVerified CountersAreHonest LifecycleIsClean RequestsServedAsMeant
PROPERTIES EndOfStreamIsAnnounced PoolProgresses RequestsEnd
