\* Three tasks use the pool, without fairness.
CONSTANTS
    Parts = {"pool"}
    Tasks = {t1, t2, t3}
    MaxOpens = 3
    MaxConnections = 2
    NoTask = NoTask
    NoConnection = NoConnection
    Flows = {}
SYMMETRY Symmetric
SPECIFICATION ClientSpec
INVARIANTS LeasesCounted OneConnectAtATime
PROPERTIES RetiresOnlyUnleased ImplementsSharedConnection
