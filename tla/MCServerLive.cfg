\* The parts with a duty to end, with fairness; two connections of one address and a request.
CONSTANTS
    Parts = {"admission", "h3_ends", "dial", "fallback"}
    QuicConns = {c1, c2}
    Quic = c3
    Keys = {"k1", "k2"}
    Nonces = {"n1", "n2", "n3"}
    Tasks = {"t1", "t2"}
    Hellos <- SomeHellos
    I64Min = 0
    I64Max = 4
    window_secs = 1
    max_entries_per_credential = 2
    max_credentials = 1
    source <- Addresses
    owner <- Requests
    Conns = {"c1", "c2"}
    Streams = {"s1"}
    Sources = {"a1"}
    global_limit = 2
    per_source_limit = 2
    active_probe_resistance = FALSE
    pre_auth_max_concurrent = 3
    fallback_max_concurrent = 1
    max_concurrent_flows = 1
    max_auth_failures_per_window = 1
    auth_failure_cache_max_entries = 1
    ws_enabled = TRUE
    BrowserTls = TRUE
    H3Build = TRUE
SPECIFICATION ServerFairSpec
PROPERTIES ServerFinishes
