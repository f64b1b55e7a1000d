\* Every part.
CONSTANTS
    Parts = {"shutdown", "busy", "tcp", "udp", "buffers", "inbound", "outbound", "config", "packets", "plan", "helper"}
    Helpers = {p1, p2}
    Callers = {c1, c2}
    Flows = {}
    Associations = {}
    Queries = {q1}
    MaxPackets = 1
    packet_queue_depth = 1
    event_queue_depth = 1
    Faults = {"panic"}
    UsizeMax = 7
SYMMETRY Symmetric
SPECIFICATION TunSpec
INVARIANTS RuntimeStopsInOrder FlowsArriveWhole EngineWithinBounds HostIsRestorable
PROPERTIES EofDrainsEverything OnlyOwnDeviceRemoved
