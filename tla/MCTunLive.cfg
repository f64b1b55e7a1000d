\* The parts with a duty to end, with fairness.
CONSTANTS
    Parts = {"runtime", "tcp", "udp", "dns", "recovery"}
    Helpers = {p1}
    Callers = {c1}
    Flows = {}
    Associations = {a1}
    Queries = {}
    MaxPackets = 1
    packet_queue_depth = 1
    event_queue_depth = 1
    Faults = {"read"}
    UsizeMax = 7
SPECIFICATION TunFairSpec
PROPERTIES TunFinishes
