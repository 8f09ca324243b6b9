SPECIFICATION Spec
CONSTANTS
    Hosts = {h1, h2}
    BlackList = {}
    TunnelDomains = {}
    HttpsDescrypt = TRUE
    Statuses = {"final", "switch"}
    Bodies = {"none", "length"}
    Burst = 1
    MaxRequests = 2
CHECK_DEADLOCK FALSE
INVARIANTS
    RequestReachesItsHost
