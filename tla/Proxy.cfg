SPECIFICATION Spec
CONSTANTS
    Hosts = {h1, h2}
    BlackList = {h2}
    TunnelDomains = {h2}
    HttpsDescrypt = TRUE
    Statuses = {"final", "interim", "switch"}
    Bodies = {"none", "length", "chunked", "unframed"}
    Burst = 2
    MaxRequests = 3
CHECK_DEADLOCK FALSE
INVARIANTS
    BlockedNotForwarded
    AnswersMatchRequests
    RequestsAnswered
    BodiesRelayed
    LogMatchesTraffic
PROPERTY
    ConnectionEnds
