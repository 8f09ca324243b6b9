SPECIFICATION Spec
CONSTANTS
    Messages <- MCMessages
    Relays = {"request", "response"}
    nb_buffer = 4
    CacheBytes = 2
    PartSize = 2
    IntMax = 15
    Framings = {"chunked", "length"}
    Extras = {"none", "extension"}
    MaxChunks = 2
    MaxChunk = 4
CHECK_DEADLOCK FALSE
INVARIANTS
    BodyRelayed
    NextMessageIntact
    AssertsHold
PROPERTY
    RelayEnds
