SPECIFICATION Spec
CONSTANTS
    Cells = 3
    Flights = 4
    Parts = 2
    Window = 2
    IOBUFSIZE = 2
CHECK_DEADLOCK FALSE
INVARIANTS
    StreamsIntact
    NothingLeft
    EndsDrained
PROPERTIES
    Delivered
    LinkEnds
    ImplementsPipe
