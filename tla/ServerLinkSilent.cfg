SPECIFICATION SilentSpec
CONSTANTS
    Cells = 1
    Flights = 3
    Parts = 1
    Window = 1
    IOBUFSIZE = 1
CHECK_DEADLOCK FALSE
PROPERTY
    ServerWaitsEnd
