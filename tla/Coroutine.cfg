SPECIFICATION Spec
CHECK_DEADLOCK FALSE
INVARIANTS
    WorkerErrorKept
    NoDanglingInterrupt
    FreedIsQuiet
PROPERTIES
    StopReturns
    ImplementsLifecycle
