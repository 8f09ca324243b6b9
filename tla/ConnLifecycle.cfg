SPECIFICATION Spec
CONSTANTS
    Addr = {a1, a2, a3}
    Listeners = {l1, l2}
    MaxStartFailures = 1
CHECK_DEADLOCK FALSE
INVARIANTS
    NoUseAfterFree
    QueuedOnce
    NoLostRemove
    JoinNeverBlocks
    ZombiesNotStranded
PROPERTY
    ImplementsPool
