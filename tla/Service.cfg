SPECIFICATION Spec
CONSTANTS
    Procs = {p1, p2}
    Files <- MCFiles
    Env <- MCEnv
    Requests <- MCRequests
    MaxLaunches = 2
    MaxClients = 2
    MaxRequests = 2
    MaxWrites = 5
INVARIANTS
    OnePerPidFile
    ServesOnlyWhole
    
PROPERTIES
    ClientsAccepted
CHECK_DEADLOCK FALSE
