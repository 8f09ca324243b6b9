SPECIFICATION Spec
CONSTANTS
    MaxUrl = 5
    MaxEscape = 3
    MaxJson = 4
    MaxConf = 6
    MaxVhost = 3
CHECK_DEADLOCK FALSE
INVARIANTS
    UrlFields
    EscapeSafe
    JsonFaithful
    ConfigAsWritten
    VhostRewritten
