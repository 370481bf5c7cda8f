CONSTANTS
    Path <- MCPath
    Links <- MCLinks
    to <- MCTo
    Modes <- MCModes
    Hidden <- MCHidden
    MaxFds = 3
    MaxMeddle = 2

CHECK_DEADLOCK FALSE

SPECIFICATION ListSpec

INVARIANTS
    ListTypeOK
    NoSilentLeak
    

PROPERTIES
    Complete
    OnlyBelow
    
    CommandEnds
