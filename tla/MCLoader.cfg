CONSTANTS
    short = short
    long = long
    inner = inner
    sub = sub
    other = other
    File = {long, inner}
    NoFile = NoFile
    Subdir = {sub, other}
    Top = Top
    dirOf <- MCDirOf
    Name = {"x", "xx"}
    nameOf <- MCNameOf
    strlen <- MCStrlen
    MAX_MODULES = 2
    Modes <- OneDenied
    Fds = {0, 1, 2, 3}
    Built = {1}
    MaxClock = 2

CHECK_DEADLOCK FALSE

SPECIFICATION FairSpec

INVARIANTS
    TypeOK
    StampBehind
    
    FatalOnlyForCause

PROPERTIES
    DispatchStable
    Answered
