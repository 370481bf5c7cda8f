CONSTANTS
    short = short
    long = long
    inner = inner
    sub = sub
    other = other
    File = {short, long}
    NoFile = NoFile
    Subdir = {sub}
    Top = Top
    dirOf <- MCDirOf
    Name = {"x", "xx"}
    nameOf <- MCNameOf
    strlen <- MCStrlen
    MAX_MODULES = 3
    Modes <- Open
    Fds = {3}
    Built = {0, 1}
    MaxClock = 2

CHECK_DEADLOCK FALSE

SPECIFICATION Spec

INVARIANTS
    NotFoundMeansAbsent
