CONSTANTS
    Char = {"a"}
    Blank = Blank
    NL = NL
    NUL = NUL
    Junk = Junk
    LINE = 7
    ARGS = 3
    MaxLines = 2

CHECK_DEADLOCK FALSE

SPECIFICATION Spec

INVARIANTS
    TypeOK
    EchoFaithful
    OverrunNeedsCause

PROPERTIES
    RecallsName
    KeepsHistory
