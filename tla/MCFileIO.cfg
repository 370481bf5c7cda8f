CONSTANTS
    Byte = {0, 1}
    NoFile = NoFile
    MemSize = 2
    MaxLen = 2

SPECIFICATION Spec

INVARIANTS
    TypeOK
    WholeFile
    ToldRight

PROPERTIES
    OneTransfer
