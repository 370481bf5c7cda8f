CONSTANTS
    p1 = p1
    p2 = p2
    p3 = p3
    p4 = p4
    fd1 = fd1
    fd2 = fd2
    f1 = f1
    SIZE = 2
    Ptr = {p1, p2, p3, p4}
    Bytes <- MCBytes
    File = {f1}
    NoFile = NoFile
    FileSize <- MCFileSize
    Fd = {fd1, fd2}
    NoFd = NoFd
    Key = {7}
    IPC_PRIVATE = 0
    MaxSegs = 2
    MAX_MODULES = 2

SYMMETRY Symmetry

SPECIFICATION BridgeSpec

INVARIANTS
    TypeOK
    BridgeTypeOK
    Backed
    Distinct
    OverrunBounded
    GenerationOrder

PROPERTIES
    ReleaseExact
    SharedNeverForgotten
    ImplementsLedger
    FirstDecides
