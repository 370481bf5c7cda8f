CONSTANTS
    File <- MCFile
    NoSection = NoSection
    Name = {"", "f", "g"}
    Half = 4

CHECK_DEADLOCK FALSE

SPECIFICATION Spec

INVARIANTS
    TypeOK
    LookupRight
    LowestNamed
