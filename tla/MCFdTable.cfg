SPECIFICATION Spec
CONSTANTS
    f1 = f1
    f2 = f2
    f3 = f3
    p1 = p1
    p2 = p2
    MaxFd    = 6
    Files    <- ThreeFiles
    Paths    <- TwoPaths
    Volatile = Volatile
    Free     = Free
SYMMETRY Symmetry
CHECK_DEADLOCK FALSE
INVARIANTS
    TypeOK
    DescriptorsComeBack
    SharingComesBack
    NumberToSpare
    DumpedIsAccepted
