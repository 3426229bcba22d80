SPECIFICATION Spec
CONSTANTS
    vvar = vvar
    vdso = vdso
    Names   <- TwoNames
    Order   <- InOrder
    MaxPage = 6
    MaxSize = 2
CHECK_DEADLOCK FALSE
INVARIANTS
    TypeOK
    KernelMapsInPlace
