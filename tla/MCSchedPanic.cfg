SPECIFICATION Spec
CONSTANTS
    c1 = c1
    c2 = c2
    t1 = t1
    t2 = t2
    t3 = t3
    CPU = {c1, c2}
    Thread = {t1, t2}
    Idle = Idle
    Root = t1
    Priority <- AllNormal
    QuantumOf <- OneTick
    CoreType <- SamePackage
    Hybrid = FALSE
    Exits = {t1, t2}
    Modes = {}
    MayFreeze = FALSE
    MaxArmed = 1
INVARIANT NoPanic
SYMMETRY Symmetry
