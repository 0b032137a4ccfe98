SPECIFICATION FairSpec
CONSTANTS
    c1 = c1
    c2 = c2
    t1 = t1
    t2 = t2
    t3 = t3
    CPU = {c1, c2}
    Thread = {t1, t2}
    Idle = Idle
    Root = t1
    Priority <- Mixed
    QuantumOf <- Ticks
    CoreType <- Smt
    Hybrid = FALSE
    Exits = {}
    Modes = {"Normal", "Saving", "FullThrottle"}
    MayFreeze = TRUE
    MaxArmed = 0
PROPERTIES  FreezeStopsAll
