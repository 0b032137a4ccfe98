SPECIFICATION MCSpec
CONSTANTS
    t1 = t1
    a = a
    b = b
    c = c
    Thread = {t1, t2, t3}
    NoThread = NoThread
    MaxSignals = 3
    SemWakers = 2
    MaxPermits = 2
    MaxValue = 2
    TmThread = {"s1", "s2"}
    TmCpu = {"c1", "c2"}
    TmPlans <- TimerPlans
    TmStart = 2
    TmEnd = 4
    TmQueue = 1
    PrThread = {"c1", "c2"}
    PrFirst = "c1"
    PrJoiner = {"j1", "j2"}
    PrPlans <- JoinPlans
    PrProcess = "proc"
    NoOne = "none"
    PrRounds = 2
    SpCpu = {"c1", "c2"}
    SpPlans <- LockPlans
    SpHandler <- HandlerPlan
INVARIANTS MutualExclusion LocksInv OneWakePerSleep SemaphoresInv ExecutorsInv TimersInv 
PROPERTY SyncProgress
CHECK_DEADLOCK FALSE
