CONSTANTS
    Thread = {t1, t2}
    Value = {a}
    NoValue = NoValue
    OneLap = 4
    MaxCalls = 3
SPECIFICATION HSpec
PROPERTIES ErrOnlyWhenFull
CHECK_DEADLOCK FALSE
