CONSTANTS
    Thread = {t1, t2, t3}
    Value = {a, b}
    NoValue = NoValue
    OneLap = 2
    MaxCalls = 5
SPECIFICATION FairSpec
INVARIANTS TypeOK SlotsInv
PROPERTIES  UncontendedFailureIsReal CallsReturn
CHECK_DEADLOCK FALSE
