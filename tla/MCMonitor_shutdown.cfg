CONSTANTS
    SlotsPerEpoch <- MCSlotsPerEpoch
    IntervalSlots = 1
    InitSlots <- MCInitSlots
    MaxSlot <- MCMaxSlot
    MaxClockStepBacks = 0
    MaxStepBackSlots = 1
    Fail = Fail
    w1 = w1
    Workers <- MCWorkers
    NoJob = NoJob
    Validators <- MCValidators

SPECIFICATION Spec

INVARIANT NoSendOnClosedChannel
