CONSTANTS
    SlotsPerEpoch <- MCSlotsPerEpoch
    IntervalSlots = 1
    InitSlots <- MCInitSlots
    MaxSlot <- MCMaxSlot
    MaxClockStepBacks = 1
    MaxStepBackSlots = 3
    Fail = Fail

SPECIFICATION Spec

INVARIANT TypeOK
INVARIANT FinalizedEpochsExactlyOnce
 
