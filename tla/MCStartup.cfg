CONSTANTS
    ConfigFiles <- MCConfigFiles
    ConsistencyLevels <- MCConsistencyLevels
    ToLower <- MCToLower
    MaxSignals = 2
    SigChanCap = 1

SPECIFICATION Spec

INVARIANTS
    WritesOnlyWithTTL

PROPERTIES
    SignalLeadsToExit
