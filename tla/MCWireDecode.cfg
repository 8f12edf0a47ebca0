CONSTANTS
    Width = 4
    Digits <- MCDigits
    MaxLen = 3
    SlotsPerEpoch = 4

SPECIFICATION Spec

INVARIANTS
    AcceptsEveryInRangeInteger
    EpochHelpersConsistent
