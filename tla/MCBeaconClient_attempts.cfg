CONSTANTS
    MaxRetries = 3
    Statuses <- MCStatuses
    InitialDelay = 100
    MaxDelay = 300
    Multiplier = 2
    JitterPercents <- MCJitterPercents

SPECIFICATION Spec

INVARIANT AttemptsWithinMaxRetries
