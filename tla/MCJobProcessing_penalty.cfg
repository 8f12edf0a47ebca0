CONSTANTS
    Jobs <- MCJobs
    Validators <- MCValidators
    RewardTriples <- MCRewardTriples
    DBFaults = FALSE
    NoResult = NoResult

SPECIFICATION Spec

INVARIANT
    PenaltyIffNegativeReward
