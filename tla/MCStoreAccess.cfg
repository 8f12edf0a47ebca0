CONSTANTS
    Jobs <- MCJobs
    Validators <- MCValidators
    RewardTriples <- MCRewardTriples
    Ranges <- MCRanges
    DBFaults = TRUE
    NoResult = NoResult
    NoRow = NoRow

SPECIFICATION StoreSpec

INVARIANTS
    TypeOK
    SuccessNeverPenalised
    ResultKeepsObservations
    ReadAnswersQuery
