CONSTANTS
    w1 = w1
    w2 = w2
    j1 = j1
    j2 = j2
    j3 = j3
    j4 = j4
    j5 = j5
    Workers <- MCWorkers
    NoJob = NoJob
    Modes <- MCModes
    Batch <- MCBatch

SPECIFICATION Spec

INVARIANT NoResultLostWithoutCancel
PROPERTY CallSequenceEnds
