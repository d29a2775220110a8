SPECIFICATION FairSpec
CONSTANTS
    Submitter = submitter
    Readers = {reader}
    MaxTries = 2
    WorkerCrashes = 2
    RedisRestarts = 1
    ApiCrashes = 1
    JobTimeouts = 1
    DatabaseErrors = 1
    SilentEnds = 1
INVARIANTS
    QueueInv
    SubmitterMissesNothing
    SubmitterNeverDeaf
    ChargedOnce
PROPERTIES
    CompleteIsFinal
    RunSettles
CHECK_DEADLOCK FALSE
