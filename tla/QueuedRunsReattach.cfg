SPECIFICATION Spec
CONSTANTS
    Submitter = submitter
    Readers = {reader}
    MaxTries = 2
    WorkerCrashes = 0
    RedisRestarts = 0
    ApiCrashes = 0
    JobTimeouts = 0
    DatabaseErrors = 0
    SilentEnds = 0
INVARIANT ReaderNeverDeaf
CHECK_DEADLOCK FALSE
