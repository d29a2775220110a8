SPECIFICATION FiguresSpec
CONSTANTS
    Items = {"1A", "7", "9"}
    Titled = {"1A", "7"}
    Word = "word"
    MinBody = 2
    Size = 3
    Overlap = 2
    MinTail = 2
    MaxChunks = 3
    BatchSize = 2
    Null = Null
    Cent = 2
    MinHistory = 3
    RsiDays = 2
    ShortDays = 3
    LongDays = 5
    Months <- MCMonths
    NewsLimit = 2
    Buckets = 5
    Stable = "stable"
    Candidate = "candidate"
    FreeModel = "free"
    Unset = Unset
    Reports = {r1, r2}
    MaxRevisions = 2
    SampleLimit = 3
    MinSample = 3
    Tolerance = 1
    TextLen = 7
    Prices = {1, 2001, 2002}
    Days = 6
    Fields = {"pe_ratio", "beta", "target_mean_price"}
    PillarScores = {0, 30, 45, 65, 79, 100}
    Shares = {0, 1, 2, 4, 5}
    JudgeScores = {0, 10}
    TraceCount = 4
INVARIANTS
    FilingCovered
    FiguresHonest
    ScoresSound
    CanarySound
CHECK_DEADLOCK FALSE
