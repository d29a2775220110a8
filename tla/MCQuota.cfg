SPECIFICATION FairSpec
CONSTANTS
    Users = {ann}
    Requests = {r1, r2, r3}
    Plans = {"free", "pro"}
    MaxRuns <- MCMaxRuns
    LastPeriod = 1
    Nobody = Nobody
    NoAsk = NoAsk
INVARIANTS
    TypeOK
    CounterCountsReservations
    NeverOverdrawn
    RaceLoserFindsRow
    UsageRecorded
PROPERTIES
    ReservationAnswered
    ImplementsLedger
CHECK_DEADLOCK FALSE
