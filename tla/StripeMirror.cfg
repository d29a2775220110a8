SPECIFICATION FairSpec
CONSTANTS
    Handlers = {h1, h2}
    Subs = {s1}
    Customers = {c1, c2}
    Stranger = stranger
    None = None
    Overlapping = {{"open"}, {"checkout", "subscription", "payment_failed"}, {"subscription", "reconcile"}}
    Redeliveries = 1
    Renewals = 1
    Opens = 2
INVARIANT MirrorConsistent
PROPERTY DriftCorrected
CHECK_DEADLOCK FALSE
