SPECIFICATION ViewSpec
CONSTANTS
    Pillars = {fundamentals, technicals, risk, sentiment}
    Synthesizer = synthesizer
    Critic = critic
    Costs = {1, 3}
    EmbedCosts = {0, 1}
    MaxRevisions = 2
    MaxCost = 14
INVARIANTS
    RunInv
    SpendBounded
    NoAgentOutlivesRun
    DeskInv
PROPERTIES
    RunEnds
    ImplementsLifecycle
    DeskSettles
CHECK_DEADLOCK FALSE
