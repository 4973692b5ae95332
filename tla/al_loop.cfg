SPECIFICATION LoopSpec
CONSTANTS
    q1 = q1
    q2 = q2
    Signature <- MCSignature
    Budget = 8
    Large = 6
    KeptAnswers = 3
    ClarifierKeeps = 5
    FastRounds = 2
    DeepRounds = 2
    FastQueries = 1
    MaxAttempts = 2
    MaxCalls = 2
    MaxLoops = 2
INVARIANTS CallsHaveResults LiveQueriesAreBounded
CHECK_DEADLOCK FALSE
SYMMETRY Interchangeable
