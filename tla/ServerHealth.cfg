CONSTANTS
    N = 2
    Workers = {w1}
    BlockAt = 3
    Cap = 3
    MaxFailures = 3
    Scores = {1}
    SpeedTests = TRUE
SPECIFICATION Spec
INVARIANTS TestingEnds
PROPERTIES BlocksOnlyAfterStreak
