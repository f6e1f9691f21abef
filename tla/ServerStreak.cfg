CONSTANTS
    N = 1
    Workers = {w1}
    BlockAt = 5
    Cap = 20
    MaxFailures = 5
    Scores = {1}
    SpeedTests = FALSE
SPECIFICATION Spec
PROPERTY StreakBlocks
