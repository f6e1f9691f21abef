CONSTANTS
    Stoppers = {s1}
    Generations = {g1, g2, g3}
    None = None
    Concurrencies = {1, 3}
    MaxConcurrency = 4
    Throughput = {0, 50, 79, 90}
    StopsIdle = FALSE
    Overlap = TRUE
SPECIFICATION Spec
INVARIANTS NoOrphans
PROPERTIES ImplementsContract StopReturns
