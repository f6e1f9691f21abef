CONSTANTS
    Callers = {c1, c2}
    Generations = {g1, g2, g3}
    None = None
    Concurrencies = {1, 3}
    MaxConcurrency = 4
    Serial = TRUE
SPECIFICATION Spec
PROPERTIES ImplementsContract CallsReturn
