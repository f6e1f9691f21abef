CONSTANTS
    Clients = {c1}
    Sched = sched
    DefaultSpeed = 1
    TestedSpeeds = {2}
    ScheduleSpeeds = {3}
    RequestSpeeds = {}
    AutoModes = {"reliable", "max"}
    UploadModes = {"http", "s3"}
    Generations = {g1, g2}
    None = None
    Concurrencies = {1}
    MaxConcurrency = 1
    Throughput = {0}
    Overlap = FALSE
SPECIFICATION Spec
  
PROPERTIES  ForceStartWins ScheduleEnds
