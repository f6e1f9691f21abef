SPECIFICATION ReadsSpec
CONSTANTS
    ProviderOrder <- MCOrder
    MaxServers = 3
    MaxFigure = 1
    Palette = 16
    DotPalette = 10
    TopCount = 1
    PoolCount = 1
    Requests = {1, 2}
    MaxChanges = 1
    MaxFaults = 1
    MaxOpens = 2
    RecentRows = 1
    Sections = {"download"}
    Vendors = {v}
    Polls = {1, 2}
    MaxBlocks = 1
    MaxBadPolls = 1
    MaxVisits = 2
    MaxTests = 2
    MaxRange = 2
    Loads = {1, 2}
    MaxEvents = 1
    MaxClicks = 2
INVARIANTS
    ReadsTypeOK
    GroupsConserve
    TroubledFirst
    ChartIsOfItsRange
PROPERTIES
    ColoursStandStill
    PanelsStay
    ReadsProgress
