SPECIFICATION ServersSpec
CONSTANTS
    Sections = {"download", "upload"}
    Vendors = {v}
    Polls = {1}
    MaxBlocks = 1
    MaxBadPolls = 1
    MaxVisits = 1
    MaxTests = 1
PROPERTIES
    ToggleAllDoesWhatItSays
