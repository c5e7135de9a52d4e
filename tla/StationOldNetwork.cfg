SPECIFICATION Spec
CONSTANTS
    Names = {n1, n2}
    Keys = {}
    Blank = Blank
    NoBlob = NoBlob
    BadBlob = BadBlob
    ProfileMax = 2
    SeedSsid = n1
    SeedPass = Blank
    Callers = {"main", "tud"}
    MaxTrouble = 0
    MaxCmds = 1
    Prompt = TRUE
    EventsFirst = TRUE
INVARIANT OnActiveNetwork
