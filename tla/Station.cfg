SPECIFICATION FairSpec
CONSTANTS
    Names = {n1, n2}
    Keys = {}
    Blank = Blank
    NoBlob = NoBlob
    BadBlob = BadBlob
    ProfileMax = 2
    SeedSsid = n1
    SeedPass = Blank
    Callers = {"main", "tud"}
    MaxTrouble = 2
    MaxCmds = 2
    Prompt = TRUE
    EventsFirst = FALSE
INVARIANTS NeverAbandoned LabelTrue LinkHonest
PROPERTY EventuallyBridged
