SPECIFICATION Spec
CONSTANTS
    Names = {n1, n2}
    Keys = {}
    Blank = Blank
    NoBlob = NoBlob
    BadBlob = BadBlob
    ProfileMax = 2
    SeedSsid = Blank
    SeedPass = Blank
    Callers = {"main", "tud", "btn", "httpd", "fin"}
    Finishers = {"fin"}
    Seeds <- BlankOrNetwork
    MaxTrouble = 1
    MaxCmds = 2
    Prompt = TRUE
    EventsFirst = TRUE
    Patient = FALSE
SYMMETRY NameSymmetry
INVARIANTS SuppressedOnlyByPortal SoftapOnlyWithPortal PhaseSettles
