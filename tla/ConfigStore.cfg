SPECIFICATION Spec
CONSTANTS
    Names = {a}
    Keys = {k}
    Blank = Blank
    NoBlob = NoBlob
    BadBlob = BadBlob
    ProfileMax = 3
    SeedSsid = a
    SeedPass = k
INVARIANTS TypeOK StoreWellFormed SavedIsLoadable
PROPERTIES JoinAddsNoDuplicate ImplementsProfileList
