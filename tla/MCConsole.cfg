SPECIFICATION Spec
CONSTANTS
    Names = {n1, n2, n3}
    Blank = Blank
    Strengths = {1, 2}
    MaxRecords = 3
    ListMax = 2
    Size = 3
    Wrap = 16
    MaxKeys = 6
    Polite = TRUE
SYMMETRY NameSymmetry
INVARIANTS TypeOK RunsWhatWasTyped ListsStrongest
PROPERTY JoinStagesShown
