SPECIFICATION FairSpec
CONSTANTS
    Debounce = 2
    Second = 3
    Window = 9
    Wrap = 48
    MaxLate = 1
    LastTouch = 28
INVARIANTS TypeOK PromptTruthful
PROPERTIES ClearedInTime ClearedDeliberately PromptEnds
