SPECIFICATION Spec
CONSTANTS
    Tabs = {t1, t2}
    Tables = {A, B}
    None = None
    Keys = {1, 2, 3}
    Texts <- MCTexts
    Sorted <- MCSorted
    NullKeys = {}
    RowLimit = 2
    MaxGestures = 3
    MaxQueries = 2
SYMMETRY Alike
INVARIANTS EditsHitTheirRow DeleteNamesSelection  LastFilterWins
CHECK_DEADLOCK FALSE
