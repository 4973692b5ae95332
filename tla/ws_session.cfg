SPECIFICATION Spec
CONSTANTS
    Source = {s1}
    Report = {r1, r2}
    None = None
    HistoryLimit = 2
    TabId = {t1, t2, t3}
    FirstTab = t1
    Torn = Torn
    ShownRevisions = 2
    MaxTabs = 2
    MaxRevisions = 3
    MaxUnsaved = 1
SYMMETRY ReportSymmetry
INVARIANTS DraftMatchesHead WorkIsKept SessionOpens
PROPERTIES RefreshLosesNothing
