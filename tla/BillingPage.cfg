SPECIFICATION PageSpec
CONSTANTS
    Subs = {s1, s2}
    Null = Null
    MonthLength = 4
    Period = 2
    MaxTime = 4
    MaxEvents = 3
    MaxRecords = 1
SYMMETRY Symmetry
INVARIANTS
    PageTypeOK
    OfferExplained
    OverviewAgrees
    UsageIsCounted
