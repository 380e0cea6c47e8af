SPECIFICATION FairSpec
CONSTANTS
    Calls = {c1, c2}
    Timed = {c1}
    Leaving = {c1}
    Sas = {s1, s2}
    NoSa = NoSa
    NoCall = NoCall
    Workers = 3
    MaxConcurrent = 2
INVARIANT FreedWhenUnused
INVARIANT ReportIsTrue
INVARIANT ClosedIsGone
PROPERTY EveryCallReturns
CHECK_DEADLOCK FALSE
