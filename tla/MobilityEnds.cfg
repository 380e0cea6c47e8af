CONSTANTS
    home = home
    away = away
    conn = conn
    ned = ned
    APs = {home, away}
    Conns = {conn}
    ConnOf <- OnlyHome
    Default = conn
    None = None
    MaxStarts = 2
    MaxDowns = 1
    MaxUnclosed = 1
SPECIFICATION FairSpec
CHECK_DEADLOCK FALSE
PROPERTY ReportsGoOn
PROPERTY CloseEndsTheProcess
