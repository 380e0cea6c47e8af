CONSTANTS
    home = home
    away = away
    conn = conn
    ned = ned
    APs = {home, away}
    Conns = {conn, ned}
    ConnOf <- OneEach
    Default = ned
    None = None
    MaxStarts = 2
    MaxDowns = 1
    MaxUnclosed = 1
SPECIFICATION Spec
CHECK_DEADLOCK FALSE
INVARIANT OneHandover
INVARIANT NoTunnelLeftBehind
INVARIANT LostOnlyByFailure
INVARIANT AttestedIsConnected
