CONSTANTS
    NEDs = {ned1, ned2}
    NoDigest = NoDigest
    MaxSa = 2
    MaxRounds = 1
    Chains <- MCOneRound
    Workers = 3
    AttestPeer = TRUE
SPECIFICATION FairSpec
INVARIANT AuthorizedWasTrusted
INVARIANT AlarmIffDistrusted
PROPERTY MonitorDecides
PROPERTY AuthorizationDecided
