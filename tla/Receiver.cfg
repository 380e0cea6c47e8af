SPECIFICATION Spec
CONSTANTS
    Peers = {p1, p2}
    NoPeer = NoPeer
    Workers = 1
    Width = 16
    CookieLifetime = 2
    CalmdownDelay = 2
    CookieReuse = 1
    CookieThreshold = 1
    BlockThreshold = 1
    InitLimitHalfOpen = 1
    InitLimitJobLoad = 1
    NoCookie = NoCookie
    MaxNow = 4
    MaxSecret = 2
INVARIANT AcceptedIsFresh
INVARIANT FreshIsAccepted
INVARIANT HalfOpenBounded
CHECK_DEADLOCK FALSE
