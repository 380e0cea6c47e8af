CONSTANTS
    Users = {alice, bob}
    None = None
    MaxCalls = 2
    MaxEvents = 1
SPECIFICATION FairSpec
CHECK_DEADLOCK FALSE
INVARIANT ShownIsLoggedIn
INVARIANT CanLogOut
INVARIANT NothingLeftBehind
INVARIANT EventsToldOnce
PROPERTY LoginIsOffered
PROPERTY ListIsFetched
