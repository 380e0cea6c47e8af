SPECIFICATION FairSpec
CONSTANTS
    Messages = {2, 3, 4}
    Length <- MCLength
    FragLens = {1, 2, 3}
    MaxFragments = 3
    MaxPacket = 5
    MaxSplits = 2
    Mixed = Mixed
    Nothing = Nothing
INVARIANT Intact
INVARIANT HeldIsBounded
PROPERTY Completes
