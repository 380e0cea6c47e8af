CONSTANTS
    NEDs = {ned1, ned2}
    NoDigest = NoDigest
    MaxSa = 2
    MaxRounds = 2
    Chains <- MCManyRounds
    Workers = 1
    AttestPeer = TRUE
SYMMETRY MCSymmetry
SPECIFICATION Spec
INVARIANT EstablishedIsMonitored
PROPERTY KeepsWatch
