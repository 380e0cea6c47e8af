CONSTANTS
    s1 = s1
    s2 = s2
    s3 = s3
    s4 = s4
    alice = alice
    bob = bob
    home = home
    office = office
    Sas = {s1, s2, s3, s4}
    Ids = {alice, bob}
    Hosts = {home, office}
    IdOf <- MCIdOf
    HostOf <- MCHostOf
    NoAddr = NoAddr
    N = 2
    Pool <- MCPool
SPECIFICATION Spec
INVARIANT NoHoarding
INVARIANT NobodyRefused
PROPERTY KeepsPromise
SYMMETRY MCSymmetry
