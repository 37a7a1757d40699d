SPECIFICATION Spec
CONSTANTS
    User = {alice, bob, carol}
    MaxFaults = 0
    MaxKeys = 1
    MaxTexts = 0
    MaxAsks = 0
    MaxWaiting = 2
SYMMETRY Symmetry
INVARIANT KeyOfPair
