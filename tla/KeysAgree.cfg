SPECIFICATION Spec
CONSTANTS
    User = {alice, bob}
    MaxFaults = 0
    MaxKeys = 2
    MaxTexts = 1
    MaxAsks = 0
    MaxWaiting = 2
SYMMETRY Symmetry
INVARIANT KeysAgree
