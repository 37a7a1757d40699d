SPECIFICATION Spec
CONSTANTS
    User = {alice, bob}
    MaxFaults = 1
    MaxKeys = 2
    MaxTexts = 2
    MaxAsks = 0
    MaxWaiting = 2
SYMMETRY Symmetry
INVARIANTS
    TypeOK
    ShownInOrder
    SenderNotBehind
