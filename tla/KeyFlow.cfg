SPECIFICATION Spec
CONSTANTS
    User = {alice, bob}
    MaxFaults = 0
    MaxKeys = 3
    MaxTexts = 1
    MaxAsks = 1
    MaxWaiting = 2
SYMMETRY Symmetry
INVARIANTS
    KeysAgreeOneWay
    ExchangeInv
PROPERTY KeysAdvance
