CONSTANTS
    TextLengths = {1, 16}
    NameLengths = {1, 253, 254, 255, 256}
    Modulus = 600
    MaxMessages = 4
    MaxNames = 2
SPECIFICATION Spec
INVARIANTS
    TypeOK
    CounterInStep
    NamesWhole
