CONSTANTS
    Program = {p1, p2}
    Name = {n1, n2}
    Unset = Unset
    MaxKeys = 6
    MaxRegistrations = 4
    MaxFaults = 3
SPECIFICATION Spec
SYMMETRY Symmetry
INVARIANTS
    TypeOK
    KeyOfIdentifier
    SurvivesRestart
    LostNames
    RegistrationInv
PROPERTY IdentifierKept
