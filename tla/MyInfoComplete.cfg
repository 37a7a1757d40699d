CONSTANTS
    Program = {p1, p2}
    Name = {n1, n2}
    Unset = Unset
    MaxKeys = 6
    MaxRegistrations = 4
    MaxFaults = 1
SPECIFICATION Spec
SYMMETRY Symmetry
INVARIANT MyInfoComplete
