SPECIFICATION Spec
CONSTANTS
    Thread = {t1, t2}
    ClientId = {c1, c2}
    StaleId = stale
    Username = {u1, u2}
    PublicKey = {k1}
    Content = {text}
    NoContent = none
    OddContent = odd
    Cut = cut
    NoThread = nobody
    MaxConnections = 4
SYMMETRY Symmetry
INVARIANT IncrementingIds
