SPECIFICATION FairSpec
CONSTANTS
    Thread = {t1, t2}
    ClientId = {c1}
    StaleId = stale
    Username = {u1}
    PublicKey = {k1}
    Content = {text}
    NoContent = none
    OddContent = odd
    Cut = cut
    NoThread = nobody
    MaxConnections = 3
PROPERTY ConnectionsEnd
