SPECIFICATION Spec
CONSTANTS
    Nonces = {n1, n2, n3}
    Threads = {t1, t2}
    Skew = 1
    Ttl = 2
    MaxSeen = 2
    MaxTime = 3
INVARIANTS
    TypeOK
    AtMostOnce
SYMMETRY Symmetry
