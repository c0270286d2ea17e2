\* Two workers, two requests and two changes at a time.
SPECIFICATION Spec
CONSTANTS
    Workers = {w1, w2}
    Requests = {r1, r2}
    Changes = {c1, c2}
    TTL = 1
    PATIENCE = 1
    None = None
SYMMETRY Symmetry
INVARIANTS
    TypeOK
    YesIsRecent
    SuspendedAtOnce
