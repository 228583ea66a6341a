\* Two apps one after the other, two users of tokens, a callback loaded twice.
SPECIFICATION Spec
CONSTANTS
    Apps = {a1, a2}
    None = None
    States = {t1, t2}
    Callbacks = {c1, c2}
    Users = {u1, u2}
SYMMETRY Symmetry
INVARIANTS
    TypeOK
    StateStoresOnce
    TokenOfApp
    CacheClearedOrStale
CHECK_DEADLOCK FALSE
