\* Two tabs of one browser and the setup command; one failure; a renaming and a
\* second admin need two names, a wrong password needs no second one.
SPECIFICATION Spec
CONSTANTS
    Tabs = {t1, t2}
    Names = {n1, n2}
    Passwords = {"a"}
    MaxFaults = 1
SYMMETRY Symmetry
INVARIANTS
    TypeOK
    AdminsExplained
    SealedReadable
PROPERTIES
    NoSpuriousLogout
    RedirectsMakeProgress
