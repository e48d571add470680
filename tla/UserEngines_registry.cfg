\* Three requests or messages of two users, one chain, with writes that fail or are cut short.
SPECIFICATION Spec
CONSTANTS
    Users = {admin, bob}
    Default = admin
    Anon = anon
    Phantom = rules
    Chains = {c1}
    ToChain = c1
    Reqs = {r1, r2, r3}
    None = None
SYMMETRY Symmetry
INVARIANTS
    TypeOK
    OneService
    LoadsWholeFiles
PROPERTIES
    RegisteredOnce
    
\* Every request has been answered: the server idles.
CHECK_DEADLOCK FALSE
