\* One save of a whole chain.
SPECIFICATION Spec
CONSTANTS
    Chains = {c1}
    Reqs = {r1}
    Keys = {k1}
    Ops = {"dsl"}
    User = user
    Default = default
    Orig = Orig
    None = None
    NoFile = NoFile
    Torn = Torn
    NodeDoc = NodeDoc
INVARIANT
    UpdateTimePersisted
\* Every request has been answered: the server idles.
CHECK_DEADLOCK FALSE
