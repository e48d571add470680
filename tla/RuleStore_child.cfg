\* One save that names a node.
SPECIFICATION Spec
CONSTANTS
    Chains = {c1}
    Reqs = {r1}
    Keys = {k1}
    Ops = {"child"}
    User = user
    Default = default
    Orig = Orig
    None = None
    NoFile = NoFile
    Torn = Torn
    NodeDoc = NodeDoc
INVARIANT
    ChildSaveKeepsChain
\* Every request has been answered: the server idles.
CHECK_DEADLOCK FALSE
