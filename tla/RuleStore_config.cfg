\* Two saves of two configuration sections.
SPECIFICATION Spec
CONSTANTS
    Chains = {c1}
    Reqs = {r1, r2}
    Keys = {k1, k2}
    Ops = {"conf"}
    User = user
    Default = default
    Orig = Orig
    None = None
    NoFile = NoFile
    Torn = Torn
    NodeDoc = NodeDoc
INVARIANT
    SavedSectionKept
\* Every request has been answered: the server idles.
CHECK_DEADLOCK FALSE
