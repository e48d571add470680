\* Three requests of any kind on one chain.
SPECIFICATION Spec
CONSTANTS
    Chains = {c1}
    Reqs = {r1, r2, r3}
    Keys = {k1}
    Ops = {"dsl", "child", "base", "conf", "delete", "exec"}
    User = user
    Default = default
    Orig = Orig
    None = None
    NoFile = NoFile
    Torn = Torn
    NodeDoc = NodeDoc
SYMMETRY Symmetry
INVARIANTS
    TypeOK
    PresenceAgrees
    ContentAgrees
    FilesLoad
    RunsGoWithChain
PROPERTIES
    AckIsDurable
    RunsAreNamed
\* Every request has been answered: the server idles.
CHECK_DEADLOCK FALSE
