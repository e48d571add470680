\* Two runs of two chains complete while one list and one delete are served.
SPECIFICATION Spec
CONSTANTS
    Chains = {c1, c2}
    All = all
    Runs = {r1, r2}
    Msgs = {m1}
    Lists = {l1}
    Dels = {d1}
    MaxSec = 1
    MaxFaults = 1
    Bits <- MCBits
    Asks <- MCAsks
    Torn = Torn
    None = None
SYMMETRY Symmetry
INVARIANTS
    TypeOK
    LogsKept
    DeleteIsComplete
    ListMissesNothing
    TornHasCause
    QuietListIsExact
PROPERTY
    KeepsTheBook
\* The runs and the requests are finite.
CHECK_DEADLOCK FALSE
