\* Three requests on two users, with writes that fail or are cut short and restarts.
SPECIFICATION Spec
CONSTANTS
    Users = {u1, u2}
    Short = short
    Long = long
    Passwords = {short, long}
    Begins <- MCBegins
    Empty = Empty
    Missing = Missing
    Requests = {r1, r2, r3}
    None = None
SYMMETRY Symmetry
INVARIANTS
    TypeOK
    QuietAgrees
    SavedIsStored
    OnlyUsersLogIn
\* The requests are finite.
CHECK_DEADLOCK FALSE
