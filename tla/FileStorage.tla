----------------------------- MODULE FileStorage -----------------------------
(***************************************************************************)
(* The users of the server: UserDao (internal/dao/user.go) over one        *)
(* FileStorage (internal/dao/file_storage.go), an ini file read once at    *)
(* start-up. Requests edit the values in memory with no lock but the       *)
(* library's own around each access, and then write the whole file under   *)
(* FileStorage.lock; the write may fail half way and the process may end   *)
(* at any point, and either may leave a beginning of what was to be        *)
(* written. All users are keys of one section, which always exists.        *)
(***************************************************************************)
EXTENDS FiniteSets

CONSTANTS
    Users,      \* user names: the keys of the section
    Passwords,  \* the passwords users are created with, or log in with
    Begins,     \* <<p, q>>: q begins with p and is longer
    Empty,      \* the value ""
    Missing,    \* no such key
    Requests,   \* calls of CreateUser, SaveList, Delete, ValidatePassword
    None        \* no request

ASSUME FileStorageAssumption ==
    /\ Empty \notin Passwords /\ Missing \notin Passwords /\ Empty # Missing
    /\ None \notin Requests
    /\ Begins \subseteq Passwords \X Passwords
    /\ \A p, q, v \in Passwords :
          <<p, q>> \in Begins /\ <<q, v>> \in Begins => <<p, v>> \in Begins

VARIABLES
    disk,       \* the file: user -> value; all Missing when truncated
    bad,        \* the file ends within a line that does not parse
    mem,        \* the ini.File in memory: user -> value
    lock,       \* the request that holds FileStorage.lock, or None
    pc,         \* request -> its next step
    req,        \* request -> its local state
    failed,     \* history: a write failed and none has succeeded since
    cut,        \* history: the process ended on a file not written whole
    up          \* the process runs

file == <<disk, bad>>
vars == <<disk, bad, mem, lock, pc, req, failed, cut, up>>

Contents == [Users -> Passwords \cup {Empty, Missing}]
Nobody == [u \in Users |-> Missing]

(* users: those the request names; todo: those still to be edited; user:   *)
(* the one whose Key it holds, attached: if that is still in the section;  *)
(* buf: what it writes.                                                    *)
NoReq == [op |-> "none", users |-> {}, value |-> Empty, todo |-> {},
          user |-> None, attached |-> FALSE, buf |-> Nobody]
Editing == {"edit", "set", "lock"}
Writing == {"open", "write"}
InFlight == {r \in Requests : pc[r] \in Editing \cup Writing}

Init ==
    /\ disk = Nobody /\ bad = FALSE
    /\ mem = Nobody
    /\ lock = None
    /\ pc = [r \in Requests |-> "idle"]
    /\ req = [r \in Requests |-> NoReq]
    /\ failed = FALSE
    /\ cut = FALSE
    /\ up = TRUE

-----------------------------------------------------------------------------
(* Faulty variants of definitions below, one for each property they break. *)

(* TypeOK: the lock is left only after a write that succeeded.             *)
FailHoldsLock(r) ==
    /\ pc[r] \in Writing
    /\ pc' = [pc EXCEPT ![r] = "err"]
    /\ failed' = TRUE
    /\ UNCHANGED <<file, mem, lock, req, cut, up>>

(* QuietAgrees: who finds the lock held leaves the writing to its holder.  *)
LockOrLeave(r) ==
    /\ pc[r] = "lock"
    /\ IF lock = None
       THEN /\ lock' = r
            /\ req' = [req EXCEPT ![r].buf = mem]
            /\ pc' = [pc EXCEPT ![r] = "open"]
       ELSE pc' = [pc EXCEPT ![r] = "ok"] /\ UNCHANGED <<lock, req>>
    /\ UNCHANGED <<file, mem, failed, cut, up>>

(* SavedIsStored: the list is left after its first key.                    *)
FindOneKey(r) ==
    /\ pc[r] = "edit" /\ req[r].op = "save"
    /\ \E u \in req[r].todo :
          /\ mem' = [mem EXCEPT ![u] = IF @ = Missing THEN Empty ELSE @]
          /\ req' = [req EXCEPT ![r].todo = {}, ![r].user = u,
                                ![r].attached = TRUE]
    /\ pc' = [pc EXCEPT ![r] = "set"]
    /\ UNCHANGED <<file, lock, failed, cut, up>>

(* OnlyUsersLogIn: the value found is compared, whatever it is.            *)
Matches(value, password) == value = password

-----------------------------------------------------------------------------
(* CreateUser (Save) and SaveList edit keys; Delete, of one or more keys,  *)
(* removes them. Then each of them writes the file.                        *)
StartSave(r, S, v) ==
    /\ up /\ pc[r] = "idle"
    /\ pc' = [pc EXCEPT ![r] = "edit"]
    /\ req' = [req EXCEPT ![r] = [NoReq EXCEPT !.op = "save", !.users = S,
                                     !.value = v, !.todo = S]]
    /\ UNCHANGED <<file, mem, lock, failed, cut, up>>

StartDelete(r, S) ==
    /\ up /\ pc[r] = "idle"
    /\ pc' = [pc EXCEPT ![r] = "edit"]
    /\ req' = [req EXCEPT ![r] = [NoReq EXCEPT !.op = "delete", !.users = S,
                                     !.todo = S]]
    /\ UNCHANGED <<file, mem, lock, failed, cut, up>>

(* External (ini): Section.Key finds the key or adds it with the value "". *)
WithKey(u) == [mem EXCEPT ![u] = IF @ = Missing THEN Empty ELSE @]

FindKey(r) ==
    /\ pc[r] = "edit" /\ req[r].op = "save"
    /\ \E u \in req[r].todo :
          /\ mem' = WithKey(u)
          /\ req' = [req EXCEPT ![r] = [req[r] EXCEPT !.todo = @ \ {u},
                                    !.user = u, !.attached = TRUE]]
    /\ pc' = [pc EXCEPT ![r] = "set"]
    /\ UNCHANGED <<file, lock, failed, cut, up>>

(* SetValue, on a Key that may have been removed from its section since.   *)
SetValue(r) ==
    /\ pc[r] = "set"
    /\ mem' = IF req[r].attached THEN [mem EXCEPT ![req[r].user] = req[r].value]
              ELSE mem
    /\ req' = [req EXCEPT ![r] = [@ EXCEPT !.user = None, !.attached = FALSE]]
    /\ pc' = [pc EXCEPT ![r] = "edit"]
    /\ UNCHANGED <<file, lock, failed, cut, up>>

DeleteKey(r) ==
    /\ pc[r] = "edit" /\ req[r].op = "delete"
    /\ \E u \in req[r].todo :
          /\ mem' = [mem EXCEPT ![u] = Missing]
          /\ req' = [q \in Requests |->
                       IF q = r THEN [req[r] EXCEPT !.todo = @ \ {u}]
                       ELSE [req[q] EXCEPT !.attached = @ /\ req[q].user # u]]
    /\ UNCHANGED <<file, lock, pc, failed, cut, up>>

EndEdit(r) ==
    /\ pc[r] = "edit" /\ req[r].todo = {}
    /\ pc' = [pc EXCEPT ![r] = "lock"]
    /\ UNCHANGED <<file, mem, lock, req, failed, cut, up>>

(* SaveToFile: under the lock SaveTo makes the new contents from what is in*)
(* memory by now, opens the file, which truncates it, and writes.          *)
Lock(r) ==
    /\ pc[r] = "lock" /\ lock = None
    /\ lock' = r
    /\ req' = [req EXCEPT ![r].buf = mem]
    /\ pc' = [pc EXCEPT ![r] = "open"]
    /\ UNCHANGED <<file, mem, failed, cut, up>>

Truncate(r) ==
    /\ pc[r] = "open"
    /\ disk' = Nobody /\ bad' = FALSE
    /\ pc' = [pc EXCEPT ![r] = "write"]
    /\ UNCHANGED <<mem, lock, req, failed, cut, up>>

WriteFile(r) ==
    /\ pc[r] = "write"
    /\ disk' = req[r].buf /\ bad' = FALSE
    /\ lock' = None
    /\ pc' = [pc EXCEPT ![r] = "ok"]
    /\ req' = [req EXCEPT ![r].buf = Nobody]
    /\ failed' = FALSE
    /\ UNCHANGED <<mem, cut, up>>

(* A write that ends early leaves a beginning of the contents: some lines, *)
(* which ones is left open, and then part of one, whose value is cut or    *)
(* which does not parse.                                                   *)
Cuts(v) == IF v = Missing THEN {}
           ELSE {Empty} \cup {p \in Passwords : <<p, v>> \in Begins}

Piece(g, f) ==
    \E last \in Users \cup {None} : \A u \in Users :
        g[u] \in {f[u], Missing} \/ (u = last /\ g[u] \in Cuts(f[u]))

CutShort(r) ==
    /\ disk' \in {g \in Contents : Piece(g, req[r].buf)}
    /\ bad' \in BOOLEAN

(* Opening the file fails, or writing it, half way: the caller gets the    *)
(* error, and the edit stays in memory.                                    *)
SaveFails(r) ==
    /\ \/ pc[r] = "open" /\ UNCHANGED file
       \/ pc[r] = "write" /\ CutShort(r)
    /\ lock' = None
    /\ pc' = [pc EXCEPT ![r] = "err"]
    /\ req' = [req EXCEPT ![r].buf = Nobody]
    /\ failed' = TRUE
    /\ UNCHANGED <<mem, cut, up>>

(* ValidatePassword: reading adds the key if it is missing, which List     *)
(* shows and the next write stores. A password of "" is never valid.       *)
Valid(value, password) == value # Empty /\ value = password

Validate(r, u, p) ==
    /\ up /\ pc[r] = "idle"
    /\ mem' = WithKey(u)
    /\ req' = [req EXCEPT ![r] = [NoReq EXCEPT !.op = "login", !.users = {u},
                                               !.value = p]]
    /\ pc' = [pc EXCEPT ![r] = IF Valid(mem'[u], p) THEN "yes" ELSE "no"]
    /\ UNCHANGED <<file, lock, failed, cut, up>>

(* The process ends, which may cut a write short.                          *)
Crash ==
    /\ up /\ up' = FALSE
    /\ IF lock # None /\ pc[lock] = "write" THEN CutShort(lock) ELSE UNCHANGED file
    /\ mem' = Nobody
    /\ lock' = None
    /\ pc' = [r \in Requests |-> IF r \in InFlight THEN "lost" ELSE pc[r]]
    /\ req' = [r \in Requests |-> [req[r] EXCEPT !.buf = Nobody,
                                    !.user = None, !.attached = FALSE]]
    /\ failed' = FALSE
    /\ cut' = (cut \/ failed \/ \E r \in Requests : pc[r] = "write")

(* The process is started: NewFileStorage reads the file, or starts with   *)
(* nobody when there is none. On a file that does not parse it returns the *)
(* error, and the start-up ends.                                           *)
Restart ==
    /\ ~up /\ ~bad
    /\ up' = TRUE
    /\ mem' = disk
    /\ UNCHANGED <<file, lock, pc, req, failed, cut>>

Save(r) ==
    \/ \E S \in SUBSET Users \ {{}}, v \in Passwords : StartSave(r, S, v)
    \/ FindKey(r) \/ SetValue(r)
Delete(r) ==
    \/ \E S \in SUBSET Users \ {{}} : StartDelete(r, S)
    \/ DeleteKey(r)
SaveToFile(r) == EndEdit(r) \/ Lock(r) \/ Truncate(r) \/ WriteFile(r) \/ SaveFails(r)

Next ==
    \/ \E r \in Requests :
          \/ Save(r) \/ Delete(r) \/ SaveToFile(r)
          \/ \E u \in Users, p \in Passwords \cup {Empty} : Validate(r, u, p)
    \/ Crash \/ Restart

Spec == Init /\ [][Next]_vars

-----------------------------------------------------------------------------
(* Values have their types, and one request at a time writes the file: the *)
(* one that holds the lock.                                                *)
TypeOK ==
    /\ disk \in Contents /\ mem \in Contents
    /\ pc \in [Requests -> {"idle", "edit", "set", "lock", "open", "write", "ok",
                            "err", "yes", "no", "lost"}]
    /\ req \in [Requests -> [op: {"none", "save", "delete", "login"},
                             users: SUBSET Users, value: Passwords \cup {Empty},
                             todo: SUBSET Users, user: Users \cup {None},
                             attached: BOOLEAN, buf: Contents]]
    /\ {r \in Requests : pc[r] \in Writing} = {lock} \ {None}
    /\ failed \in BOOLEAN /\ cut \in BOOLEAN /\ up \in BOOLEAN /\ bad \in BOOLEAN

(* When no request is under way the file holds what memory does, although  *)
(* requests edit memory without the lock, unless the last write failed:    *)
(* each edit is followed by a write of its own. Only keys that reading has *)
(* added may be missing in the file.                                       *)
Agree(u) == disk[u] = mem[u] \/ (disk[u] = Missing /\ mem[u] = Empty)

QuietAgrees == up /\ InFlight = {} /\ ~failed => \A u \in Users : Agree(u)

(* A user that one request created, and no other has touched, is in memory *)
(* with that password once the request was answered OK, and in a file that *)
(* can be read again except while it is being rewritten, unless a rewrite  *)
(* was cut short.                                                          *)
Alone(r) ==
    \A q \in Requests \ {r} :
        req[q].op \in {"save", "delete"} => req[q].users \cap req[r].users = {}

Stored(u, v) ==
    \/ disk[u] = v /\ ~bad
    \/ failed \/ \E q \in Requests : pc[q] = "write"

SavedIsStored ==
    \A r \in Requests : req[r].op = "save" /\ pc[r] = "ok" /\ Alone(r) /\ ~cut =>
        \A u \in req[r].users : (up => mem[u] = req[r].value) /\ Stored(u, req[r].value)

(* Who logs in was created with that password by some request, or, when the*)
(* process has ended on a file not written whole, with a longer one that   *)
(* begins with it: no sequence of log-ins, saves, deletes, failed writes   *)
(* and restarts makes a password of "" valid or lets in a user that nobody *)
(* created.                                                                *)
GivenBy(q, u, p) ==
    /\ req[q].op = "save" /\ u \in req[q].users
    /\ req[q].value = p \/ (cut /\ <<p, req[q].value>> \in Begins)

OnlyUsersLogIn ==
    \A r \in Requests : pc[r] = "yes" =>
        \A u \in req[r].users : \E q \in Requests : GivenBy(q, u, req[r].value)
=============================================================================
