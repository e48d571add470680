-------------------------- MODULE FileStorageProofs --------------------------
(***************************************************************************)
(* Theorems about FileStorage, for any users, passwords and requests:      *)
(* TypeCorrect, QuietCorrect, LoginCorrect and StoredCorrect.              *)
(***************************************************************************)
EXTENDS FileStorage, TLAPS

-----------------------------------------------------------------------------
(* Type correctness.                                                       *)

ReqStates == [op: {"none", "save", "delete", "login"},
              users: SUBSET Users, value: Passwords \cup {Empty},
              todo: SUBSET Users, user: Users \cup {None},
              attached: BOOLEAN, buf: Contents]

(* What requests have in memory, and what they do with the file.           *)
LEMMA TypeParts ==
    ASSUME TypeOK
    PROVE  /\ disk \in [Users -> Passwords \cup {Empty, Missing}]
           /\ mem \in [Users -> Passwords \cup {Empty, Missing}]
           /\ req \in [Requests -> ReqStates]
           /\ lock \in Requests \cup {None}
           /\ \A r \in Requests : pc[r] \in {"open", "write"} <=> lock = r
  <1>1. {r \in Requests : pc[r] \in {"open", "write"}} = {lock} \ {None}
    BY DEF TypeOK, Writing
  <1>2. lock \in Requests \cup {None}
    BY <1>1
  <1>3. \A r \in Requests : pc[r] \in {"open", "write"} <=> lock = r
    BY <1>1, FileStorageAssumption
  <1>4. QED
    BY <1>2, <1>3 DEF TypeOK, Contents, ReqStates

LEMMA NobodyType == Nobody \in Contents
  BY DEF Nobody, Contents

LEMMA NoReqType == NoReq \in ReqStates
  BY NobodyType DEF NoReq, ReqStates

LEMMA InitType == Init => TypeOK
  BY NobodyType, NoReqType, FileStorageAssumption
  DEF Init, TypeOK, ReqStates, Writing

(* A step that moves one request on and leaves the lock alone.             *)
LEMMA StayUnlocked ==
    ASSUME TypeOK, NEW r \in Requests,
           pc[r] \notin Writing,
           NEW l \in {"idle", "edit", "set", "lock", "ok", "err", "yes", "no"},
           pc' = [pc EXCEPT ![r] = l],
           UNCHANGED <<file, lock, failed, cut, up>>,
           mem' \in Contents,
           req' \in [Requests -> ReqStates]
    PROVE  TypeOK'
  <1>1. pc' \in [Requests -> {"idle", "edit", "set", "lock", "open", "write", "ok",
                              "err", "yes", "no", "lost"}]
    BY DEF TypeOK
  <1>2. {q \in Requests : pc'[q] \in Writing} = {q \in Requests : pc[q] \in Writing}
    BY DEF TypeOK, Writing
  <1>3. QED
    BY <1>1, <1>2 DEF TypeOK, ReqStates, Contents, Writing, file

LEMMA StartType ==
    ASSUME TypeOK, NEW r \in Requests, NEW S \in SUBSET Users,
           NEW v \in Passwords, StartSave(r, S, v) \/ StartDelete(r, S)
    PROVE  TypeOK'
  <1>1. /\ [NoReq EXCEPT !.op = "save", !.users = S, !.value = v, !.todo = S]
              \in ReqStates
        /\ [NoReq EXCEPT !.op = "delete", !.users = S, !.todo = S] \in ReqStates
    BY NobodyType DEF ReqStates, NoReq
  <1>2. req' \in [Requests -> ReqStates]
    BY <1>1, TypeParts DEF StartSave, StartDelete
  <1>3. QED
    BY <1>2, StayUnlocked DEF StartSave, StartDelete, TypeOK, Writing

LEMMA WithKeyType ==
    ASSUME TypeOK, NEW u \in Users
    PROVE  WithKey(u) \in Contents
  BY TypeParts DEF WithKey, Contents

LEMMA EditType ==
    ASSUME TypeOK, NEW r \in Requests,
           FindKey(r) \/ SetValue(r) \/ DeleteKey(r) \/ EndEdit(r)
    PROVE  TypeOK'
  <1> USE TypeParts
  <1>1. CASE FindKey(r)
    <2>1. PICK u \in req[r].todo :
             /\ mem' = WithKey(u)
             /\ req' = [req EXCEPT ![r] = [req[r] EXCEPT !.todo = @ \ {u},
                                       !.user = u, !.attached = TRUE]]
      BY <1>1 DEF FindKey
    <2>2. u \in Users
      BY DEF ReqStates
    <2>3. [req[r] EXCEPT !.todo = @ \ {u}, !.user = u, !.attached = TRUE]
             \in ReqStates
      BY <2>2 DEF ReqStates
    <2>4. req' \in [Requests -> ReqStates]
      BY <2>1, <2>3
    <2>5. QED
      BY <1>1, <2>1, <2>2, <2>4, WithKeyType, StayUnlocked DEF FindKey, Writing
  <1>2. CASE SetValue(r)
    <2>1. mem' \in Contents
      BY <1>2 DEF SetValue, Contents, ReqStates
    <2>2. [req[r] EXCEPT !.user = None, !.attached = FALSE] \in ReqStates
      BY DEF ReqStates
    <2>3. req' \in [Requests -> ReqStates]
      BY <1>2, <2>2 DEF SetValue
    <2>4. QED
      BY <1>2, <2>1, <2>3, StayUnlocked DEF SetValue, Writing
  <1>3. CASE DeleteKey(r)
    <2>1. PICK u \in req[r].todo :
             /\ mem' = [mem EXCEPT ![u] = Missing]
             /\ req' = [q \in Requests |->
                          IF q = r THEN [req[r] EXCEPT !.todo = @ \ {u}]
                          ELSE [req[q] EXCEPT !.attached = @ /\ req[q].user # u]]
      BY <1>3 DEF DeleteKey
    <2>2. mem' \in Contents
      BY <2>1 DEF Contents
    <2>3. ASSUME NEW q \in Requests
          PROVE  /\ [req[q] EXCEPT !.todo = @ \ {u}] \in ReqStates
                 /\ [req[q] EXCEPT !.attached = @ /\ req[q].user # u] \in ReqStates
      <3>1. req[q] \in ReqStates
        OBVIOUS
      <3>2. (req[q].attached /\ req[q].user # u) \in BOOLEAN
        OBVIOUS
      <3>3. QED
        BY <3>1, <3>2 DEF ReqStates
    <2>4. req' \in [Requests -> ReqStates]
      BY <2>1, <2>3
    <2>5. pc' = [pc EXCEPT ![r] = "edit"]
      BY <1>3 DEF DeleteKey, TypeOK
    <2>6. QED
      BY <1>3, <2>2, <2>4, <2>5, StayUnlocked DEF DeleteKey, Writing
  <1>4. CASE EndEdit(r)
    BY <1>4, StayUnlocked DEF EndEdit, Writing, TypeOK
  <1>5. QED
    BY <1>1, <1>2, <1>3, <1>4

(* The lock goes to the one request that writes, and comes back from it.   *)
LEMMA WriteType ==
    ASSUME TypeOK, NEW r \in Requests,
           Lock(r) \/ Truncate(r) \/ WriteFile(r) \/ SaveFails(r)
    PROVE  TypeOK'
  <1> USE TypeParts, NobodyType
  <1>1. r # None
    BY FileStorageAssumption
  <1>2. /\ disk' \in Contents /\ mem' \in Contents
        /\ req' \in [Requests -> ReqStates]
        /\ failed' \in BOOLEAN /\ cut' \in BOOLEAN
        /\ up' \in BOOLEAN /\ bad' \in BOOLEAN
    <2>1. /\ [req[r] EXCEPT !.buf = mem] \in ReqStates
          /\ [req[r] EXCEPT !.buf = Nobody] \in ReqStates
          /\ req[r].buf \in Contents
      BY DEF ReqStates, TypeOK
    <2>2. /\ [req EXCEPT ![r].buf = mem] \in [Requests -> ReqStates]
          /\ [req EXCEPT ![r].buf = Nobody] \in [Requests -> ReqStates]
      BY <2>1
    <2>3. QED
      BY <2>1, <2>2 DEF Lock, Truncate, WriteFile, SaveFails, CutShort, file, TypeOK
  <1>3. pc' \in [Requests -> {"idle", "edit", "set", "lock", "open", "write", "ok",
                              "err", "yes", "no", "lost"}]
    BY DEF Lock, Truncate, WriteFile, SaveFails, TypeOK
  <1>4. {q \in Requests : pc'[q] \in Writing} = {lock'} \ {None}
    <2>1. CASE Lock(r)
      BY <2>1, <1>1 DEF Lock, TypeOK, Writing
    <2>2. CASE Truncate(r)
      BY <2>2, <1>1 DEF Truncate, TypeOK, Writing
    <2>3. CASE WriteFile(r) \/ SaveFails(r)
      <3>1. lock = r /\ lock' = None
        BY <2>3 DEF WriteFile, SaveFails, Writing
      <3>2. \A q \in Requests : pc'[q] \notin Writing
        BY <2>3, <3>1 DEF WriteFile, SaveFails, Writing, TypeOK
      <3>3. QED
        BY <3>1, <3>2
    <2>4. QED
      BY <2>1, <2>2, <2>3
  <1>5. QED
    BY <1>2, <1>3, <1>4 DEF TypeOK, ReqStates, Contents, Writing

LEMMA ValidateType ==
    ASSUME TypeOK, NEW r \in Requests, NEW u \in Users,
           NEW p \in Passwords \cup {Empty}, Validate(r, u, p)
    PROVE  TypeOK'
  <1>1. PICK l \in {"yes", "no"} : pc' = [pc EXCEPT ![r] = l]
    BY DEF Validate
  <1>2. [NoReq EXCEPT !.op = "login", !.users = {u}, !.value = p] \in ReqStates
    BY NobodyType DEF ReqStates, NoReq
  <1>3. req' \in [Requests -> ReqStates]
    BY <1>2, TypeParts DEF Validate
  <1>4. mem' \in Contents
    BY WithKeyType DEF Validate
  <1>5. QED
    BY <1>1, <1>3, <1>4, StayUnlocked DEF Validate, Writing

LEMMA CrashType == ASSUME TypeOK, Crash PROVE TypeOK'
  <1> USE TypeParts, NobodyType
  <1>1. req' \in [Requests -> ReqStates]
    <2>1. ASSUME NEW q \in Requests
          PROVE  [req[q] EXCEPT !.buf = Nobody, !.user = None, !.attached = FALSE]
                    \in ReqStates
      BY DEF ReqStates
    <2>2. QED
      BY <2>1 DEF Crash
  <1>2. \A q \in Requests : pc'[q] \in {"idle", "ok", "err", "yes", "no", "lost"}
    BY DEF Crash, TypeOK, InFlight, Editing, Writing
  <1>3. pc' \in [Requests -> {"idle", "edit", "set", "lock", "open", "write", "ok",
                              "err", "yes", "no", "lost"}]
    BY <1>2 DEF Crash
  <1>4. {q \in Requests : pc'[q] \in Writing} = {lock'} \ {None}
    BY <1>2 DEF Crash, Writing
  <1>5. /\ failed' \in BOOLEAN /\ cut' \in BOOLEAN /\ up' \in BOOLEAN
        /\ mem' \in Contents
    BY DEF Crash, TypeOK
  <1>6. disk' \in Contents /\ bad' \in BOOLEAN
    BY DEF Crash, CutShort, file, TypeOK
  <1>7. QED
    BY <1>1, <1>3, <1>4, <1>5, <1>6 DEF TypeOK, ReqStates, Contents, Writing

LEMMA RestartType == ASSUME TypeOK, Restart PROVE TypeOK'
  BY DEF Restart, file, TypeOK, ReqStates, Writing

LEMMA TypeNext == TypeOK /\ [Next]_vars => TypeOK'
  <1> SUFFICES ASSUME TypeOK, [Next]_vars PROVE TypeOK'
    OBVIOUS
  <1>1. CASE UNCHANGED vars
    BY <1>1 DEF vars, file, TypeOK, Contents, Writing
  <1>2. CASE Crash \/ Restart
    BY <1>2, CrashType, RestartType
  <1>3. ASSUME NEW r \in Requests, Save(r) \/ Delete(r) \/ SaveToFile(r)
        PROVE  TypeOK'
    <2>1. CASE Save(r)
      BY <2>1, StartType, EditType DEF Save
    <2>2. CASE Delete(r)
      <3>1. ASSUME NEW S \in SUBSET Users, StartDelete(r, S) PROVE TypeOK'
        <4>1. [NoReq EXCEPT !.op = "delete", !.users = S, !.todo = S] \in ReqStates
          BY NobodyType DEF ReqStates, NoReq
        <4>2. req' \in [Requests -> ReqStates]
          BY <3>1, <4>1, TypeParts DEF StartDelete
        <4>3. QED
          BY <3>1, <4>2, StayUnlocked DEF StartDelete, TypeOK, Writing
      <3>2. QED
        BY <2>2, <3>1, EditType DEF Delete
    <2>3. CASE SaveToFile(r)
      BY <2>3, EditType, WriteType DEF SaveToFile
    <2>4. QED
      BY <1>3, <2>1, <2>2, <2>3
  <1>4. QED
    BY <1>1, <1>2, <1>3, ValidateType DEF Next

(* Values have their types, and only the holder of FileStorage.lock is     *)
(* between the snapshot and the end of the write.                          *)
THEOREM TypeCorrect == Spec => []TypeOK
  BY InitType, TypeNext, PTL DEF Spec

-----------------------------------------------------------------------------
(* File and memory. QuietAgrees speaks of moments without a request; in    *)
(* between, what makes it true at last is the request still to come: one   *)
(* that is editing will take its snapshot later, so only when none is must *)
(* the snapshot about to be written, or else the file, be up to date. While*)
(* the process is down nothing is under way.                               *)
Pending == {r \in Requests : pc[r] \in Editing}
UpToDate(f) == \A u \in Users : f[u] = mem[u] \/ (f[u] = Missing /\ mem[u] = Empty)

AgreeInv ==
    /\ TypeOK
    /\ ~up => InFlight = {} /\ ~failed
    /\ up /\ Pending = {} => IF lock = None THEN failed \/ UpToDate(disk)
                                            ELSE UpToDate(req[lock].buf)

LEMMA AgreeInit == Init => AgreeInv
  <1> SUFFICES ASSUME Init PROVE AgreeInv
    OBVIOUS
  <1>1. UpToDate(disk) /\ lock = None
    BY DEF Init, UpToDate, Nobody
  <1>2. QED
    BY <1>1, InitType DEF Init, AgreeInv

(* A step after which some request is editing leaves nothing to show.      *)
LEMMA AgreeEdit ==
    ASSUME AgreeInv, TypeOK', NEW r \in Requests, pc'[r] \in Editing,
           up \/ pc[r] \in Editing \cup Writing, up' = up
    PROVE  AgreeInv'
  BY DEF AgreeInv, Pending, InFlight

(* Taking the lock takes a snapshot; who writes it leaves the file as the  *)
(* snapshot was, and who fails says so.                                    *)
LEMMA AgreeWrite ==
    ASSUME AgreeInv, TypeOK', NEW r \in Requests,
           Lock(r) \/ Truncate(r) \/ WriteFile(r) \/ SaveFails(r)
    PROVE  AgreeInv'
  <1> USE TypeParts DEF AgreeInv
  <1>1. r # None
    BY FileStorageAssumption
  <1>0. up /\ up' = up
    BY DEF Lock, Truncate, WriteFile, SaveFails, InFlight, Editing, Writing
  <1>2. CASE Lock(r)
    <2>1. lock' = r /\ req'[r].buf = mem /\ mem' = mem
      BY <1>2 DEF Lock, ReqStates
    <2>2. QED
      BY <1>0, <1>1, <2>1 DEF UpToDate
  <1>3. CASE Truncate(r) \/ WriteFile(r) \/ SaveFails(r)
    <2>1. lock = r /\ mem' = mem
      BY <1>3 DEF Truncate, WriteFile, SaveFails, Writing
    <2>2. Pending' = {} => Pending = {}
      BY <1>3 DEF Truncate, WriteFile, SaveFails, Pending, Writing, Editing, TypeOK
    <2>3. CASE Truncate(r)
      BY <1>0, <2>1, <2>2, <2>3, <1>1 DEF Truncate, UpToDate
    <2>4. CASE WriteFile(r)
      BY <1>0, <2>1, <2>2, <2>4, <1>1 DEF WriteFile, UpToDate
    <2>5. CASE SaveFails(r)
      BY <1>0, <2>5 DEF SaveFails
    <2>6. QED
      BY <1>3, <2>3, <2>4, <2>5
  <1>4. QED
    BY <1>2, <1>3

(* A log-in adds a key at most, which neither file nor snapshot need have. *)
LEMMA AgreeValidate ==
    ASSUME AgreeInv, TypeOK', NEW r \in Requests, NEW u \in Users,
           NEW p \in Passwords \cup {Empty}, Validate(r, u, p)
    PROVE  AgreeInv'
  <1> USE TypeParts DEF AgreeInv
  <1>1. Pending' = {} => Pending = {}
    BY DEF Validate, Pending, Editing, TypeOK
  <1>2. ASSUME NEW f, UpToDate(f) PROVE UpToDate(f)'
    BY <1>2 DEF Validate, WithKey, UpToDate
  <1>3. lock # None => req'[lock].buf = req[lock].buf
    <2>1. pc[r] = "idle"
      BY DEF Validate
    <2>2. lock # r
      BY <2>1
    <2>3. QED
      BY <2>2 DEF Validate
  <1>4. lock' = lock /\ disk' = disk /\ failed' = failed /\ up /\ up' = up
    BY DEF Validate, file
  <1>5. lock # None /\ UpToDate(req[lock].buf) => UpToDate(req[lock].buf)'
    BY <1>3, <1>4, <1>2 DEF UpToDate
  <1>6. UpToDate(disk) => UpToDate(disk)'
    BY <1>4, <1>2 DEF UpToDate
  <1>7. QED
    BY <1>1, <1>4, <1>5, <1>6

LEMMA AgreeNext == AgreeInv /\ [Next]_vars => AgreeInv'
  <1> SUFFICES ASSUME AgreeInv, [Next]_vars PROVE AgreeInv'
    OBVIOUS
  <1>1. TypeOK /\ TypeOK'
    BY TypeNext DEF AgreeInv
  <1>2. CASE UNCHANGED vars
    BY <1>1, <1>2 DEF vars, AgreeInv, UpToDate, Pending, InFlight
  <1>3. CASE Crash
    BY <1>1, <1>3 DEF Crash, AgreeInv, InFlight, Editing, Writing, TypeOK
  <1>6. CASE Restart
    <2>1. lock = None /\ InFlight = {} /\ ~failed
      BY <1>1, <1>6, TypeParts DEF Restart, AgreeInv, InFlight, Writing
    <2>2. QED
      BY <1>1, <1>6, <2>1 DEF Restart, AgreeInv, UpToDate, InFlight, file
  <1>4. ASSUME NEW r \in Requests, Save(r) \/ Delete(r) \/ EndEdit(r)
        PROVE  AgreeInv'
    <2>1. /\ pc'[r] \in Editing /\ up' = up
          /\ up \/ pc[r] \in Editing
      BY <1>1, <1>4
      DEF Save, Delete, StartSave, StartDelete, FindKey, SetValue, DeleteKey,
          EndEdit, TypeOK, Editing
    <2>2. QED
      BY <1>1, <2>1, AgreeEdit
  <1>5. QED
    BY <1>1, <1>2, <1>3, <1>6, <1>4, AgreeWrite, AgreeValidate DEF Next, SaveToFile

(* However edits outside the lock, writes, failures and restarts interleave*)
(* the file holds what memory does once no request is under way, unless    *)
(* the last write failed.                                                  *)
THEOREM QuietCorrect == Spec => []QuietAgrees
  <1>1. AgreeInv => QuietAgrees
    <2> SUFFICES ASSUME AgreeInv, up, InFlight = {}, ~failed
                 PROVE  \A u \in Users : Agree(u)
      BY DEF QuietAgrees
    <2>1. Pending = {} /\ lock = None
      BY TypeParts DEF AgreeInv, InFlight, Pending, Writing
    <2>2. QED
      BY <2>1 DEF AgreeInv, UpToDate, Agree
  <1>2. QED
    BY <1>1, AgreeInit, AgreeNext, PTL DEF Spec

-----------------------------------------------------------------------------
(* Who may have said so: every password in memory, in the file or on its   *)
(* way there was given by a request that names the user, or, once writes   *)
(* have been cut short, is a beginning of one that was. Requests that have *)
(* not come yet have given none.                                           *)
Given(f, c) ==
    \A u \in Users : f[u] \in Passwords =>
        \E q \in Requests :
            /\ req[q].op = "save" /\ u \in req[q].users
            /\ req[q].value = f[u] \/ (c /\ <<f[u], req[q].value>> \in Begins)

LoginInv ==
    /\ TypeOK
    /\ Given(mem, cut) /\ Given(disk, cut \/ failed)
    /\ \A r \in Requests :
          /\ pc[r] = "idle" => req[r].op = "none"
          /\ Given(req[r].buf, cut)
          /\ req[r].todo \subseteq req[r].users
          /\ pc[r] = "set" => req[r].op = "save" /\ req[r].user \in req[r].users
    /\ ~up => ~failed /\ \A r \in Requests : pc[r] \notin Editing \cup Writing
    /\ OnlyUsersLogIn

LEMMA GivenNobody == \A c : Given(Nobody, c)
  BY FileStorageAssumption DEF Given, Nobody

LEMMA LoginInit == Init => LoginInv
  BY GivenNobody, InitType DEF Init, LoginInv, NoReq, OnlyUsersLogIn, Editing, Writing

(* Contents that differ only by what requests have given, and what a user  *)
(* with a password was given by.                                           *)
LEMMA GivenMore ==
    ASSUME NEW f, NEW g, NEW c, Given(f, c),
           \A u \in Users : g[u] \in Passwords =>
               \/ g[u] = f[u]
               \/ \E q \in Requests : /\ req[q].op = "save" /\ u \in req[q].users
                                      /\ req[q].value = g[u]
    PROVE  Given(g, c)
  <1> SUFFICES ASSUME NEW u \in Users, g[u] \in Passwords
               PROVE  \E q \in Requests :
            /\ req[q].op = "save" /\ u \in req[q].users
            /\ req[q].value = g[u] \/ (c /\ <<g[u], req[q].value>> \in Begins)
    BY DEF Given
  <1>1. CASE g[u] = f[u]
    <2>1. PICK q \in Requests :
            /\ req[q].op = "save" /\ u \in req[q].users
            /\ req[q].value = f[u] \/ (c /\ <<f[u], req[q].value>> \in Begins)
      BY <1>1 DEF Given
    <2>2. QED
      BY <1>1, <2>1
  <1>2. CASE g[u] # f[u]
    <2>1. PICK q \in Requests : /\ req[q].op = "save" /\ u \in req[q].users
                               /\ req[q].value = g[u]
      BY <1>2
    <2>2. QED
      BY <2>1
  <1>3. QED
    BY <1>1, <1>2

LEMMA GivenTo ==
    ASSUME NEW f, Given(f, cut), NEW u \in Users, f[u] \in Passwords
    PROVE  \E q \in Requests : GivenBy(q, u, f[u])
  <1>1. PICK q \in Requests :
            /\ req[q].op = "save" /\ u \in req[q].users
            /\ req[q].value = f[u] \/ (cut /\ <<f[u], req[q].value>> \in Begins)
    BY DEF Given
  <1>2. QED
    BY <1>1 DEF GivenBy

(* The passwords given by the requests of the next state.                  *)
GivenThen(f, c) ==
    \A u \in Users : f[u] \in Passwords =>
        \E q \in Requests :
            /\ req'[q].op = "save" /\ u \in req'[q].users
            /\ req'[q].value = f[u] \/ (c /\ <<f[u], req'[q].value>> \in Begins)

LEMMA GivenNext ==
    /\ Given(mem, cut)' <=> GivenThen(mem', cut')
    /\ Given(disk, cut \/ failed)' <=> GivenThen(disk', cut' \/ failed')
    /\ (\A q \in Requests : Given(req[q].buf, cut))'
          <=> \A q \in Requests : GivenThen(req'[q].buf, cut')
  BY DEF Given, GivenThen

(* What was given stays given: no step takes back a request that has come. *)
LEMMA GivenStays ==
    ASSUME \A q \in Requests : req[q].op = "save" =>
               /\ req'[q].op = "save" /\ req'[q].users = req[q].users
               /\ req'[q].value = req[q].value,
           NEW f, NEW c, Given(f, c)
    PROVE  GivenThen(f, c)
  <1> SUFFICES ASSUME NEW u \in Users, f[u] \in Passwords
               PROVE  \E q \in Requests :
            /\ req'[q].op = "save" /\ u \in req'[q].users
            /\ req'[q].value = f[u] \/ (c /\ <<f[u], req'[q].value>> \in Begins)
    BY DEF GivenThen
  <1>1. PICK q \in Requests :
            /\ req[q].op = "save" /\ u \in req[q].users
            /\ req[q].value = f[u] \/ (c /\ <<f[u], req[q].value>> \in Begins)
    BY DEF Given
  <1>2. QED
    BY <1>1

(* What is left of contents that were given is given, in part.             *)
LEMMA GivenPiece ==
    ASSUME NEW f \in Contents, NEW g \in Contents, NEW c \in BOOLEAN,
           Given(f, c), Piece(g, f)
    PROVE  Given(g, TRUE)
  <1> SUFFICES ASSUME NEW u \in Users, g[u] \in Passwords
               PROVE  \E q \in Requests :
                        /\ req[q].op = "save" /\ u \in req[q].users
                        /\ req[q].value = g[u] \/ <<g[u], req[q].value>> \in Begins
    BY DEF Given
  <1>1. g[u] # Missing /\ g[u] # Empty
    BY FileStorageAssumption
  <1>2. g[u] = f[u] \/ <<g[u], f[u]>> \in Begins
    BY <1>1 DEF Piece, Cuts
  <1>3. f[u] \in Passwords
    BY <1>2, FileStorageAssumption
  <1>4. PICK q \in Requests :
           /\ req[q].op = "save" /\ u \in req[q].users
           /\ req[q].value = f[u] \/ <<f[u], req[q].value>> \in Begins
    BY <1>3 DEF Given
  <1>5. <<f[u], req[q].value>> \in Begins => req[q].value \in Passwords
    BY FileStorageAssumption
  <1>6. QED
    BY <1>2, <1>3, <1>4, <1>5, FileStorageAssumption

(* A step that starts no request and edits nothing.                        *)
LEMMA LoginQuiet ==
    ASSUME LoginInv, TypeOK', cut => cut',
           Given(mem', cut'), Given(disk', cut' \/ failed'),
           \A q \in Requests :
               /\ req'[q].op = req[q].op /\ req'[q].users = req[q].users
               /\ req'[q].value = req[q].value
               /\ Given(req'[q].buf, cut')
               /\ req'[q].todo \subseteq req[q].todo
               /\ pc'[q] = "set" => req[q].op = "save" /\ req'[q].user \in req[q].users
               /\ pc'[q] = "idle" => pc[q] = "idle"
               /\ pc'[q] = "yes" => pc[q] = "yes",
           ~up' => ~failed' /\ \A q \in Requests : pc'[q] \notin Editing \cup Writing
    PROVE  LoginInv'
  <1>1. /\ Given(mem, cut)' /\ Given(disk, cut \/ failed)'
        /\ (\A q \in Requests : Given(req[q].buf, cut))'
    BY GivenNext, GivenStays
  <1>2. OnlyUsersLogIn'
    <2> SUFFICES ASSUME NEW s \in Requests, pc'[s] = "yes", NEW u \in req'[s].users
                 PROVE  \E q \in Requests : GivenBy(q, u, req[s].value)'
      BY DEF OnlyUsersLogIn
    <2>1. PICK q \in Requests : GivenBy(q, u, req[s].value)
      BY DEF LoginInv, OnlyUsersLogIn
    <2>2. GivenBy(q, u, req[s].value)'
      BY <2>1 DEF GivenBy
    <2>3. QED
      BY <2>2
  <1>3. QED
    BY <1>1, <1>2 DEF LoginInv, Editing, Writing

(* A request that starts finds all that was given before it.               *)
LEMMA LoginStart ==
    ASSUME LoginInv, TypeOK', NEW r \in Requests, pc[r] = "idle",
           Given(mem', cut), UNCHANGED <<file, failed, cut, up>>, up,
           \A q \in Requests \ {r} : req'[q] = req[q] /\ pc'[q] = pc[q],
           pc'[r] \in {"edit", "yes", "no"},
           req'[r].buf = Nobody,
           req'[r].todo \subseteq req'[r].users,
           pc'[r] = "yes" => \A u \in req'[r].users :
                                \E q \in Requests : GivenBy(q, u, req'[r].value)
    PROVE  LoginInv'
  <1>1. req[r].op = "none"
    BY DEF LoginInv
  <1>2. \A q \in Requests : req[q].op = "save" => req'[q] = req[q] /\ pc'[q] = pc[q]
    BY <1>1
  <1>4. Given(mem, cut)' /\ Given(disk, cut \/ failed)'
    BY <1>2, GivenNext, GivenStays DEF LoginInv, file
  <1>5. (\A q \in Requests : Given(req[q].buf, cut))'
    <2>1. \A q \in Requests : Given(req'[q].buf, cut)
      BY GivenNobody DEF LoginInv
    <2>2. QED
      BY <2>1, <1>2, GivenNext, GivenStays
  <1>6. OnlyUsersLogIn'
    <2> SUFFICES ASSUME NEW s \in Requests, pc'[s] = "yes", NEW u \in req'[s].users
                 PROVE  \E q \in Requests : GivenBy(q, u, req[s].value)'
      BY DEF OnlyUsersLogIn
    <2>1. PICK q \in Requests : GivenBy(q, u, req'[s].value)
      BY DEF LoginInv, OnlyUsersLogIn
    <2>2. QED
      BY <2>1, <1>2 DEF GivenBy
  <1>7. QED
    BY <1>4, <1>5, <1>6 DEF LoginInv

(* Saving and deleting: a password enters memory from the request's own    *)
(* hands.                                                                  *)
LEMMA LoginEdit ==
    ASSUME LoginInv, TypeOK', NEW r \in Requests,
           FindKey(r) \/ SetValue(r) \/ DeleteKey(r) \/ EndEdit(r)
    PROVE  LoginInv'
  <1> USE TypeParts DEF LoginInv
  <1>0. up
    BY DEF FindKey, SetValue, DeleteKey, EndEdit, Editing, Writing
  <1>1. CASE FindKey(r)
    <2>1. PICK u \in req[r].todo :
             /\ mem' = WithKey(u)
             /\ req' = [req EXCEPT ![r] = [req[r] EXCEPT !.todo = @ \ {u},
                                       !.user = u, !.attached = TRUE]]
      BY <1>1 DEF FindKey
    <2>2. Given(mem', cut)
      BY <2>1, FileStorageAssumption DEF WithKey, Given, ReqStates
    <2>3. /\ req'[r].op = "save" /\ req'[r].users = req[r].users
          /\ req'[r].value = req[r].value /\ req'[r].todo \subseteq req[r].todo
          /\ req'[r].buf = req[r].buf /\ req'[r].user \in req[r].users
      <3>1. req[r].op = "save" /\ u \in req[r].users
        BY <1>1 DEF FindKey
      <3>2. req'[r] = [req[r] EXCEPT !.todo = @ \ {u}, !.user = u, !.attached = TRUE]
        BY <2>1
      <3>3. req[r] \in ReqStates
        OBVIOUS
      <3>4. QED
        BY <3>1, <3>2, <3>3 DEF ReqStates
    <2>4. \A q \in Requests \ {r} : req'[q] = req[q] /\ pc'[q] = pc[q]
      BY <1>1, <2>1 DEF FindKey, TypeOK
    <2>5. /\ pc'[r] = "set" /\ req[r].op = "save"
          /\ disk' = disk /\ failed' = failed /\ cut' = cut /\ up' = up
      BY <1>1 DEF FindKey, TypeOK, file
    <2>6. QED
      BY <1>0, <2>2, <2>3, <2>4, <2>5, LoginQuiet
  <1>2. CASE SetValue(r)
    <2>1. req[r].op = "save" /\ req[r].user \in req[r].users
      BY <1>2 DEF SetValue
    <2>2. Given(mem', cut)
      <3>1. \A u \in Users : \/ mem'[u] = mem[u]
                             \/ u = req[r].user /\ mem'[u] = req[r].value
        BY <1>2 DEF SetValue
      <3>2. ASSUME NEW u \in Users, mem'[u] \in Passwords, mem'[u] # mem[u]
            PROVE  \E q \in Requests :
                      /\ req[q].op = "save" /\ u \in req[q].users
                      /\ req[q].value = mem'[u]
        BY <2>1, <3>1, <3>2
      <3>3. Given(mem, cut)
        OBVIOUS
      <3>4. QED
        BY <3>2, <3>3, GivenMore
    <2>3. req' = [req EXCEPT ![r] = [req[r] EXCEPT !.user = None, !.attached = FALSE]]
      BY <1>2 DEF SetValue
    <2>4. /\ req'[r].op = req[r].op /\ req'[r].users = req[r].users
          /\ req'[r].value = req[r].value /\ req'[r].todo = req[r].todo
          /\ req'[r].buf = req[r].buf
      BY <2>3 DEF ReqStates
    <2>5. \A q \in Requests \ {r} : req'[q] = req[q] /\ pc'[q] = pc[q]
      BY <1>2, <2>3 DEF SetValue, TypeOK
    <2>6. /\ pc'[r] = "edit"
          /\ disk' = disk /\ failed' = failed /\ cut' = cut /\ up' = up
      BY <1>2 DEF SetValue, TypeOK, file
    <2>7. QED
      BY <1>0, <2>2, <2>4, <2>5, <2>6, LoginQuiet
  <1>3. CASE DeleteKey(r)
    <2>1. PICK u \in req[r].todo :
             /\ mem' = [mem EXCEPT ![u] = Missing]
             /\ req' = [q \in Requests |->
                          IF q = r THEN [req[r] EXCEPT !.todo = @ \ {u}]
                          ELSE [req[q] EXCEPT !.attached = @ /\ req[q].user # u]]
      BY <1>3 DEF DeleteKey
    <2>2. Given(mem', cut)
      BY <2>1, FileStorageAssumption DEF Given
    <2>3. \A q \in Requests :
             /\ req'[q].op = req[q].op /\ req'[q].users = req[q].users
             /\ req'[q].value = req[q].value /\ req'[q].todo \subseteq req[q].todo
             /\ req'[q].buf = req[q].buf /\ req'[q].user = req[q].user
      BY <2>1 DEF ReqStates
    <2>4. pc' = pc /\ disk' = disk /\ failed' = failed /\ cut' = cut /\ up' = up
      BY <1>3 DEF DeleteKey, file
    <2>5. QED
      BY <2>2, <2>3, <2>4, LoginQuiet
  <1>4. CASE EndEdit(r)
    BY <1>0, <1>4, LoginQuiet DEF EndEdit, TypeOK, file
  <1>5. QED
    BY <1>1, <1>2, <1>3, <1>4

LEMMA LoginWrite ==
    ASSUME LoginInv, TypeOK', NEW r \in Requests,
           Lock(r) \/ Truncate(r) \/ WriteFile(r) \/ SaveFails(r)
    PROVE  LoginInv'
  <1> USE TypeParts DEF LoginInv
  <1>1. Given(Nobody, cut) /\ Given(Nobody, cut \/ failed)
    BY GivenNobody
  <1>2. Given(mem', cut') /\ Given(disk', cut' \/ failed')
    <2>1. mem' = mem /\ cut' = cut
      BY DEF Lock, Truncate, WriteFile, SaveFails
    <2>2. CASE Lock(r) \/ Truncate(r)
      BY <1>1, <2>1, <2>2 DEF Lock, Truncate, file
    <2>3. CASE WriteFile(r)
      <3>1. disk' = req[r].buf /\ failed' = FALSE
        BY <2>3 DEF WriteFile
      <3>2. (cut' \/ failed') = cut
        BY <2>1, <3>1 DEF TypeOK
      <3>3. QED
        BY <2>1, <3>1, <3>2
    <2>4. CASE SaveFails(r)
      <3>1. failed' = TRUE
        BY <2>4 DEF SaveFails
      <3>2. CASE UNCHANGED file
        <4>1. \A c : Given(disk, c) => Given(disk, TRUE)
          BY DEF Given
        <4>2. (cut' \/ failed') = TRUE
          BY <3>1
        <4>3. QED
          BY <2>1, <3>2, <4>1, <4>2 DEF file
      <3>3. CASE CutShort(r)
        <4>1. disk' \in Contents /\ Piece(disk', req[r].buf)
          BY <3>3 DEF CutShort
        <4>2. req[r].buf \in Contents /\ cut \in BOOLEAN /\ Given(req[r].buf, cut)
          BY DEF ReqStates, TypeOK
        <4>3. Given(disk', TRUE)
          BY <4>1, <4>2, GivenPiece
        <4>4. (cut' \/ failed') = TRUE
          BY <3>1
        <4>5. QED
          BY <2>1, <4>3, <4>4
      <3>4. QED
        BY <2>4, <3>2, <3>3 DEF SaveFails
    <2>5. QED
      BY <2>2, <2>3, <2>4
  <1>3. PICK f \in {mem, Nobody, req[r].buf} : req' = [req EXCEPT ![r].buf = f]
    <2>1. Truncate(r) => req' = [req EXCEPT ![r].buf = req[r].buf]
      BY DEF Truncate, ReqStates
    <2>2. QED
      BY <2>1 DEF Lock, WriteFile, SaveFails
  <1>4. Given(f, cut)
    BY <1>1
  <1>5. \A q \in Requests :
           /\ req'[q].op = req[q].op /\ req'[q].users = req[q].users
           /\ req'[q].value = req[q].value /\ req'[q].todo = req[q].todo
           /\ Given(req'[q].buf, cut) /\ req'[q].user = req[q].user
    BY <1>3, <1>4 DEF ReqStates
  <1>6. PICK l \in {"open", "write", "ok", "err"} : pc' = [pc EXCEPT ![r] = l]
    BY DEF Lock, Truncate, WriteFile, SaveFails
  <1>7. cut' = cut /\ up' = up /\ up
    BY DEF Lock, Truncate, WriteFile, SaveFails, Editing, Writing
  <1>8. QED
    BY <1>2, <1>5, <1>6, <1>7, LoginQuiet DEF TypeOK

(* A log-in succeeds with what somebody gave, and adds nothing but "".     *)
LEMMA LoginValidate ==
    ASSUME LoginInv, TypeOK', NEW r \in Requests, NEW u \in Users,
           NEW p \in Passwords \cup {Empty}, Validate(r, u, p)
    PROVE  LoginInv'
  <1> USE TypeParts DEF LoginInv
  <1>1. Given(mem', cut)
    <2>1. \A v \in Users : mem'[v] = mem[v] \/ mem'[v] = Empty
      BY DEF Validate, WithKey
    <2>2. \A v \in Users : mem'[v] \in Passwords => mem'[v] = mem[v]
      BY <2>1, FileStorageAssumption
    <2>3. Given(mem, cut)
      OBVIOUS
    <2>4. QED
      BY <2>2, <2>3, GivenMore
  <1>2. /\ req'[r].users = {u} /\ req'[r].value = p
        /\ req'[r].todo = {} /\ req'[r].buf = Nobody
    BY DEF Validate, NoReq
  <1>3. ASSUME pc'[r] = "yes"
        PROVE  \E q \in Requests : GivenBy(q, u, p)
    <2>1. Valid(mem'[u], p)
      BY <1>3 DEF Validate, TypeOK
    <2>2. p \in Passwords /\ mem'[u] = p
      BY <2>1, FileStorageAssumption DEF Valid
    <2>3. QED
      BY <2>2, <1>1, GivenTo
  <1>4. /\ pc[r] = "idle" /\ pc'[r] \in {"yes", "no"}
        /\ UNCHANGED <<file, failed, cut, up>> /\ up
        /\ \A q \in Requests \ {r} : req'[q] = req[q] /\ pc'[q] = pc[q]
    BY DEF Validate, TypeOK
  <1>5. pc'[r] = "yes" => \A v \in req'[r].users :
                             \E q \in Requests : GivenBy(q, v, req'[r].value)
    BY <1>2, <1>3
  <1>6. QED
    BY <1>1, <1>2, <1>4, <1>5, LoginStart

LEMMA LoginNext == LoginInv /\ [Next]_vars => LoginInv'
  <1> SUFFICES ASSUME LoginInv, [Next]_vars PROVE LoginInv'
    OBVIOUS
  <1> USE TypeParts
  <1>1. TypeOK /\ TypeOK'
    BY TypeNext DEF LoginInv
  <1>2. CASE UNCHANGED vars
    BY <1>1, <1>2 DEF vars, LoginInv, Given, GivenBy, OnlyUsersLogIn
  <1>3. CASE Crash
    <2>1. \A q \in Requests :
             /\ req'[q].op = req[q].op /\ req'[q].users = req[q].users
             /\ req'[q].value = req[q].value /\ req'[q].todo = req[q].todo
             /\ req'[q].buf = Nobody
      BY <1>1, <1>3 DEF Crash, ReqStates
    <2>2. \A q \in Requests :
             /\ pc'[q] \notin Editing \cup Writing
             /\ pc'[q] \in {"idle", "yes"} => pc[q] = pc'[q]
      BY <1>1, <1>3 DEF Crash, InFlight, Editing, Writing, TypeOK
    <2>3. mem' = Nobody /\ failed' = FALSE /\ (cut => cut') /\ cut' \in BOOLEAN
      BY <1>1, <1>3 DEF Crash, TypeOK
    <2>4. Given(disk', cut' \/ failed')
      <3>1. (cut' \/ failed') = cut'
        BY <2>3
      <3>2. CASE lock # None /\ pc[lock] = "write"
        <4>1. lock \in Requests /\ CutShort(lock)
          BY <1>1, <1>3, <3>2 DEF Crash
        <4>2. disk' \in Contents /\ Piece(disk', req[lock].buf)
          BY <4>1 DEF CutShort
        <4>3. /\ req[lock].buf \in Contents /\ cut \in BOOLEAN
              /\ Given(req[lock].buf, cut)
          BY <1>1, <4>1 DEF ReqStates, TypeOK, LoginInv
        <4>4. Given(disk', TRUE)
          BY <4>2, <4>3, GivenPiece
        <4>5. cut' = TRUE
          BY <1>3, <3>2, <4>1 DEF Crash
        <4>6. QED
          BY <3>1, <4>4, <4>5
      <3>3. CASE ~(lock # None /\ pc[lock] = "write")
        <4>1. disk' = disk
          BY <1>3, <3>3 DEF Crash, file
        <4>2. Given(disk, cut \/ failed) /\ (cut \/ failed => cut')
          BY <1>3 DEF Crash, LoginInv
        <4>3. Given(disk, cut')
          BY <4>2 DEF Given
        <4>4. QED
          BY <3>1, <4>1, <4>3
      <3>4. QED
        BY <3>2, <3>3
    <2>5. QED
      BY <1>1, <2>1, <2>2, <2>3, <2>4, GivenNobody, LoginQuiet, Zenon DEF LoginInv, Editing
  <1>7. CASE Restart
    <2>1. (cut \/ failed) = cut
      BY <1>1, <1>7 DEF Restart, LoginInv, TypeOK
    <2>2. Given(mem', cut') /\ Given(disk', cut' \/ failed')
      BY <1>7, <2>1 DEF Restart, LoginInv, file
    <2>3. QED
      BY <1>1, <1>7, <2>2, LoginQuiet DEF Restart, LoginInv, file
  <1>4. ASSUME NEW r \in Requests, NEW S \in SUBSET Users, NEW v \in Passwords,
               StartSave(r, S, v)
        PROVE  LoginInv'
    <2>1. /\ req'[r].users = S /\ req'[r].todo = S /\ req'[r].buf = Nobody
          /\ pc[r] = "idle" /\ pc'[r] = "edit" /\ mem' = mem
          /\ UNCHANGED <<file, failed, cut, up>> /\ up
          /\ \A q \in Requests \ {r} : req'[q] = req[q] /\ pc'[q] = pc[q]
      BY <1>1, <1>4 DEF StartSave, NoReq, TypeOK
    <2>2. QED
      BY <1>1, <2>1, LoginStart DEF LoginInv
  <1>5. ASSUME NEW r \in Requests, NEW S \in SUBSET Users, StartDelete(r, S)
        PROVE  LoginInv'
    <2>1. /\ req'[r].users = S /\ req'[r].todo = S /\ req'[r].buf = Nobody
          /\ pc[r] = "idle" /\ pc'[r] = "edit" /\ mem' = mem
          /\ UNCHANGED <<file, failed, cut, up>> /\ up
          /\ \A q \in Requests \ {r} : req'[q] = req[q] /\ pc'[q] = pc[q]
      BY <1>1, <1>5 DEF StartDelete, NoReq, TypeOK
    <2>2. QED
      BY <1>1, <2>1, LoginStart DEF LoginInv
  <1>6. QED
    BY <1>1, <1>2, <1>3, <1>7, <1>4, <1>5, LoginEdit, LoginWrite, LoginValidate
    DEF Next, Save, Delete, SaveToFile

(* Who logs in was created with that password, or with one it begins once  *)
(* the process has ended on a file not written whole, whatever saves,      *)
(* deletes, log-ins that add keys, failing writes and restarts went before.*)
THEOREM LoginCorrect == Spec => []OnlyUsersLogIn
  <1>1. LoginInv => OnlyUsersLogIn
    BY DEF LoginInv
  <1>2. QED
    BY <1>1, LoginInit, LoginNext, PTL DEF Spec

-----------------------------------------------------------------------------
(* How far a save that is alone with its users has come: keys are set one  *)
(* after another, the snapshot has all of them, and so has every snapshot  *)
(* taken after the answer.                                                 *)
SetSoFar(r) == IF pc[r] = "set" THEN req[r].users \ (req[r].todo \cup {req[r].user})
               ELSE req[r].users \ req[r].todo
Holds(r, f) == \A u \in req[r].users : f[u] = req[r].value

SaveInv(r) ==
    /\ req[r].value \in Passwords
    /\ pc[r] \in {"edit", "set"} =>
          \A u \in SetSoFar(r) : mem[u] = req[r].value
    /\ pc[r] = "set" => req[r].attached
    /\ pc[r] \in {"lock"} \cup Writing \/ (pc[r] = "ok" /\ up) => Holds(r, mem)
    /\ pc[r] \in Writing => Holds(r, req[r].buf)
    /\ pc[r] = "ok" =>
          /\ \A q \in Requests : pc[q] \in Writing => Holds(r, req[q].buf)
          /\ (Holds(r, disk) /\ ~bad) \/ failed \/ \E q \in Requests : pc[q] = "write"

Editor(r) == req[r].op \in {"save", "delete"}

StoredInv ==
    /\ LoginInv
    /\ \A r \in Requests :
          /\ pc[r] \in Editing \cup Writing => Editor(r)
          /\ req[r].op = "save" /\ Alone(r) /\ ~cut => SaveInv(r)

LEMMA StoredInit == Init => StoredInv
  BY LoginInit DEF Init, StoredInv, NoReq, Editing, Writing

(* Requests never change what they are about, so that one which is alone   *)
(* with its users has been alone from the start.                           *)
LEMMA AloneBefore ==
    ASSUME NEW r \in Requests,
           \A q \in Requests : Editor(q) =>
               req'[q].op = req[q].op /\ req'[q].users = req[q].users,
           req'[r].users = req[r].users,
           Alone(r)'
    PROVE  Alone(r)
  BY DEF Alone, Editor

(* What a step of a request does to all others: nothing but detach a key   *)
(* it deletes, and only for its own users does it change what is in memory,*)
(* except that a missing key may appear.                                   *)
Step(s) ==
    \/ \E S \in SUBSET Users, v \in Passwords : StartSave(s, S, v)
    \/ \E S \in SUBSET Users : StartDelete(s, S)
    \/ FindKey(s) \/ SetValue(s) \/ DeleteKey(s) \/ EndEdit(s)
    \/ Lock(s) \/ Truncate(s) \/ WriteFile(s) \/ SaveFails(s)
    \/ \E u \in Users, p \in Passwords \cup {Empty} : Validate(s, u, p)

LEMMA StepOfOne ==
    ASSUME LoginInv, NEW s \in Requests, Step(s)
    PROVE  /\ \A q \in Requests \ {s} :
                 /\ pc'[q] = pc[q]
                 /\ req'[q] \in ReqStates /\ req[q] \in ReqStates
                 /\ req'[q].op = req[q].op /\ req'[q].users = req[q].users
                 /\ req'[q].value = req[q].value /\ req'[q].todo = req[q].todo
                 /\ req'[q].user = req[q].user /\ req'[q].buf = req[q].buf
                 /\ req[q].user \notin req[s].users => req'[q].attached = req[q].attached
           /\ cut' = cut
  <1> USE TypeParts DEF LoginInv
  <1>1. cut' = cut
    BY DEF Step, StartSave, StartDelete, FindKey, SetValue, DeleteKey, EndEdit,
           Lock, Truncate, WriteFile, SaveFails, Validate
  <1>2. CASE DeleteKey(s)
    <2>1. PICK u \in req[s].todo :
             req' = [q \in Requests |->
                          IF q = s THEN [req[s] EXCEPT !.todo = @ \ {u}]
                          ELSE [req[q] EXCEPT !.attached = @ /\ req[q].user # u]]
      BY <1>2 DEF DeleteKey
    <2>2. ASSUME NEW q \in Requests \ {s}
          PROVE  /\ req'[q] \in ReqStates
                 /\ req'[q].op = req[q].op /\ req'[q].users = req[q].users
                 /\ req'[q].value = req[q].value /\ req'[q].todo = req[q].todo
                 /\ req'[q].user = req[q].user /\ req'[q].buf = req[q].buf
                 /\ req'[q].attached = (req[q].attached /\ req[q].user # u)
      <3>1. req'[q] = [req[q] EXCEPT !.attached = @ /\ req[q].user # u]
        BY <2>1
      <3>2. req[q] \in ReqStates /\ (req[q].attached /\ req[q].user # u) \in BOOLEAN
        BY DEF ReqStates
      <3>3. QED
        BY <3>1, <3>2 DEF ReqStates
    <2>3. u \in req[s].users
      OBVIOUS
    <2>4. ASSUME NEW q \in Requests \ {s}, req[q].user \notin req[s].users
          PROVE  req'[q].attached = req[q].attached
      <3>1. req[q].user # u /\ req[q].attached \in BOOLEAN
        BY <2>3, <2>4 DEF ReqStates
      <3>2. QED
        BY <3>1, <2>2
    <2>5. pc' = pc
      BY <1>2 DEF DeleteKey
    <2>6. QED
      BY <1>1, <2>2, <2>4, <2>5
  <1>3. CASE ~DeleteKey(s)
    <2>1. \A q \in Requests \ {s} : pc'[q] = pc[q] /\ req'[q] = req[q]
      BY <1>3 DEF Step, StartSave, StartDelete, FindKey, SetValue, EndEdit,
                  Lock, Truncate, WriteFile, SaveFails, Validate, TypeOK
    <2>2. QED
      BY <1>1, <2>1
  <1>4. QED
    BY <1>2, <1>3

(* The request itself goes on being what it is.                            *)
LEMMA StepOfSelf ==
    ASSUME LoginInv, NEW s \in Requests, Step(s)
    PROVE  /\ Editor(s) => /\ req'[s].op = req[s].op
                           /\ req'[s].users = req[s].users
                           /\ req'[s].value = req[s].value
           /\ pc'[s] \in Editing \cup Writing /\ pc[s] # "idle" =>
                 pc[s] \in Editing \cup Writing /\ req'[s].op = req[s].op
           /\ pc[s] = "idle" /\ pc'[s] \in Editing \cup Writing =>
                 req'[s].op \in {"save", "delete"}
  <1> USE TypeParts DEF LoginInv
  <1>1. CASE pc[s] = "idle"
    <2>1. ~Editor(s)
      BY <1>1 DEF Editor
    <2>2. ASSUME NEW S \in SUBSET Users, NEW v \in Passwords, StartSave(s, S, v)
          PROVE  req'[s].op = "save"
      BY <2>2 DEF StartSave, NoReq
    <2>3. ASSUME NEW S \in SUBSET Users, StartDelete(s, S)
          PROVE  req'[s].op = "delete"
      BY <2>3 DEF StartDelete, NoReq
    <2>4. ASSUME NEW u \in Users, NEW p \in Passwords \cup {Empty}, Validate(s, u, p)
          PROVE  pc'[s] \notin Editing \cup Writing
      BY <2>4 DEF Validate, Editing, Writing, TypeOK
    <2>5. ~(FindKey(s) \/ SetValue(s) \/ DeleteKey(s) \/ EndEdit(s)
            \/ Lock(s) \/ Truncate(s) \/ WriteFile(s) \/ SaveFails(s))
      BY <1>1 DEF FindKey, SetValue, DeleteKey, EndEdit, Lock, Truncate,
                  WriteFile, SaveFails, Writing
    <2>6. QED
      BY <1>1, <2>1, <2>2, <2>3, <2>4, <2>5 DEF Step
  <1>2. CASE pc[s] # "idle"
    <2>1. FindKey(s) \/ SetValue(s) \/ DeleteKey(s) \/ EndEdit(s)
            \/ Lock(s) \/ Truncate(s) \/ WriteFile(s) \/ SaveFails(s)
      BY <1>2 DEF Step, StartSave, StartDelete, Validate
    <2>2. pc[s] \in Editing \cup Writing
      BY <2>1 DEF FindKey, SetValue, DeleteKey, EndEdit, Lock, Truncate,
                  WriteFile, SaveFails, Editing, Writing
    <2>3. req[s] \in ReqStates
      OBVIOUS
    <2>4. /\ req'[s].op = req[s].op /\ req'[s].users = req[s].users
          /\ req'[s].value = req[s].value
      <3>1. CASE FindKey(s)
        <4>1. PICK u \in req[s].todo :
                 req'[s] = [req[s] EXCEPT !.todo = @ \ {u}, !.user = u,
                                          !.attached = TRUE]
          BY <3>1 DEF FindKey
        <4>2. QED
          BY <2>3, <4>1 DEF ReqStates
      <3>2. CASE DeleteKey(s)
        <4>1. PICK u \in req[s].todo : req'[s] = [req[s] EXCEPT !.todo = @ \ {u}]
          BY <3>2 DEF DeleteKey
        <4>2. QED
          BY <2>3, <4>1 DEF ReqStates
      <3>3. CASE SetValue(s)
        BY <2>3, <3>3 DEF SetValue, ReqStates
      <3>4. CASE EndEdit(s) \/ Lock(s) \/ Truncate(s) \/ WriteFile(s) \/ SaveFails(s)
        BY <2>3, <3>4 DEF EndEdit, Lock, Truncate, WriteFile, SaveFails, ReqStates
      <3>5. QED
        BY <2>1, <3>1, <3>2, <3>3, <3>4
    <2>5. QED
      BY <1>2, <2>2, <2>4
  <1>3. QED
    BY <1>1, <1>2

(* A save that is alone is not disturbed by other requests ...             *)
LEMMA SaveOther ==
    ASSUME StoredInv, NEW r \in Requests, NEW s \in Requests \ {r}, Step(s),
           req[r].op = "save", SaveInv(r),
           Editor(s)' => req[s]'.users \cap req[r].users = {}
    PROVE  SaveInv(r)'
  <1> USE TypeParts DEF StoredInv, LoginInv
  <1>1. /\ pc'[r] = pc[r]
        /\ req'[r].users = req[r].users /\ req'[r].value = req[r].value
        /\ req'[r].todo = req[r].todo /\ req'[r].user = req[r].user
        /\ req'[r].buf = req[r].buf
        /\ req[r].user \notin req[s].users => req'[r].attached = req[r].attached
        /\ \A q \in Requests \ {s} : pc'[q] = pc[q] /\ req'[q].buf = req[q].buf
    BY StepOfOne
  <1>2. Editor(s) => req[s].users \cap req[r].users = {}
    BY StepOfSelf DEF Editor
  <1>3. pc[r] = "set" => req'[r].attached = req[r].attached
    <2> SUFFICES ASSUME pc[r] = "set" PROVE req[r].user \notin req[s].users \/ ~Editor(s)
      <3>1. CASE Editor(s)
        BY <1>1, <3>1
      <3>2. CASE ~Editor(s)
        <4>1. ~DeleteKey(s)
          BY <3>2 DEF DeleteKey, Editor
        <4>2. req'[r] = req[r]
          BY <4>1, <3>2 DEF Step, StartSave, StartDelete, FindKey, SetValue, EndEdit,
                  Lock, Truncate, WriteFile, SaveFails, Validate, TypeOK
        <4>3. QED
          BY <4>2
      <3>3. QED
        BY <3>1, <3>2
    <2>1. QED
      BY <1>2
  <1>4. ASSUME NEW u \in req[r].users, mem[u] = req[r].value
        PROVE  mem'[u] = req[r].value
    <2>1. u \in Users /\ mem[u] # Missing
      BY <1>4, FileStorageAssumption DEF SaveInv, ReqStates
    <2>2. CASE SetValue(s)
      <3>1. Editor(s) /\ req[s].user \in req[s].users
        BY <2>2 DEF SetValue, Editor
      <3>2. u # req[s].user
        BY <3>1, <1>2
      <3>3. QED
        BY <2>2, <3>2, <2>1, <1>4 DEF SetValue
    <2>3. CASE DeleteKey(s)
      <3>1. Editor(s)
        BY <2>3 DEF DeleteKey, Editor
      <3>2. u \notin req[s].todo
        BY <3>1, <1>2
      <3>3. QED
        BY <2>3, <3>2, <2>1, <1>4 DEF DeleteKey
    <2>4. CASE ~SetValue(s) /\ ~DeleteKey(s)
      <3>1. mem' = mem \/ \E x \in Users : mem' = WithKey(x)
        BY <2>4 DEF Step, StartSave, StartDelete, FindKey, EndEdit, Lock, Truncate,
                    WriteFile, SaveFails, Validate, ReqStates
      <3>2. QED
        BY <3>1, <2>1, <1>4 DEF WithKey
    <2>5. QED
      BY <2>2, <2>3, <2>4
  <1>5. Holds(r, mem) => Holds(r, mem)'
    BY <1>1, <1>4 DEF Holds
  <1>6. pc[r] = "ok" =>
          /\ \A q \in Requests : pc'[q] \in Writing => Holds(r, req'[q].buf)
          /\ (Holds(r, disk') /\ ~bad') \/ failed' \/ \E q \in Requests : pc'[q] = "write"
    <2> SUFFICES ASSUME pc[r] = "ok"
                 PROVE  /\ \A q \in Requests : pc'[q] \in Writing => Holds(r, req'[q].buf)
                        /\ (Holds(r, disk') /\ ~bad') \/ failed' \/ \E q \in Requests : pc'[q] = "write"
      OBVIOUS
    <2>1. /\ up => Holds(r, mem)
          /\ \A q \in Requests : pc[q] \in Writing => Holds(r, req[q].buf)
      BY DEF SaveInv
    <2>2. (Holds(r, disk) /\ ~bad) \/ failed \/ \E q \in Requests : pc[q] = "write"
      BY DEF SaveInv
    <2>3. CASE Lock(s)
      <3>1. disk' = disk /\ bad' = bad /\ failed' = failed /\ req'[s].buf = mem
        BY <2>3 DEF Lock, ReqStates, file
      <3>2. pc[s] # "write" /\ up
        BY <2>3 DEF Lock, Editing
      <3>3. QED
        BY <2>1, <2>2, <3>1, <3>2, <1>1
    <2>4. CASE Truncate(s)
      <3>1. pc[s] \in Writing /\ req' = req /\ pc'[s] = "write"
        BY <2>4 DEF Truncate, Writing, TypeOK
      <3>2. QED
        BY <2>1, <3>1, <1>1
    <2>5. CASE WriteFile(s)
      <3>1. pc[s] \in Writing /\ disk' = req[s].buf /\ bad' = FALSE /\ pc'[s] \notin Writing
        BY <2>5 DEF WriteFile, Writing, TypeOK
      <3>2. QED
        BY <2>1, <3>1, <1>1
    <2>6. CASE SaveFails(s)
      <3>1. failed' = TRUE /\ pc'[s] \notin Writing
        BY <2>6 DEF SaveFails, Writing, TypeOK
      <3>2. QED
        BY <2>1, <3>1, <1>1
    <2>7. CASE ~(Lock(s) \/ Truncate(s) \/ WriteFile(s) \/ SaveFails(s))
      <3>1. /\ disk' = disk /\ bad' = bad /\ failed' = failed
            /\ pc[s] # "write" /\ pc'[s] \notin Writing
        BY <2>7 DEF Step, StartSave, StartDelete, FindKey, SetValue, DeleteKey,
                    EndEdit, Validate, Writing, TypeOK, file
      <3>2. QED
        BY <2>1, <2>2, <3>1, <1>1
    <2>8. QED
      BY <2>3, <2>4, <2>5, <2>6, <2>7
  <1>8. up' = up
    BY DEF Step, StartSave, StartDelete, FindKey, SetValue, DeleteKey, EndEdit,
           Lock, Truncate, WriteFile, SaveFails, Validate
  <1>7. QED
    <2>1. SetSoFar(r)' = SetSoFar(r)
      BY <1>1 DEF SetSoFar
    <2>2. SetSoFar(r) \subseteq req[r].users
      BY DEF SetSoFar
    <2>3. \A f : Holds(r, f) => \A u \in req'[r].users : f[u] = req'[r].value
      BY <1>1 DEF Holds
    <2>4. pc[r] \in {"edit", "set"} => \A u \in SetSoFar(r)' : mem'[u] = req'[r].value
      BY <1>1, <1>4, <2>1, <2>2 DEF SaveInv
    <2>5. pc[r] \in Writing => Holds(r, req[r].buf)'
      BY <1>1 DEF SaveInv, Holds
    <2>6. pc[r] = "ok" =>
             /\ \A q \in Requests : pc'[q] \in Writing => Holds(r, req[q].buf)'
             /\ (Holds(r, disk) /\ ~bad)' \/ failed' \/ \E q \in Requests : pc'[q] = "write"
      BY <1>6, <1>1 DEF Holds
    <2>7. QED
      BY <1>1, <1>3, <1>5, <1>8, <2>4, <2>5, <2>6 DEF SaveInv

(* ... and takes its own steps one after another.                          *)
LEMMA SaveSelf ==
    ASSUME StoredInv, NEW r \in Requests, Step(r), req'[r].op = "save",
           req[r].op = "save" => SaveInv(r)
    PROVE  SaveInv(r)'
  <1> USE TypeParts DEF StoredInv, LoginInv
  <1>1. CASE pc[r] = "idle"
    <2>1. ASSUME NEW S \in SUBSET Users, NEW v \in Passwords, StartSave(r, S, v)
          PROVE  SaveInv(r)'
      <3>1. /\ req'[r].users = S /\ req'[r].todo = S /\ req'[r].value = v
            /\ pc'[r] = "edit"
        BY <2>1 DEF StartSave, NoReq, TypeOK
      <3>2. SetSoFar(r)' = {}
        BY <3>1 DEF SetSoFar
      <3>3. QED
        BY <3>1, <3>2 DEF SaveInv, Writing
    <2>2. ASSUME NEW S \in SUBSET Users, StartDelete(r, S) PROVE FALSE
      BY <2>2 DEF StartDelete, NoReq
    <2>3. ASSUME NEW u \in Users, NEW p \in Passwords \cup {Empty}, Validate(r, u, p)
          PROVE  FALSE
      BY <2>3 DEF Validate, NoReq
    <2>4. QED
      BY <1>1, <2>1, <2>2, <2>3
      DEF Step, FindKey, SetValue, DeleteKey, EndEdit, Lock, Truncate, WriteFile,
          SaveFails, Writing
  <1>2. CASE pc[r] # "idle"
    <2>1. FindKey(r) \/ SetValue(r) \/ DeleteKey(r) \/ EndEdit(r)
            \/ Lock(r) \/ Truncate(r) \/ WriteFile(r) \/ SaveFails(r)
      BY <1>2 DEF Step, StartSave, StartDelete, Validate
    <2>2. Editor(r)
      BY <2>1 DEF FindKey, SetValue, DeleteKey, EndEdit, Lock, Truncate,
                  WriteFile, SaveFails, Editing, Writing
    <2>3. /\ req[r].op = "save" /\ req'[r].users = req[r].users
          /\ req'[r].value = req[r].value
      BY <2>2, StepOfSelf
    <2>4. SaveInv(r) /\ req[r] \in ReqStates
      BY <2>3
    <2>5. CASE FindKey(r)
      <3>1. PICK u \in req[r].todo :
               /\ mem' = WithKey(u)
               /\ req'[r] = [req[r] EXCEPT !.todo = @ \ {u}, !.user = u,
                                        !.attached = TRUE]
        BY <2>5 DEF FindKey
      <3>2. pc[r] = "edit" /\ pc'[r] = "set"
        BY <2>5 DEF FindKey, TypeOK
      <3>3. /\ req'[r].todo = req[r].todo \ {u} /\ req'[r].user = u
            /\ req'[r].attached = TRUE
        BY <2>4, <3>1 DEF ReqStates
      <3>4. SetSoFar(r)' = SetSoFar(r)
        BY <2>3, <3>2, <3>3 DEF SetSoFar
      <3>5. \A x \in SetSoFar(r) : mem'[x] = req[r].value
        <4>1. \A x \in SetSoFar(r) : mem[x] = req[r].value /\ x \in Users
          BY <2>4, <3>2 DEF SaveInv, SetSoFar, ReqStates
        <4>2. req[r].value # Missing
          BY <2>4, FileStorageAssumption DEF SaveInv
        <4>3. QED
          BY <3>1, <4>1, <4>2 DEF WithKey
      <3>6. QED
        BY <2>3, <2>4, <3>2, <3>3, <3>4, <3>5 DEF SaveInv, Writing
    <2>6. CASE SetValue(r)
      <3>1. /\ pc[r] = "set" /\ pc'[r] = "edit" /\ req[r].attached
            /\ mem' = [mem EXCEPT ![req[r].user] = req[r].value]
        BY <2>4, <2>6 DEF SetValue, SaveInv, TypeOK
      <3>2. req'[r].todo = req[r].todo
        BY <2>4, <2>6 DEF SetValue, ReqStates
      <3>3. SetSoFar(r)' \subseteq SetSoFar(r) \cup {req[r].user}
        BY <2>3, <3>1, <3>2 DEF SetSoFar
      <3>4. \A x \in SetSoFar(r) : mem[x] = req[r].value /\ x \in Users
        BY <2>4, <3>1 DEF SaveInv, SetSoFar, ReqStates
      <3>5. req[r].user \in Users
        BY <2>4, <3>1 DEF ReqStates
      <3>6. \A x \in SetSoFar(r)' : mem'[x] = req[r].value
        BY <3>1, <3>3, <3>4, <3>5
      <3>7. QED
        BY <2>3, <2>4, <3>1, <3>6 DEF SaveInv, Writing
    <2>7. CASE DeleteKey(r)
      BY <2>3, <2>7 DEF DeleteKey
    <2>8. CASE EndEdit(r)
      <3>1. pc[r] = "edit" /\ req[r].todo = {} /\ pc'[r] = "lock" /\ mem' = mem
        BY <2>8 DEF EndEdit, TypeOK
      <3>2. Holds(r, mem)
        BY <2>4, <3>1 DEF SaveInv, SetSoFar, Holds
      <3>3. QED
        BY <2>3, <2>4, <3>1, <3>2 DEF SaveInv, Holds, Writing
    <2>9. CASE Lock(r)
      <3>1. /\ pc[r] = "lock" /\ pc'[r] = "open" /\ mem' = mem
            /\ req'[r].buf = mem
        BY <2>4, <2>9 DEF Lock, TypeOK, ReqStates
      <3>2. QED
        BY <2>3, <2>4, <3>1 DEF SaveInv, Holds, Writing
    <2>10. CASE Truncate(r)
      <3>1. pc[r] = "open" /\ pc'[r] = "write" /\ mem' = mem /\ req' = req
        BY <2>10 DEF Truncate, TypeOK
      <3>2. QED
        BY <2>3, <2>4, <3>1 DEF SaveInv, Holds, Writing
    <2>11. CASE WriteFile(r)
      <3>1. /\ pc[r] = "write" /\ pc'[r] = "ok" /\ mem' = mem
            /\ disk' = req[r].buf /\ bad' = FALSE
        BY <2>11 DEF WriteFile, TypeOK
      <3>2. \A q \in Requests : pc'[q] \notin Writing
        BY <2>11, <3>1 DEF WriteFile, Writing, TypeOK
      <3>3. QED
        BY <2>3, <2>4, <3>1, <3>2 DEF SaveInv, Holds, Writing
    <2>12. CASE SaveFails(r)
      <3>1. pc'[r] = "err"
        BY <2>12 DEF SaveFails, TypeOK
      <3>2. QED
        BY <2>3, <2>4, <3>1 DEF SaveInv, Writing
    <2>13. QED
      BY <2>1, <2>5, <2>6, <2>7, <2>8, <2>9, <2>10, <2>11, <2>12
  <1>3. QED
    BY <1>1, <1>2

(* A process that ends leaves the file alone unless it was writing it, and *)
(* a start reads what the file holds, which without a failed write or one  *)
(* cut short is what the last answer promised.                             *)
LEMMA SaveRestart ==
    ASSUME StoredInv, NEW r \in Requests, Crash \/ Restart, SaveInv(r), ~cut'
    PROVE  SaveInv(r)'
  <1> USE TypeParts DEF StoredInv, LoginInv
  <1>1. ~failed /\ \A q \in Requests : pc[q] # "write"
    BY DEF Crash, Restart, Editing, Writing
  <1>2. \A q \in Requests : pc'[q] \notin Editing \cup Writing
    BY DEF Crash, Restart, InFlight, Editing, Writing, TypeOK
  <1>3. /\ req'[r].users = req[r].users /\ req'[r].value = req[r].value
        /\ up' => mem' = disk
        /\ pc'[r] = "ok" => pc[r] = "ok"
    <2>1. CASE Crash
      <3>1. req'[r] = [req[r] EXCEPT !.buf = Nobody, !.user = None, !.attached = FALSE]
        BY <2>1 DEF Crash
      <3>2. req'[r].users = req[r].users /\ req'[r].value = req[r].value
        BY <3>1 DEF ReqStates
      <3>3. ~up' /\ (pc'[r] = "ok" => pc[r] = "ok")
        BY <2>1 DEF Crash
      <3>4. QED
        BY <3>2, <3>3
    <2>2. CASE Restart
      BY <2>2 DEF Restart
    <2>3. QED
      BY <2>1, <2>2
  <1>4. disk' = disk /\ bad' = bad
    <2>1. lock # None => pc[lock] # "write"
      BY <1>1
    <2>2. QED
      BY <2>1 DEF Crash, Restart, file
  <1>5. pc'[r] = "ok" => Holds(r, disk) /\ ~bad
    BY <1>1, <1>3 DEF SaveInv
  <1>6. QED
    BY <1>2, <1>3, <1>4, <1>5 DEF SaveInv, Holds, Editing, Writing

LEMMA StoredStep ==
    ASSUME StoredInv, NEW s \in Requests, Step(s), LoginInv'
    PROVE  StoredInv'
  <1>1. ASSUME NEW r \in Requests, pc'[r] \in Editing \cup Writing
        PROVE  Editor(r)'
    <2>1. CASE r = s
      <3>1. CASE pc[s] = "idle"
        BY <2>1, <1>1, <3>1, StepOfSelf DEF StoredInv, Editor
      <3>2. CASE pc[s] # "idle"
        BY <2>1, <1>1, <3>2, StepOfSelf DEF StoredInv, Editor
      <3>3. QED
        BY <3>1, <3>2
    <2>2. CASE r # s
      BY <2>2, <1>1, StepOfOne DEF StoredInv, Editor
    <2>3. QED
      BY <2>1, <2>2
  <1>2. ASSUME NEW r \in Requests, req'[r].op = "save", Alone(r)', ~cut'
        PROVE  SaveInv(r)'
    <2>1. ~cut
      BY <1>2, StepOfOne DEF StoredInv
    <2>2. \A q \in Requests : Editor(q) =>
             req'[q].op = req[q].op /\ req'[q].users = req[q].users
      BY StepOfOne, StepOfSelf DEF StoredInv
    <2>3. CASE r = s
      <3>1. req[r].op = "save" => SaveInv(r)
        <4> SUFFICES ASSUME req[r].op = "save" PROVE SaveInv(r)
          OBVIOUS
        <4>1. req'[r].users = req[r].users
          BY <2>2 DEF Editor
        <4>2. QED
          BY <1>2, <2>1, <2>2, <4>1, AloneBefore DEF StoredInv
      <3>2. QED
        BY <1>2, <2>3, <3>1, SaveSelf
    <2>4. CASE r # s
      <3>1. req[r].op = "save" /\ req'[r].users = req[r].users
        BY <1>2, <2>4, StepOfOne DEF StoredInv
      <3>2. Alone(r)
        BY <1>2, <2>2, <3>1, AloneBefore
      <3>3. SaveInv(r)
        BY <2>1, <3>1, <3>2 DEF StoredInv
      <3>4. Editor(s)' => req[s]'.users \cap req[r].users = {}
        BY <1>2, <2>4, <3>1 DEF Alone, Editor
      <3>5. QED
        BY <2>4, <3>1, <3>3, <3>4, SaveOther
    <2>5. QED
      BY <2>3, <2>4
  <1>3. QED
    BY <1>1, <1>2 DEF StoredInv

LEMMA StoredNext == StoredInv /\ [Next]_vars => StoredInv'
  <1> SUFFICES ASSUME StoredInv, [Next]_vars PROVE StoredInv'
    OBVIOUS
  <1>1. LoginInv /\ LoginInv'
    BY LoginNext DEF StoredInv
  <1>2. CASE UNCHANGED vars
    BY <1>1, <1>2
    DEF vars, StoredInv, SaveInv, Alone, SetSoFar, Holds, Editor, Writing
  <1>3. CASE Crash \/ Restart
    <2>1. \A q \in Requests :
             /\ req'[q].op = req[q].op /\ req'[q].users = req[q].users
             /\ pc'[q] \notin Editing \cup Writing
      <3>1. TypeOK /\ req \in [Requests -> ReqStates]
        BY <1>1, TypeParts DEF LoginInv
      <3>2. \A q \in Requests :
               req'[q].op = req[q].op /\ req'[q].users = req[q].users
        BY <1>3, <3>1 DEF Crash, Restart, ReqStates
      <3>3. \A q \in Requests : pc'[q] \notin Editing \cup Writing
        BY <1>1, <1>3, <3>1 DEF Crash, Restart, LoginInv, InFlight, Editing, Writing, TypeOK
      <3>4. QED
        BY <3>2, <3>3
    <2>2. ~cut' => ~cut
      BY <1>3 DEF Crash, Restart
    <2>3. ASSUME NEW r \in Requests, req'[r].op = "save", Alone(r)', ~cut'
          PROVE  SaveInv(r)'
      <3>1. Alone(r)
        BY <2>1, <2>3, AloneBefore
      <3>2. SaveInv(r)
        BY <2>1, <2>2, <2>3, <3>1 DEF StoredInv
      <3>3. QED
        BY <1>3, <2>3, <3>2, SaveRestart
    <2>4. QED
      BY <1>1, <2>1, <2>3 DEF StoredInv
  <1>4. ASSUME NEW s \in Requests,
               \/ Save(s) \/ Delete(s) \/ SaveToFile(s)
               \/ \E u \in Users, p \in Passwords \cup {Empty} : Validate(s, u, p)
        PROVE  StoredInv'
    <2>1. Step(s)
      BY <1>4 DEF Step, Save, Delete, SaveToFile
    <2>2. QED
      BY <1>1, <2>1, StoredStep
  <1>5. QED
    BY <1>2, <1>3, <1>4 DEF Next

(* A user whom one request created and no other touched is there after the *)
(* answer, in memory and in a file that parses, however the edits and the  *)
(* writes of others interleave with it, until a rewrite of the file is cut *)
(* short.                                                                  *)
THEOREM StoredCorrect == Spec => []SavedIsStored
  <1>1. StoredInv => SavedIsStored
    BY DEF StoredInv, SaveInv, SavedIsStored, Holds, Stored
  <1>2. QED
    BY <1>1, StoredInit, StoredNext, PTL DEF Spec
=============================================================================
