-------------------------- MODULE UserEnginesProofs --------------------------
(***************************************************************************)
(* Theorems about UserEngines, for any users, chains and requests:         *)
(* TypeCorrect, OneServiceCorrect, LoadsCorrect, RegisteredCorrect and     *)
(* RestartCorrect.                                                         *)
(***************************************************************************)
EXTENDS UserEngines, TLAPS

-----------------------------------------------------------------------------
(* Type correctness.                                                       *)

LEMMA UserType ==
    ASSUME TypeOK, NEW r \in Reqs, pc[r] # "idle"
    PROVE  /\ task[r] \in Tasks /\ User(r) \in Users \cup {Anon}
           /\ User(r) \in Names /\ Dir(User(r)) \in Users \cup {Phantom}
           /\ task[r].chain \in Chains
  <1>1. task[r] \in Tasks
    BY DEF TypeOK
  <1>2. task[r].user \in Users \cup {Anon} /\ task[r].chain \in Chains
    BY <1>1, UserEnginesAssumption DEF Tasks
  <1>3. QED
    BY <1>1, <1>2, UserEnginesAssumption DEF User, AuthProcess, Dir, Names

(* A step that takes one request on and leaves it a service if it needs one*)
LEMMA MoveType ==
    ASSUME TypeOK, NEW r \in Reqs, pc[r] # "idle",
           NEW l \in {"lookup", "init", "publish", "pool", "file", "write", "run",
                      "ok", "err", "notfound"}, Goto(r, l),
           up' = up, task' = task, raced' \subseteq Names,
           dirs' \subseteq Users \cup {Phantom},
           files' \in [Names -> [Chains -> FileStates]],
           unsaved' \in [Names -> SUBSET Chains], hurt' \subseteq Names \X Chains,
           acked' \in [Names -> SUBSET Chains],
           pool' \in [Names -> Services \cup {None}],
           chains' \in [Services -> SUBSET Chains],
           svc' \in [Reqs -> Services \cup {None}],
           \A q \in Reqs \ {r} : svc'[q] = svc[q],
           l \in {"publish", "pool", "file", "write", "run"} => svc'[r] # None
    PROVE  TypeOK'
  BY DEF TypeOK, Goto

(* What a file becomes concerns no other file.                             *)
LEMMA PutOne ==
    ASSUME TypeOK, NEW r \in Reqs, pc[r] # "idle", NEW f \in FileStates,
           PutFile(r, f)
    PROVE  /\ files' \in [Names -> [Chains -> FileStates]]
           /\ \A u \in Names \ {User(r)} : files'[u] = files[u]
           /\ \A c \in Chains \ {task[r].chain} :
                 files'[User(r)][c] = files[User(r)][c]
           /\ files'[User(r)][task[r].chain] = f
  <1>1. /\ User(r) \in Names /\ task[r].chain \in Chains
        /\ files \in [Names -> [Chains -> FileStates]]
    BY UserType DEF TypeOK
  <1>2. [files[User(r)] EXCEPT ![task[r].chain] = f] \in [Chains -> FileStates]
    BY <1>1
  <1>3. files' = [files EXCEPT ![User(r)] = [files[User(r)] EXCEPT ![task[r].chain] = f]]
    BY DEF PutFile
  <1>4. QED
    BY <1>1, <1>2, <1>3

(* Putting a chain's file adds the chain to those with one.                *)
LEMMA PutStored ==
    ASSUME TypeOK, NEW r \in Reqs, pc[r] # "idle",
           NEW f \in FileStates \ {"none"}, PutFile(r, f),
           NEW u \in Names, u = User(r)
    PROVE  Stored(u)' = Stored(u) \cup {task[r].chain}
  <1>1. task[r].chain \in Chains
    BY UserType
  <1>2. \A c \in Chains : files'[u][c] # "none"
                             <=> files[u][c] # "none" \/ c = task[r].chain
    BY PutOne
  <1>3. QED
    BY <1>1, <1>2 DEF Stored

(* Steps of a request that has its service.                                *)
Serving(r) ==
    \/ SavePool(r) \/ Reject(r) \/ Run(r)
    \/ OpenFile(r) \/ WriteFile(r) \/ SaveFails(r)

LEMMA ServingStep ==
    ASSUME TypeOK, NEW r \in Reqs, Serving(r)
    PROVE  /\ pc[r] \in {"pool", "file", "write", "run"}
           /\ pc' = [pc EXCEPT ![r] = pc'[r]]
           /\ pc'[r] \in {"file", "write", "ok", "err", "notfound"}
           /\ UNCHANGED <<up, pool, task, svc, raced>>
  BY DEF Serving, SavePool, Reject, Run, OpenFile, WriteFile, SaveFails, Goto,
         TypeOK, faults

LEMMA StepType ==
    ASSUME TypeOK, NEW r \in Reqs,
           Lookup(r) \/ NewService(r) \/ Publish(r) \/ Serving(r)
    PROVE  TypeOK'
  <1>1. pc[r] # "idle"
    BY ServingStep DEF Lookup, NewService, Publish
  <1>2. /\ User(r) \in Names /\ Dir(User(r)) \in Users \cup {Phantom}
        /\ task[r].chain \in Chains
        /\ r \in Services /\ r # None
    BY <1>1, UserType, UserEnginesAssumption DEF Services
  <1>3. CASE Lookup(r)
    <2>1. PICK l \in {"init", "pool", "run"} :
             /\ Goto(r, l)
             /\ l # "init" => pool[User(r)] # None
      BY <1>3 DEF Lookup, Serve
    <2>2. svc' = [svc EXCEPT ![r] = pool[User(r)]] /\ raced' \subseteq Names
      BY <1>2, <1>3 DEF Lookup, TypeOK
    <2>3. QED
      BY <1>1, <1>2, <1>3, <2>1, <2>2, MoveType DEF Lookup, TypeOK, faults
  <1>4. CASE NewService(r)
    <2>1. chains' \in [Services -> SUBSET Chains]
      BY <1>2, <1>4 DEF NewService, TypeOK, Stored
    <2>2. svc' = [svc EXCEPT ![r] = r] /\ dirs' \subseteq Users \cup {Phantom}
      BY <1>2, <1>4 DEF NewService, TypeOK
    <2>3. /\ svc' \in [Reqs -> Services \cup {None}] /\ svc'[r] # None
          /\ \A q \in Reqs \ {r} : svc'[q] = svc[q]
      BY <1>2, <2>2 DEF TypeOK
    <2>4. /\ UNCHANGED <<up, files, pool, task, acked, raced, unsaved, hurt>>
          /\ Goto(r, "publish")
      BY <1>4 DEF NewService, faults
    <2>5. QED
      BY <1>1, <2>1, <2>2, <2>3, <2>4, MoveType DEF TypeOK
  <1>5. CASE Publish(r)
    <2>1. PICK l \in {"pool", "run"} : Goto(r, l)
      BY <1>5 DEF Publish, Serve
    <2>2. pool' \in [Names -> Services \cup {None}]
      BY <1>2, <1>5 DEF Publish, TypeOK
    <2>3. svc[r] # None
      BY <1>5 DEF Publish, TypeOK
    <2>4. QED
      BY <1>1, <1>5, <2>1, <2>2, <2>3, MoveType DEF Publish, TypeOK, faults
  <1>6. CASE SavePool(r)
    <2>1. svc[r] # None
      BY <1>6 DEF SavePool, TypeOK
    <2>2. chains' \in [Services -> SUBSET Chains]
      BY <1>2, <1>6, <2>1 DEF SavePool, TypeOK
    <2>3. QED
      BY <1>1, <1>6, <2>1, <2>2, MoveType DEF SavePool, TypeOK, faults
  <1>7. CASE Reject(r)
    BY <1>1, <1>7, MoveType DEF Reject, TypeOK, faults
  <1>8. CASE Run(r)
    <2>1. PICK l \in {"ok", "notfound"} : Goto(r, l)
      BY <1>8 DEF Run
    <2>2. QED
      BY <1>1, <1>8, <2>1, MoveType DEF Run, TypeOK, faults
  <1>9. CASE OpenFile(r)
    <2>1. files' \in [Names -> [Chains -> FileStates]]
      BY <1>1, <1>9, PutOne DEF OpenFile, FileStates
    <2>2. /\ dirs' \subseteq Users \cup {Phantom} /\ svc[r] # None
      BY <1>2, <1>9 DEF OpenFile, TypeOK
    <2>3. QED
      BY <1>1, <1>9, <2>1, <2>2, MoveType DEF OpenFile, TypeOK, faults
  <1>10. CASE WriteFile(r)
    <2>1. \E f \in FileStates : PutFile(r, f)
      BY <1>10 DEF WriteFile, FileStates
    <2>2. files' \in [Names -> [Chains -> FileStates]]
      BY <1>1, <2>1, PutOne
    <2>3. hurt' \subseteq Names \X Chains
      BY <1>2, <1>10 DEF WriteFile, TypeOK
    <2>4. acked' \in [Names -> SUBSET Chains]
      BY <1>2, <1>10 DEF WriteFile, TypeOK
    <2>5. QED
      BY <1>1, <1>10, <2>2, <2>3, <2>4, MoveType DEF WriteFile, TypeOK
  <1>11. CASE SaveFails(r)
    <2>1. UNCHANGED files \/ \E f \in FileStates : PutFile(r, f)
      BY <1>2, <1>11 DEF SaveFails, FileStates, TypeOK
    <2>2. files' \in [Names -> [Chains -> FileStates]]
      BY <1>1, <2>1, PutOne DEF TypeOK
    <2>3. hurt' \subseteq Names \X Chains /\ dirs' \subseteq Users \cup {Phantom}
      BY <1>2, <1>11 DEF SaveFails, TypeOK
    <2>4. unsaved' \in [Names -> SUBSET Chains]
      BY <1>2, <1>11 DEF SaveFails, TypeOK
    <2>5. QED
      BY <1>1, <1>11, <2>2, <2>3, <2>4, MoveType DEF SaveFails, TypeOK
  <1>12. QED
    BY <1>3, <1>4, <1>5, <1>6, <1>7, <1>8, <1>9, <1>10, <1>11 DEF Serving

LEMMA StartType ==
    ASSUME TypeOK, NEW r \in Reqs, NEW t \in Tasks, Start(r, t)
    PROVE  TypeOK'
  <1>1. t # None
    BY UserEnginesAssumption
  <1>2. task' = [task EXCEPT ![r] = t] /\ pc' = [pc EXCEPT ![r] = "lookup"]
    BY DEF Start, Goto
  <1>3. QED
    BY <1>1, <1>2 DEF Start, TypeOK, faults

LEMMA EndType == ASSUME TypeOK, EndOfProcess PROVE TypeOK'
  <1>1. \A r \in Reqs : /\ pc'[r] = "idle" <=> pc[r] = "idle"
                        /\ pc'[r] \in {"idle", "ok", "err", "notfound", "lost"}
    BY DEF EndOfProcess, TypeOK, Busy
  <1>2. pc' \in [Reqs -> {"idle", "lookup", "init", "publish", "pool", "file", "write",
                        "run", "ok", "err", "notfound", "lost"}]
    BY <1>1 DEF EndOfProcess
  <1>3. Written \subseteq Names \X Chains
    <2>1. \A q \in Reqs : pc[q] = "write" => User(q) \in Names /\ task[q].chain \in Chains
      BY UserType
    <2>2. QED
      BY <2>1 DEF Written
  <1>4. files' \in [Names -> [Chains -> FileStates]] /\ hurt' \subseteq Names \X Chains
    BY <1>3 DEF EndOfProcess, TypeOK, FileStates
  <1>5. QED
    BY <1>1, <1>2, <1>4 DEF EndOfProcess, TypeOK

LEMMA BootType == ASSUME TypeOK, Boot PROVE TypeOK'
  <1>1. pool' \in [Names -> Services \cup {None}]
    BY DEF Boot, Services
  <1>2. chains' \in [Services -> SUBSET Chains]
    BY DEF Boot, TypeOK, Names, Stored
  <1>3. QED
    BY <1>1, <1>2 DEF Boot, TypeOK, faults

LEMMA InitType == Init => TypeOK
  <1> SUFFICES ASSUME Init PROVE TypeOK
    OBVIOUS
  <1>1. /\ up \in BOOLEAN /\ dirs \subseteq Users \cup {Phantom}
        /\ files \in [Names -> [Chains -> FileStates]] /\ raced \subseteq Names
    BY DEF Init, FileStates
  <1>2. /\ pool \in [Names -> Services \cup {None}]
        /\ svc \in [Reqs -> Services \cup {None}]
        /\ task \in [Reqs -> Tasks \cup {None}]
        /\ pc \in [Reqs -> {"idle"}]
    BY DEF Init
  <1>3. /\ chains \in [Services -> SUBSET Chains]
        /\ acked \in [Names -> SUBSET Chains]
        /\ unsaved \in [Names -> SUBSET Chains] /\ hurt \subseteq Names \X Chains
    BY DEF Init
  <1>4. \A r \in Reqs : pc[r] = "idle" /\ task[r] = None
    BY DEF Init
  <1>5. QED
    BY <1>1, <1>2, <1>3, <1>4 DEF TypeOK

LEMMA TypeNext == TypeOK /\ [Next]_vars => TypeOK'
  <1> SUFFICES ASSUME TypeOK, [Next]_vars PROVE TypeOK'
    OBVIOUS
  <1>1. CASE UNCHANGED vars
    BY <1>1 DEF vars, TypeOK
  <1>2. QED
    BY <1>1, StepType, StartType, EndType, BootType DEF Next, Step, Serving, Crash, Fatal

(* Values have their types, and whoever works has a service, also right    *)
(* after one was built for a user nobody knew.                             *)
THEOREM TypeCorrect == Spec => []TypeOK
  BY InitType, TypeNext, PTL DEF Spec

-----------------------------------------------------------------------------
(* The strengthening of OneService. Whoever works has a service of its own *)
(* user; a service that a request builds is in nobody's hands but its own  *)
(* until it is published; whoever works found one registered; and a process*)
(* that is down has no services.                                           *)
Working == {"pool", "file", "write", "run"}
Owner(s) == IF s \in Reqs THEN User(s) ELSE s

OwnInv ==
    /\ \A u \in Names : pool[u] # None =>
          /\ Owner(pool[u]) = u
          /\ pool[u] \in Reqs => pc[pool[u]] \notin {"idle", "lookup", "init", "publish"}
    /\ \A r \in Reqs : svc[r] # None =>
          /\ Owner(svc[r]) = User(r) /\ pc[r] # "idle"
          /\ svc[r] \in Reqs => pc[svc[r]] \notin {"idle", "lookup", "init"}
    /\ \A r \in Reqs : pc[r] = "publish" => svc[r] = r
    /\ \A r \in Reqs : pc[r] \in Working => pool[User(r)] # None
    /\ ~up => /\ raced = {}
              /\ \A u \in Names : pool[u] = None
              /\ \A r \in Reqs : ~Busy(r) /\ svc[r] = None
              /\ \A u \in Names : unsaved[u] = {}

(* A service that start-up registered is there before any request asks.    *)
FirstInv == \A r \in Reqs : pc[r] \in {"init", "publish"} => pool[User(r)] \notin Names

(* Unless first requests overlapped, one request at most is building, while*)
(* nothing is registered; what it loads stays what the directory holds, for*)
(* nobody can save, and no save has failed.                                *)
BuildInv(u) ==
    /\ \A q, r \in Building(u) : q = r
    /\ Building(u) # {} => pool[u] = None
    /\ \A r \in Building(u) : pc[r] = "publish" => chains[r] = Stored(u)
    /\ pool[u] = None => unsaved[u] = {}

(* What was answered OK has a file, and files are those of users with a    *)
(* directory: only users save. Who is writing has opened the file, and one *)
(* that does not load is being written or a write of it went wrong.        *)
FileInv ==
    /\ TypeOK /\ OwnInv
    /\ \A r \in Reqs : pc[r] \in {"pool", "file", "write"} => User(r) \in Users
    /\ \A r \in Reqs : pc[r] = "write" => files[User(r)][task[r].chain] # "none"
    /\ \A u \in Names : Stored(u) # {} => u \in Users \cap dirs
    /\ \A u \in Names : acked[u] \subseteq Stored(u)
    /\ \A u \in Names, c \in Chains :
          files[u][c] \in {"none", "whole"} \/ <<u, c>> \in hurt \cup Written
    /\ \A u \in Names : up /\ ~Loads(u) => pool[u] # None

ServiceInv ==
    /\ FileInv /\ FirstInv /\ OneService
    /\ \A u \in Names \ raced : BuildInv(u)

-----------------------------------------------------------------------------
(* Who asks for whom does not change while a request is served.            *)
LEMMA SameUser ==
    ASSUME task' = task
    PROVE  /\ \A q \in Reqs : User(q)' = User(q)
           /\ \A s \in Services : Owner(s)' = Owner(s)
  BY DEF User, Owner

LEMMA StepIsUp ==
    ASSUME TypeOK, OwnInv, NEW r \in Reqs,
           Lookup(r) \/ NewService(r) \/ Publish(r) \/ Serving(r)
    PROVE  up /\ up' /\ User(r) \in Names
  <1>1. pc[r] \in {"lookup", "init", "publish", "pool", "file", "write", "run"} /\ up' = up
    BY ServingStep DEF Lookup, NewService, Publish
  <1>2. User(r) \in Names
    BY <1>1, UserType
  <1>3. QED
    BY <1>1, <1>2 DEF OwnInv, Busy

-----------------------------------------------------------------------------
(* OwnInv is preserved.                                                    *)

LEMMA OwnStart ==
    ASSUME TypeOK, OwnInv, NEW r \in Reqs, NEW t \in Tasks, Start(r, t)
    PROVE  OwnInv'
  <1>1. /\ \A q \in Reqs \ {r} : User(q)' = User(q) /\ pc'[q] = pc[q]
        /\ pc[r] = "idle" /\ pc'[r] = "lookup" /\ up /\ up'
        /\ pool' = pool /\ svc' = svc
    BY DEF Start, Goto, TypeOK, User
  <1>2. \A s \in Services \ {r} : Owner(s)' = Owner(s)
    BY <1>1 DEF Owner
  <1>3. svc[r] = None /\ (\A u \in Names : pool[u] # r) /\ (\A q \in Reqs : svc[q] # r)
    BY <1>1, UserEnginesAssumption DEF OwnInv
  <1>4. \A u \in Names : pool[u] \in Services \cup {None}
    BY DEF TypeOK
  <1>5. \A q \in Reqs : svc[q] \in Services \cup {None}
    BY DEF TypeOK
  <1>6. QED
    BY <1>1, <1>2, <1>3, <1>4, <1>5 DEF OwnInv, Working

LEMMA OwnLookup ==
    ASSUME TypeOK, OwnInv, NEW r \in Reqs, Lookup(r)
    PROVE  OwnInv'
  <1>1. /\ \A q \in Reqs \ {r} : svc'[q] = svc[q] /\ pc'[q] = pc[q]
        /\ pc[r] = "lookup" /\ pc'[r] \in {"init", "pool", "run"} /\ up /\ up'
        /\ pool' = pool /\ svc'[r] = pool[User(r)] /\ User(r) \in Names
    BY StepIsUp DEF Lookup, Goto, TypeOK, Serve
  <1>2. /\ \A q \in Reqs : User(q)' = User(q)
        /\ \A s \in Services : Owner(s)' = Owner(s)
    BY SameUser DEF Lookup
  <1>3. \A u \in Names : pool[u] \in Services \cup {None} /\ pool[u] # r
    BY <1>1, UserEnginesAssumption DEF TypeOK, OwnInv
  <1>4. \A q \in Reqs : svc[q] \in Services \cup {None} /\ svc[q] # r
    BY <1>1, UserEnginesAssumption DEF TypeOK, OwnInv
  <1>5. \A u \in Names : pool'[u] # None =>
          /\ Owner(pool[u])' = u
          /\ pool'[u] \in Reqs =>
                pc'[pool'[u]] \notin {"idle", "lookup", "init", "publish"}
    BY <1>1, <1>2, <1>3 DEF OwnInv
  <1>6. \A q \in Reqs : svc'[q] # None =>
          /\ Owner(svc[q])' = User(q)' /\ pc'[q] # "idle"
          /\ svc'[q] \in Reqs => pc'[svc'[q]] \notin {"idle", "lookup", "init"}
    <2> SUFFICES ASSUME NEW q \in Reqs, svc'[q] # None
                 PROVE  /\ Owner(svc[q])' = User(q)' /\ pc'[q] # "idle"
                        /\ svc'[q] \in Reqs =>
                              pc'[svc'[q]] \notin {"idle", "lookup", "init"}
      OBVIOUS
    <2>1. CASE q = r
      BY <1>1, <1>2, <1>3, <2>1 DEF OwnInv
    <2>2. CASE q # r
      BY <1>1, <1>2, <1>4, <2>2 DEF OwnInv
    <2>3. QED
      BY <2>1, <2>2
  <1>7. \A q \in Reqs : pc'[q] = "publish" => svc'[q] = q
    BY <1>1 DEF OwnInv
  <1>8. pc'[r] # "init" => pool[User(r)] # None
    BY <1>1 DEF Lookup, Goto, TypeOK
  <1>9. \A q \in Reqs : pc'[q] \in Working => pool'[User(q)'] # None
    BY <1>1, <1>2, <1>8 DEF OwnInv, Working
  <1>10. QED
    BY <1>1, <1>5, <1>6, <1>7, <1>9 DEF OwnInv

LEMMA OwnNewService ==
    ASSUME TypeOK, OwnInv, NEW r \in Reqs, NewService(r)
    PROVE  OwnInv'
  <1>1. /\ \A q \in Reqs \ {r} : svc'[q] = svc[q] /\ pc'[q] = pc[q]
        /\ pc[r] = "init" /\ pc'[r] = "publish" /\ up /\ up'
        /\ pool' = pool /\ svc'[r] = r
    BY StepIsUp DEF NewService, Goto, TypeOK
  <1>2. /\ \A q \in Reqs : User(q)' = User(q)
        /\ \A s \in Services : Owner(s)' = Owner(s)
    BY SameUser DEF NewService
  <1>3. \A u \in Names : pool[u] \in Services \cup {None} /\ pool[u] # r
    BY <1>1, UserEnginesAssumption DEF TypeOK, OwnInv
  <1>4. \A q \in Reqs : svc[q] \in Services \cup {None} /\ svc[q] # r
    BY <1>1, UserEnginesAssumption DEF TypeOK, OwnInv
  <1>5. Owner(r) = User(r) /\ r \in Services
    BY DEF Owner, Services
  <1>6. QED
    BY <1>1, <1>2, <1>3, <1>4, <1>5 DEF OwnInv, Working

LEMMA OwnPublish ==
    ASSUME TypeOK, OwnInv, NEW r \in Reqs, Publish(r)
    PROVE  OwnInv'
  <1>1. /\ \A q \in Reqs \ {r} : pc'[q] = pc[q]
        /\ pc[r] = "publish" /\ pc'[r] \in {"pool", "run"} /\ up /\ up'
        /\ \A u \in Names \ {User(r)} : pool'[u] = pool[u]
        /\ pool'[User(r)] = r /\ svc' = svc /\ svc[r] = r
    BY StepIsUp DEF Publish, Goto, TypeOK, Serve, OwnInv
  <1>2. /\ \A q \in Reqs : User(q)' = User(q)
        /\ \A s \in Services : Owner(s)' = Owner(s)
    BY SameUser DEF Publish
  <1>3. \A u \in Names : pool[u] \in Services \cup {None}
    BY DEF TypeOK
  <1>4. \A q \in Reqs : svc[q] \in Services \cup {None}
    BY DEF TypeOK
  <1>5. Owner(r) = User(r) /\ r \in Services
    BY DEF Owner, Services
  <1>6. \A u \in Names : pool'[u] # None =>
          /\ Owner(pool[u])' = u
          /\ pool'[u] \in Reqs =>
                pc'[pool'[u]] \notin {"idle", "lookup", "init", "publish"}
    <2> SUFFICES ASSUME NEW u \in Names, pool'[u] # None
                 PROVE  /\ Owner(pool[u])' = u
                        /\ pool'[u] \in Reqs =>
                              pc'[pool'[u]] \notin {"idle", "lookup", "init", "publish"}
      OBVIOUS
    <2>1. CASE u = User(r)
      BY <1>1, <1>2, <1>5, <2>1
    <2>2. CASE u # User(r)
      BY <1>1, <1>2, <1>3, <2>2 DEF OwnInv
    <2>3. QED
      BY <2>1, <2>2
  <1>7. \A q \in Reqs : svc'[q] # None =>
          /\ Owner(svc[q])' = User(q)' /\ pc'[q] # "idle"
          /\ svc'[q] \in Reqs => pc'[svc'[q]] \notin {"idle", "lookup", "init"}
    BY <1>1, <1>2, <1>4 DEF OwnInv
  <1>8. \A q \in Reqs : pc'[q] = "publish" => svc'[q] = q
    BY <1>1 DEF OwnInv
  <1>9. \A q \in Reqs : pc[q] \in Working => User(q) \in Names
    BY UserType DEF Working
  <1>10. \A q \in Reqs : pc'[q] \in Working => pool'[User(q)'] # None
    BY <1>1, <1>2, <1>9, UserEnginesAssumption DEF OwnInv, Working
  <1>11. QED
    BY <1>1, <1>6, <1>7, <1>8, <1>10 DEF OwnInv

LEMMA OwnServe ==
    ASSUME TypeOK, OwnInv, NEW r \in Reqs, Serving(r)
    PROVE  OwnInv'
  <1>1. /\ \A q \in Reqs \ {r} : pc'[q] = pc[q]
        /\ pc[r] \in Working
        /\ pc'[r] \in {"file", "write", "ok", "err", "notfound"} /\ up /\ up'
        /\ pool' = pool /\ svc' = svc
    BY StepIsUp, ServingStep DEF TypeOK, Working
  <1>2. /\ \A q \in Reqs : User(q)' = User(q)
        /\ \A s \in Services : Owner(s)' = Owner(s)
    BY SameUser, ServingStep
  <1>3. \A u \in Names : pool[u] \in Services \cup {None}
    BY DEF TypeOK
  <1>4. \A q \in Reqs : svc[q] \in Services \cup {None}
    BY DEF TypeOK
  <1>5. QED
    BY <1>1, <1>2, <1>3, <1>4 DEF OwnInv, Working

LEMMA OwnEnd == ASSUME TypeOK, OwnInv, EndOfProcess PROVE OwnInv'
  <1>1. \A r \in Reqs : pc'[r] \in {"idle", "ok", "err", "notfound", "lost"} /\ svc'[r] = None
    BY DEF EndOfProcess, TypeOK, Busy
  <1>2. (\A u \in Names : pool'[u] = None /\ unsaved'[u] = {}) /\ raced' = {}
    BY DEF EndOfProcess
  <1>3. QED
    BY <1>1, <1>2 DEF OwnInv, Busy, Working

LEMMA OwnBoot == ASSUME TypeOK, OwnInv, Boot PROVE OwnInv'
  <1>1. \A r \in Reqs : ~Busy(r) /\ svc'[r] = None /\ pc' = pc /\ up'
    BY DEF Boot, OwnInv
  <1>2. \A u \in Names : pool'[u] \in {u, None} /\ u \notin Reqs
    BY UserEnginesAssumption DEF Boot, Names
  <1>3. \A u \in Names : Owner(u)' = u
    BY <1>2 DEF Owner
  <1>4. up'
    BY DEF Boot
  <1>5. QED
    BY <1>1, <1>2, <1>3, <1>4 DEF OwnInv, Busy, Working

LEMMA OwnNext == TypeOK /\ OwnInv /\ [Next]_vars => OwnInv'
  <1> SUFFICES ASSUME TypeOK, OwnInv, [Next]_vars PROVE OwnInv'
    OBVIOUS
  <1>1. CASE UNCHANGED vars
    <2>1. /\ \A q \in Reqs : User(q)' = User(q)
          /\ \A s \in Services : Owner(s)' = Owner(s)
      BY <1>1, SameUser DEF vars
    <2>2. \A u \in Names : pool[u] \in Services \cup {None}
      BY DEF TypeOK
    <2>3. \A q \in Reqs : svc[q] \in Services \cup {None}
      BY DEF TypeOK
    <2>4. QED
      BY <1>1, <2>1, <2>2, <2>3 DEF vars, faults, OwnInv, Busy, Working
  <1>2. QED
    BY <1>1, OwnStart, OwnLookup, OwnNewService, OwnPublish, OwnServe, OwnEnd,
       OwnBoot DEF Next, Step, Serving, Crash, Fatal

-----------------------------------------------------------------------------
(* FirstInv is preserved: only start-up registers a service under a user's *)
(* name, and it does so with nobody at work.                               *)

LEMMA FirstNext == TypeOK /\ OwnInv /\ FirstInv /\ [Next]_vars => FirstInv'
  <1> SUFFICES ASSUME TypeOK, OwnInv, FirstInv, [Next]_vars PROVE FirstInv'
    OBVIOUS
  <1>1. CASE UNCHANGED vars
    BY <1>1 DEF vars, FirstInv, User
  <1>2. ASSUME NEW r \in Reqs, NEW t \in Tasks, Start(r, t) PROVE FirstInv'
    <2>1. \A q \in Reqs \ {r} : User(q)' = User(q) /\ pc'[q] = pc[q]
      BY <1>2 DEF Start, Goto, TypeOK, User
    <2>2. pc'[r] = "lookup" /\ pool' = pool
      BY <1>2 DEF Start, Goto, TypeOK
    <2>3. QED
      BY <2>1, <2>2 DEF FirstInv
  <1>3. ASSUME NEW r \in Reqs, Lookup(r) PROVE FirstInv'
    <2>1. \A q \in Reqs : User(q)' = User(q)
      BY <1>3, SameUser DEF Lookup
    <2>2. \A q \in Reqs \ {r} : pc'[q] = pc[q]
      BY <1>3 DEF Lookup, Goto, TypeOK
    <2>3. pc'[r] = "init" => pool[User(r)] = None
      BY <1>3 DEF Lookup, Goto, TypeOK, Serve
    <2>4. pc'[r] # "publish" /\ pool' = pool /\ None \notin Names
      BY <1>3, UserEnginesAssumption DEF Lookup, Goto, TypeOK, Serve, Names
    <2>5. QED
      BY <2>1, <2>2, <2>3, <2>4 DEF FirstInv
  <1>4. ASSUME NEW r \in Reqs, NewService(r) PROVE FirstInv'
    <2>1. \A q \in Reqs : User(q)' = User(q)
      BY <1>4, SameUser DEF NewService
    <2>2. /\ \A q \in Reqs \ {r} : pc'[q] = pc[q]
          /\ pc[r] = "init" /\ pool' = pool
      BY <1>4 DEF NewService, Goto, TypeOK
    <2>3. QED
      BY <2>1, <2>2 DEF FirstInv
  <1>5. ASSUME NEW r \in Reqs, Publish(r) PROVE FirstInv'
    <2>1. /\ \A q \in Reqs : User(q)' = User(q)
          /\ \A q \in Reqs : pc[q] # "idle" => User(q) \in Names
      BY <1>5, SameUser, UserType DEF Publish
    <2>2. /\ \A q \in Reqs \ {r} : pc'[q] = pc[q]
          /\ pc'[r] \notin {"init", "publish"}
      BY <1>5 DEF Publish, Goto, TypeOK, Serve
    <2>3. /\ \A u \in Names : pool'[u] \in {r, pool[u]}
          /\ r \notin Names
      BY <1>5, UserEnginesAssumption DEF Publish, TypeOK, Names
    <2>4. QED
      BY <2>1, <2>2, <2>3 DEF FirstInv
  <1>6. ASSUME NEW r \in Reqs, Serving(r) PROVE FirstInv'
    <2>1. \A q \in Reqs : User(q)' = User(q)
      BY <1>6, SameUser, ServingStep
    <2>2. /\ \A q \in Reqs \ {r} : pc'[q] = pc[q]
          /\ pc'[r] \in {"file", "write", "ok", "err", "notfound"} /\ pool' = pool
      BY <1>6, ServingStep DEF TypeOK
    <2>3. QED
      BY <2>1, <2>2 DEF FirstInv
  <1>7. CASE EndOfProcess
    <2>1. \A r \in Reqs : pc'[r] \notin {"init", "publish"}
      BY <1>7 DEF EndOfProcess, TypeOK, Busy
    <2>2. QED
      BY <2>1 DEF FirstInv
  <1>8. CASE Boot
    BY <1>8 DEF Boot, OwnInv, Busy, FirstInv
  <1>9. QED
    BY <1>1, <1>2, <1>3, <1>4, <1>5, <1>6, <1>7, <1>8 DEF Next, Step, Serving, Crash, Fatal

-----------------------------------------------------------------------------
(* FileInv is preserved.                                                   *)

(* Only users save.                                                        *)
LEMMA SaverIsUser ==
    ASSUME TypeOK, NEW r \in Reqs, pc[r] # "idle", Serve(task[r].op) = "pool"
    PROVE  User(r) \in Users
  <1>1. task[r] \in Tasks /\ task[r].op = "save"
    BY UserType DEF Serve
  <1>2. task[r].user \in Users \cup {Anon}
    BY <1>1 DEF Tasks
  <1>3. QED
    BY <1>1, <1>2, UserEnginesAssumption DEF User, AuthProcess

(* A step that leaves the files alone.                                     *)
LEMMA FileFrame ==
    ASSUME FileInv, TypeOK', OwnInv', UNCHANGED <<files, acked, hurt, up>>,
           dirs \subseteq dirs',
           \A q \in Reqs :
              /\ pc'[q] \in {"pool", "file", "write"} => User(q)' \in Users
              /\ pc[q] = "write" <=> pc'[q] = "write"
              /\ pc[q] = "write" => User(q)' = User(q) /\ task'[q] = task[q],
           \A u \in Names : pool[u] # None => pool'[u] # None
    PROVE  FileInv'
  <1>1. Written' = Written
    <2>1. \A w : w \in Written' <=> w \in Written
      BY DEF Written
    <2>2. QED
      BY <2>1 DEF Written
  <1>2. \A u \in Names : Stored(u)' = Stored(u) /\ (Loads(u)' <=> Loads(u))
    BY DEF Stored, Loads
  <1>3. QED
    BY <1>1, <1>2 DEF FileInv

LEMMA FileEasy ==
    ASSUME FileInv, TypeOK', OwnInv', NEW r \in Reqs,
           \/ Lookup(r) \/ NewService(r) \/ Publish(r)
           \/ SavePool(r) \/ Reject(r) \/ Run(r)
    PROVE  FileInv'
  <1> USE DEF FileInv
  <1>1. /\ UNCHANGED <<files, acked, hurt, up, task>> /\ dirs \subseteq dirs'
        /\ pc[r] \notin {"idle", "write"} /\ pc'[r] # "write"
        /\ \A q \in Reqs \ {r} : pc'[q] = pc[q]
    BY DEF Lookup, NewService, Publish, SavePool, Reject, Run, Goto, TypeOK, faults, Serve
  <1>2. \A q \in Reqs : User(q)' = User(q)
    BY <1>1, SameUser
  <1>3. pc'[r] \in {"pool", "file"} => pc[r] = "pool" \/ Serve(task[r].op) = "pool"
    BY DEF Lookup, NewService, Publish, SavePool, Reject, Run, Goto, TypeOK, Serve
  <1>4. pc'[r] \in {"pool", "file"} => User(r) \in Users
    BY <1>1, <1>3, SaverIsUser
  <1>5. \A u \in Names : pool[u] # None => pool'[u] # None
    BY UserEnginesAssumption
    DEF Lookup, NewService, Publish, SavePool, Reject, Run, TypeOK
  <1>6. QED
    BY <1>1, <1>2, <1>4, <1>5, FileFrame

LEMMA FileStart ==
    ASSUME FileInv, TypeOK', OwnInv', NEW r \in Reqs, NEW t \in Tasks, Start(r, t)
    PROVE  FileInv'
  <1> USE DEF FileInv
  <1>1. \A q \in Reqs \ {r} : User(q)' = User(q) /\ pc'[q] = pc[q] /\ task'[q] = task[q]
    BY DEF Start, Goto, TypeOK, User
  <1>2. /\ UNCHANGED <<files, acked, hurt, up, dirs, pool>>
        /\ pc[r] = "idle" /\ pc'[r] = "lookup"
    BY DEF Start, Goto, TypeOK, faults
  <1>3. QED
    BY <1>1, <1>2, FileFrame

(* A step of a save with the file.                                         *)
LEMMA FilePut ==
    ASSUME FileInv, TypeOK', OwnInv', NEW r \in Reqs, Serving(r),
           pc[r] \in {"file", "write"}, pc'[r] # "pool", pc'[r] # "file",
           NEW f \in FileStates \ {"none"}, PutFile(r, f),
           dirs \subseteq dirs', Stored(User(r)) # {} \/ Dir(User(r)) \in dirs',
           \A u \in Names : acked'[u] \subseteq acked[u] \cup
                               {c \in Chains : u = User(r) /\ c = task[r].chain},
           hurt \subseteq hurt' \cup {<<User(r), task[r].chain>>},
           f = "whole" \/ <<User(r), task[r].chain>> \in hurt' \cup Written'
    PROVE  FileInv'
  <1> DEFINE it == <<User(r), task[r].chain>>
  <1> USE DEF FileInv
  <1>1. /\ UNCHANGED <<up, pool, task>> /\ pc[r] # "idle"
        /\ \A q \in Reqs \ {r} : pc'[q] = pc[q]
    BY ServingStep DEF TypeOK
  <1>2. \A q \in Reqs : User(q)' = User(q)
    BY <1>1, SameUser
  <1>3. /\ User(r) \in Users /\ User(r) \in Names /\ task[r].chain \in Chains
        /\ Dir(User(r)) = User(r)
    BY <1>1, UserType, UserEnginesAssumption DEF Dir
  <1>4. /\ \A u \in Names \ {User(r)} : files'[u] = files[u]
        /\ \A c \in Chains \ {task[r].chain} : files'[User(r)][c] = files[User(r)][c]
        /\ files'[User(r)][task[r].chain] = f
    BY <1>1, PutOne
  <1>5. \A q \in Reqs : pc'[q] \in {"pool", "file", "write"} => User(q)' \in Users
    BY <1>1, <1>2
  <1>6. ASSUME NEW q \in Reqs, pc'[q] = "write"
        PROVE  files'[User(q)][task[q].chain] # "none"
    <2>1. CASE q = r
      BY <1>4, <2>1
    <2>2. CASE q # r
      <3>1. pc[q] = "write" /\ files[User(q)][task[q].chain] # "none"
        BY <1>1, <1>6, <2>2
      <3>2. User(q) \in Names /\ task[q].chain \in Chains
        BY <3>1, UserType
      <3>3. QED
        BY <1>4, <3>1, <3>2
    <2>3. QED
      BY <2>1, <2>2
  <1>7. \A u \in Names : Stored(u)' = IF u = User(r) THEN Stored(u) \cup {task[r].chain}
                                     ELSE Stored(u)
    <2>1. \A u \in Names \ {User(r)} : Stored(u)' = Stored(u)
      BY <1>4 DEF Stored
    <2>2. \A u \in {User(r)} : Stored(u)' = Stored(u) \cup {task[r].chain}
      BY <1>1, <1>3, PutStored
    <2>3. QED
      BY <2>1, <2>2
  <1>8. \A u \in Names : Stored(u)' # {} => u \in Users \cap dirs'
    BY <1>3, <1>7
  <1>9. \A u \in Names : acked'[u] \subseteq Stored(u)'
    BY <1>7
  <1>10. ASSUME NEW u \in Names, NEW c \in Chains
         PROVE  files'[u][c] \in {"none", "whole"} \/ <<u, c>> \in hurt' \cup Written'
    <2>1. CASE <<u, c>> = it
      BY <1>4, <2>1
    <2>2. CASE <<u, c>> # it
      <3>1. files'[u][c] = files[u][c]
        BY <1>4, <2>2
      <3>2. <<u, c>> \in Written => <<u, c>> \in Written'
        <4> SUFFICES ASSUME <<u, c>> \in Written PROVE <<u, c>> \in Written'
          OBVIOUS
        <4>1. PICK q \in Reqs : pc[q] = "write" /\ <<u, c>> = <<User(q), task[q].chain>>
          BY DEF Written
        <4>2. q # r
          BY <2>2, <4>1
        <4>3. /\ pc'[q] = "write" /\ q \in {p \in Reqs : pc'[p] = "write"}
              /\ <<u, c>> = <<User(q)', task'[q].chain>>
          BY <1>1, <1>2, <4>1, <4>2
        <4>4. QED
          BY <4>3 DEF Written
      <3>3. <<u, c>> \in hurt => <<u, c>> \in hurt'
        BY <2>2
      <3>4. QED
        BY <3>1, <3>2, <3>3
    <2>3. QED
      BY <2>1, <2>2
  <1>11. ASSUME NEW u \in Names, up, ~Loads(u)' PROVE pool[u] # None
    <2>1. CASE u = User(r)
      BY <2>1 DEF OwnInv, Working
    <2>2. CASE u # User(r)
      BY <1>4, <1>11, <2>2 DEF Loads
    <2>3. QED
      BY <2>1, <2>2
  <1>12. QED
    BY <1>1, <1>2, <1>5, <1>6, <1>8, <1>9, <1>10, <1>11

LEMMA FileSave ==
    ASSUME FileInv, TypeOK', OwnInv', NEW r \in Reqs,
           OpenFile(r) \/ WriteFile(r) \/ SaveFails(r)
    PROVE  FileInv'
  <1> DEFINE it == <<User(r), task[r].chain>>
  <1>0. /\ TypeOK /\ Serving(r) /\ pc[r] \in {"file", "write"}
        /\ User(r) \in Names /\ task[r].chain \in Chains
        /\ \A q \in Reqs : User(q)' = User(q)
        /\ task' = task
    <2>1. TypeOK /\ Serving(r) /\ pc[r] \in {"file", "write"} /\ task' = task
      BY DEF FileInv, OpenFile, WriteFile, SaveFails, Serving
    <2>2. QED
      BY <2>1, UserType, SameUser
  <1>1. CASE OpenFile(r)
    <2>1. /\ pc'[r] = "write" /\ PutFile(r, "empty") /\ acked' = acked /\ hurt' = hurt
          /\ dirs' = dirs \cup {Dir(User(r))}
      BY <1>0, <1>1 DEF OpenFile, Goto, TypeOK, faults
    <2>2. it \in Written'
      <3>1. r \in {q \in Reqs : pc'[q] = "write"} /\ it = <<User(r)', task'[r].chain>>
        BY <1>0, <2>1
      <3>2. QED
        BY <3>1 DEF Written
    <2>3. \A u \in Names : acked'[u] \subseteq acked[u] \cup
                               {c \in Chains : u = User(r) /\ c = task[r].chain}
      BY <2>1
    <2>4. QED
      BY <1>0, <2>1, <2>2, <2>3, FilePut DEF FileStates
  <1>2. CASE WriteFile(r)
    <2>1. PICK f \in {"whole", "torn"} : /\ PutFile(r, f)
                                         /\ (f = "whole" \/ it \in hurt')
      BY <1>2 DEF WriteFile
    <2>2. /\ pc'[r] = "ok" /\ pc[r] = "write" /\ dirs' = dirs
          /\ hurt \subseteq hurt' \cup {it}
          /\ acked' = [acked EXCEPT ![User(r)] = @ \cup {task[r].chain}]
      BY <1>0, <1>2 DEF WriteFile, Goto, TypeOK
    <2>3. \A u \in Names : acked'[u] \subseteq acked[u] \cup
                               {c \in Chains : u = User(r) /\ c = task[r].chain}
      BY <1>0, <2>2 DEF TypeOK
    <2>4. Stored(User(r)) # {}
      BY <1>0, <2>2 DEF FileInv, Stored
    <2>5. QED
      BY <1>0, <2>1, <2>2, <2>3, <2>4, FilePut DEF FileStates
  <1>3. CASE SaveFails(r) /\ pc[r] = "write"
    <2>1. files[User(r)][task[r].chain] \in FileStates \ {"none"}
      BY <1>0, <1>3 DEF TypeOK, FileInv
    <2>2. PICK f \in FileStates \ {"none"} : PutFile(r, f)
      BY <1>3, <2>1 DEF SaveFails, FileStates
    <2>3. /\ pc'[r] = "err" /\ dirs' = dirs /\ acked' = acked
          /\ hurt' = hurt \cup {it}
      BY <1>0, <1>3 DEF SaveFails, Goto, TypeOK
    <2>4. Stored(User(r)) # {}
      BY <1>0, <2>1 DEF Stored
    <2>5. \A u \in Names : acked'[u] \subseteq acked[u] \cup
                               {c \in Chains : u = User(r) /\ c = task[r].chain}
      BY <2>3
    <2>6. QED
      BY <1>0, <2>2, <2>3, <2>4, <2>5, FilePut
  <1>4. CASE SaveFails(r) /\ pc[r] = "file"
    <2>1. /\ UNCHANGED <<files, acked, hurt, up, pool>> /\ dirs \subseteq dirs'
          /\ pc'[r] = "err" /\ \A q \in Reqs \ {r} : pc'[q] = pc[q]
      BY <1>0, <1>4 DEF SaveFails, Goto, TypeOK
    <2>2. \A q \in Reqs : pc'[q] \in {"pool", "file", "write"} => User(q)' \in Users
      BY <1>0, <2>1 DEF FileInv
    <2>3. QED
      BY <1>0, <1>4, <2>1, <2>2, FileFrame
  <1>5. QED
    BY <1>0, <1>1, <1>2, <1>3, <1>4

LEMMA FileEnd == ASSUME FileInv, TypeOK', OwnInv', EndOfProcess PROVE FileInv'
  <1> USE DEF FileInv
  <1>1. PICK cut \in SUBSET Written :
          files' = [u \in Names |-> [c \in Chains |->
                      IF <<u, c>> \in cut THEN "torn" ELSE files[u][c]]]
    BY DEF EndOfProcess
  <1>2. \A r \in Reqs : pc'[r] \in {"idle", "ok", "err", "notfound", "lost"}
    BY DEF EndOfProcess, TypeOK, Busy
  <1>3. /\ hurt' = hurt \cup Written /\ dirs' = dirs /\ acked' = acked /\ ~up'
    BY DEF EndOfProcess
  <1>4. ASSUME NEW u \in Names, NEW c \in Chains, <<u, c>> \in Written
        PROVE  files[u][c] # "none"
    <2>1. PICK q \in Reqs : pc[q] = "write" /\ <<u, c>> = <<User(q), task[q].chain>>
      BY <1>4 DEF Written
    <2>2. QED
      BY <2>1
  <1>5. \A u \in Names, c \in Chains : files'[u][c] # "none" <=> files[u][c] # "none"
    BY <1>1, <1>4
  <1>6. \A u \in Names : Stored(u)' = Stored(u)
    BY <1>5 DEF Stored
  <1>7. \A u \in Names, c \in Chains :
           files'[u][c] \in {"none", "whole"} \/ <<u, c>> \in hurt'
    BY <1>1, <1>3
  <1>8. QED
    BY <1>2, <1>3, <1>6, <1>7

(* Start-up comes up only when it has loaded every file.                   *)
LEMMA FileBoot == ASSUME FileInv, TypeOK', OwnInv', Boot PROVE FileInv'
  <1> USE DEF FileInv
  <1>1. \A r \in Reqs : ~Busy(r) /\ pc' = pc /\ task' = task
    BY DEF Boot, OwnInv
  <1>2. UNCHANGED <<files, acked, hurt, dirs>>
    BY DEF Boot, faults
  <1>3. Written' = Written
    BY <1>1 DEF Written, User
  <1>4. \A u \in Names : Stored(u)' = Stored(u) /\ (Loads(u)' <=> Loads(u))
    BY <1>2 DEF Stored, Loads
  <1>5. ASSUME NEW u \in Names, ~Loads(u) PROVE FALSE
    <2>1. Stored(u) # {}
      BY <1>5 DEF Loads, Stored, TypeOK
    <2>2. QED
      BY <1>5, <2>1 DEF Boot
  <1>6. QED
    BY <1>1, <1>2, <1>3, <1>4, <1>5 DEF Busy

LEMMA FileNext == FileInv /\ [Next]_vars => FileInv'
  <1> SUFFICES ASSUME FileInv, [Next]_vars PROVE FileInv'
    OBVIOUS
  <1>1. TypeOK' /\ OwnInv'
    BY TypeNext, OwnNext DEF FileInv
  <1>2. CASE UNCHANGED vars
    <2>1. \A q \in Reqs : User(q)' = User(q)
      BY <1>2, SameUser DEF vars
    <2>2. QED
      BY <1>1, <1>2, <2>1, FileFrame DEF vars, faults, FileInv
  <1>3. QED
    BY <1>1, <1>2, FileEasy, FileStart, FileSave, FileEnd, FileBoot
    DEF Next, Step, Crash, Fatal

-----------------------------------------------------------------------------
(* What no two requests raced for: one service, and its pool is what the   *)
(* directory holds, what is on its way there and what did not get there.   *)
Held(u) == Stored(u) \cup Saving(u) \cup unsaved[u]

QuietUser(u) ==
    /\ BuildInv(u)
    /\ \A r \in Reqs : pc[r] \in Working /\ User(r) = u => svc[r] = pool[u]
    /\ up /\ pool[u] # None => chains[pool[u]] = Held(u)

LEMMA QuietParts ==
    OneService /\ (\A u \in Names \ raced : BuildInv(u))
        <=> \A u \in Names \ raced : QuietUser(u)
  BY DEF OneService, QuietUser, Working, Held

Active == Working \cup {"init", "publish"}

(* A user none of whose requests that build or serve moves, none of whose  *)
(* files changes, and whose services nobody touches.                       *)
LEMMA QuietFrame ==
    ASSUME TypeOK, OwnInv, NEW u \in Names, QuietUser(u), up' = up,
           pool'[u] = pool[u], files'[u] = files[u], unsaved'[u] = unsaved[u],
           \A q \in Reqs :
              \/ pc[q] \notin Active /\ pc'[q] \notin Active
              \/ /\ User(q)' = User(q)
                 /\ User(q) = u => /\ pc'[q] = pc[q] /\ svc'[q] = svc[q]
                                   /\ task'[q] = task[q],
           pool[u] # None => chains'[pool[u]] = chains[pool[u]],
           \A q \in Building(u) : pc[q] = "publish" => chains'[q] = chains[q]
    PROVE  QuietUser(u)'
  <1>1. Building(u)' = Building(u)
    BY DEF Building, Active
  <1>2. Saving(u)' = Saving(u)
    <2>1. \A q \in Reqs : pc'[q] = "file" /\ User(q)' = u <=> pc[q] = "file" /\ User(q) = u
      BY DEF Active, Working
    <2>2. \A q \in Reqs : pc[q] = "file" /\ User(q) = u => task'[q] = task[q]
      BY DEF Active, Working
    <2>3. \A c : c \in Saving(u)' <=> c \in Saving(u)
      BY <2>1, <2>2 DEF Saving
    <2>4. QED
      BY <2>3 DEF Saving
  <1>3. \A q \in Building(u) : pc'[q] = pc[q]
    BY DEF Building, Active
  <1>4. BuildInv(u)'
    BY <1>1, <1>3 DEF BuildInv, QuietUser, Stored
  <1>5. \A r \in Reqs : pc'[r] \in Working /\ User(r)' = u => svc'[r] = pool'[u]
    BY DEF QuietUser, Active
  <1>6. up' /\ pool'[u] # None => chains'[pool'[u]] = Held(u)'
    BY <1>2 DEF QuietUser, Held, Stored
  <1>7. QED
    BY <1>4, <1>5, <1>6 DEF QuietUser

LEMMA QuietStart ==
    ASSUME TypeOK, OwnInv, NEW r \in Reqs, NEW t \in Tasks, Start(r, t),
           NEW u \in Names, QuietUser(u)
    PROVE  QuietUser(u)'
  <1>1. \A q \in Reqs \ {r} : User(q)' = User(q) /\ pc'[q] = pc[q] /\ task'[q] = task[q]
    BY DEF Start, Goto, TypeOK, User
  <1>2. /\ pc[r] = "idle" /\ pc'[r] = "lookup" /\ svc' = svc /\ up' = up
        /\ pool' = pool /\ files' = files /\ unsaved' = unsaved /\ chains' = chains
    BY DEF Start, Goto, TypeOK, faults
  <1>3. QED
    BY <1>1, <1>2, QuietFrame DEF Active, Working

LEMMA QuietLookup ==
    ASSUME TypeOK, OwnInv, NEW r \in Reqs, Lookup(r),
           NEW u \in Names \ raced', QuietUser(u)
    PROVE  QuietUser(u)'
  <1>1. /\ \A q \in Reqs \ {r} : pc'[q] = pc[q] /\ svc'[q] = svc[q]
        /\ pc[r] = "lookup" /\ svc'[r] = pool[User(r)] /\ pc'[r] \in {"init", "pool", "run"}
        /\ up' = up /\ pool' = pool /\ files' = files /\ unsaved' = unsaved /\ chains' = chains /\ task' = task
    BY DEF Lookup, Goto, TypeOK, Serve, faults
  <1>2. \A q \in Reqs : User(q)' = User(q)
    BY SameUser, <1>1
  <1>3. CASE User(r) # u
    <2>1. \A q \in Reqs :
             /\ User(q)' = User(q)
             /\ User(q) = u => /\ pc'[q] = pc[q] /\ svc'[q] = svc[q]
                               /\ task'[q] = task[q]
      BY <1>1, <1>2, <1>3
    <2>2. QED
      BY <1>1, <2>1, QuietFrame
  <1>4. CASE User(r) = u
    <2>1. Saving(u)' = Saving(u)
      <3>1. \A q \in Reqs : pc'[q] = "file" <=> pc[q] = "file"
        BY <1>1
      <3>2. QED
        BY <1>1, <1>2, <3>1 DEF Saving
    <2>2. \A q \in Reqs : pc'[q] \in Working /\ User(q)' = u => svc'[q] = pool'[u]
      BY <1>1, <1>2, <1>4 DEF QuietUser
    <2>3. CASE pc'[r] = "init"
      <3>1. pool[u] = None /\ Building(u) = {}
        BY <1>1, <1>4, <2>3 DEF Lookup, Goto, TypeOK, Serve, faults
      <3>2. \A q \in Building(u)' : q = r
        BY <1>1, <1>2, <3>1 DEF Building
      <3>3. BuildInv(u)'
        BY <1>1, <2>3, <3>1, <3>2 DEF BuildInv, QuietUser
      <3>4. QED
        BY <1>1, <2>1, <2>2, <3>1, <3>3 DEF QuietUser, Held, Stored
    <2>4. CASE pc'[r] # "init"
      <3>1. Building(u)' = Building(u) /\ \A q \in Building(u) : pc'[q] = pc[q]
        BY <1>1, <1>2, <2>4 DEF Building
      <3>2. BuildInv(u)'
        BY <1>1, <3>1 DEF BuildInv, QuietUser, Stored
      <3>3. QED
        BY <1>1, <2>1, <2>2, <3>2 DEF QuietUser, Held, Stored
    <2>5. QED
      BY <2>3, <2>4
  <1>5. QED
    BY <1>3, <1>4

LEMMA QuietNewService ==
    ASSUME TypeOK, OwnInv, NEW r \in Reqs, NewService(r),
           NEW u \in Names, QuietUser(u)
    PROVE  QuietUser(u)'
  <1>1. /\ \A q \in Reqs \ {r} : pc'[q] = pc[q] /\ svc'[q] = svc[q]
        /\ pc[r] = "init" /\ pc'[r] = "publish"
        /\ up' = up /\ pool' = pool /\ files' = files /\ unsaved' = unsaved /\ task' = task
        /\ \A s \in Services \ {r} : chains'[s] = chains[s]
        /\ chains'[r] = Stored(User(r))
    BY DEF NewService, Goto, TypeOK, Services, faults
  <1>2. \A q \in Reqs : User(q)' = User(q) /\ q \in Services
    BY SameUser, <1>1 DEF Services
  <1>3. pool[u] # r /\ pool[u] \in Services \cup {None}
    BY <1>1, UserEnginesAssumption DEF OwnInv, TypeOK
  <1>4. Building(u)' = Building(u)
    BY <1>1, <1>2 DEF Building
  <1>5. Saving(u)' = Saving(u)
    <2>1. \A q \in Reqs : pc'[q] = "file" <=> pc[q] = "file"
      BY <1>1
    <2>2. QED
      BY <1>1, <1>2, <2>1 DEF Saving
  <1>6. \A q \in Building(u)' : pc'[q] = "publish" => chains'[q] = Stored(u)'
    <2> TAKE q \in Building(u)'
    <2>1. CASE q = r
      BY <1>1, <1>4, <2>1 DEF Building, Stored
    <2>2. CASE q # r
      BY <1>1, <1>2, <1>4, <2>2 DEF Building, QuietUser, BuildInv, Stored
    <2>3. QED
      BY <2>1, <2>2
  <1>7. BuildInv(u)'
    BY <1>1, <1>4, <1>6 DEF QuietUser, BuildInv
  <1>8. \A q \in Reqs : pc'[q] \in Working /\ User(q)' = u => svc'[q] = pool'[u]
    BY <1>1, <1>2 DEF QuietUser, Working
  <1>9. up' /\ pool'[u] # None => chains'[pool'[u]] = Held(u)'
    BY <1>1, <1>3, <1>5 DEF QuietUser, Held, Stored
  <1>10. QED
    BY <1>7, <1>8, <1>9 DEF QuietUser

(* The first service of a user is published while nobody works for the     *)
(* user.                                                                   *)
LEMMA QuietPublish ==
    ASSUME TypeOK, OwnInv, NEW r \in Reqs, Publish(r),
           NEW u \in Names, QuietUser(u)
    PROVE  QuietUser(u)'
  <1>1. /\ \A q \in Reqs \ {r} : pc'[q] = pc[q]
        /\ pc[r] = "publish" /\ pc'[r] \in {"pool", "run"} /\ svc' = svc /\ svc[r] = r
        /\ up' = up /\ files' = files /\ unsaved' = unsaved /\ chains' = chains /\ task' = task
        /\ \A v \in Names \ {User(r)} : pool'[v] = pool[v]
        /\ User(r) \in Names /\ pool'[User(r)] = r
    BY StepIsUp DEF Publish, Goto, TypeOK, Serve, OwnInv, faults
  <1>2. \A q \in Reqs : User(q)' = User(q)
    BY SameUser, <1>1
  <1>3. CASE User(r) # u
    <2>1. \A q \in Reqs :
             /\ User(q)' = User(q)
             /\ User(q) = u => /\ pc'[q] = pc[q] /\ svc'[q] = svc[q]
                               /\ task'[q] = task[q]
      BY <1>1, <1>2, <1>3
    <2>2. QED
      BY <1>1, <1>3, <2>1, QuietFrame
  <1>4. CASE User(r) = u
    <2>1. /\ r \in Building(u) /\ pool[u] = None /\ chains[r] = Stored(u)
          /\ unsaved[u] = {}
      BY <1>1, <1>4 DEF Building, QuietUser, BuildInv
    <2>2. \A q \in Reqs : pc[q] \in Working => User(q) # u
      <3> SUFFICES ASSUME NEW q \in Reqs, pc[q] \in Working, User(q) = u PROVE FALSE
        OBVIOUS
      <3>1. svc[q] # None
        BY DEF TypeOK, Working
      <3>2. svc[q] = None
        BY <2>1 DEF QuietUser
      <3>3. QED
        BY <3>1, <3>2
    <2>3. \A q \in Reqs : pc'[q] = "file" => User(q)' # u
      BY <1>1, <1>2, <2>2 DEF Working
    <2>4. Saving(u)' = {}
      BY <2>3 DEF Saving
    <2>5. Building(u)' = {}
      BY <1>1, <1>2, <2>1 DEF Building, QuietUser, BuildInv
    <2>6. BuildInv(u)'
      BY <1>1, <1>4, <2>5, UserEnginesAssumption DEF BuildInv
    <2>7. \A q \in Reqs : pc'[q] \in Working /\ User(q)' = u => svc'[q] = pool'[u]
      BY <1>1, <1>2, <1>4, <2>2
    <2>8. chains'[pool'[u]] = Held(u)'
      BY <1>1, <1>4, <2>1, <2>4 DEF Held, Stored
    <2>9. QED
      BY <2>6, <2>7, <2>8 DEF QuietUser
  <1>5. QED
    BY <1>3, <1>4

(* A save of a user not raced for goes to the registered service; one of   *)
(* another user goes to a service of that user.                            *)
LEMMA QuietSavePool ==
    ASSUME TypeOK, OwnInv, NEW r \in Reqs, SavePool(r),
           NEW u \in Names, QuietUser(u)
    PROVE  QuietUser(u)'
  <1>1. /\ \A q \in Reqs \ {r} : pc'[q] = pc[q]
        /\ pc[r] = "pool" /\ pc'[r] = "file" /\ svc' = svc /\ svc[r] \in Services
        /\ up' = up /\ files' = files /\ unsaved' = unsaved /\ pool' = pool /\ task' = task
        /\ \A s \in Services \ {svc[r]} : chains'[s] = chains[s]
        /\ chains'[svc[r]] = chains[svc[r]] \cup {task[r].chain}
        /\ Owner(svc[r]) = User(r)
    <2>1. svc[r] \in Services
      BY DEF SavePool, TypeOK
    <2>2. svc[r] # None
      BY DEF SavePool, TypeOK
    <2>3. QED
      BY <2>1, <2>2 DEF SavePool, Goto, TypeOK, OwnInv, faults
  <1>2. \A q \in Reqs : User(q)' = User(q) /\ q \in Services
    BY SameUser, <1>1 DEF Services
  <1>3. pool[u] # None => pool[u] \in Services /\ Owner(pool[u]) = u
    BY DEF OwnInv, TypeOK
  <1>4. CASE User(r) # u
    <2>1. \A q \in Reqs :
             /\ User(q)' = User(q)
             /\ User(q) = u => /\ pc'[q] = pc[q] /\ svc'[q] = svc[q]
                               /\ task'[q] = task[q]
      BY <1>1, <1>2, <1>4
    <2>2. pool[u] # None => chains'[pool[u]] = chains[pool[u]]
      BY <1>1, <1>3, <1>4
    <2>3. \A q \in Building(u) : Owner(q) = u /\ q \in Services
      BY <1>2 DEF Building, Owner
    <2>4. \A q \in Building(u) : chains'[q] = chains[q]
      BY <1>1, <1>4, <2>3
    <2>5. QED
      BY <1>1, <2>1, <2>2, <2>4, QuietFrame
  <1>5. CASE User(r) = u
    <2>1. svc[r] = pool[u] /\ pool[u] # None
      BY <1>1, <1>5 DEF QuietUser, Working, TypeOK
    <2>2. Building(u) = {} /\ Building(u)' = {}
      BY <1>1, <1>2, <2>1 DEF Building, QuietUser, BuildInv
    <2>3. BuildInv(u)'
      BY <1>1, <2>1, <2>2 DEF BuildInv
    <2>4. \A q \in Reqs : pc'[q] \in Working /\ User(q)' = u => svc'[q] = pool'[u]
      BY <1>1, <1>2, <1>5 DEF QuietUser, Working
    <2>5. Saving(u)' = Saving(u) \cup {task[r].chain}
      <3>1. \A q \in Reqs : pc'[q] = "file" <=> pc[q] = "file" \/ q = r
        BY <1>1
      <3>2. \A c : c \in Saving(u)' <=> c \in Saving(u) \/ c = task[r].chain
        BY <1>1, <1>2, <1>5, <3>1 DEF Saving
      <3>3. QED
        BY <3>2
    <2>6. up' => chains'[pool'[u]] = Held(u)'
      BY <1>1, <2>1, <2>5 DEF QuietUser, Held, Stored
    <2>7. QED
      BY <2>3, <2>4, <2>6 DEF QuietUser
  <1>6. QED
    BY <1>4, <1>5

(* A step of a save that leaves the pools alone. It may take the chain from*)
(* those under way to those with a file or to those whose save failed.     *)
LEMMA QuietFileStep ==
    ASSUME TypeOK, OwnInv, NEW r \in Reqs, Serving(r),
           chains' = chains, NEW u \in Names, QuietUser(u),
           User(r) # u => files'[u] = files[u] /\ unsaved'[u] = unsaved[u],
           User(r) = u => Held(u)' = Held(u)
    PROVE  QuietUser(u)'
  <1>1. /\ \A q \in Reqs \ {r} : pc'[q] = pc[q]
        /\ pc[r] \in Working /\ pc'[r] \notin {"init", "publish"} /\ svc' = svc
        /\ up' = up /\ pool' = pool /\ task' = task
    BY ServingStep DEF TypeOK, Working
  <1>2. \A q \in Reqs : User(q)' = User(q)
    BY SameUser, <1>1
  <1>3. CASE User(r) # u
    <2>1. \A q \in Reqs :
             /\ User(q)' = User(q)
             /\ User(q) = u => /\ pc'[q] = pc[q] /\ svc'[q] = svc[q]
                               /\ task'[q] = task[q]
      BY <1>1, <1>2, <1>3
    <2>2. QED
      BY <1>1, <1>3, <2>1, QuietFrame
  <1>4. CASE User(r) = u
    <2>1. pool[u] # None
      BY <1>1, <1>4 DEF OwnInv
    <2>2. Building(u) = {} /\ Building(u)' = {}
      BY <1>1, <1>2, <2>1 DEF Building, QuietUser, BuildInv, Working
    <2>3. BuildInv(u)'
      BY <1>1, <2>1, <2>2 DEF BuildInv
    <2>4. \A q \in Reqs : pc'[q] \in Working /\ User(q)' = u => svc'[q] = pool'[u]
      BY <1>1, <1>2 DEF QuietUser, Working
    <2>5. up' => chains'[pool'[u]] = Held(u)'
      BY <1>1, <1>4, <2>1 DEF QuietUser
    <2>6. QED
      BY <2>3, <2>4, <2>5 DEF QuietUser
  <1>5. QED
    BY <1>3, <1>4

(* Who leaves "file" takes its chain from those under way.                 *)
LEMMA SavingStep ==
    ASSUME TypeOK, NEW r \in Reqs, Serving(r), ~SavePool(r),
           NEW u \in Names, u = User(r)
    PROVE  /\ pc[r] = "file" => Saving(u) = Saving(u)' \cup {task[r].chain}
           /\ pc[r] # "file" => Saving(u)' = Saving(u)
  <1>1. /\ \A q \in Reqs \ {r} : pc'[q] = pc[q]
        /\ pc'[r] # "file" /\ task' = task
    BY ServingStep
    DEF TypeOK, Serving, Reject, Run, OpenFile, WriteFile, SaveFails, Goto
  <1>2. \A q \in Reqs : User(q)' = User(q)
    BY SameUser, <1>1
  <1>3. CASE pc[r] = "file"
    <2>1. \A q \in Reqs : pc[q] = "file" <=> pc'[q] = "file" \/ q = r
      BY <1>1, <1>3
    <2>2. \A c : c \in Saving(u) <=> c \in Saving(u)' \/ c = task[r].chain
      BY <1>1, <1>2, <2>1 DEF Saving
    <2>3. QED
      BY <1>3, <2>2
  <1>4. CASE pc[r] # "file"
    <2>1. \A q \in Reqs : pc[q] = "file" <=> pc'[q] = "file"
      BY <1>1, <1>4
    <2>2. QED
      BY <1>1, <1>2, <1>4, <2>1 DEF Saving
  <1>5. QED
    BY <1>3, <1>4

LEMMA QuietSave ==
    ASSUME TypeOK, OwnInv, NEW r \in Reqs,
           OpenFile(r) \/ WriteFile(r) \/ SaveFails(r) \/ Reject(r) \/ Run(r),
           pc[r] = "write" => files[User(r)][task[r].chain] # "none",
           NEW u \in Names, QuietUser(u)
    PROVE  QuietUser(u)'
  <1>1. /\ chains' = chains /\ Serving(r) /\ ~SavePool(r)
        /\ User(r) \in Names /\ task[r].chain \in Chains /\ pc[r] # "idle"
    <2>1. chains' = chains /\ Serving(r) /\ ~SavePool(r)
      BY DEF OpenFile, WriteFile, SaveFails, Reject, Run, Serving, SavePool, Goto, TypeOK
    <2>2. pc[r] # "idle"
      BY <2>1, ServingStep
    <2>3. QED
      BY <2>1, <2>2, UserType
  <1>2. User(r) = u => /\ pc[r] = "file" => Saving(u) = Saving(u)' \cup {task[r].chain}
                       /\ pc[r] # "file" => Saving(u)' = Saving(u)
    BY <1>1, SavingStep
  <1>3. CASE OpenFile(r)
    <2>1. PutFile(r, "empty") /\ pc[r] = "file" /\ unsaved' = unsaved
      BY <1>3 DEF OpenFile, faults
    <2>2. User(r) = u => Stored(u)' = Stored(u) \cup {task[r].chain}
      BY <1>1, <2>1, PutStored DEF FileStates
    <2>3. \A v \in Names \ {User(r)} : files'[v] = files[v]
      BY <1>1, <2>1, PutOne DEF FileStates
    <2>4. User(r) = u => Held(u)' = Held(u)
      BY <1>2, <2>1, <2>2 DEF Held
    <2>5. QED
      BY <1>1, <2>1, <2>3, <2>4, QuietFileStep
  <1>4. CASE WriteFile(r)
    <2>1. PICK f \in {"whole", "torn"} : PutFile(r, f)
      BY <1>4 DEF WriteFile
    <2>2. User(r) = u => Stored(u)' = Stored(u) \cup {task[r].chain}
      BY <1>1, <2>1, PutStored DEF FileStates
    <2>3. \A v \in Names \ {User(r)} : files'[v] = files[v]
      BY <1>1, <2>1, PutOne DEF FileStates
    <2>4. task[r].chain \in Stored(User(r)) /\ pc[r] = "write" /\ unsaved' = unsaved
      BY <1>1, <1>4 DEF WriteFile, Stored
    <2>5. User(r) = u => Held(u)' = Held(u)
      BY <1>2, <2>2, <2>4 DEF Held
    <2>6. QED
      BY <1>1, <2>3, <2>4, <2>5, QuietFileStep
  <1>5. CASE SaveFails(r)
    <2>1. /\ \A v \in Names \ {User(r)} : unsaved'[v] = unsaved[v]
          /\ unsaved'[User(r)] = unsaved[User(r)] \cup {task[r].chain}
      BY <1>1, <1>5 DEF SaveFails, TypeOK
    <2>2. CASE pc[r] = "file"
      <3>1. files' = files
        BY <1>5, <2>2 DEF SaveFails
      <3>2. User(r) = u => Held(u)' = Held(u)
        BY <1>2, <2>1, <2>2, <3>1 DEF Held, Stored
      <3>3. QED
        BY <1>1, <2>1, <3>1, <3>2, QuietFileStep
    <2>3. CASE pc[r] = "write"
      <3>1. files[User(r)][task[r].chain] \in FileStates \ {"none"}
        BY <1>1, <2>3 DEF TypeOK
      <3>2. PICK f \in FileStates \ {"none"} : PutFile(r, f)
        BY <1>5, <2>3, <3>1 DEF SaveFails, FileStates
      <3>3. User(r) = u => Stored(u)' = Stored(u) \cup {task[r].chain}
        BY <1>1, <3>2, PutStored
      <3>4. \A v \in Names \ {User(r)} : files'[v] = files[v]
        BY <1>1, <3>2, PutOne
      <3>5. task[r].chain \in Stored(User(r))
        BY <1>1, <3>1 DEF Stored
      <3>6. User(r) = u => Held(u)' = Held(u) \cup {task[r].chain}
        BY <1>2, <2>1, <2>3, <3>3, <3>5 DEF Held
      <3>7. User(r) = u => Held(u)' = Held(u)
        BY <3>5, <3>6 DEF Held
      <3>8. QED
        BY <1>1, <2>1, <3>4, <3>7, QuietFileStep
    <2>4. QED
      BY <1>5, <2>2, <2>3 DEF SaveFails
  <1>6. CASE Reject(r) \/ Run(r)
    <2>1. files' = files /\ unsaved' = unsaved /\ pc[r] # "file"
      BY <1>6 DEF Reject, Run, faults
    <2>2. User(r) = u => Held(u)' = Held(u)
      BY <1>2, <2>1 DEF Held, Stored
    <2>3. QED
      BY <1>1, <2>1, <2>2, QuietFileStep
  <1>7. QED
    BY <1>3, <1>4, <1>5, <1>6

LEMMA QuietEnd ==
    ASSUME TypeOK, EndOfProcess, NEW u \in Names PROVE QuietUser(u)'
  <1>1. \A r \in Reqs : pc'[r] \notin Active
    BY DEF EndOfProcess, TypeOK, Busy, Active, Working
  <1>2. Building(u)' = {} /\ ~up' /\ unsaved'[u] = {}
    BY <1>1 DEF Building, Active, EndOfProcess
  <1>3. BuildInv(u)'
    BY <1>2 DEF BuildInv
  <1>4. QED
    BY <1>1, <1>2, <1>3 DEF QuietUser, Active

(* What start-up registers has loaded the directory.                       *)
LEMMA QuietBoot ==
    ASSUME TypeOK, OwnInv, Boot, NEW u \in Names PROVE QuietUser(u)'
  <1>1. \A r \in Reqs : pc'[r] \notin Active
    BY DEF Boot, OwnInv, Busy, Active, Working
  <1>2. Building(u)' = {} /\ Saving(u)' = {} /\ unsaved'[u] = {}
    BY <1>1 DEF Building, Saving, Active, Working, Boot, OwnInv, faults
  <1>3. BuildInv(u)'
    BY <1>2 DEF BuildInv
  <1>4. pool'[u] # None => chains'[pool'[u]] = Held(u)'
    BY <1>2 DEF Boot, Services, Held, Stored
  <1>5. QED
    BY <1>1, <1>2, <1>3, <1>4 DEF QuietUser, Active

LEMMA QuietNext ==
    FileInv /\ (\A u \in Names \ raced : QuietUser(u)) /\ [Next]_vars
        => (\A u \in Names \ raced : QuietUser(u))'
  <1> SUFFICES ASSUME FileInv, \A u \in Names \ raced : QuietUser(u),
                      [Next]_vars, NEW u \in Names \ raced'
               PROVE  QuietUser(u)'
    BY DEF Names
  <1>0. TypeOK /\ OwnInv
    BY DEF FileInv
  <1>1. CASE UNCHANGED vars
    <2>1. \A q \in Reqs : User(q)' = User(q)
      BY <1>1, SameUser DEF vars
    <2>2. QED
      BY <1>0, <1>1, <2>1, QuietFrame DEF vars, faults
  <1>2. CASE EndOfProcess
    BY <1>0, <1>2, QuietEnd
  <1>3. CASE Boot
    BY <1>0, <1>3, QuietBoot
  <1>4. ASSUME NEW r \in Reqs, Step(r), ~EndOfProcess PROVE QuietUser(u)'
    <2>1. QuietUser(u)
      <3>1. raced \subseteq raced'
        BY <1>0, <1>4, ServingStep
        DEF Step, Start, Lookup, NewService, Publish, Serving, Fatal
      <3>2. QED
        BY <3>1
    <2>2. pc[r] = "write" => files[User(r)][task[r].chain] # "none"
      BY DEF FileInv
    <2>3. QED
      BY <1>0, <1>4, <2>1, <2>2, QuietStart, QuietLookup, QuietNewService,
         QuietPublish, QuietSavePool, QuietSave DEF Step, Fatal
  <1>5. QED
    BY <1>1, <1>2, <1>3, <1>4 DEF Next, Crash

-----------------------------------------------------------------------------
(* The theorems.                                                           *)

LEMMA InitFile == Init => FileInv
  <1> SUFFICES ASSUME Init PROVE FileInv
    OBVIOUS
  <1>1. TypeOK
    BY InitType
  <1>2. /\ ~up /\ raced = {}
        /\ \A u \in Names : pool[u] = None /\ unsaved[u] = {} /\ acked[u] = {}
        /\ \A r \in Reqs : pc[r] = "idle" /\ svc[r] = None
    BY DEF Init
  <1>3. OwnInv
    BY <1>2 DEF OwnInv, Busy, Working
  <1>4. \A u \in Names : Stored(u) # {} => u \in Users \cap dirs
    BY DEF Init
  <1>5. \A u \in Names, c \in Chains : files[u][c] \in {"none", "whole"}
    BY DEF Init
  <1>6. QED
    BY <1>1, <1>2, <1>3, <1>4, <1>5 DEF FileInv

LEMMA InitService == Init => ServiceInv
  <1> SUFFICES ASSUME Init PROVE ServiceInv
    OBVIOUS
  <1>1. FileInv
    BY InitFile
  <1>2. /\ ~up /\ raced = {}
        /\ \A u \in Names : pool[u] = None /\ unsaved[u] = {}
        /\ \A r \in Reqs : pc[r] = "idle" /\ svc[r] = None
    BY DEF Init
  <1>4. FirstInv
    BY <1>2 DEF FirstInv
  <1>5. \A u \in Names \ raced : QuietUser(u)
    <2> TAKE u \in Names \ raced
    <2>1. BuildInv(u)
      BY <1>2 DEF BuildInv, Building
    <2>2. QED
      BY <1>2, <2>1 DEF QuietUser, Working
  <1>6. QED
    BY <1>1, <1>4, <1>5, QuietParts DEF ServiceInv

LEMMA ServiceNext == ServiceInv /\ [Next]_vars => ServiceInv'
  <1> SUFFICES ASSUME ServiceInv, [Next]_vars PROVE ServiceInv'
    OBVIOUS
  <1>1. FileInv' /\ FirstInv'
    BY FileNext, FirstNext DEF ServiceInv, FileInv
  <1>2. (\A u \in Names \ raced : QuietUser(u))'
    BY QuietParts, QuietNext DEF ServiceInv
  <1>3. (OneService /\ \A u \in Names \ raced : BuildInv(u))'
    BY <1>2 DEF OneService, QuietUser, Working, Held
  <1>4. QED
    BY <1>1, <1>3 DEF ServiceInv

(* Whatever requests and MQTT messages interleave with failing writes,     *)
(* ends of the process and restarts: unless first requests of a user       *)
(* overlapped, all the user's requests work on the registered service, and *)
(* its pool is what the directory holds, but for saves under way and saves *)
(* that failed.                                                            *)
THEOREM OneServiceCorrect == Spec => []OneService
  <1>1. ServiceInv => OneService
    BY DEF ServiceInv
  <1>2. QED
    BY <1>1, InitService, ServiceNext, PTL DEF Spec

(* A first request meets a file that does not load only if the first       *)
(* requests of its user overlapped: such a file is of a user who has a     *)
(* service registered, and who is building found none.                     *)
THEOREM LoadsCorrect == Spec => []LoadsWholeFiles
  <1>1. ServiceInv => LoadsWholeFiles
    <2> SUFFICES ASSUME ServiceInv, NEW r \in Reqs, pc[r] = "init",
                        ~Loads(User(r)), User(r) \notin raced
                 PROVE  FALSE
      BY DEF LoadsWholeFiles
    <2>1. User(r) \in Names \ raced /\ r \in Building(User(r))
      BY UserType DEF ServiceInv, FileInv, Building
    <2>2. pool[User(r)] = None
      BY <2>1 DEF ServiceInv, BuildInv
    <2>3. up
      BY DEF ServiceInv, FileInv, OwnInv, Busy
    <2>4. QED
      BY <2>1, <2>2, <2>3 DEF ServiceInv, FileInv
  <1>2. QED
    BY <1>1, InitService, ServiceNext, PTL DEF Spec

(* Nobody replaces a service that start-up registered: a request that Init *)
(* serves found nothing under the user's name, and nothing puts a service  *)
(* of start-up there later.                                                *)
THEOREM RegisteredCorrect == Spec => RegisteredOnce
  <1>1. ServiceInv /\ [Next]_vars =>
           [\A u \in Names : up /\ up' /\ pool[u] \in Names => pool'[u] = pool[u]]_vars
    <2> SUFFICES ASSUME ServiceInv, Next, NEW u \in Names, up, up', pool[u] \in Names
                 PROVE  pool'[u] = pool[u]
      OBVIOUS
    <2>1. TypeOK /\ OwnInv /\ FirstInv
      BY DEF ServiceInv, FileInv
    <2>2. ASSUME NEW r \in Reqs, Publish(r) PROVE pool'[u] = pool[u]
      <3>1. pc[r] = "publish" /\ User(r) # u
        BY <2>1, <2>2 DEF FirstInv, Publish
      <3>2. QED
        BY <2>1, <2>2, <3>1 DEF Publish, TypeOK
    <2>3. ASSUME NEW r \in Reqs, Serving(r) PROVE pool'[u] = pool[u]
      BY <2>1, <2>3, ServingStep
    <2>4. QED
      BY <2>2, <2>3 DEF Next, Step, Start, Lookup, NewService, Serving, Crash, Fatal,
         EndOfProcess, Boot
  <1>2. QED
    BY <1>1, InitService, ServiceNext, PTL DEF Spec, RegisteredOnce

(* When the process is down, a file that does not load had a write that    *)
(* failed, was cut short or went over another one, so that with no such    *)
(* write start-up comes up. Also where two services of one user were built *)
(* at once, it then serves every save answered OK: the save has made the   *)
(* user's directory and the file, nothing in the registry removes either,  *)
(* and start-up loads every directory.                                     *)
THEOREM RestartCorrect == Spec => SavedIsServedAfterRestart
  <1> DEFINE A == ~up => /\ hurt = {} => \A u \in Names : Loads(u)
                         /\ up' => \A u \in Users : acked[u] # {} =>
                                      /\ pool'[u] # None
                                      /\ acked[u] \subseteq chains'[pool'[u]]
  <1>1. FileInv /\ [Next]_vars => [A]_vars
    <2> SUFFICES ASSUME FileInv, Next, ~up PROVE A
      OBVIOUS
    <2>1. Written = {}
      BY DEF FileInv, OwnInv, Busy, Written
    <2>2. hurt = {} => \A u \in Names : Loads(u)
      BY <2>1 DEF FileInv, Loads
    <2>3. ASSUME up', NEW u \in Users, acked[u] # {}
          PROVE  pool'[u] # None /\ acked[u] \subseteq chains'[pool'[u]]
      <3>1. Boot
        <4>1. \A r \in Reqs : ~Step(r)
          <5> SUFFICES ASSUME NEW r \in Reqs, Step(r) PROVE FALSE
            OBVIOUS
          <5>1. ~Busy(r) /\ TypeOK
            BY DEF FileInv, OwnInv
          <5>2. ~Serving(r)
            BY <5>1, ServingStep DEF Busy
          <5>3. QED
            BY <5>1, <5>2
            DEF Step, Start, Lookup, NewService, Fatal, Publish, Serving, Busy
        <4>2. QED
          BY <4>1 DEF Next, Crash
      <3>2. u \in Names /\ u \in dirs /\ acked[u] \subseteq Stored(u)
        BY <2>3 DEF FileInv, Names
      <3>3. pool'[u] = u /\ chains'[u] = Stored(u)
        BY <3>1, <3>2 DEF Boot, Services
      <3>4. QED
        BY <3>2, <3>3, UserEnginesAssumption
    <2>4. QED
      BY <2>2, <2>3
  <1>2. QED
    BY <1>1, InitFile, FileNext, PTL DEF Spec, SavedIsServedAfterRestart
=============================================================================
