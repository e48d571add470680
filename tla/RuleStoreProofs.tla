-------------------------- MODULE RuleStoreProofs --------------------------
(***************************************************************************)
(* Theorems about RuleStore, for any chains, requests, configuration       *)
(* sections and offered operations: TypeCorrect and PresenceCorrect.       *)
(***************************************************************************)
EXTENDS RuleStore, TLAPS

-----------------------------------------------------------------------------
(* Type correctness.                                                       *)

(* The document a request sends is a document.                             *)
LEMMA BodyType ==
    ASSUME NEW r \in Reqs, task[r] \in Tasks
    PROVE  Body(r) \in Docs
  BY DEF Body, Docs, Src, Tasks

(* A request that has started knows what it asks for.                      *)
LEMMA TaskType ==
    ASSUME TypeOK, NEW r \in Reqs, pc[r] # "idle"
    PROVE  /\ task[r] \in Tasks /\ Chain(r) \in Chains
           /\ task[r].key \in Keys /\ task[r].op \in Ops
  BY DEF TypeOK, Tasks, Chain

(* The server starts well typed, whatever files it finds.                  *)
LEMMA InitType == Init => TypeOK
  <1> SUFFICES ASSUME Init PROVE TypeOK
    OBVIOUS
  <1> DEFINE D == [nodes |-> Orig, info |-> Orig,
                   conf |-> [k \in Keys |-> Orig], stamp |-> FALSE]
  <1>1. D \in Docs
    BY DEF Docs, Src
  <1>2. self = [e \in Engines |-> D] /\ disk \in [Chains -> {NoFile, D}]
    BY DEF Init
  <1> HIDE DEF D
  <1>3. self \in [Engines -> Docs] /\ disk \in [Chains -> Files]
    BY <1>1, <1>2 DEF Files
  <1>4. pool \in [Chains -> Engines \cup {None}]
    BY DEF Init, Engines
  <1>5. QED
    BY <1>3, <1>4 DEF Init, TypeOK, Steps, UsesEngine, Done, Causes

(* Each step keeps the types.                                              *)
LEMMA StartType ==
    ASSUME TypeOK, NEW r \in Reqs, NEW t \in Tasks, Start(r, t)
    PROVE  TypeOK'
  <1>1. t.chain \in Chains /\ t # None
    BY RuleStoreAssumption DEF Tasks
  <1>2. cause' \in [Chains -> SUBSET Causes]
    BY <1>1 DEF TypeOK, Start, Blame, Causes
  <1>3. task' \in [Reqs -> Tasks \cup {None}] /\ task'[r] # None
    BY <1>1 DEF TypeOK, Start
  <1>4. /\ pc' \in [Reqs -> Steps \cup Done \cup {"idle"}]
        /\ pc'[r] \in {"del", "get"}
    BY DEF TypeOK, Start, Goto, Steps
  <1>5. QED
    BY <1>2, <1>3, <1>4 DEF TypeOK, Start, Goto, UsesEngine

(* A step that only moves on, or only moves on and fetches the engine.     *)
LEMMA MoveType ==
    ASSUME TypeOK, NEW r \in Reqs, pc[r] # "idle",
           NEW l \in Steps \cup Done, Goto(r, l),
           l \in UsesEngine => eng'[r] # None,
           l \in {"confreload", "trunc", "write"} => buf'[r] # None,
           eng' \in [Reqs -> Engines \cup {None}],
           \A q \in Reqs \ {r} : eng'[q] = eng[q],
           buf' \in [Reqs -> Docs \cup {NodeDoc, None}],
           \A q \in Reqs \ {r} : buf'[q] = buf[q],
           up' \in BOOLEAN,
           pool' \in [Chains -> Engines \cup {None}],
           self' \in [Engines -> Docs],
           disk' \in [Chains -> Files],
           runs' \subseteq {User, Default} \X Chains \X {"own", "other"},
           task' = task, named' \subseteq Chains,
           cause' \in [Chains -> SUBSET Causes]
    PROVE  TypeOK'
  <1>1. /\ pc' \in [Reqs -> Steps \cup Done \cup {"idle"}]
        /\ pc'[r] = l
        /\ \A q \in Reqs \ {r} : pc'[q] = pc[q]
    BY DEF TypeOK, Goto
  <1>2. l # "idle"
    BY DEF Steps, Done, UsesEngine
  <1>3. ASSUME NEW q \in Reqs
        PROVE  /\ pc'[q] = "idle" <=> task'[q] = None
               /\ pc'[q] \in UsesEngine => eng'[q] # None
               /\ pc'[q] \in {"confreload", "trunc", "write"} => buf'[q] # None
    <2>1. CASE q = r
      BY <2>1, <1>1, <1>2 DEF TypeOK
    <2>2. CASE q # r
      BY <2>2, <1>1 DEF TypeOK
    <2>3. QED
      BY <2>1, <2>2
  <1>4. task' \in [Reqs -> Tasks \cup {None}]
    BY DEF TypeOK
  <1>5. QED
    BY <1>1, <1>3, <1>4 DEF TypeOK

(* The look-up, and the creation of an engine, leave an engine behind      *)
(* wherever the next step needs one.                                       *)
LEMMA LookupType ==
    ASSUME TypeOK, NEW r \in Reqs,
           PoolGet(r) \/ NewFindsEngine(r) \/ NewMakesEngine(r)
    PROVE  TypeOK'
  <1> USE TaskType
  <1>1. CASE PoolGet(r)
    <2>1. PICK l \in Steps \cup Done :
             /\ Goto(r, l)
             /\ l \in UsesEngine => pool[Chain(r)] # None
             /\ l \notin {"confreload", "trunc", "write"}
      BY <1>1 DEF PoolGet, Steps, UsesEngine, Done
    <2>2. /\ eng'[r] = pool[Chain(r)]
          /\ eng' \in [Reqs -> Engines \cup {None}]
          /\ \A q \in Reqs \ {r} : eng'[q] = eng[q]
      BY <1>1 DEF PoolGet, TypeOK
    <2>3. QED
      BY <1>1, <2>1, <2>2, MoveType DEF PoolGet, TypeOK
  <1>2. CASE NewFindsEngine(r)
    <2>1. PICK l \in {"dslout", "stamp"} : Goto(r, l)
      BY <1>2 DEF NewFindsEngine
    <2>2. /\ eng'[r] # None
          /\ eng' \in [Reqs -> Engines \cup {None}]
          /\ \A q \in Reqs \ {r} : eng'[q] = eng[q]
      BY <1>2 DEF NewFindsEngine, TypeOK
    <2>3. QED
      BY <1>2, <2>1, <2>2, MoveType DEF NewFindsEngine, TypeOK, Steps, UsesEngine
  <1>3. CASE NewMakesEngine(r)
    <2>1. PICK l \in {"dslout", "stamp"} : Goto(r, l)
      BY <1>3 DEF NewMakesEngine
    <2>2. r \in Engines /\ r # None
      BY RuleStoreAssumption DEF Engines
    <2>3. /\ eng'[r] # None
          /\ eng' \in [Reqs -> Engines \cup {None}]
          /\ \A q \in Reqs \ {r} : eng'[q] = eng[q]
      BY <1>3, <2>2 DEF NewMakesEngine, TypeOK
    <2>4. Body(r) \in Docs
      BY <1>3, BodyType DEF NewMakesEngine
    <2>5. /\ self' \in [Engines -> Docs]
          /\ pool' \in [Chains -> Engines \cup {None}]
      BY <1>3, <2>2, <2>4 DEF NewMakesEngine, TypeOK
    <2>6. QED
      BY <1>3, <2>1, <2>3, <2>5, MoveType
      DEF NewMakesEngine, TypeOK, Steps, UsesEngine
  <1>4. QED
    BY <1>1, <1>2, <1>3

(* The steps that edit the definition in memory.                           *)
LEMMA EditType ==
    ASSUME TypeOK, NEW r \in Reqs,
           \/ ReloadSelf(r) \/ ReloadChild(r) \/ Stamp(r)
           \/ SetBaseInfo(r) \/ SetConf(r) \/ ReloadConf(r)
    PROVE  TypeOK'
  <1> USE TaskType
  <1>1. pc[r] \in UsesEngine
    BY DEF ReloadSelf, ReloadChild, Stamp, SetBaseInfo, SetConf, ReloadConf,
           UsesEngine
  <1>2. eng[r] \in Engines /\ self[eng[r]] \in Docs /\ pc[r] # "idle"
    BY <1>1 DEF TypeOK, UsesEngine
  <1>3. r \in Src
    BY DEF Src
  <1>4. CASE ReloadSelf(r)
    <2>1. Body(r) \in Docs
      BY <1>2, BodyType
    <2>2. self' \in [Engines -> Docs]
      BY <1>2, <1>4, <2>1 DEF ReloadSelf, TypeOK
    <2>3. QED
      BY <1>2, <1>4, <2>2, MoveType DEF ReloadSelf, TypeOK, Steps, UsesEngine
  <1>5. CASE ReloadChild(r)
    <2>1. [self[eng[r]] EXCEPT !.nodes = r] \in Docs
      BY <1>2, <1>3 DEF Docs
    <2>2. self' \in [Engines -> Docs]
      BY <1>2, <1>5, <2>1 DEF ReloadChild, TypeOK
    <2>3. QED
      BY <1>2, <1>5, <2>2, MoveType DEF ReloadChild, TypeOK, Steps, UsesEngine
  <1>6. CASE Stamp(r)
    <2>1. [self[eng[r]] EXCEPT !.stamp = TRUE] \in Docs
      BY <1>2 DEF Docs
    <2>2. self' \in [Engines -> Docs]
      BY <1>2, <1>6, <2>1 DEF Stamp, TypeOK
    <2>3. Body(r) \in Docs
      BY <1>2, BodyType
    <2>4. /\ buf'[r] # None
          /\ buf' \in [Reqs -> Docs \cup {NodeDoc, None}]
          /\ \A q \in Reqs \ {r} : buf'[q] = buf[q]
      BY <1>6, <2>3, RuleStoreAssumption DEF Stamp, TypeOK
    <2>5. QED
      BY <1>2, <1>6, <2>2, <2>4, MoveType DEF Stamp, TypeOK, Steps, UsesEngine
  <1>7. CASE SetBaseInfo(r)
    <2>1. [self[eng[r]] EXCEPT !.info = r, !.stamp = TRUE] \in Docs
      BY <1>2, <1>3 DEF Docs
    <2>2. self' = [self EXCEPT ![eng[r]] =
                     [self[eng[r]] EXCEPT !.info = r, !.stamp = TRUE]]
      BY <1>2, <1>7 DEF SetBaseInfo, TypeOK
    <2>3. self' \in [Engines -> Docs]
      BY <1>2, <2>1, <2>2 DEF TypeOK
    <2>4. QED
      BY <1>2, <1>7, <2>3, MoveType DEF SetBaseInfo, TypeOK, Steps, UsesEngine
  <1>8. CASE SetConf(r)
    <2> DEFINE k == task[r].key
    <2>1. [self[eng[r]] EXCEPT !.conf[k] = r, !.stamp = TRUE] \in Docs
      BY <1>2, <1>3 DEF Docs
    <2>2. self' = [self EXCEPT ![eng[r]] =
                     [self[eng[r]] EXCEPT !.conf[k] = r, !.stamp = TRUE]]
      BY <1>2, <1>8 DEF SetConf, TypeOK
    <2>3. self' \in [Engines -> Docs]
      BY <1>2, <2>1, <2>2 DEF TypeOK
    <2>4. QED
      BY <1>2, <1>8, <2>3, MoveType DEF SetConf, TypeOK, Steps, UsesEngine
  <1>9. CASE ReloadConf(r)
    <2>1. self' \in [Engines -> Docs]
      BY <1>2, <1>9 DEF ReloadConf, Loadable, TypeOK
    <2>2. QED
      BY <1>2, <1>9, <2>1, MoveType DEF ReloadConf, TypeOK, Steps, UsesEngine
  <1>10. QED
    BY <1>4, <1>5, <1>6, <1>7, <1>8, <1>9

(* The steps that only read, or only end.                                  *)
LEMMA EndType ==
    ASSUME TypeOK, NEW r \in Reqs,
           \/ RejectBody(r) \/ TakeDsl(r) \/ RejectConf(r)
           \/ EngineGone(r) \/ FileFault(r)
    PROVE  TypeOK'
  <1>1. CASE TakeDsl(r)
    <2>1. eng[r] \in Engines /\ self[eng[r]] \in Docs /\ pc[r] # "idle"
      BY <1>1 DEF TakeDsl, TypeOK, UsesEngine
    <2>2. /\ buf'[r] # None
          /\ buf' \in [Reqs -> Docs \cup {NodeDoc, None}]
          /\ \A q \in Reqs \ {r} : buf'[q] = buf[q]
      BY <1>1, <2>1, RuleStoreAssumption DEF TakeDsl, TypeOK
    <2>3. PICK l \in {"confreload", "trunc"} : Goto(r, l)
      BY <1>1 DEF TakeDsl
    <2>4. QED
      BY <1>1, <2>1, <2>2, <2>3, MoveType DEF TakeDsl, TypeOK, Steps, UsesEngine
  <1>2. CASE ~TakeDsl(r)
    <2>1. pc[r] # "idle" /\ Goto(r, "err")
      BY <1>2 DEF RejectBody, RejectConf, EngineGone, FileFault, UsesEngine
    <2>2. cause' \in [Chains -> SUBSET Causes]
      BY <1>2, <2>1, TaskType
      DEF RejectBody, RejectConf, EngineGone, FileFault, Blame, TypeOK, Causes
    <2>3. QED
      BY <1>2, <2>1, <2>2, MoveType
      DEF RejectBody, RejectConf, EngineGone, FileFault, TypeOK, Done, UsesEngine
  <1>3. QED
    BY <1>1, <1>2

(* The steps on the disk.                                                  *)
LEMMA DiskType ==
    ASSUME TypeOK, NEW r \in Reqs,
           \/ OpenFile(r) \/ WriteFile(r) \/ PoolDel(r)
           \/ RemoveFile(r) \/ RemoveRuns(r) \/ Complete(r)
    PROVE  TypeOK'
  <1> USE TaskType
  <1>1. pc[r] # "idle"
    BY DEF OpenFile, WriteFile, PoolDel, RemoveFile, RemoveRuns, Complete
  <1>2. CASE OpenFile(r)
    <2>1. disk' \in [Chains -> Files] /\ buf[r] # None
      BY <1>2 DEF OpenFile, TypeOK, Files
    <2>2. QED
      BY <1>1, <1>2, <2>1, MoveType DEF OpenFile, TypeOK, Steps, UsesEngine
  <1>3. CASE WriteFile(r)
    <2>1. buf[r] \in Docs \cup {NodeDoc}
      BY <1>3 DEF WriteFile, TypeOK
    <2>2. PICK f \in {buf[r], NoFile, Torn} :
             disk' = [disk EXCEPT ![Chain(r)] = f]
      BY <1>3 DEF WriteFile
    <2>3. disk' \in [Chains -> Files]
      BY <2>1, <2>2 DEF TypeOK, Files
    <2>4. QED
      BY <1>1, <1>3, <2>3, MoveType DEF WriteFile, TypeOK, Done, UsesEngine
  <1>4. CASE PoolDel(r)
    <2>1. pool' \in [Chains -> Engines \cup {None}]
      BY <1>4 DEF PoolDel, TypeOK
    <2>2. QED
      BY <1>1, <1>4, <2>1, MoveType DEF PoolDel, TypeOK, Steps, UsesEngine
  <1>5. CASE RemoveFile(r)
    <2>1. disk' \in [Chains -> Files]
      BY <1>5 DEF RemoveFile, TypeOK, Files
    <2>2. QED
      BY <1>1, <1>5, <2>1, MoveType DEF RemoveFile, TypeOK, Steps, UsesEngine
  <1>6. CASE RemoveRuns(r)
    BY <1>1, <1>6, MoveType DEF RemoveRuns, TypeOK, Done, UsesEngine
  <1>7. CASE Complete(r)
    <2>1. runs' \subseteq {User, Default} \X Chains \X {"own", "other"}
      BY <1>1, <1>7 DEF Complete, Owner, TypeOK
    <2>2. QED
      BY <1>1, <1>7, <2>1, MoveType DEF Complete, TypeOK, Done, UsesEngine
  <1>8. QED
    BY <1>2, <1>3, <1>4, <1>5, <1>6, <1>7

(* The end of the process keeps the types.                                 *)
LEMMA CrashType == ASSUME TypeOK, Crash PROVE TypeOK'
  <1>1. cause' \in [Chains -> SUBSET Causes]
    BY DEF TypeOK, Crash, Causes
  <1>2. /\ pc' \in [Reqs -> Steps \cup Done \cup {"idle"}]
        /\ \A q \in Reqs : ~(pc'[q] \in Steps)
        /\ \A q \in Reqs : pc'[q] = "idle" <=> pc[q] = "idle"
    BY DEF TypeOK, Crash, Active, Steps, UsesEngine, Done
  <1>3. QED
    BY <1>1, <1>2 DEF TypeOK, Crash, Steps, UsesEngine

(* So does loading the files at start-up.                                  *)
LEMMA BootType == ASSUME TypeOK, Boot PROVE TypeOK'
  <1>1. pool' \in [Chains -> Engines \cup {None}]
    BY DEF Boot, Engines
  <1>2. self' \in [Engines -> Docs]
    BY DEF TypeOK, Boot, Engines
  <1>3. QED
    BY <1>1, <1>2 DEF TypeOK, Boot

(* Every step keeps the types.                                             *)
LEMMA NextType == TypeOK /\ [Next]_vars => TypeOK'
  <1> SUFFICES ASSUME TypeOK, [Next]_vars PROVE TypeOK'
    OBVIOUS
  <1>1. ASSUME NEW r \in Reqs, Step(r) PROVE TypeOK'
    BY <1>1, StartType, LookupType, EditType, EndType, DiskType DEF Step
  <1>2. CASE Crash
    BY <1>2, CrashType
  <1>3. CASE Boot
    BY <1>3, BootType
  <1>4. CASE \E c \in Chains : OthersRun(c)
    BY <1>4 DEF TypeOK, OthersRun
  <1>5. CASE UNCHANGED vars
    BY <1>5 DEF TypeOK, vars
  <1>6. QED
    BY <1>1, <1>2, <1>3, <1>4, <1>5 DEF Next

(* The handlers keep the types, and none reaches a step that uses an engine*)
(* or bytes it does not have: in SaveDsl, SaveBaseInfo and                 *)
(* SaveConfiguration, checking the ok of Pool.Get once is enough.          *)
THEOREM TypeCorrect == Spec => []TypeOK
  <1>1. QED
    BY InitType, NextType, PTL DEF Spec

-----------------------------------------------------------------------------
(* The inductive invariant behind PresenceAgrees.                          *)

(* Which steps belong to which operation.                                  *)
OpInv ==
    \A r \in Reqs : Active(r) =>
        /\ pc[r] \in {"del", "rmfile", "rmruns"} => task[r].op = "delete"
        /\ task[r].op = "delete" => pc[r] \in {"del", "rmfile", "rmruns"}
        /\ task[r].op = "exec" => pc[r] \in {"get", "run"}

(* A node document, on disk or on its way there, is owed to a save that    *)
(* named a node.                                                           *)
NodeInv ==
    /\ \A r \in Reqs : Active(r) /\ task[r].op = "child"
                          => "child" \in cause[Chain(r)]
    /\ \A r \in Reqs : pc[r] \in {"trunc", "write"} /\ buf[r] = NodeDoc
                          => "child" \in cause[Chain(r)]
    /\ \A c \in Chains : disk[c] = NodeDoc => "child" \in cause[c]

(* On a quiet chain a delete is alone, and the pool has had no engine since*)
(* its first step.                                                         *)
DeleteInv(c) ==
    \A r \in On(c) : task[r].op = "delete" =>
        /\ On(c) = {r}
        /\ pc[r] # "del" => pool[c] = None

(* A save that has its engine still finds it in the pool, and a file it has*)
(* opened is still there.                                                  *)
SaveInv(c) ==
    \A r \in On(c) :
        /\ pc[r] \notin {"get", "new", "del", "rmfile", "rmruns"} => pool[c] # None
        /\ pc[r] = "write" => disk[c] # NoFile

(* Pool and directory differ only while a delete is between its two steps  *)
(* or the creator of the engine has yet to open the file.                  *)
FileInv(c) ==
    /\ pool[c] = None /\ disk[c] # NoFile => \E r \in On(c) : pc[r] = "rmfile"
    /\ pool[c] # None /\ disk[c] = NoFile =>
          /\ pool[c] \in On(c)
          /\ eng[pool[c]] = pool[c]
          /\ pc[pool[c]] \in {"stamp", "dslout", "trunc"}

PresenceInv ==
    /\ TypeOK /\ OpInv /\ NodeInv
    /\ ~up => \A r \in Reqs : ~Active(r)
    /\ up => \A c \in Chains : Quiet(c) => DeleteInv(c) /\ SaveInv(c) /\ FileInv(c)

(* The files the server starts with are those of its pool.                 *)
LEMMA PresenceInit == Init => PresenceInv
  <1> SUFFICES ASSUME Init PROVE PresenceInv
    OBVIOUS
  <1>1. \A r \in Reqs : ~Active(r)
    BY DEF Init, Active, Steps, UsesEngine
  <1>2. \A c \in Chains : On(c) = {}
    BY <1>1 DEF On
  <1> DEFINE D == [nodes |-> Orig, info |-> Orig,
                   conf |-> [k \in Keys |-> Orig], stamp |-> FALSE]
  <1>3. D \in Docs
    BY DEF Docs, Src
  <1>4. disk \in [Chains -> {NoFile, D}]
    BY DEF Init
  <1> HIDE DEF D
  <1>5. \A c \in Chains : disk[c] # NodeDoc
    BY <1>3, <1>4, RuleStoreAssumption
  <1>6. \A c \in Chains : pool[c] = None <=> disk[c] = NoFile
    BY RuleStoreAssumption DEF Init, Engines
  <1>7. QED
    BY <1>1, <1>2, <1>5, <1>6, InitType
    DEF PresenceInv, OpInv, NodeInv, DeleteInv, SaveInv, FileInv, Init

-----------------------------------------------------------------------------
(* Every step keeps OpInv and NodeInv.                                     *)
LEMMA OpStep ==
    ASSUME TypeOK, OpInv, NEW r \in Reqs, Step(r)
    PROVE  OpInv'
  <1>1. ASSUME NEW q \in Reqs \ {r}
        PROVE  pc'[q] = pc[q] /\ task'[q] = task[q]
    BY DEF Step, Start, PoolGet, NewFindsEngine, NewMakesEngine, RejectBody,
           ReloadSelf, ReloadChild, Stamp, SetBaseInfo, SetConf, TakeDsl,
           ReloadConf, RejectConf, EngineGone, OpenFile, WriteFile, PoolDel,
           RemoveFile, RemoveRuns, FileFault, Complete, Goto, TypeOK
  <1> DEFINE Matches(l, op) ==
               /\ l \in {"del", "rmfile", "rmruns"} => op = "delete"
               /\ op = "delete" => l \in {"del", "rmfile", "rmruns"}
               /\ op = "exec" => l \in {"get", "run"}
  <1>2. ASSUME Active(r)' PROVE Matches(pc'[r], task'[r].op)
    <2>1. ASSUME NEW t \in Tasks, Start(r, t)
          PROVE  Matches(pc'[r], task'[r].op)
      BY <2>1 DEF Start, Goto, TypeOK
    <2>2. CASE \/ PoolGet(r) \/ NewFindsEngine(r) \/ NewMakesEngine(r)
               \/ ReloadSelf(r) \/ ReloadChild(r) \/ Stamp(r)
      BY <2>2, <1>2
      DEF PoolGet, NewFindsEngine, NewMakesEngine, ReloadSelf, ReloadChild,
          Stamp, Goto, TypeOK, OpInv, Active, Steps, UsesEngine
    <2>3. CASE \/ SetBaseInfo(r) \/ SetConf(r) \/ TakeDsl(r) \/ ReloadConf(r)
               \/ OpenFile(r)
      BY <2>3, <1>2
      DEF SetBaseInfo, SetConf, TakeDsl, ReloadConf, OpenFile,
          Goto, TypeOK, OpInv, Active, Steps, UsesEngine
    <2>4. CASE PoolDel(r) \/ RemoveFile(r)
      BY <2>4 DEF PoolDel, RemoveFile, Goto, TypeOK, OpInv, Active, Steps
    <2>5. CASE \/ RejectBody(r) \/ RejectConf(r) \/ EngineGone(r)
               \/ FileFault(r) \/ WriteFile(r) \/ RemoveRuns(r) \/ Complete(r)
      BY <2>5, <1>2
      DEF RejectBody, RejectConf, EngineGone, FileFault, WriteFile, RemoveRuns,
          Complete, Goto, TypeOK, Active, Steps, UsesEngine
    <2>6. QED
      BY <2>1, <2>2, <2>3, <2>4, <2>5 DEF Step
  <1>3. QED
    BY <1>1, <1>2 DEF OpInv, Active

(* Node documents stay owed to saves that name a node.                     *)
LEMMA NodeStep ==
    ASSUME TypeOK, NodeInv, NEW r \in Reqs, Step(r)
    PROVE  NodeInv'
  <1>1. \A c \in Chains : cause[c] \subseteq cause'[c]
    BY DEF Step, Start, PoolGet, NewFindsEngine, NewMakesEngine, RejectBody,
           ReloadSelf, ReloadChild, Stamp, SetBaseInfo, SetConf, TakeDsl,
           ReloadConf, RejectConf, EngineGone, OpenFile, WriteFile, PoolDel,
           RemoveFile, RemoveRuns, FileFault, Complete, Blame, TypeOK
  <1>2. ASSUME NEW t \in Tasks, Start(r, t) PROVE NodeInv'
    <2>1. /\ \A q \in Reqs \ {r} : pc'[q] = pc[q] /\ task'[q] = task[q]
          /\ task'[r] = t /\ t.chain \in Chains
          /\ t.op = "child" => "child" \in cause'[t.chain]
          /\ pc'[r] \in {"del", "get"}
      BY <1>2 DEF Start, Goto, Blame, TypeOK, Tasks
    <2>2. buf' = buf /\ disk' = disk
      BY <1>2 DEF Start
    <2>3. \A q \in Reqs \ {r} : Active(q) => Chain(q) \in Chains
      BY TaskType DEF Active, Steps, UsesEngine
    <2>4. QED
      BY <1>1, <2>1, <2>2, <2>3, TaskType
      DEF NodeInv, Active, Chain, Steps, UsesEngine
  <1>3. ASSUME Active(r), task' = task,
               \A q \in Reqs \ {r} : pc'[q] = pc[q] /\ buf'[q] = buf[q],
               pc'[r] \in {"trunc", "write"} /\ buf'[r] = NodeDoc
                 => "child" \in cause[Chain(r)],
               \A c \in Chains : disk'[c] = NodeDoc
                 => disk[c] = NodeDoc \/ "child" \in cause[c]
        PROVE  NodeInv'
    <2>1. \A q \in Reqs : Active(q) => Chain(q) \in Chains
      BY TaskType DEF Active, Steps, UsesEngine
    <2>2. \A q \in Reqs : Active(q)' => Active(q)
      BY <1>3 DEF Active
    <2>3. Chain(r)' = Chain(r) /\ \A q \in Reqs : Chain(q)' = Chain(q)
      BY <1>3 DEF Chain
    <2>4. \A q \in Reqs : Active(q)' /\ task'[q].op = "child"
                              => "child" \in cause'[Chain(q)]
      BY <1>1, <1>3, <2>1, <2>2 DEF NodeInv
    <2>5. ASSUME NEW q \in Reqs, pc'[q] \in {"trunc", "write"},
                 buf'[q] = NodeDoc
          PROVE  "child" \in cause'[Chain(q)]
      <3>1. Active(q)
        BY <2>2, <2>5 DEF Active, Steps
      <3>2. QED
        BY <1>1, <1>3, <2>1, <2>5, <3>1 DEF NodeInv
    <2>6. QED
      BY <1>1, <1>3, <2>3, <2>4, <2>5 DEF NodeInv
  <1>4. CASE Stamp(r)
    <2>1. Active(r) /\ task[r] \in Tasks
      BY <1>4, TaskType DEF Stamp, Active, Steps, UsesEngine
    <2>2. Body(r) # NodeDoc
      BY <2>1, BodyType, RuleStoreAssumption
    <2>3. buf'[r] = NodeDoc => "child" \in cause[Chain(r)]
      BY <1>4, <2>1, <2>2 DEF Stamp, TypeOK, NodeInv
    <2>4. QED
      BY <1>3, <1>4, <2>1, <2>3 DEF Stamp, Goto, TypeOK
  <1>5. CASE TakeDsl(r)
    <2>1. self[eng[r]] \in Docs
      BY <1>5 DEF TakeDsl, TypeOK, UsesEngine
    <2>2. buf'[r] # NodeDoc
      BY <1>5, <2>1, RuleStoreAssumption DEF TakeDsl, TypeOK
    <2>3. QED
      BY <1>3, <1>5, <2>2 DEF TakeDsl, Goto, TypeOK, Active, Steps, UsesEngine
  <1>6. CASE OpenFile(r)
    <2>1. Torn # NodeDoc
      BY RuleStoreAssumption
    <2>2. buf[r] = NodeDoc => "child" \in cause[Chain(r)]
      BY <1>6 DEF OpenFile, NodeInv
    <2>3. QED
      BY <1>3, <1>6, <2>1, <2>2 DEF OpenFile, Goto, TypeOK, Active, Steps
  <1>7. CASE WriteFile(r)
    <2>1. PICK f \in {buf[r], NoFile, Torn} :
             disk' = [disk EXCEPT ![Chain(r)] = f]
      BY <1>7 DEF WriteFile
    <2>2. buf[r] = NodeDoc => "child" \in cause[Chain(r)]
      BY <1>7 DEF WriteFile, NodeInv
    <2>3. \A c \in Chains : disk'[c] = NodeDoc
            => disk[c] = NodeDoc \/ "child" \in cause[c]
      BY <2>1, <2>2, RuleStoreAssumption DEF TypeOK
    <2>4. QED
      BY <1>3, <1>7, <2>3 DEF WriteFile, Goto, TypeOK, Active, Steps
  <1>8. CASE RemoveFile(r)
    <2>1. \A c \in Chains : disk'[c] = NodeDoc => disk[c] = NodeDoc
      BY <1>8, RuleStoreAssumption DEF RemoveFile, TypeOK
    <2>2. QED
      BY <1>3, <1>8, <2>1 DEF RemoveFile, Goto, TypeOK, Active, Steps
  <1>9. CASE \/ PoolGet(r) \/ NewFindsEngine(r) \/ NewMakesEngine(r)
             \/ RejectBody(r) \/ ReloadSelf(r) \/ ReloadChild(r)
             \/ SetBaseInfo(r) \/ SetConf(r)
    BY <1>3, <1>9
    DEF PoolGet, NewFindsEngine, NewMakesEngine, RejectBody, ReloadSelf,
        ReloadChild, SetBaseInfo, SetConf, Goto, TypeOK, Active, Steps, UsesEngine
  <1>10. CASE \/ ReloadConf(r) \/ RejectConf(r) \/ EngineGone(r)
              \/ PoolDel(r) \/ RemoveRuns(r) \/ FileFault(r) \/ Complete(r)
    BY <1>3, <1>10
    DEF ReloadConf, RejectConf, EngineGone, PoolDel, RemoveRuns, FileFault,
        Complete, Goto, TypeOK, Active, Steps, UsesEngine
  <1>11. QED
    BY <1>2, <1>4, <1>5, <1>6, <1>7, <1>8, <1>9, <1>10 DEF Step

-----------------------------------------------------------------------------
(* Every step keeps the claims about a chain that is quiet after it.       *)
ChainInv(c) == DeleteInv(c) /\ SaveInv(c) /\ FileInv(c)

(* A step of r touches nothing of the chains it is not about.              *)
LEMMA Elsewhere ==
    ASSUME TypeOK, NEW r \in Reqs, NEW c \in Chains, ChainInv(c),
           \A q \in Reqs \ {r} :
              pc'[q] = pc[q] /\ task'[q] = task[q] /\ eng'[q] = eng[q],
           pool'[c] = pool[c], disk'[c] = disk[c],
           r \notin On(c), ~(pc'[r] \in Steps /\ task'[r].chain = c)
    PROVE  ChainInv(c)'
  <1>1. On(c)' = On(c)
    BY DEF On, Active, Chain
  <1>2. \A q \in On(c) : q \in Reqs \ {r}
    BY DEF On
  <1>3. DeleteInv(c)'
    BY <1>1, <1>2 DEF ChainInv, DeleteInv
  <1>4. SaveInv(c)'
    BY <1>1, <1>2 DEF ChainInv, SaveInv
  <1>5. FileInv(c)'
    BY <1>1, <1>2 DEF ChainInv, FileInv
  <1>6. QED
    BY <1>3, <1>4, <1>5 DEF ChainInv

(* A step that moves r on, leaving the pool and the file alone.            *)
LEMMA Moves ==
    ASSUME TypeOK, NEW r \in Reqs, Active(r), NEW l \in Steps, Goto(r, l),
           ChainInv(Chain(r)), Chain(r) \in Chains,
           task' = task, pool' = pool, disk' = disk,
           \A q \in Reqs \ {r} : eng'[q] = eng[q],
           eng'[r] = eng[r] \/ pc[r] \in {"get", "new"},
           task[r].op # "delete", pc[r] \notin {"del", "rmfile", "rmruns"},
           pc[r] \in {"stamp", "dslout", "trunc"} => l = "trunc",
           l \notin {"write", "del", "rmfile", "rmruns"},
           l \in {"get", "new"} \/ pool[Chain(r)] # None
    PROVE  ChainInv(Chain(r))'
  <1> DEFINE c == Chain(r)
  <1>1. /\ pc'[r] = l
        /\ \A q \in Reqs \ {r} : pc'[q] = pc[q]
    BY DEF Goto, TypeOK
  <1>2. On(c)' = On(c) /\ r \in On(c) /\ c' = c
    BY <1>1 DEF On, Active, Chain
  <1>3. \A q \in On(c) : q \in Reqs
    BY DEF On
  <1>4. DeleteInv(c)'
    BY <1>1, <1>2, <1>3 DEF ChainInv, DeleteInv
  <1>5. SaveInv(c)'
    BY <1>1, <1>2, <1>3 DEF ChainInv, SaveInv
  <1>6. FileInv(c)'
    BY <1>1, <1>2, <1>3 DEF ChainInv, FileInv
  <1>7. QED
    BY <1>2, <1>4, <1>5, <1>6 DEF ChainInv

(* A step that ends r, leaving the pool and the file alone: r must not be  *)
(* the request on which FileInv rests.                                     *)
LEMMA Leaves ==
    ASSUME TypeOK, NEW r \in Reqs, Active(r), NEW l \in Done, Goto(r, l),
           ChainInv(Chain(r)), Chain(r) \in Chains,
           task' = task, pool' = pool, disk' = disk,
           \A q \in Reqs \ {r} : eng'[q] = eng[q],
           pc[r] # "rmfile",
           pc[r] \in {"stamp", "dslout", "trunc"} => pool[Chain(r)] # eng[r]
    PROVE  ChainInv(Chain(r))'
  <1> DEFINE c == Chain(r)
  <1>1. /\ pc'[r] = l
        /\ \A q \in Reqs \ {r} : pc'[q] = pc[q]
    BY DEF Goto, TypeOK
  <1>2. On(c)' = On(c) \ {r} /\ c' = c
    BY <1>1 DEF On, Active, Chain, Done, Steps, UsesEngine
  <1>3. \A q \in On(c) : q \in Reqs
    BY DEF On
  <1>4. DeleteInv(c)'
    BY <1>1, <1>2, <1>3 DEF ChainInv, DeleteInv
  <1>5. SaveInv(c)'
    BY <1>1, <1>2, <1>3 DEF ChainInv, SaveInv
  <1>6. FileInv(c)'
    BY <1>1, <1>2, <1>3 DEF ChainInv, FileInv
  <1>7. QED
    BY <1>2, <1>4, <1>5, <1>6 DEF ChainInv

(* A request that starts, on a chain that is still quiet: a delete is      *)
(* alone, and nothing starts beside one.                                   *)
LEMMA Starting ==
    ASSUME TypeOK, NEW r \in Reqs, NEW t \in Tasks, Start(r, t),
           ChainInv(t.chain), Quiet(t.chain)'
    PROVE  ChainInv(t.chain)'
  <1> DEFINE c == t.chain
  <1>1. /\ c \in Chains /\ r \notin On(c)
        /\ pc'[r] = IF t.op = "delete" THEN "del" ELSE "get"
        /\ task'[r] = t
        /\ \A q \in Reqs \ {r} : pc'[q] = pc[q] /\ task'[q] = task[q]
        /\ pool' = pool /\ disk' = disk /\ eng' = eng
    BY DEF Start, Goto, TypeOK, Tasks, On, Active, Steps, UsesEngine
  <1>2. On(c)' = On(c) \cup {r}
    BY <1>1 DEF On, Active, Chain, Steps
  <1>3. \A q \in On(c) : q \in Reqs \ {r}
    BY <1>1 DEF On
  <1>4. /\ t.op = "delete" => On(c) = {}
        /\ \A q \in On(c) : task[q].op # "delete"
    <2>1. "delrace" \notin cause'[c]
      BY DEF Quiet
    <2>2. ~ \/ "delete" \in {task[q].op : q \in On(c)}
            \/ t.op = "delete" /\ {task[q].op : q \in On(c)} # {}
      BY <1>1, <2>1 DEF Start, Blame, TypeOK
    <2>3. QED
      BY <2>2
  <1>5. DeleteInv(c)'
    BY <1>1, <1>2, <1>3, <1>4 DEF DeleteInv
  <1>6. SaveInv(c)'
    BY <1>1, <1>2, <1>3 DEF ChainInv, SaveInv
  <1>7. FileInv(c)'
    BY <1>1, <1>2, <1>3 DEF ChainInv, FileInv
  <1>8. QED
    BY <1>5, <1>6, <1>7 DEF ChainInv

(* The engine r makes is in the pool, and r will open the file.            *)
LEMMA Making ==
    ASSUME TypeOK, OpInv, NEW r \in Reqs, NewMakesEngine(r),
           ChainInv(Chain(r)), Chain(r) \in Chains
    PROVE  ChainInv(Chain(r))'
  <1> DEFINE c == Chain(r)
  <1>1. /\ Active(r) /\ pc[r] = "new" /\ task[r].op # "delete"
        /\ pc'[r] \in {"dslout", "stamp"} /\ eng'[r] = r
        /\ \A q \in Reqs \ {r} : pc'[q] = pc[q] /\ eng'[q] = eng[q]
        /\ pool'[c] = r /\ disk' = disk /\ task' = task
    BY DEF NewMakesEngine, Goto, TypeOK, OpInv, Active, Steps
  <1>2. On(c)' = On(c) /\ r \in On(c) /\ c' = c
    BY <1>1 DEF On, Active, Chain, Steps, UsesEngine
  <1>3. \A q \in On(c) : q \in Reqs
    BY DEF On
  <1>4. r # None
    BY RuleStoreAssumption DEF Engines
  <1>5. DeleteInv(c)'
    BY <1>1, <1>2, <1>3 DEF ChainInv, DeleteInv
  <1>6. SaveInv(c)'
    BY <1>1, <1>2, <1>3, <1>4 DEF ChainInv, SaveInv
  <1>7. FileInv(c)'
    BY <1>1, <1>2, <1>3, <1>4 DEF ChainInv, FileInv
  <1>8. QED
    BY <1>2, <1>5, <1>6, <1>7 DEF ChainInv

(* Opening the file makes it exist; its chain is in the pool.              *)
LEMMA Opening ==
    ASSUME TypeOK, OpInv, NEW r \in Reqs, OpenFile(r),
           ChainInv(Chain(r)), Chain(r) \in Chains
    PROVE  ChainInv(Chain(r))'
  <1> DEFINE c == Chain(r)
  <1>1. /\ Active(r) /\ pc[r] = "trunc" /\ task[r].op # "delete"
        /\ pc'[r] = "write"
        /\ \A q \in Reqs \ {r} : pc'[q] = pc[q]
        /\ pool' = pool /\ disk'[c] = Torn /\ task' = task /\ eng' = eng
    BY DEF OpenFile, Goto, TypeOK, OpInv, Active, Steps
  <1>2. On(c)' = On(c) /\ r \in On(c) /\ c' = c
    BY <1>1 DEF On, Active, Chain, Steps
  <1>3. \A q \in On(c) : q \in Reqs
    BY DEF On
  <1>4. Torn # NoFile /\ pool[c] # None
    BY <1>1, <1>2, RuleStoreAssumption DEF ChainInv, SaveInv
  <1>5. DeleteInv(c)'
    BY <1>1, <1>2, <1>3 DEF ChainInv, DeleteInv
  <1>6. SaveInv(c)'
    BY <1>1, <1>2, <1>3, <1>4 DEF ChainInv, SaveInv
  <1>7. FileInv(c)'
    BY <1>1, <1>2, <1>4 DEF FileInv
  <1>8. QED
    BY <1>2, <1>5, <1>6, <1>7 DEF ChainInv

(* Writing keeps the file in existence.                                    *)
LEMMA Writing ==
    ASSUME TypeOK, OpInv, NEW r \in Reqs, WriteFile(r),
           ChainInv(Chain(r)), Chain(r) \in Chains
    PROVE  ChainInv(Chain(r))'
  <1> DEFINE c == Chain(r)
  <1>1. /\ Active(r) /\ pc[r] = "write" /\ task[r].op # "delete"
        /\ pc'[r] = "ok"
        /\ \A q \in Reqs \ {r} : pc'[q] = pc[q]
        /\ pool' = pool /\ task' = task /\ eng' = eng
    BY DEF WriteFile, Goto, TypeOK, OpInv, Active, Steps
  <1>2. On(c)' = On(c) \ {r} /\ r \in On(c) /\ c' = c
    BY <1>1 DEF On, Active, Chain, Steps, UsesEngine
  <1>3. \A q \in On(c) : q \in Reqs
    BY DEF On
  <1>4. disk[c] # NoFile /\ pool[c] # None
    BY <1>1, <1>2 DEF ChainInv, SaveInv
  <1>5. disk'[c] # NoFile
    <2>1. buf[r] \in Docs \cup {NodeDoc}
      BY <1>1 DEF TypeOK
    <2>2. buf[r] # NoFile /\ Torn # NoFile
      BY <2>1, RuleStoreAssumption
    <2>3. PICK f \in {buf[r], Torn} : disk' = [disk EXCEPT ![c] = f]
      BY <1>4 DEF WriteFile
    <2>4. QED
      BY <2>2, <2>3 DEF TypeOK
  <1>6. DeleteInv(c)'
    BY <1>1, <1>2, <1>3 DEF ChainInv, DeleteInv
  <1>7. SaveInv(c)'
    BY <1>1, <1>2, <1>3, <1>5 DEF ChainInv, SaveInv
  <1>8. FileInv(c)'
    BY <1>1, <1>2, <1>4, <1>5 DEF FileInv
  <1>9. QED
    BY <1>2, <1>6, <1>7, <1>8 DEF ChainInv

(* A delete on a quiet chain is alone: it empties the pool, and then the   *)
(* directory, under nobody's feet.                                         *)
LEMMA Deleting ==
    ASSUME TypeOK, OpInv, NEW r \in Reqs, PoolDel(r) \/ RemoveFile(r),
           ChainInv(Chain(r)), Chain(r) \in Chains
    PROVE  ChainInv(Chain(r))'
  <1> DEFINE c == Chain(r)
  <1>1. /\ Active(r) /\ pc[r] \in {"del", "rmfile"} /\ task[r].op = "delete"
        /\ task' = task /\ c' = c
    BY DEF PoolDel, RemoveFile, OpInv, Active, Steps, Chain
  <1>2. On(c) = {r}
    BY <1>1 DEF ChainInv, DeleteInv, On
  <1>3. On(c)' = {r} /\ pool'[c] = None
    BY <1>1, <1>2
    DEF PoolDel, RemoveFile, Goto, TypeOK, On, Active, Chain, Steps,
        ChainInv, DeleteInv
  <1>4. CASE PoolDel(r)
    <2>1. pc'[r] = "rmfile"
      BY <1>4 DEF PoolDel, Goto, TypeOK
    <2>2. QED
      BY <1>1, <1>3, <2>1 DEF ChainInv, DeleteInv, SaveInv, FileInv
  <1>5. CASE RemoveFile(r)
    <2>1. pc'[r] = "rmruns" /\ disk'[c] = NoFile
      BY <1>5 DEF RemoveFile, Goto, TypeOK
    <2>2. QED
      BY <1>1, <1>3, <2>1 DEF ChainInv, DeleteInv, SaveInv, FileInv
  <1>6. QED
    BY <1>4, <1>5

(* What every step of a request has in common.                             *)
LEMMA StepFrame ==
    ASSUME TypeOK, NEW r \in Reqs, Step(r)
    PROVE  /\ up' = up /\ (up \/ Active(r))
           /\ \A c \in Chains : cause[c] \subseteq cause'[c]
           /\ \A q \in Reqs \ {r} :
                 pc'[q] = pc[q] /\ task'[q] = task[q] /\ eng'[q] = eng[q]
           /\ \A c \in Chains : ~(Active(r) /\ Chain(r) = c)
                 => pool'[c] = pool[c] /\ disk'[c] = disk[c]
           /\ (\E t \in Tasks : Start(r, t)) \/ (Active(r) /\ task' = task)
  <1>1. CASE \E t \in Tasks : Start(r, t)
    <2>1. PICK t \in Tasks : Start(r, t)
      BY <1>1
    <2>2. PICK why : Blame(t.chain, why)
      BY <2>1 DEF Start
    <2>3. \A c \in Chains : cause[c] \subseteq cause'[c]
      BY <2>2 DEF Blame, TypeOK
    <2>4. /\ task' = [task EXCEPT ![r] = t]
          /\ \E l : Goto(r, l)
          /\ up' = up /\ up /\ pool' = pool /\ disk' = disk /\ eng' = eng
      BY <2>1 DEF Start
    <2>5. \A q \in Reqs \ {r} :
             pc'[q] = pc[q] /\ task'[q] = task[q] /\ eng'[q] = eng[q]
      BY <2>4 DEF Goto, TypeOK
    <2>6. QED
      BY <1>1, <2>3, <2>4, <2>5
  <1>2. CASE \/ PoolGet(r) \/ NewFindsEngine(r) \/ RejectBody(r)
             \/ ReloadSelf(r) \/ ReloadChild(r) \/ Stamp(r) \/ SetBaseInfo(r)
             \/ SetConf(r) \/ TakeDsl(r) \/ ReloadConf(r)
    BY <1>2
    DEF PoolGet, NewFindsEngine, RejectBody, ReloadSelf, ReloadChild, Stamp,
        SetBaseInfo, SetConf, TakeDsl, ReloadConf, Goto, TypeOK, Active, Steps,
        UsesEngine
  <1>3. CASE \/ RejectConf(r) \/ EngineGone(r) \/ RemoveRuns(r) \/ FileFault(r)
             \/ Complete(r)
    BY <1>3
    DEF RejectConf, EngineGone, RemoveRuns, FileFault, Complete, Goto, Blame,
        TypeOK, Active, Steps, UsesEngine
  <1>4. CASE \/ NewMakesEngine(r) \/ OpenFile(r) \/ WriteFile(r) \/ PoolDel(r)
             \/ RemoveFile(r)
    BY <1>4
    DEF NewMakesEngine, OpenFile, WriteFile, PoolDel, RemoveFile, Goto,
        TypeOK, Active, Steps, UsesEngine
  <1>5. QED
    BY <1>1, <1>2, <1>3, <1>4 DEF Step

(* A step of r on its own chain.                                           *)
LEMMA OwnChain ==
    ASSUME TypeOK, OpInv, NEW r \in Reqs, Step(r), Active(r), task' = task,
           ChainInv(Chain(r)), Quiet(Chain(r))'
    PROVE  ChainInv(Chain(r))'
  <1> DEFINE c == Chain(r)
  <1>1. c \in Chains /\ r \in On(c) /\ pc[r] # "idle"
    BY TaskType DEF Active, Steps, UsesEngine, On
  <1>2. /\ pc[r] \notin {"get", "new", "del", "rmfile", "rmruns"} => pool[c] # None
        /\ pc[r] \in {"stamp", "dslout"} /\ Orphan(eng[r]) => pool[c] # eng[r]
    BY <1>1 DEF ChainInv, SaveInv, Orphan
  <1>3. \A q \in Reqs \ {r} : eng'[q] = eng[q]
    BY StepFrame
  <1>4. \A t \in Tasks : ~Start(r, t)
    BY <1>1 DEF Start
  <1>5. /\ pc[r] \notin {"del", "rmfile", "rmruns"} => task[r].op # "delete"
        /\ pc[r] \in {"del", "rmfile", "rmruns"} => task[r].op = "delete"
    BY DEF OpInv
  <1>6. CASE PoolGet(r)
    <2>1. PICK l \in {"err", "new", "reload", "child", "base", "confset", "run"} :
             /\ Goto(r, l)
             /\ l \in {"err", "new"} \/ pool[c] # None
      BY <1>6 DEF PoolGet
    <2>2. /\ task[r].op # "delete" /\ pc[r] = "get"
          /\ pool' = pool /\ disk' = disk
      BY <1>5, <1>6 DEF PoolGet
    <2>3. CASE l = "err"
      BY <1>1, <1>3, <2>1, <2>2, <2>3, Leaves DEF Done
    <2>4. CASE l # "err"
      BY <1>1, <1>3, <2>1, <2>2, <2>4, Moves DEF Steps, UsesEngine
    <2>5. QED
      BY <2>3, <2>4
  <1>7. CASE NewFindsEngine(r)
    <2>1. PICK l \in {"dslout", "stamp"} : Goto(r, l)
      BY <1>7 DEF NewFindsEngine
    <2>2. /\ task[r].op # "delete" /\ pc[r] = "new" /\ pool[c] # None
          /\ pool' = pool /\ disk' = disk
      BY <1>5, <1>7 DEF NewFindsEngine
    <2>3. QED
      BY <1>1, <1>3, <2>1, <2>2, Moves DEF Steps, UsesEngine
  <1>8. CASE NewMakesEngine(r)
    BY <1>1, <1>8, Making
  <1>9. CASE \/ ReloadSelf(r) \/ ReloadChild(r) \/ Stamp(r) \/ SetBaseInfo(r)
             \/ SetConf(r) \/ TakeDsl(r) \/ ReloadConf(r)
    <2>1. PICK l \in {"stamp", "trunc", "dslout", "confdsl", "confreload"} :
             /\ Goto(r, l)
             /\ pc[r] \in {"stamp", "dslout", "trunc"} => l = "trunc"
      BY <1>9 DEF ReloadSelf, ReloadChild, Stamp, SetBaseInfo, SetConf, TakeDsl,
                  ReloadConf
    <2>2. /\ pc[r] \in UsesEngine
          /\ pool' = pool /\ disk' = disk /\ eng' = eng
      BY <1>9 DEF ReloadSelf, ReloadChild, Stamp, SetBaseInfo, SetConf, TakeDsl,
                  ReloadConf, UsesEngine
    <2>3. /\ pc[r] \notin {"get", "new", "del", "rmfile", "rmruns"}
          /\ task[r].op # "delete" /\ pool[c] # None
      BY <1>2, <1>5, <2>2 DEF UsesEngine
    <2>4. QED
      BY <1>1, <2>1, <2>2, <2>3, Moves DEF Steps, UsesEngine
  <1>10. CASE RejectBody(r) \/ RejectConf(r) \/ RemoveRuns(r) \/ Complete(r)
    <2>1. PICK l \in {"err", "ok"} : Goto(r, l)
      BY <1>10 DEF RejectBody, RejectConf, RemoveRuns, Complete
    <2>2. /\ pc[r] \in {"new", "reload", "child", "confreload", "rmruns", "run"}
          /\ pool' = pool /\ disk' = disk /\ eng' = eng
      BY <1>10 DEF RejectBody, RejectConf, RemoveRuns, Complete
    <2>3. QED
      BY <1>1, <2>1, <2>2, Leaves DEF Done
  <1>11. CASE EngineGone(r)
    <2>1. /\ Goto(r, "err") /\ pc[r] \in UsesEngine /\ Orphan(eng[r])
          /\ pool' = pool /\ disk' = disk /\ eng' = eng
      BY <1>11 DEF EngineGone
    <2>2. pc[r] \in {"stamp", "dslout", "trunc"} => pool[c] # eng[r]
      BY <1>2, <2>1 DEF UsesEngine
    <2>3. pc[r] # "rmfile"
      BY <2>1 DEF UsesEngine
    <2>4. QED
      BY <1>1, <2>1, <2>2, <2>3, Leaves DEF Done
  <1>12. CASE OpenFile(r)
    BY <1>1, <1>12, Opening
  <1>13. CASE WriteFile(r)
    BY <1>1, <1>13, Writing
  <1>14. CASE PoolDel(r) \/ RemoveFile(r)
    BY <1>1, <1>14, Deleting
  <1>15. CASE FileFault(r)
    <2>1. "fault" \in cause'[c] /\ c' = c
      BY <1>1, <1>15 DEF FileFault, Blame, TypeOK, Chain
    <2>2. QED
      BY <2>1 DEF Quiet
  <1>16. QED
    BY <1>4, <1>6, <1>7, <1>8, <1>9, <1>10, <1>11, <1>12, <1>13, <1>14, <1>15
    DEF Step

(* A step of a request keeps the whole invariant.                          *)
LEMMA PresenceStep ==
    ASSUME PresenceInv, NEW r \in Reqs, Step(r)
    PROVE  PresenceInv'
  <1>1. TypeOK /\ OpInv /\ NodeInv /\ up /\ up' = up
    BY StepFrame DEF PresenceInv
  <1>2. TypeOK' /\ OpInv' /\ NodeInv'
    BY <1>1, NextType, OpStep, NodeStep DEF Next
  <1>3. ASSUME NEW c \in Chains, Quiet(c)' PROVE ChainInv(c)'
    <2>1. ChainInv(c)
      <3>1. Quiet(c)
        BY <1>1, <1>3, StepFrame DEF Quiet
      <3>2. QED
        BY <1>1, <3>1 DEF PresenceInv, ChainInv
    <2>2. ASSUME NEW t \in Tasks, Start(r, t) PROVE ChainInv(c)'
      <3>1. CASE t.chain = c
        BY <1>1, <1>3, <2>1, <2>2, <3>1, Starting
      <3>2. CASE t.chain # c
        <4>1. task'[r] = t /\ ~Active(r) /\ pool' = pool /\ disk' = disk
          BY <1>1, <2>2 DEF Start, TypeOK, Active, Steps, UsesEngine
        <4>2. QED
          BY <1>1, <2>1, <3>2, <4>1, StepFrame, Elsewhere DEF On
      <3>3. QED
        BY <3>1, <3>2
    <2>3. CASE Active(r) /\ task' = task
      <3>1. CASE Chain(r) = c
        <4>1. Chain(r)' = Chain(r)
          BY <2>3 DEF Chain
        <4>2. Quiet(Chain(r))'
          BY <1>3, <3>1, <4>1 DEF Quiet
        <4>3. ChainInv(Chain(r))'
          BY <1>1, <2>1, <2>3, <3>1, <4>2, OwnChain
        <4>4. QED
          BY <3>1, <4>1, <4>3
          DEF ChainInv, DeleteInv, SaveInv, FileInv, On
      <3>2. CASE Chain(r) # c
        <4>1. /\ r \notin On(c) /\ task'[r].chain # c
              /\ pool'[c] = pool[c] /\ disk'[c] = disk[c]
          BY <1>1, <2>3, <3>2, StepFrame DEF On, Chain
        <4>2. QED
          BY <1>1, <2>1, <4>1, StepFrame, Elsewhere
      <3>3. QED
        BY <3>1, <3>2
    <2>4. QED
      BY <1>1, <2>2, <2>3, StepFrame
  <1>4. QED
    BY <1>1, <1>2, <1>3 DEF PresenceInv, ChainInv

(* A crash leaves nothing running, a start-up builds the pool the files    *)
(* say, except where a file holds a single node.                           *)
LEMMA PresenceCrash == ASSUME PresenceInv, Crash PROVE PresenceInv'
  <1>1. TypeOK'
    BY CrashType DEF PresenceInv
  <1>2. \A q \in Reqs : pc'[q] \notin Steps
    BY DEF PresenceInv, TypeOK, Crash, Active, Done, Steps, UsesEngine
  <1>3. \A c \in Chains : cause[c] \subseteq cause'[c] /\ disk'[c] = disk[c]
    BY DEF Crash
  <1>4. NodeInv'
    BY <1>2, <1>3 DEF PresenceInv, NodeInv, Active, Steps
  <1>5. QED
    BY <1>1, <1>2, <1>4 DEF PresenceInv, OpInv, Active, Crash

(* Start-up fills the pool from the files, so that both agree.             *)
LEMMA PresenceBoot == ASSUME PresenceInv, Boot PROVE PresenceInv'
  <1>1. TypeOK' /\ OpInv' /\ NodeInv'
    BY BootType DEF PresenceInv, Boot, OpInv, NodeInv, Active, Chain
  <1>2. \A q \in Reqs : ~Active(q)'
    BY DEF PresenceInv, Boot, Active
  <1>3. \A c \in Chains : On(c)' = {}
    BY <1>2 DEF On
  <1>4. ASSUME NEW c \in Chains, Quiet(c)'
        PROVE  pool'[c] = None <=> disk'[c] = NoFile
    <2>1. disk[c] # NodeDoc
      BY <1>4 DEF PresenceInv, NodeInv, Quiet, Boot
    <2>2. disk[c] = NoFile \/ disk[c] \in Docs
      BY <2>1 DEF Boot, Starts, Loadable
    <2>3. c # None /\ NoFile \notin Docs
      BY RuleStoreAssumption DEF Engines
    <2>4. QED
      BY <2>2, <2>3 DEF Boot
  <1>5. QED
    BY <1>1, <1>2, <1>3, <1>4
    DEF PresenceInv, DeleteInv, SaveInv, FileInv, Boot

(* The invariant is inductive.                                             *)
LEMMA PresenceNext == PresenceInv /\ [Next]_vars => PresenceInv'
  <1> SUFFICES ASSUME PresenceInv, [Next]_vars PROVE PresenceInv'
    OBVIOUS
  <1>1. CASE (\E r \in Reqs : Step(r)) \/ Crash \/ Boot
    BY <1>1, PresenceStep, PresenceCrash, PresenceBoot
  <1>2. CASE (\E c \in Chains : OthersRun(c)) \/ UNCHANGED vars
    <2>1. TypeOK'
      BY NextType DEF PresenceInv
    <2>2. UNCHANGED <<up, pool, self, disk, task, pc, eng, buf, cause, named>>
      BY <1>2 DEF OthersRun, vars
    <2>3. QED
      BY <2>1, <2>2
      DEF PresenceInv, OpInv, NodeInv, DeleteInv, SaveInv, FileInv, Quiet, On,
          Active, Chain
  <1>3. QED
    BY <1>1, <1>2 DEF Next

(* With nothing but executions in flight, FileInv leaves no difference.    *)
LEMMA PresenceFollows == PresenceInv => PresenceAgrees
  <1> SUFFICES ASSUME PresenceInv, up, NEW c \in Chains, Idle(c), Quiet(c)
               PROVE  pool[c] = None <=> disk[c] = NoFile
    BY DEF PresenceAgrees
  <1>1. FileInv(c) /\ OpInv
    BY DEF PresenceInv
  <1>2. \A r \in On(c) : pc[r] \in {"get", "run"}
    BY <1>1 DEF Idle, On, OpInv
  <1>3. QED
    BY <1>1, <1>2 DEF FileInv

(* Saves of one chain may interleave as they like: with no lock anywhere,  *)
(* once none is in flight the pool and the directory agree on whether the  *)
(* chain exists.                                                           *)
THEOREM PresenceCorrect == Spec => []PresenceAgrees
  <1>1. QED
    BY PresenceInit, PresenceNext, PresenceFollows, PTL DEF Spec
=============================================================================
