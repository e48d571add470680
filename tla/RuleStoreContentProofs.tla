----------------------- MODULE RuleStoreContentProofs -----------------------
(***************************************************************************)
(* Theorems about what RuleStore keeps of a chain, for any chains,         *)
(* requests, sections and offered operations: ContentCorrect, LoadCorrect, *)
(* RunsCorrect, NamedCorrect and AckCorrect. They rest on PresenceInv      *)
(* (RuleStoreProofs).                                                      *)
(***************************************************************************)
EXTENDS RuleStoreProofs

(* The steps of each operation.                                            *)
StepsOf(op) ==
    CASE op = "dsl" -> {"get", "new", "reload", "stamp", "trunc", "write"}
      [] op = "child" -> {"get", "new", "child", "stamp", "trunc", "write"}
      [] op = "base" -> {"get", "new", "base", "dslout", "trunc", "write"}
      [] op = "conf" -> {"get", "confset", "confdsl", "confreload", "dslout",
                         "trunc", "write"}
      [] op = "delete" -> {"del", "rmfile", "rmruns"}
      [] op = "exec" -> {"get", "run"}

PathInv == \A r \in Reqs : Active(r) => pc[r] \in StepsOf(task[r].op)

(* Chains share no engine, in the pool or in the hands of a handler.       *)
EnginesOf(c) == {c} \cup {r \in Reqs : pc[r] # "idle" /\ Chain(r) = c}

OwnerInv ==
    /\ \A c \in Chains : pool[c] # None => pool[c] \in EnginesOf(c)
    /\ \A r \in Reqs : eng[r] # None => pc[r] # "idle" /\ eng[r] \in EnginesOf(Chain(r))

(* Every part of a document comes from a request that has been made.       *)
Made == {Orig} \cup {r \in Reqs : pc[r] # "idle"}
MadeDocs == {d \in Docs : d.nodes \in Made /\ \A k \in Keys : d.conf[k] \in Made}

KnownInv ==
    /\ \A e \in Engines : self[e] \in MadeDocs
    /\ \A c \in Chains : disk[c] \in MadeDocs \cup {NoFile, Torn, NodeDoc}
    /\ \A r \in Reqs : buf[r] \in MadeDocs \cup {NodeDoc, None}

(* Where the run logs of a quiet chain are, the chain is, or a delete is   *)
(* still at work on it; while the server is down, its file.                *)
RunsInv ==
    \A c \in Chains :
        Quiet(c) /\ <<User, c, "own">> \in runs =>
            IF up
            THEN pool[c] # None \/ \E r \in On(c) : pc[r] \in {"rmfile", "rmruns"}
            ELSE disk[c] # NoFile

(* Without overlapping saves and deletes one save at most is in flight. The*)
(* engine it found or made stays the one of the pool, the file it opened   *)
(* stays empty until it writes, and what it was sent is in the definition  *)
(* and then in its bytes.                                                  *)
Alone(c) == cause[c] \cap {"race", "delrace"} = {}

Lone(c) ==
    \A q, r \in On(c) : q # r =>
        /\ task[q].op # "delete"
        /\ task[q].op = "exec" \/ task[r].op = "exec"

SaveAt(r) ==
    LET c == Chain(r)
    IN  /\ pc[r] = "new" => pool[c] = None
        /\ pc[r] \notin {"get", "new"} => pool[c] # None /\ eng[r] = pool[c]
        /\ pc[r] = "write" => disk[c] = Torn

AckAt(r) ==
    LET op == task[r].op
        e == self[eng[r]]
    IN  /\ op = "base" /\ pc[r] = "dslout" => e.info = r /\ e.stamp
        /\ op = "conf" /\ pc[r] \in {"confdsl", "confreload", "dslout"} =>
              e.conf[task[r].key] = r /\ e.stamp
        /\ pc[r] = "confreload" => buf[r] = e
        /\ op # "child" /\ pc[r] \in {"trunc", "write"} => Carries(buf[r], r)

AloneInv(c) ==
    Alone(c) =>
        /\ Lone(c)
        /\ \A r \in On(c) : IsSave(r) => SaveAt(r) /\ AckAt(r)

(* Before a save edits the definition, and after it wrote the file, both   *)
(* agree; in between its bytes agree with the definition. A configuration  *)
(* that may yet be refused has touched nothing else.                       *)
Match(d, e) ==
    /\ d \in Docs
    /\ d.nodes = e.nodes /\ d.info = e.info
    /\ d.stamp => e.stamp

Before(r) == pc[r] \in {"get", "new", "reload", "base", "confset"}

SameAt(r) ==
    LET c == Chain(r)
        e == self[eng[r]]
    IN  /\ pc[r] = "stamp" => e.nodes = r /\ e.info = r /\ e.conf = [k \in Keys |-> r]
        /\ pc[r] \in {"trunc", "write"} => Match(buf[r], e) /\ buf[r].conf = e.conf
        /\ pc[r] \in {"confdsl", "confreload"} => Match(disk[c], e)

ContentInv(c) ==
    cause[c] \subseteq {"reject"} =>
        /\ \A r \in On(c) : IsSave(r) => SameAt(r)
        /\ pool[c] # None /\ (\A r \in On(c) : IsSave(r) => Before(r)) =>
              /\ Match(disk[c], self[pool[c]])
              /\ cause[c] = {} => disk[c].conf = self[pool[c]].conf

(* Nothing that would be refused is on its way to the file, and only a     *)
(* configuration that is yet to be reloaded may be bad in memory.          *)
GoodDocs == {d \in Docs : Loadable(d)}

LoadAt(r) ==
    /\ pc[r] = "stamp" => task[r].good
    /\ pc[r] \in {"trunc", "write"} => buf[r] \in GoodDocs \cup {NodeDoc}

LoadInv(c) ==
    cause[c] \subseteq {"child"} =>
        /\ \A r \in On(c) : LoadAt(r)
        /\ (\A r \in On(c) : pc[r] # "write") => disk[c] \in GoodDocs \cup {NoFile, NodeDoc}
        /\ pool[c] # None /\ (\A r \in On(c) : pc[r] \notin {"confdsl", "confreload"}) =>
              self[pool[c]] \in GoodDocs

DocInv(c) == AloneInv(c) /\ ContentInv(c) /\ LoadInv(c)

StoreInv ==
    /\ PresenceInv /\ PathInv /\ OwnerInv /\ KnownInv /\ RunsInv
    /\ \A c \in Chains : DocInv(c)

-----------------------------------------------------------------------------
(* What every step of a request leaves as it is, besides StepFrame.        *)
LEMMA DocFrame ==
    ASSUME TypeOK, NEW r \in Reqs, Step(r)
    PROVE  /\ \A q \in Reqs : pc[q] # "idle" => pc'[q] # "idle" /\ task'[q] = task[q]
           /\ \A q \in Reqs \ {r} : buf'[q] = buf[q]
           /\ \A e \in Engines \ {r, eng[r]} : self'[e] = self[e]
           /\ Active(r) \/ (self' = self /\ pool' = pool /\ disk' = disk /\ runs' = runs)
  <1>1. CASE \E t \in Tasks : Start(r, t)
    BY <1>1 DEF Start, Goto, TypeOK
  <1>2. CASE \/ PoolGet(r) \/ NewFindsEngine(r) \/ RejectBody(r) \/ TakeDsl(r)
             \/ RejectConf(r) \/ EngineGone(r) \/ RemoveRuns(r) \/ FileFault(r)
             \/ Complete(r) \/ OpenFile(r) \/ WriteFile(r) \/ PoolDel(r) \/ RemoveFile(r)
    BY <1>2
    DEF PoolGet, NewFindsEngine, RejectBody, TakeDsl, RejectConf, EngineGone, RemoveRuns,
        FileFault, Complete, OpenFile, WriteFile, PoolDel, RemoveFile, Goto, TypeOK, Active,
        Steps, UsesEngine
  <1>3. CASE \/ ReloadSelf(r) \/ ReloadChild(r) \/ Stamp(r) \/ SetBaseInfo(r)
             \/ SetConf(r) \/ ReloadConf(r) \/ NewMakesEngine(r)
    BY <1>3
    DEF ReloadSelf, ReloadChild, Stamp, SetBaseInfo, SetConf, ReloadConf,
        NewMakesEngine, Goto, TypeOK, Active, Steps, UsesEngine
  <1>4. QED
    BY <1>1, <1>2, <1>3 DEF Step

-----------------------------------------------------------------------------
(* PathInv, OwnerInv and KnownInv are preserved.                           *)

LEMMA PathStep ==
    ASSUME TypeOK, PathInv, NEW r \in Reqs, Step(r)
    PROVE  PathInv'
  <1>1. ASSUME NEW q \in Reqs \ {r} PROVE pc'[q] = pc[q] /\ task'[q] = task[q]
    BY StepFrame
  <1>2. ASSUME Active(r)' PROVE pc'[r] \in StepsOf(task'[r].op)
    <2>1. ASSUME NEW t \in Tasks, Start(r, t)
          PROVE  pc'[r] \in StepsOf(task'[r].op)
      <3>1. t.op \in AllOps /\ task'[r] = t
            /\ pc'[r] = IF t.op = "delete" THEN "del" ELSE "get"
        BY <2>1, RuleStoreAssumption DEF Start, Goto, TypeOK, Tasks
      <3>2. QED
        BY <3>1 DEF StepsOf, AllOps
    <2>2. ASSUME Active(r), task' = task, ~(\E t \in Tasks : Start(r, t))
          PROVE  pc'[r] \in StepsOf(task'[r].op)
      <3>1. task[r].op \in AllOps /\ pc[r] \in StepsOf(task[r].op)
        BY <2>2, TaskType, RuleStoreAssumption DEF PathInv, Active, Steps, UsesEngine
      <3>2. CASE PoolGet(r) \/ NewFindsEngine(r) \/ NewMakesEngine(r)
        BY <2>2, <3>1, <3>2, <1>2
        DEF PoolGet, NewFindsEngine, NewMakesEngine, Goto, TypeOK, StepsOf, AllOps,
            Active, Steps, UsesEngine
      <3>3. CASE \/ ReloadSelf(r) \/ ReloadChild(r) \/ Stamp(r) \/ SetBaseInfo(r)
                 \/ SetConf(r)
        BY <2>2, <3>1, <3>3
        DEF ReloadSelf, ReloadChild, Stamp, SetBaseInfo, SetConf, Goto, TypeOK, StepsOf,
            AllOps
      <3>4. CASE TakeDsl(r) \/ ReloadConf(r) \/ OpenFile(r) \/ PoolDel(r) \/ RemoveFile(r)
        BY <2>2, <3>1, <3>4
        DEF TakeDsl, ReloadConf, OpenFile, PoolDel, RemoveFile, Goto, TypeOK, StepsOf,
            AllOps
      <3>5. CASE \/ RejectBody(r) \/ RejectConf(r) \/ EngineGone(r) \/ FileFault(r)
                 \/ WriteFile(r) \/ RemoveRuns(r) \/ Complete(r)
        BY <3>5, <1>2
        DEF RejectBody, RejectConf, EngineGone, FileFault, WriteFile, RemoveRuns,
            Complete, Goto, TypeOK, Active, Steps, UsesEngine
      <3>6. QED
        BY <2>2, <3>2, <3>3, <3>4, <3>5 DEF Step
    <2>3. QED
      BY <2>1, <2>2, StepFrame
  <1>3. QED
    BY <1>1, <1>2 DEF PathInv, Active

LEMMA OwnerStep ==
    ASSUME TypeOK, OwnerInv, NEW r \in Reqs, Step(r)
    PROVE  OwnerInv'
  <1>1. \A q \in Reqs : pc[q] # "idle" => pc'[q] # "idle" /\ Chain(q)' = Chain(q)
    BY DocFrame DEF Chain
  <1>2. \A c \in Chains : EnginesOf(c) \subseteq EnginesOf(c)'
    BY <1>1 DEF EnginesOf
  <1>3. ASSUME NEW c \in Chains, pool'[c] # None
        PROVE  pool'[c] \in EnginesOf(c)'
    <2>1. CASE pool'[c] = pool[c]
      BY <1>2, <1>3, <2>1 DEF OwnerInv
    <2>2. CASE pool'[c] # pool[c]
      <3>1. NewMakesEngine(r) /\ pool'[c] = r /\ Chain(r) = c
        BY <1>3, <2>2
        DEF Step, Start, PoolGet, NewFindsEngine, NewMakesEngine, RejectBody,
            ReloadSelf, ReloadChild, Stamp, SetBaseInfo, SetConf, TakeDsl,
            ReloadConf, RejectConf, EngineGone, OpenFile, WriteFile, PoolDel,
            RemoveFile, RemoveRuns, FileFault, Complete, TypeOK
      <3>2. r \in EnginesOf(c)
        BY <3>1 DEF EnginesOf, NewMakesEngine
      <3>3. QED
        BY <1>2, <3>1, <3>2
    <2>3. QED
      BY <2>1, <2>2
  <1>4. ASSUME NEW q \in Reqs, eng'[q] # None
        PROVE  pc'[q] # "idle" /\ eng'[q] \in EnginesOf(Chain(q))'
    <2>1. CASE eng'[q] = eng[q]
      <3>1. pc[q] # "idle" /\ Chain(q) \in Chains /\ eng[q] \in EnginesOf(Chain(q))
        BY <1>4, <2>1, TaskType DEF OwnerInv
      <3>2. eng[q] \in EnginesOf(Chain(q))'
        BY <1>1, <3>1 DEF EnginesOf
      <3>3. QED
        BY <1>1, <2>1, <3>1, <3>2
    <2>2. CASE eng'[q] # eng[q]
      <3>1. /\ q = r /\ pc[r] # "idle"
            /\ eng'[r] \in {pool[Chain(r)], r}
        BY <2>2, StepFrame
        DEF Step, Start, PoolGet, NewFindsEngine, NewMakesEngine, RejectBody,
            ReloadSelf, ReloadChild, Stamp, SetBaseInfo, SetConf, TakeDsl,
            ReloadConf, RejectConf, EngineGone, OpenFile, WriteFile, PoolDel,
            RemoveFile, RemoveRuns, FileFault, Complete, TypeOK
      <3>2. Chain(r) \in Chains /\ Chain(r)' = Chain(r)
        BY <1>1, <3>1, TaskType
      <3>3. eng'[r] \in EnginesOf(Chain(r))
        BY <1>4, <3>1, <3>2 DEF OwnerInv, EnginesOf
      <3>4. eng'[r] \in EnginesOf(Chain(r))'
        BY <1>1, <3>2, <3>3 DEF EnginesOf
      <3>5. QED
        BY <1>1, <3>1, <3>4
    <2>3. QED
      BY <2>1, <2>2
  <1>5. QED
    BY <1>3, <1>4 DEF OwnerInv

(* How the definition in memory, the bytes of r and the file change.       *)
LEMMA DocChange ==
    ASSUME TypeOK, NEW r \in Reqs, Step(r)
    PROVE  /\ \A e \in Engines : self'[e] # self[e] =>
                 /\ Active(r) /\ e \in {r, eng[r]}
                 /\ \/ self'[e] = Body(r)
                    \/ self'[e] = [self[e] EXCEPT !.nodes = r]
                    \/ self'[e] = [self[e] EXCEPT !.stamp = TRUE]
                    \/ self'[e] = [self[e] EXCEPT !.info = r, !.stamp = TRUE]
                    \/ self'[e] = [self[e] EXCEPT !.conf[task[r].key] = r, !.stamp = TRUE]
                    \/ self'[e] = buf[r]
           /\ buf'[r] # buf[r] =>
                 /\ Active(r) /\ eng[r] \in Engines
                 /\ buf'[r] \in {self[eng[r]], Body(r), NodeDoc}
           /\ \A c \in Chains : disk'[c] \in {disk[c], buf[r], NoFile, Torn}
  <1>1. CASE ReloadSelf(r)
    BY <1>1 DEF ReloadSelf, TypeOK, Active, Steps, UsesEngine
  <1>2. CASE ReloadChild(r)
    BY <1>2 DEF ReloadChild, TypeOK, Active, Steps, UsesEngine
  <1>3. CASE Stamp(r)
    BY <1>3 DEF Stamp, TypeOK, Active, Steps, UsesEngine
  <1>4. CASE SetBaseInfo(r) \/ SetConf(r) \/ ReloadConf(r) \/ NewMakesEngine(r)
    BY <1>4
    DEF SetBaseInfo, SetConf, ReloadConf, NewMakesEngine, TypeOK, Active, Steps, UsesEngine
  <1>5. CASE TakeDsl(r) \/ OpenFile(r) \/ WriteFile(r) \/ RemoveFile(r)
    BY <1>5
    DEF TakeDsl, OpenFile, WriteFile, RemoveFile, TypeOK, Active, Steps, UsesEngine
  <1>6. CASE \/ (\E t \in Tasks : Start(r, t))
             \/ PoolGet(r) \/ NewFindsEngine(r) \/ RejectBody(r) \/ PoolDel(r)
             \/ RejectConf(r) \/ EngineGone(r) \/ RemoveRuns(r) \/ FileFault(r)
             \/ Complete(r)
    BY <1>6
    DEF Start, PoolGet, NewFindsEngine, RejectBody, PoolDel, RejectConf, EngineGone,
        RemoveRuns, FileFault, Complete
  <1>7. QED
    BY <1>1, <1>2, <1>3, <1>4, <1>5, <1>6 DEF Step

LEMMA KnownStep ==
    ASSUME TypeOK, KnownInv, NEW r \in Reqs, Step(r)
    PROVE  KnownInv'
  <1>1. MadeDocs \subseteq MadeDocs'
    BY DocFrame DEF MadeDocs, Made
  <1>2. Active(r) => r \in Made' /\ Body(r) \in MadeDocs'
    <2>1. Active(r) => r \in Made'
      BY DocFrame DEF Active, Steps, UsesEngine, Made
    <2>2. Active(r) => Body(r) \in Docs
      BY TaskType, BodyType DEF Active, Steps, UsesEngine
    <2>3. QED
      BY <2>1, <2>2 DEF MadeDocs, Body
  <1>3. ASSUME NEW e \in Engines PROVE self'[e] \in MadeDocs'
    <2>1. self[e] \in MadeDocs'
      BY <1>1 DEF KnownInv
    <2>2. CASE self'[e] \in {self[e], Body(r)}
      BY <1>2, <2>1, <2>2, DocChange
    <2>3. CASE self'[e] # self[e] /\ self'[e] = buf[r]
      <3>1. buf[r] \in Docs
        BY <2>3, NextType DEF Next, TypeOK
      <3>2. QED
        BY <1>1, <2>3, <3>1, RuleStoreAssumption DEF KnownInv
    <2>4. CASE /\ Active(r)
               /\ \/ self'[e] = [self[e] EXCEPT !.nodes = r]
                  \/ self'[e] = [self[e] EXCEPT !.stamp = TRUE]
                  \/ self'[e] = [self[e] EXCEPT !.info = r, !.stamp = TRUE]
                  \/ self'[e] = [self[e] EXCEPT !.conf[task[r].key] = r, !.stamp = TRUE]
      <3>1. r \in Src
        BY DEF Src
      <3>2. CASE self'[e] = [self[e] EXCEPT !.nodes = r]
        BY <1>2, <2>1, <2>4, <3>1, <3>2 DEF MadeDocs, Docs
      <3>3. CASE self'[e] = [self[e] EXCEPT !.stamp = TRUE]
        BY <2>1, <3>3 DEF MadeDocs, Docs
      <3>4. CASE self'[e] = [self[e] EXCEPT !.info = r, !.stamp = TRUE]
        BY <2>1, <3>1, <3>4 DEF MadeDocs, Docs
      <3>5. CASE self'[e] = [self[e] EXCEPT !.conf[task[r].key] = r, !.stamp = TRUE]
        <4> DEFINE f == [self[e].conf EXCEPT ![task[r].key] = r]
        <4>1. f \in [Keys -> Src] /\ \A k \in Keys : f[k] \in Made'
          BY <1>2, <2>1, <2>4, <3>1 DEF MadeDocs, Docs
        <4>2. self'[e] = [self[e] EXCEPT !.conf = f, !.stamp = TRUE]
          BY <2>1, <3>5 DEF MadeDocs, Docs
        <4> HIDE DEF f
        <4>3. QED
          BY <2>1, <4>1, <4>2 DEF MadeDocs, Docs
      <3>6. QED
        BY <2>4, <3>2, <3>3, <3>4, <3>5
    <2>5. QED
      BY <2>2, <2>3, <2>4, DocChange
  <1>4. ASSUME NEW c \in Chains
        PROVE  disk'[c] \in MadeDocs' \cup {NoFile, Torn, NodeDoc}
    <2>1. CASE disk'[c] \in {disk[c], NoFile, Torn}
      BY <1>1, <2>1 DEF KnownInv
    <2>2. CASE disk'[c] = buf[r]
      <3>1. disk'[c] \in Files
        BY NextType DEF Next, TypeOK
      <3>2. disk'[c] # None \/ None \in {NoFile, Torn}
        BY <3>1, RuleStoreAssumption DEF Files
      <3>3. QED
        BY <1>1, <2>2, <3>2 DEF KnownInv
    <2>3. QED
      BY <2>1, <2>2, DocChange
  <1>5. ASSUME NEW q \in Reqs PROVE buf'[q] \in MadeDocs' \cup {NodeDoc, None}
    <2>1. buf[q] \in MadeDocs' \cup {NodeDoc, None}
      BY <1>1 DEF KnownInv
    <2>2. CASE buf'[q] # buf[q]
      <3>1. /\ q = r /\ Active(r) /\ eng[r] \in Engines
            /\ buf'[r] \in {self[eng[r]], Body(r), NodeDoc}
        <4>1. q = r
          BY <2>2, DocFrame
        <4>2. QED
          BY <2>2, <4>1, DocChange
      <3>2. QED
        BY <1>1, <1>2, <3>1 DEF KnownInv
    <2>3. QED
      BY <2>1, <2>2
  <1>6. QED
    BY <1>3, <1>4, <1>5 DEF KnownInv

(* A document keeps what the loader thinks of it.                          *)
LEMMA LoadStable ==
    ASSUME TypeOK, \A q \in Reqs : pc[q] # "idle" => task'[q] = task[q]
    PROVE  \A d \in MadeDocs : d \in GoodDocs' <=> d \in GoodDocs
  <1>1. ASSUME NEW src \in Made
        PROVE  Accepted(src)' <=> Accepted(src)
    BY <1>1 DEF Accepted, Made
  <1>2. QED
    BY <1>1 DEF GoodDocs, Loadable, MadeDocs

-----------------------------------------------------------------------------
(* RunsInv is preserved.                                                   *)

(* The pool of a quiet chain is emptied by a delete alone, which goes on to*)
(* the logs.                                                               *)
LEMMA RunsStep ==
    ASSUME PresenceInv, PresenceInv', PathInv, RunsInv, NEW r \in Reqs, Step(r)
    PROVE  RunsInv'
  <1>1. TypeOK /\ up /\ up' = up
    BY StepFrame DEF PresenceInv
  <1> SUFFICES ASSUME NEW c \in Chains, Quiet(c)', <<User, c, "own">> \in runs'
               PROVE  pool'[c] # None \/ \E q \in On(c)' : pc'[q] \in {"rmfile", "rmruns"}
    BY <1>1 DEF RunsInv
  <1>2. Quiet(c)
    BY <1>1, StepFrame DEF Quiet
  <1>3. \A q \in Reqs \ {r} : pc'[q] = pc[q] /\ task'[q] = task[q]
    BY <1>1, StepFrame
  <1>4. ASSUME Complete(r), Chain(r) = c PROVE pool'[c] # None
    <2>1. r \in On(c) /\ pc[r] = "run" /\ pool' = pool
      BY <1>4 DEF Complete, On, Active, Steps, UsesEngine
    <2>2. QED
      BY <1>1, <1>2, <2>1 DEF PresenceInv, SaveInv
  <1>5. CASE <<User, c, "own">> \notin runs
    <2>1. runs' \subseteq runs \/ Complete(r)
      BY DEF Step, Start, PoolGet, NewFindsEngine, NewMakesEngine, RejectBody,
          ReloadSelf, ReloadChild, Stamp, SetBaseInfo, SetConf, TakeDsl,
          ReloadConf, RejectConf, EngineGone, OpenFile, WriteFile, PoolDel,
          RemoveFile, RemoveRuns, FileFault, Complete
    <2>2. Chain(r) = c
      BY <1>5, <2>1 DEF Complete
    <2>3. QED
      BY <1>4, <1>5, <2>1, <2>2
  <1>6. CASE <<User, c, "own">> \in runs /\ pool[c] # None
    <2>1. CASE pool'[c] # None
      BY <2>1
    <2>2. CASE pool'[c] = None
      <3>1. PoolDel(r) /\ Chain(r) = c
        BY <1>1, <1>6, <2>2, RuleStoreAssumption
        DEF Step, Start, PoolGet, NewFindsEngine, NewMakesEngine, RejectBody,
            ReloadSelf, ReloadChild, Stamp, SetBaseInfo, SetConf, TakeDsl,
            ReloadConf, RejectConf, EngineGone, OpenFile, WriteFile, PoolDel,
            RemoveFile, RemoveRuns, FileFault, Complete, TypeOK, Engines
      <3>2. pc'[r] = "rmfile" /\ r \in On(c)'
        BY <1>1, <3>1 DEF PoolDel, Goto, TypeOK, On, Active, Chain, Steps
      <3>3. QED
        BY <3>2
    <2>3. QED
      BY <2>1, <2>2
  <1>7. CASE <<User, c, "own">> \in runs /\ pool[c] = None
    <2>1. PICK q \in On(c) : pc[q] \in {"rmfile", "rmruns"}
      BY <1>1, <1>2, <1>7 DEF RunsInv
    <2>2. CASE q # r
      <3>1. q \in On(c)' /\ pc'[q] = pc[q]
        BY <1>3, <2>2 DEF On, Active, Chain
      <3>2. QED
        BY <2>1, <3>1
    <2>3. CASE q = r
      <3>1. RemoveFile(r) \/ RemoveRuns(r) \/ FileFault(r)
        BY <2>1, <2>3
        DEF Step, Start, PoolGet, NewFindsEngine, NewMakesEngine, RejectBody,
            ReloadSelf, ReloadChild, Stamp, SetBaseInfo, SetConf, TakeDsl,
            ReloadConf, RejectConf, EngineGone, OpenFile, WriteFile, PoolDel,
            RemoveFile, RemoveRuns, FileFault, Complete, UsesEngine
      <3>2. ~FileFault(r) /\ Chain(r) = c
        BY <1>1, <2>1, <2>3 DEF FileFault, Blame, Quiet, TypeOK, On
      <3>3. ~RemoveRuns(r)
        BY <3>2 DEF RemoveRuns
      <3>4. pc'[r] = "rmruns" /\ r \in On(c)'
        BY <1>1, <3>1, <3>2, <3>3
        DEF RemoveFile, Goto, TypeOK, On, Active, Chain, Steps
      <3>5. QED
        BY <3>4
    <2>4. QED
      BY <2>2, <2>3
  <1>8. QED
    BY <1>5, <1>6, <1>7

(* What a crash leaves of a quiet chain has its file, and a start-up brings*)
(* every file of one back into the pool.                                   *)
LEMMA RunsCrash ==
    ASSUME PresenceInv, RunsInv, PathInv, Crash
    PROVE  RunsInv'
  <1> SUFFICES ASSUME NEW c \in Chains, Quiet(c)', <<User, c, "own">> \in runs
               PROVE  disk[c] # NoFile
    BY DEF RunsInv, Crash
  <1>1. Idle(c) /\ Quiet(c) /\ up
    BY DEF Crash, Quiet
  <1>2. \A q \in On(c) : pc[q] \notin {"rmfile", "rmruns"}
    BY <1>1 DEF Idle, On, PathInv, StepsOf
  <1>3. pool[c] # None
    BY <1>1, <1>2 DEF RunsInv
  <1>4. QED
    BY <1>1, <1>3, PresenceFollows DEF PresenceAgrees

LEMMA RunsBoot ==
    ASSUME PresenceInv, PresenceInv', RunsInv, Boot
    PROVE  RunsInv'
  <1> SUFFICES ASSUME NEW c \in Chains, Quiet(c)', <<User, c, "own">> \in runs
               PROVE  pool'[c] # None
    BY DEF RunsInv, Boot
  <1>1. disk'[c] # NoFile
    BY DEF RunsInv, Boot, Quiet
  <1>2. \A q \in Reqs : ~Active(q)'
    BY DEF PresenceInv, Boot, Active
  <1>3. up'
    BY DEF Boot
  <1>4. FileInv(c)' /\ On(c)' = {}
    BY <1>2, <1>3 DEF PresenceInv, On
  <1>5. QED
    BY <1>1, <1>4 DEF FileInv

-----------------------------------------------------------------------------
(* DocInv is preserved where the step is not about the chain.              *)

LEMMA EnginesApart ==
    ASSUME NEW c \in Chains, NEW d \in Chains, c # d
    PROVE  EnginesOf(c) \cap EnginesOf(d) = {}
  BY RuleStoreAssumption DEF EnginesOf

(* The conditions on causes only get weaker.                               *)
LEMMA CauseFacts ==
    ASSUME NEW c \in Chains, cause[c] \subseteq cause'[c]
    PROVE  /\ Alone(c)' => Alone(c)
           /\ \A w \in Causes : cause'[c] \subseteq {w} => cause[c] \subseteq {w}
           /\ cause'[c] = {} => cause[c] = {}
           /\ cause[c] \subseteq {"reject"} \/ cause[c] \subseteq {"child"} => Alone(c)
  BY DEF Alone

(* What a step elsewhere leaves of a chain and of the requests at work on  *)
(* it.                                                                     *)
LEMMA ApartStep ==
    ASSUME StoreInv, NEW r \in Reqs, Step(r), NEW c \in Chains,
           r \notin On(c), r \notin On(c)'
    PROVE  /\ \A q \in Reqs \ {r} : /\ pc'[q] = pc[q] /\ task'[q] = task[q]
                                    /\ eng'[q] = eng[q] /\ buf'[q] = buf[q]
           /\ cause[c] \subseteq cause'[c]
           /\ pool'[c] = pool[c] /\ disk'[c] = disk[c]
           /\ On(c)' = On(c)
           /\ \A q \in On(c) : q \in Reqs \ {r} /\ Chain(q) = c /\ Chain(q)' = c
           /\ pool[c] # None => pool[c] \in Engines /\ self'[pool[c]] = self[pool[c]]
                                /\ self[pool[c]] \in MadeDocs
  <1>1. TypeOK
    BY DEF StoreInv, PresenceInv
  <1>2. /\ \A q \in Reqs \ {r} : /\ pc'[q] = pc[q] /\ task'[q] = task[q]
                                 /\ eng'[q] = eng[q] /\ buf'[q] = buf[q]
        /\ cause[c] \subseteq cause'[c]
        /\ pool'[c] = pool[c] /\ disk'[c] = disk[c]
    <2>1. ~(Active(r) /\ Chain(r) = c)
      BY DEF On
    <2>2. QED
      BY <1>1, <2>1, StepFrame, DocFrame
  <1>3. On(c)' = On(c) /\ \A q \in On(c) : q \in Reqs \ {r} /\ Chain(q) = c /\ Chain(q)' = c
    BY <1>2 DEF On, Active, Chain
  <1>4. \A e \in EnginesOf(c) \ {None} : e \in Engines => self'[e] = self[e]
    <2>1. CASE ~Active(r)
      BY <1>1, <2>1, DocFrame
    <2>2. CASE Active(r)
      <3>1. Chain(r) \in Chains /\ Chain(r) # c /\ pc[r] # "idle"
        BY <1>1, <2>2, TaskType DEF On, Active, Steps, UsesEngine
      <3>2. r \in EnginesOf(Chain(r)) /\ (eng[r] # None => eng[r] \in EnginesOf(Chain(r)))
        BY <3>1 DEF StoreInv, OwnerInv, EnginesOf
      <3>3. r \notin EnginesOf(c) /\ (eng[r] # None => eng[r] \notin EnginesOf(c))
        BY <3>1, <3>2, EnginesApart
      <3>4. QED
        BY <1>1, <3>3, DocFrame
    <2>3. QED
      BY <2>1, <2>2
  <1>5. pool[c] # None => pool[c] \in Engines /\ self'[pool[c]] = self[pool[c]]
                          /\ self[pool[c]] \in MadeDocs
    BY <1>1, <1>4 DEF StoreInv, OwnerInv, KnownInv, TypeOK
  <1>6. QED
    BY <1>2, <1>3, <1>5

LEMMA DocElsewhere ==
    ASSUME StoreInv, NEW r \in Reqs, Step(r), NEW c \in Chains,
           r \notin On(c), r \notin On(c)'
    PROVE  DocInv(c)'
  <1>1. TypeOK /\ DocInv(c)
    BY DEF StoreInv, PresenceInv
  <1>2. /\ \A q \in Reqs \ {r} : /\ pc'[q] = pc[q] /\ task'[q] = task[q]
                                 /\ eng'[q] = eng[q] /\ buf'[q] = buf[q]
        /\ cause[c] \subseteq cause'[c]
        /\ pool'[c] = pool[c] /\ disk'[c] = disk[c]
    BY ApartStep
  <1>3. On(c)' = On(c) /\ \A q \in On(c) : q \in Reqs \ {r} /\ Chain(q) = c /\ Chain(q)' = c
    BY ApartStep
  <1>5. pool[c] # None => pool[c] \in Engines /\ self'[pool[c]] = self[pool[c]]
                          /\ self[pool[c]] \in MadeDocs
    BY ApartStep
  <1>6. \A d \in MadeDocs : d \in GoodDocs' <=> d \in GoodDocs
    BY <1>1, DocFrame, LoadStable
  <1>7. \A d \in GoodDocs : d \in MadeDocs \cup {NoFile, Torn, NodeDoc, None} => d \in GoodDocs'
    <2>1. \A d \in GoodDocs : d \notin {NoFile, Torn, NodeDoc, None}
      BY RuleStoreAssumption DEF GoodDocs
    <2>2. QED
      BY <1>6, <2>1
  <1>8. AloneInv(c)'
    <2> SUFFICES ASSUME Alone(c)'
                 PROVE  Lone(c)' /\ \A q \in On(c) : IsSave(q)' => SaveAt(q)' /\ AckAt(q)'
      BY <1>3 DEF AloneInv
    <2>1. Lone(c) /\ \A q \in On(c) : IsSave(q) => SaveAt(q) /\ AckAt(q)
      BY <1>1, <1>2, CauseFacts DEF DocInv, AloneInv
    <2>2. Lone(c)'
      BY <1>2, <1>3, <2>1 DEF Lone
    <2>3. ASSUME NEW q \in On(c), IsSave(q)' PROVE SaveAt(q)' /\ AckAt(q)'
      <3>1. SaveAt(q) /\ AckAt(q)
        BY <1>2, <1>3, <2>1, <2>3 DEF IsSave
      <3>2. SaveAt(q)'
        BY <1>2, <1>3, <3>1 DEF SaveAt
      <3>3. pc[q] \notin {"get", "new"} => eng[q] = pool[c] /\ self'[eng[q]] = self[eng[q]]
        BY <1>3, <1>5, <3>1 DEF SaveAt
      <3>4. AckAt(q)'
        BY <1>2, <1>3, <3>1, <3>3 DEF AckAt, Carries
      <3>5. QED
        BY <3>2, <3>4
    <2>4. QED
      BY <2>2, <2>3
  <1>9. ContentInv(c)'
    <2> SUFFICES ASSUME cause'[c] \subseteq {"reject"}
                 PROVE  ContentInv(c)'
      BY DEF ContentInv
    <2>1. /\ Alone(c) /\ cause[c] \subseteq {"reject"} /\ (cause'[c] = {} => cause[c] = {})
      BY <1>2, CauseFacts DEF Causes
    <2>2. ASSUME NEW q \in On(c), IsSave(q)' PROVE SameAt(q)'
      <3>1. SaveAt(q) /\ SameAt(q)
        BY <1>1, <1>2, <1>3, <2>1, <2>2 DEF DocInv, AloneInv, ContentInv, IsSave
      <3>2. pc[q] \notin {"get", "new"} => eng[q] = pool[c] /\ self'[eng[q]] = self[eng[q]]
        BY <1>3, <1>5, <3>1 DEF SaveAt
      <3>3. QED
        BY <1>2, <1>3, <3>1, <3>2 DEF SameAt, Match
    <2>3. ASSUME pool'[c] # None, \A q \in On(c)' : IsSave(q)' => Before(q)'
          PROVE  /\ Match(disk'[c], self'[pool'[c]])
                 /\ cause'[c] = {} => disk'[c].conf = self'[pool'[c]].conf
      <3>1. \A q \in On(c) : IsSave(q) => Before(q)
        BY <1>2, <1>3, <2>3 DEF IsSave, Before
      <3>2. QED
        BY <1>1, <1>2, <1>5, <2>1, <2>3, <3>1 DEF DocInv, ContentInv
    <2>4. QED
      BY <1>3, <2>2, <2>3 DEF ContentInv
  <1>10. LoadInv(c)'
    <2> SUFFICES ASSUME cause'[c] \subseteq {"child"}
                 PROVE  LoadInv(c)'
      BY DEF LoadInv
    <2>1. /\ \A q \in On(c) : LoadAt(q)
          /\ (\A q \in On(c) : pc[q] # "write") => disk[c] \in GoodDocs \cup {NoFile, NodeDoc}
          /\ pool[c] # None /\ (\A q \in On(c) : pc[q] \notin {"confdsl", "confreload"}) =>
                self[pool[c]] \in GoodDocs
      BY <1>1, <1>2, CauseFacts DEF DocInv, LoadInv, Causes
    <2>2. ASSUME NEW q \in On(c) PROVE LoadAt(q)'
      BY <1>2, <1>3, <1>7, <2>1 DEF LoadAt, StoreInv, KnownInv
    <2>3. (\A q \in On(c) : pc[q] # "write") => disk[c] \in GoodDocs' \cup {NoFile, NodeDoc}
      BY <1>7, <2>1 DEF StoreInv, KnownInv
    <2>4. pool[c] # None /\ (\A q \in On(c) : pc[q] \notin {"confdsl", "confreload"}) =>
             self'[pool[c]] \in GoodDocs'
      BY <1>5, <1>6, <2>1
    <2>5. QED
      BY <1>2, <1>3, <2>2, <2>3, <2>4 DEF LoadInv
  <1>11. QED
    BY <1>8, <1>9, <1>10 DEF DocInv

-----------------------------------------------------------------------------
(* DocInv is preserved where a request of the chain starts: beside a save  *)
(* no other starts unnoticed, and nothing beside a delete.                 *)
LEMMA DocStart ==
    ASSUME StoreInv, NEW r \in Reqs, NEW t \in Tasks, Start(r, t)
    PROVE  DocInv(t.chain)'
  <1> DEFINE c == t.chain
  <1>1. TypeOK /\ c \in Chains /\ DocInv(c)
    BY DEF StoreInv, PresenceInv, Tasks
  <1>2. /\ r \notin On(c) /\ pc'[r] \in {"del", "get"} /\ task'[r] = t /\ c \in Chains
        /\ \A q \in Reqs \ {r} : pc'[q] = pc[q] /\ task'[q] = task[q]
        /\ pool' = pool /\ disk' = disk /\ self' = self /\ eng' = eng /\ buf' = buf
    BY <1>1 DEF Start, Goto, TypeOK, On, Active, Steps, UsesEngine
  <1>3. /\ On(c)' = On(c) \cup {r}
        /\ \A q \in On(c) : q \in Reqs \ {r} /\ Chain(q) = c /\ Chain(q)' = c
    BY <1>2 DEF On, Active, Chain, Steps
  <1>4. cause[c] \subseteq cause'[c]
    BY <1>1, <1>2 DEF Start, Blame, TypeOK
  <1>5. \A d \in MadeDocs : d \in GoodDocs' <=> d \in GoodDocs
    <2>1. \A q \in Reqs : pc[q] # "idle" => task'[q] = task[q]
      BY <1>1 DEF Start, TypeOK
    <2>2. QED
      BY <1>1, <2>1, LoadStable
  <1>6. \A d \in GoodDocs : d \in MadeDocs \cup {NoFile, Torn, NodeDoc, None} => d \in GoodDocs'
    <2>1. \A d \in GoodDocs : d \notin {NoFile, Torn, NodeDoc, None}
      BY RuleStoreAssumption DEF GoodDocs
    <2>2. QED
      BY <1>5, <2>1
  <1>7. Alone(c)' => Lone(c)'
    <2> SUFFICES ASSUME Alone(c)' PROVE Lone(c)'
      OBVIOUS
    <2>1. Lone(c)
      BY <1>1, <1>4, CauseFacts DEF DocInv, AloneInv
    <2>2. "race" \notin cause'[c] /\ "delrace" \notin cause'[c]
      BY DEF Alone
    <2> DEFINE rivals == {task[q].op : q \in On(c)}
    <2>3. /\ ~ \/ "delete" \in rivals
               \/ t.op = "delete" /\ rivals # {}
          /\ ~(t.op \in Saves /\ rivals \cap Saves # {})
      BY <1>1, <1>2, <2>2 DEF Start, Blame, TypeOK
    <2>4. \A q \in On(c) : /\ task[q].op # "delete" /\ t.op # "delete"
                           /\ t.op \in Saves => task[q].op \notin Saves
      BY <2>3
    <2>5. /\ t.op \in AllOps
          /\ \A q \in On(c) : task[q].op \in AllOps
      <3>1. \A q \in On(c) : q \in Reqs /\ pc[q] # "idle"
        BY DEF On, Active, Steps, UsesEngine
      <3>2. QED
        BY <1>1, <3>1, TaskType, RuleStoreAssumption DEF Tasks
    <2>6. \A q \in On(c) : t.op = "exec" \/ task[q].op = "exec"
      BY <2>4, <2>5 DEF AllOps, Saves
    <2>7. QED
      BY <1>2, <1>3, <2>1, <2>4, <2>6 DEF Lone
  <1>8. AloneInv(c)'
    <2>1. ASSUME Alone(c)', NEW q \in On(c), IsSave(q)' PROVE SaveAt(q)' /\ AckAt(q)'
      <3>1. SaveAt(q) /\ AckAt(q)
        BY <1>1, <1>2, <1>3, <1>4, <2>1, CauseFacts DEF DocInv, AloneInv, IsSave
      <3>2. QED
        BY <1>2, <1>3, <3>1 DEF SaveAt, AckAt, Carries
    <2>2. IsSave(r)' => SaveAt(r)' /\ AckAt(r)'
      <3>1. pc'[r] = "del" => t.op = "delete"
        BY <1>1 DEF Start, Goto, TypeOK
      <3>2. QED
        BY <1>2, <3>1 DEF SaveAt, AckAt, IsSave, Saves
    <2>3. QED
      BY <1>3, <1>7, <2>1, <2>2 DEF AloneInv
  <1>9. ContentInv(c)'
    <2> SUFFICES ASSUME cause'[c] \subseteq {"reject"}
                 PROVE  ContentInv(c)'
      BY DEF ContentInv
    <2>1. cause[c] \subseteq {"reject"} /\ (cause'[c] = {} => cause[c] = {})
      BY <1>4, CauseFacts DEF Causes
    <2>2. ASSUME NEW q \in On(c), IsSave(q)' PROVE SameAt(q)'
      <3>1. SameAt(q)
        BY <1>1, <1>2, <1>3, <2>1, <2>2 DEF DocInv, ContentInv, IsSave
      <3>2. QED
        BY <1>2, <1>3, <3>1 DEF SameAt, Match
    <2>3. SameAt(r)'
      BY <1>2 DEF SameAt
    <2>4. ASSUME pool'[c] # None, \A q \in On(c)' : IsSave(q)' => Before(q)'
          PROVE  /\ Match(disk'[c], self'[pool'[c]])
                 /\ cause'[c] = {} => disk'[c].conf = self'[pool'[c]].conf
      <3>1. \A q \in On(c) : IsSave(q) => Before(q)
        BY <1>2, <1>3, <2>4 DEF IsSave, Before
      <3>2. QED
        BY <1>1, <1>2, <2>1, <2>4, <3>1 DEF DocInv, ContentInv
    <2>5. QED
      BY <1>3, <2>2, <2>3, <2>4 DEF ContentInv
  <1>10. LoadInv(c)'
    <2> SUFFICES ASSUME cause'[c] \subseteq {"child"}
                 PROVE  LoadInv(c)'
      BY DEF LoadInv
    <2>1. /\ \A q \in On(c) : LoadAt(q)
          /\ (\A q \in On(c) : pc[q] # "write") => disk[c] \in GoodDocs \cup {NoFile, NodeDoc}
          /\ pool[c] # None /\ (\A q \in On(c) : pc[q] \notin {"confdsl", "confreload"}) =>
                self[pool[c]] \in GoodDocs
      BY <1>1, <1>4, CauseFacts DEF DocInv, LoadInv, Causes
    <2>2. ASSUME NEW q \in On(c) PROVE LoadAt(q)'
      BY <1>2, <1>3, <1>6, <2>1 DEF LoadAt, StoreInv, KnownInv
    <2>3. LoadAt(r)'
      BY <1>2 DEF LoadAt
    <2>4. (\A q \in On(c) : pc[q] # "write") => disk[c] \in GoodDocs' \cup {NoFile, NodeDoc}
      BY <1>1, <1>6, <2>1 DEF StoreInv, KnownInv
    <2>5. pool[c] # None /\ (\A q \in On(c) : pc[q] \notin {"confdsl", "confreload"}) =>
             self[pool[c]] \in GoodDocs'
      BY <1>1, <1>5, <2>1 DEF StoreInv, KnownInv, TypeOK
    <2>6. QED
      BY <1>2, <1>3, <2>2, <2>3, <2>4, <2>5 DEF LoadInv
  <1>11. QED
    BY <1>8, <1>9, <1>10 DEF DocInv

-----------------------------------------------------------------------------
(* DocInv is preserved by the executions and deletes of the chain.         *)
LEMMA DocExec ==
    ASSUME StoreInv, NEW r \in Reqs, Active(r), task[r].op = "exec", task' = task,
           Step(r), NEW c \in Chains, Chain(r) = c
    PROVE  DocInv(c)'
  <1>1. TypeOK /\ DocInv(c) /\ r \in On(c) /\ pc[r] \in {"get", "run"}
    BY DEF StoreInv, PresenceInv, PathInv, StepsOf, On
  <1>2. /\ pc'[r] \in {"run", "err", "ok"}
        /\ \A q \in Reqs \ {r} : pc'[q] = pc[q] /\ eng'[q] = eng[q]
        /\ UNCHANGED <<pool, disk, self, buf, cause>>
    BY <1>1
    DEF Step, Start, PoolGet, NewFindsEngine, NewMakesEngine, RejectBody,
        ReloadSelf, ReloadChild, Stamp, SetBaseInfo, SetConf, TakeDsl,
        ReloadConf, RejectConf, EngineGone, OpenFile, WriteFile, PoolDel,
        RemoveFile, RemoveRuns, FileFault, Complete, UsesEngine, Goto, TypeOK
  <1>3. /\ On(c)' \subseteq On(c) /\ On(c) \subseteq On(c)' \cup {r}
        /\ \A q \in On(c) : Chain(q) = c /\ Chain(q)' = c /\ q \in Reqs
    BY <1>1, <1>2 DEF On, Active, Chain
  <1>4. \A q \in On(c) : IsSave(q) => q # r
    BY DEF IsSave, Saves
  <1>5. GoodDocs' = GoodDocs
    BY DEF GoodDocs, Loadable, Accepted
  <1>6. AloneInv(c)'
    BY <1>1, <1>2, <1>3, <1>4
    DEF DocInv, AloneInv, Alone, Lone, IsSave, SaveAt, AckAt, Carries
  <1>7. ContentInv(c)'
    <2>1. ASSUME NEW q \in On(c)', IsSave(q), SameAt(q) PROVE SameAt(q)'
      BY <1>2, <1>3, <1>4, <2>1 DEF SameAt, Match
    <2>2. \A q \in On(c) : IsSave(q) => q \in On(c)' /\ (Before(q)' => Before(q))
      BY <1>2, <1>3, <1>4 DEF Before
    <2>3. QED
      BY <1>1, <1>2, <1>3, <2>1, <2>2 DEF DocInv, ContentInv, IsSave
  <1>8. LoadInv(c)'
    BY <1>1, <1>2, <1>3, <1>5 DEF DocInv, LoadInv, LoadAt
  <1>9. QED
    BY <1>6, <1>7, <1>8 DEF DocInv

LEMMA DocDelete ==
    ASSUME StoreInv, NEW r \in Reqs, Active(r), task[r].op = "delete", task' = task,
           Step(r), NEW c \in Chains, Chain(r) = c
    PROVE  DocInv(c)'
  <1>1. TypeOK /\ DocInv(c) /\ r \in On(c) /\ pc[r] \in {"del", "rmfile", "rmruns"}
    BY DEF StoreInv, PresenceInv, PathInv, StepsOf, On
  <1>2. PoolDel(r) \/ RemoveFile(r) \/ RemoveRuns(r) \/ FileFault(r)
    BY <1>1
    DEF Step, Start, PoolGet, NewFindsEngine, NewMakesEngine, RejectBody,
        ReloadSelf, ReloadChild, Stamp, SetBaseInfo, SetConf, TakeDsl,
        ReloadConf, RejectConf, EngineGone, OpenFile, WriteFile, PoolDel,
        RemoveFile, RemoveRuns, FileFault, Complete, UsesEngine
  <1>3. /\ pc'[r] \in {"rmfile", "rmruns", "ok", "err"}
        /\ \A q \in Reqs \ {r} : pc'[q] = pc[q]
        /\ UNCHANGED <<self, buf, eng>>
        /\ pool'[c] \in {pool[c], None}
        /\ disk'[c] \in {disk[c], NoFile}
        /\ cause[c] \subseteq cause'[c]
    BY <1>1, <1>2, StepFrame DEF PoolDel, RemoveFile, RemoveRuns, FileFault, Goto, TypeOK
  <1>4. /\ On(c)' \subseteq On(c) /\ On(c) \subseteq On(c)' \cup {r}
        /\ \A q \in On(c) : Chain(q) = c /\ Chain(q)' = c /\ q \in Reqs
    BY <1>1, <1>3 DEF On, Active, Chain
  <1>5. ASSUME Alone(c)' PROVE Lone(c)' /\ On(c) = {r}
    <2>1. Lone(c)
      BY <1>1, <1>3, <1>5, CauseFacts DEF DocInv, AloneInv
    <2>2. QED
      BY <1>1, <1>4, <2>1 DEF Lone
  <1>6. ~IsSave(r)
    BY DEF IsSave, Saves
  <1>7. AloneInv(c)'
    BY <1>4, <1>5, <1>6 DEF AloneInv, IsSave
  <1>8. ContentInv(c)'
    <2> SUFFICES ASSUME cause'[c] \subseteq {"reject"}
                 PROVE  ContentInv(c)'
      BY DEF ContentInv
    <2>1. Alone(c)' /\ cause[c] \subseteq {"reject"} /\ (cause'[c] = {} => cause[c] = {})
      BY <1>3 DEF Alone
    <2>2. \A q \in On(c) : ~IsSave(q) /\ ~IsSave(q)'
      BY <1>5, <1>6, <2>1 DEF IsSave
    <2>3. ASSUME pool'[c] # None
          PROVE  pool'[c] = pool[c] /\ disk'[c] = disk[c]
      <3>1. Quiet(c)
        BY <2>1 DEF Quiet
      <3>2. pc[r] # "del" => pool[c] = None
        <4>1. up
          BY StepFrame, <1>1 DEF StoreInv, PresenceInv
        <4>2. QED
          BY <1>1, <3>1, <4>1 DEF StoreInv, PresenceInv, DeleteInv
      <3>3. QED
        BY <1>1, <1>2, <1>3, <2>3, <3>2 DEF PoolDel, RemoveFile, RemoveRuns, FileFault
    <2>4. QED
      BY <1>1, <1>3, <1>4, <2>1, <2>2, <2>3 DEF DocInv, ContentInv
  <1>9. LoadInv(c)'
    <2>1. GoodDocs' = GoodDocs
      BY DEF GoodDocs, Loadable, Accepted
    <2> SUFFICES ASSUME cause'[c] \subseteq {"child"}
                 PROVE  LoadInv(c)'
      BY DEF LoadInv
    <2>2. cause[c] \subseteq {"child"}
      BY <1>3
    <2>3. QED
      BY <1>1, <1>3, <1>4, <2>1, <2>2 DEF DocInv, LoadInv, LoadAt
  <1>10. QED
    BY <1>7, <1>8, <1>9 DEF DocInv

-----------------------------------------------------------------------------
(* DocInv is preserved by the save in flight: what it rests on, and what it*)
(* has to show.                                                            *)

Save(r, c) ==
    /\ r \in Reqs /\ c \in Chains /\ Chain(r) = c
    /\ Active(r) /\ IsSave(r) /\ Step(r) /\ task' = task

LEMMA SaveKnows ==
    ASSUME StoreInv, NEW r, NEW c, Save(r, c)
    PROVE  /\ TypeOK /\ r \in Reqs /\ c \in Chains /\ r \in On(c) /\ up
           /\ task[r] \in Tasks /\ task[r].op \in Saves
           /\ pc[r] \in StepsOf(task[r].op) /\ cause[c] \subseteq cause'[c]
           /\ eng[r] # None => eng[r] \in Engines
           /\ Alone(c) => /\ SaveAt(r) /\ AckAt(r)
                          /\ \A q \in On(c) \ {r} : task[q].op = "exec"
           /\ cause[c] \subseteq {"reject"} =>
                 /\ SameAt(r) /\ task[r].op # "child"
                 /\ pool[c] # None /\ Before(r) =>
                       /\ Match(disk[c], self[pool[c]])
                       /\ cause[c] = {} => disk[c].conf = self[pool[c]].conf
           /\ cause[c] \subseteq {"child"} =>
                 /\ LoadAt(r)
                 /\ pc[r] # "write" => disk[c] \in GoodDocs \cup {NoFile, NodeDoc}
                 /\ pool[c] # None /\ pc[r] \notin {"confdsl", "confreload"} =>
                       self[pool[c]] \in GoodDocs
  <1>1. /\ TypeOK /\ r \in Reqs /\ c \in Chains /\ r \in On(c) /\ DocInv(c) /\ IsSave(r)
        /\ Chain(r) = c
    BY DEF Save, On, StoreInv, PresenceInv
  <1>2. task[r] \in Tasks /\ task[r].op \in Saves /\ up
    BY <1>1, TaskType DEF Save, IsSave, StoreInv, PresenceInv, On, Active, Steps, UsesEngine
  <1>3. pc[r] \in StepsOf(task[r].op) /\ cause[c] \subseteq cause'[c]
    BY <1>1, StepFrame DEF Save, StoreInv, PathInv
  <1>4. eng[r] # None => eng[r] \in Engines
    BY <1>1 DEF TypeOK
  <1>5. ASSUME Alone(c)
        PROVE  /\ SaveAt(r) /\ AckAt(r)
               /\ \A q \in On(c) \ {r} : task[q].op = "exec"
    BY <1>1, <1>5 DEF DocInv, AloneInv, Lone, IsSave, Saves
  <1>6. Alone(c) => \A q \in On(c) : q # r => ~IsSave(q) /\ pc[q] \in {"get", "run"}
    BY <1>5 DEF IsSave, Saves, StoreInv, PathInv, StepsOf, On
  <1>7. ASSUME cause[c] \subseteq {"reject"}
        PROVE  /\ SameAt(r) /\ task[r].op # "child"
               /\ pool[c] # None /\ Before(r) =>
                     /\ Match(disk[c], self[pool[c]])
                     /\ cause[c] = {} => disk[c].conf = self[pool[c]].conf
    <2>1. Alone(c)
      BY <1>7 DEF Alone
    <2>2. task[r].op # "child"
      BY <1>1, <1>7 DEF Save, StoreInv, PresenceInv, NodeInv
    <2>3. QED
      BY <1>1, <1>6, <1>7, <2>1, <2>2 DEF DocInv, ContentInv
  <1>8. ASSUME cause[c] \subseteq {"child"}
        PROVE  /\ LoadAt(r)
               /\ pc[r] # "write" => disk[c] \in GoodDocs \cup {NoFile, NodeDoc}
               /\ pool[c] # None /\ pc[r] \notin {"confdsl", "confreload"} =>
                     self[pool[c]] \in GoodDocs
    <2>1. Alone(c)
      BY <1>8 DEF Alone
    <2>2. /\ pc[r] # "write" => \A q \in On(c) : pc[q] # "write"
          /\ pc[r] \notin {"confdsl", "confreload"} =>
                \A q \in On(c) : pc[q] \notin {"confdsl", "confreload"}
      BY <1>6, <2>1
    <2>3. QED
      BY <1>1, <1>8, <2>2 DEF DocInv, LoadInv
  <1>9. QED
    BY <1>1, <1>2, <1>3, <1>4, <1>5, <1>7, <1>8

LEMMA SaveShows ==
    ASSUME StoreInv, NEW r, NEW c, Save(r, c),
           Alone(c)' /\ Active(r)' => SaveAt(r)' /\ AckAt(r)',
           cause'[c] \subseteq {"reject"} =>
              /\ Active(r)' => SameAt(r)'
              /\ pool'[c] # None /\ (Active(r)' => Before(r)') =>
                    /\ Match(disk'[c], self'[pool'[c]])
                    /\ cause'[c] = {} => disk'[c].conf = self'[pool'[c]].conf,
           cause'[c] \subseteq {"child"} =>
              /\ Active(r)' => LoadAt(r)'
              /\ pc'[r] # "write" => disk'[c] \in GoodDocs' \cup {NoFile, NodeDoc}
              /\ pool'[c] # None /\ pc'[r] \notin {"confdsl", "confreload"} =>
                    self'[pool'[c]] \in GoodDocs'
    PROVE  DocInv(c)'
  <1>1. /\ TypeOK /\ r \in Reqs /\ c \in Chains /\ r \in On(c) /\ cause[c] \subseteq cause'[c]
        /\ Alone(c) => \A q \in On(c) \ {r} : task[q].op = "exec"
        /\ IsSave(r) /\ task' = task /\ Step(r) /\ Chain(r) = c
    BY SaveKnows DEF Save
  <1>2. \A q \in Reqs \ {r} : /\ pc'[q] = pc[q] /\ task'[q] = task[q]
                              /\ eng'[q] = eng[q] /\ buf'[q] = buf[q]
    BY <1>1, StepFrame, DocFrame
  <1>3. /\ On(c)' \subseteq On(c) /\ On(c) \subseteq On(c)' \cup {r}
        /\ r \in On(c)' <=> Active(r)'
    BY <1>1, <1>2 DEF On, Active, Chain
  <1>4. Alone(c)' => Alone(c)
    BY <1>1, CauseFacts
  <1>5. ASSUME Alone(c), NEW q \in On(c), q # r
        PROVE  ~IsSave(q)' /\ pc'[q] \in {"get", "run"}
    BY <1>1, <1>2, <1>5 DEF IsSave, Saves, StoreInv, PathInv, StepsOf, On
  <1>6. AloneInv(c)'
    <2>1. Alone(c) => Lone(c)'
      BY <1>1, <1>3 DEF Lone, IsSave, Saves
    <2>2. QED
      BY <1>3, <1>4, <1>5, <2>1 DEF AloneInv
  <1>7. ContentInv(c)'
    <2> SUFFICES ASSUME cause'[c] \subseteq {"reject"}
                 PROVE  ContentInv(c)'
      BY DEF ContentInv
    <2>1. Alone(c)
      BY <1>1 DEF Alone
    <2>2. \A q \in On(c)' : IsSave(q)' => q = r /\ Active(r)'
      BY <1>3, <1>5, <2>1
    <2>3. (\A q \in On(c)' : IsSave(q)' => Before(q)') => (Active(r)' => Before(r)')
      BY <1>1, <1>3 DEF IsSave
    <2>4. QED
      BY <2>2, <2>3 DEF ContentInv
  <1>8. LoadInv(c)'
    <2> SUFFICES ASSUME cause'[c] \subseteq {"child"}
                 PROVE  LoadInv(c)'
      BY DEF LoadInv
    <2>1. Alone(c)
      BY <1>1 DEF Alone
    <2>2. \A q \in On(c)' : q # r => LoadAt(q)'
      BY <1>3, <1>5, <2>1 DEF LoadAt
    <2>3. /\ (\A q \in On(c)' : pc'[q] # "write") =>
                pc'[r] # "write"
          /\ (\A q \in On(c)' : pc'[q] \notin {"confdsl", "confreload"}) =>
                pc'[r] \notin {"confdsl", "confreload"}
      BY <1>1, <1>3 DEF Active, Steps, UsesEngine
    <2>4. QED
      BY <1>3, <2>2, <2>3 DEF LoadInv
  <1>9. QED
    BY <1>6, <1>7, <1>8 DEF DocInv

(* The look-up and the creation of an engine.                              *)
LEMMA SaveGet ==
    ASSUME StoreInv, NEW r, NEW c, Save(r, c), PoolGet(r)
    PROVE  DocInv(c)'
  <1>1. /\ pc[r] = "get" /\ Chain(r) = c /\ r \in Reqs /\ task' = task
        /\ UNCHANGED <<pool, self, disk, cause, buf>>
        /\ eng'[r] = pool[c]
        /\ pool[c] = None => pc'[r] \in {"new", "err"}
        /\ pool[c] # None => pc'[r] \in {"reload", "child", "base", "confset", "run"}
        /\ pc'[r] # "run"
    BY SaveKnows
    DEF Save, PoolGet, Goto, TypeOK, Saves
  <1>2. Chain(r)' = c /\ GoodDocs' = GoodDocs
    BY <1>1 DEF Chain, GoodDocs, Loadable, Accepted
  <1>3. Active(r)' => SaveAt(r)' /\ AckAt(r)'
    BY <1>1, <1>2 DEF SaveAt, AckAt, Active, Steps, UsesEngine
  <1>4. SameAt(r)' /\ LoadAt(r)'
    BY <1>1 DEF SameAt, LoadAt
  <1>5. Before(r)
    BY <1>1 DEF Before
  <1>6. QED
    BY <1>1, <1>2, <1>3, <1>4, <1>5, SaveKnows, SaveShows

LEMMA SaveFinds ==
    ASSUME StoreInv, NEW r, NEW c, Save(r, c), NewFindsEngine(r)
    PROVE  DocInv(c)'
  <1>1. /\ pc[r] = "new" /\ pool[c] # None /\ cause' = cause
    BY DEF Save, NewFindsEngine
  <1>2. ~Alone(c)
    BY <1>1, SaveKnows DEF SaveAt, Save
  <1>3. /\ ~Alone(c)' /\ ~(cause'[c] \subseteq {"reject"})
        /\ ~(cause'[c] \subseteq {"child"})
    BY <1>1, <1>2 DEF Alone
  <1>4. QED
    BY <1>3, SaveShows

LEMMA SaveMakes ==
    ASSUME StoreInv, NEW r, NEW c, Save(r, c), NewMakesEngine(r)
    PROVE  DocInv(c)'
  <1> USE SaveKnows
  <1>1. /\ pc[r] = "new" /\ Chain(r) = c /\ Chain(r)' = c /\ r \in Reqs /\ c \in Chains
        /\ UNCHANGED <<disk, cause, buf, task>>
        /\ pool'[c] = r /\ eng'[r] = r /\ self'[r] = Body(r) /\ task[r].good
        /\ pc'[r] = IF task[r].op = "base" THEN "dslout" ELSE "stamp"
    BY DEF Save, NewMakesEngine, Goto, TypeOK, Engines, Chain
  <1>2. r # None /\ task[r].op # "conf"
    BY <1>1, RuleStoreAssumption DEF Engines, StepsOf
  <1>3. /\ Body(r).nodes = r /\ Body(r).info = r /\ Body(r).conf = [k \in Keys |-> r]
        /\ task[r].op = "base" => Body(r).stamp
    BY DEF Body
  <1>4. SaveAt(r)' /\ AckAt(r)'
    BY <1>1, <1>2, <1>3 DEF SaveAt, AckAt
  <1>5. SameAt(r)' /\ ~Before(r)' /\ Active(r)'
    BY <1>1, <1>3 DEF SameAt, Before, Active, Steps, UsesEngine
  <1>6. GoodDocs' = GoodDocs /\ LoadAt(r)'
    BY <1>1 DEF GoodDocs, Loadable, Accepted, LoadAt
  <1>7. Body(r) \in GoodDocs
    BY <1>1, BodyType DEF GoodDocs, Loadable, Accepted, Body
  <1>8. QED
    BY <1>1, <1>4, <1>5, <1>6, <1>7, SaveShows

(* A refusal, and the end of a handler whose engine is gone.               *)
LEMMA SaveEnds ==
    ASSUME StoreInv, NEW r, NEW c, Save(r, c), RejectBody(r) \/ EngineGone(r)
    PROVE  DocInv(c)'
  <1> USE SaveKnows
  <1>1. /\ Chain(r) = c /\ Chain(r)' = c /\ r \in Reqs /\ c \in Chains
        /\ UNCHANGED <<pool, self, eng, disk, cause, buf, task>>
        /\ pc'[r] = "err" /\ ~Active(r)'
    BY DEF Save, RejectBody, EngineGone, Goto, TypeOK, Chain, Active, Steps, UsesEngine
  <1>2. GoodDocs' = GoodDocs /\ (Alone(c)' <=> Alone(c))
    BY <1>1 DEF GoodDocs, Loadable, Accepted, Alone
  <1>3. CASE RejectBody(r)
    <2>1. pc[r] \in {"new", "reload", "child"}
      BY <1>3 DEF RejectBody
    <2>2. task[r].op # "child" => Before(r)
      BY <2>1 DEF Before, StepsOf, Saves
    <2>3. QED
      BY <1>1, <1>2, <2>1, <2>2, SaveShows
  <1>4. CASE EngineGone(r)
    <2>1. pc[r] \in UsesEngine /\ Orphan(eng[r])
      BY <1>4 DEF EngineGone
    <2>2. ~Alone(c)
      BY <1>1, <2>1 DEF SaveAt, Orphan, UsesEngine
    <2>3. /\ ~(cause'[c] \subseteq {"reject"}) /\ ~(cause'[c] \subseteq {"child"})
      BY <1>1, <2>2 DEF Alone
    <2>4. QED
      BY <1>1, <1>2, <2>2, <2>3, SaveShows
  <1>5. QED
    BY <1>3, <1>4

LEMMA SaveFaults ==
    ASSUME StoreInv, NEW r, NEW c, Save(r, c), FileFault(r)
    PROVE  DocInv(c)'
  <1>1. "fault" \in cause'[c] /\ pc'[r] = "err" /\ ~Active(r)'
    BY SaveKnows
    DEF Save, FileFault, Blame, Goto, TypeOK, Active, Steps, UsesEngine
  <1>2. /\ ~(cause'[c] \subseteq {"reject"}) /\ ~(cause'[c] \subseteq {"child"})
    BY <1>1
  <1>3. QED
    BY <1>1, <1>2, SaveShows

(* The edits of the definition in memory.                                  *)
LEMMA SaveHolds ==
    ASSUME StoreInv, NEW r, NEW c, Save(r, c)
    PROVE  /\ Chain(r) = c /\ Chain(r)' = c /\ GoodDocs' = GoodDocs
           /\ pc[r] \in UsesEngine => /\ eng[r] \in Engines /\ self[eng[r]] \in Docs
                                      /\ Alone(c) => pool[c] = eng[r] /\ pool[c] # None
           /\ Body(r).nodes = r /\ Body(r).info = r /\ Body(r).conf = [k \in Keys |-> r]
           /\ Body(r) \in Docs /\ (task[r].good => Body(r) \in GoodDocs)
  <1>1. Chain(r) = c /\ Chain(r)' = c /\ GoodDocs' = GoodDocs
    BY DEF Save, Chain, GoodDocs, Loadable, Accepted
  <1>2. pc[r] \in UsesEngine => eng[r] \in Engines /\ self[eng[r]] \in Docs
    BY SaveKnows DEF TypeOK
  <1>3. pc[r] \in UsesEngine /\ Alone(c) => pool[c] = eng[r] /\ pool[c] # None
    BY <1>1, SaveKnows DEF SaveAt, UsesEngine
  <1>4. /\ Body(r).nodes = r /\ Body(r).info = r /\ Body(r).conf = [k \in Keys |-> r]
    BY DEF Body
  <1>5. Body(r) \in Docs /\ (task[r].good => Body(r) \in GoodDocs)
    BY <1>4, SaveKnows, BodyType DEF GoodDocs, Loadable, Accepted
  <1>6. QED
    BY <1>1, <1>2, <1>3, <1>4, <1>5

LEMMA SaveReloads ==
    ASSUME StoreInv, NEW r, NEW c, Save(r, c), ReloadSelf(r)
    PROVE  DocInv(c)'
  <1> USE SaveKnows, SaveHolds
  <1>1. /\ pc[r] = "reload" /\ pc'[r] = "stamp" /\ Active(r)' /\ pc[r] \in UsesEngine
        /\ UNCHANGED <<pool, eng, disk, cause, buf, task>> /\ task[r].good
    BY DEF ReloadSelf, Goto, TypeOK, Active, Steps, UsesEngine
  <1>2. self'[eng[r]] = Body(r)
    BY <1>1 DEF ReloadSelf, TypeOK
  <1>3. Alone(c) => SaveAt(r)' /\ AckAt(r)'
    BY <1>1 DEF SaveAt, AckAt
  <1>4. SameAt(r)' /\ ~Before(r)' /\ LoadAt(r)'
    <2>1. /\ self'[eng[r]].nodes = r /\ self'[eng[r]].info = r
          /\ self'[eng[r]].conf = [k \in Keys |-> r]
      BY <1>2 DEF Body
    <2>2. SameAt(r)'
      BY <1>1, <2>1 DEF SameAt
    <2>3. QED
      BY <1>1, <2>2 DEF Before, LoadAt
  <1>5. Alone(c)' => Alone(c)
    BY <1>1 DEF Alone
  <1>6. cause'[c] \subseteq {"child"} => self'[pool'[c]] \in GoodDocs
    BY <1>1, <1>2 DEF Alone
  <1>7. QED
    BY <1>1, <1>3, <1>4, <1>5, <1>6, SaveShows

LEMMA SaveReloadsChild ==
    ASSUME StoreInv, NEW r, NEW c, Save(r, c), ReloadChild(r)
    PROVE  DocInv(c)'
  <1> USE SaveKnows, SaveHolds
  <1>1. /\ pc[r] = "child" /\ pc'[r] = "stamp" /\ Active(r)' /\ pc[r] \in UsesEngine
        /\ UNCHANGED <<pool, eng, disk, cause, buf, task>> /\ task[r].good
    BY DEF ReloadChild, Goto, TypeOK, Active, Steps, UsesEngine
  <1>2. self'[eng[r]] = [self[eng[r]] EXCEPT !.nodes = r]
    BY <1>1 DEF ReloadChild, TypeOK
  <1>3. Alone(c) => SaveAt(r)' /\ AckAt(r)'
    BY <1>1 DEF SaveAt, AckAt
  <1>4. ~(cause'[c] \subseteq {"reject"})
    <2>1. task[r].op = "child"
      BY <1>1 DEF StepsOf, Saves
    <2>2. QED
      BY <1>1, <2>1
  <1>5. LoadAt(r)' /\ (Alone(c)' => Alone(c))
    BY <1>1 DEF LoadAt, Alone
  <1>6. cause'[c] \subseteq {"child"} => self'[pool'[c]] \in GoodDocs
    <2> SUFFICES ASSUME cause[c] \subseteq {"child"}
                 PROVE  self'[eng[r]] \in GoodDocs
      BY <1>1 DEF Alone
    <2>1. self[eng[r]] \in GoodDocs /\ r \in Src
      BY <1>1 DEF Alone, Src
    <2>2. self'[eng[r]] \in Docs
      BY <1>2, <2>1 DEF GoodDocs, Docs
    <2>3. self'[eng[r]].nodes = r /\ self'[eng[r]].conf = self[eng[r]].conf
      BY <1>2, <2>1 DEF GoodDocs, Docs
    <2>4. QED
      BY <1>1, <2>1, <2>2, <2>3 DEF GoodDocs, Loadable, Accepted
  <1>7. QED
    BY <1>1, <1>3, <1>4, <1>5, <1>6, SaveShows

LEMMA SaveStamps ==
    ASSUME StoreInv, NEW r, NEW c, Save(r, c), Stamp(r)
    PROVE  DocInv(c)'
  <1> USE SaveKnows, SaveHolds
  <1>1. /\ pc[r] = "stamp" /\ pc'[r] = "trunc" /\ Active(r)' /\ pc[r] \in UsesEngine
        /\ UNCHANGED <<pool, eng, disk, cause, task>>
        /\ buf'[r] = IF task[r].op = "child" THEN NodeDoc ELSE Body(r)
        /\ task[r].op \in {"dsl", "child"}
    BY DEF Stamp, Goto, TypeOK, Active, Steps, UsesEngine, StepsOf, Saves
  <1>2. self'[eng[r]] = [self[eng[r]] EXCEPT !.stamp = TRUE]
    BY <1>1 DEF Stamp, TypeOK
  <1>3. /\ self'[eng[r]] \in Docs /\ self'[eng[r]].stamp
        /\ self'[eng[r]].nodes = self[eng[r]].nodes /\ self'[eng[r]].info = self[eng[r]].info
        /\ self'[eng[r]].conf = self[eng[r]].conf
    BY <1>1, <1>2 DEF Docs
  <1>4. Alone(c) => SaveAt(r)' /\ AckAt(r)'
    BY <1>1 DEF SaveAt, AckAt, Carries
  <1>5. cause[c] \subseteq {"reject"} => SameAt(r)'
    BY <1>1, <1>3 DEF SameAt, Match
  <1>6. ~Before(r)' /\ (Alone(c)' => Alone(c))
    BY <1>1 DEF Before, Alone
  <1>7. cause[c] \subseteq {"child"} => LoadAt(r)' /\ self'[pool'[c]] \in GoodDocs
    <2>1. cause[c] \subseteq {"child"} => LoadAt(r)'
      BY <1>1 DEF LoadAt
    <2>2. self[eng[r]] \in GoodDocs => self'[eng[r]] \in GoodDocs
      BY <1>3 DEF GoodDocs, Loadable
    <2>3. QED
      BY <1>1, <2>1, <2>2 DEF Alone
  <1>8. QED
    BY <1>1, <1>4, <1>5, <1>6, <1>7, SaveShows

LEMMA SaveSetsBase ==
    ASSUME StoreInv, NEW r, NEW c, Save(r, c), SetBaseInfo(r)
    PROVE  DocInv(c)'
  <1> USE SaveKnows, SaveHolds
  <1>1. /\ pc[r] = "base" /\ pc'[r] = "dslout" /\ Active(r)' /\ pc[r] \in UsesEngine
        /\ UNCHANGED <<pool, eng, disk, cause, buf, task>>
        /\ task[r].op = "base"
    BY DEF SetBaseInfo, Goto, TypeOK, Active, Steps, UsesEngine, StepsOf, Saves
  <1>2. self'[eng[r]] = [self[eng[r]] EXCEPT !.info = r, !.stamp = TRUE]
    BY <1>1 DEF SetBaseInfo, TypeOK
  <1>3. /\ self'[eng[r]] \in Docs /\ self'[eng[r]].info = r /\ self'[eng[r]].stamp
        /\ self'[eng[r]].nodes = self[eng[r]].nodes
        /\ self'[eng[r]].conf = self[eng[r]].conf
    <2>1. r \in Src /\ self[eng[r]] \in Docs
      BY <1>1 DEF Src
    <2>2. QED
      BY <1>2, <2>1 DEF Docs
  <1>4. Alone(c) => SaveAt(r)' /\ AckAt(r)'
    BY <1>1, <1>3 DEF SaveAt, AckAt
  <1>5. SameAt(r)' /\ LoadAt(r)' /\ ~Before(r)' /\ (Alone(c)' => Alone(c))
    BY <1>1 DEF SameAt, LoadAt, Before, Alone
  <1>6. cause[c] \subseteq {"child"} => self'[pool'[c]] \in GoodDocs
    <2>1. self[eng[r]] \in GoodDocs => self'[eng[r]] \in GoodDocs
      BY <1>3 DEF GoodDocs, Loadable
    <2>2. QED
      BY <1>1, <2>1 DEF Alone
  <1>7. QED
    BY <1>1, <1>4, <1>5, <1>6, SaveShows

LEMMA SaveSetsConf ==
    ASSUME StoreInv, NEW r, NEW c, Save(r, c), SetConf(r)
    PROVE  DocInv(c)'
  <1> USE SaveKnows, SaveHolds
  <1>1. /\ pc[r] = "confset" /\ pc'[r] = "confdsl" /\ Active(r)' /\ pc[r] \in UsesEngine
        /\ UNCHANGED <<pool, eng, disk, cause, buf, task>>
        /\ task[r].op = "conf" /\ task[r].key \in Keys
    BY TaskType DEF SetConf, Goto, TypeOK, Active, Steps, UsesEngine, StepsOf, Saves
  <1>2. self'[eng[r]] = [self[eng[r]] EXCEPT !.conf[task[r].key] = r, !.stamp = TRUE]
    BY <1>1 DEF SetConf, TypeOK
  <1>3. /\ self'[eng[r]].conf[task[r].key] = r /\ self'[eng[r]].stamp
        /\ self'[eng[r]].nodes = self[eng[r]].nodes
        /\ self'[eng[r]].info = self[eng[r]].info
    BY <1>1, <1>2 DEF Docs, Src
  <1>4. Alone(c) => SaveAt(r)' /\ AckAt(r)'
    BY <1>1, <1>3 DEF SaveAt, AckAt
  <1>5. LoadAt(r)' /\ ~Before(r)' /\ Before(r) /\ (Alone(c)' => Alone(c))
    BY <1>1 DEF LoadAt, Before, Alone
  <1>6. cause[c] \subseteq {"reject"} => SameAt(r)'
    <2> SUFFICES ASSUME cause[c] \subseteq {"reject"} PROVE SameAt(r)'
      OBVIOUS
    <2>1. Match(disk[c], self[eng[r]])
      BY <1>1, <1>5 DEF Alone
    <2>2. Match(disk[c], self'[eng[r]])
      BY <1>3, <2>1 DEF Match
    <2>3. QED
      BY <1>1, <2>2 DEF SameAt
  <1>7. QED
    BY <1>1, <1>4, <1>5, <1>6, SaveShows

LEMMA SaveTakes ==
    ASSUME StoreInv, NEW r, NEW c, Save(r, c), TakeDsl(r)
    PROVE  DocInv(c)'
  <1> USE SaveKnows, SaveHolds
  <1>1. /\ pc[r] \in {"confdsl", "dslout"} /\ Active(r)' /\ pc[r] \in UsesEngine
        /\ pc'[r] = IF pc[r] = "confdsl" THEN "confreload" ELSE "trunc"
        /\ UNCHANGED <<pool, eng, disk, cause, self, task>>
        /\ buf'[r] = self[eng[r]]
        /\ task[r].op \in {"base", "conf"}
        /\ pc[r] = "confdsl" => task[r].op = "conf"
    BY DEF TakeDsl, Goto, TypeOK, Active, Steps, UsesEngine, StepsOf, Saves
  <1>2. ~Before(r)' /\ (Alone(c)' => Alone(c))
    BY <1>1 DEF Before, Alone
  <1>3. Alone(c) => SaveAt(r)'
    BY <1>1 DEF SaveAt
  <1>4. Alone(c) => AckAt(r)'
    <2> SUFFICES ASSUME Alone(c) PROVE AckAt(r)'
      OBVIOUS
    <2>1. /\ task[r].op = "base" => self[eng[r]].info = r /\ self[eng[r]].stamp
          /\ task[r].op = "conf" =>
                self[eng[r]].conf[task[r].key] = r /\ self[eng[r]].stamp
      BY <1>1 DEF AckAt, StepsOf
    <2>2. QED
      BY <1>1, <2>1 DEF AckAt, Carries
  <1>5. cause[c] \subseteq {"reject"} => SameAt(r)'
    <2> SUFFICES ASSUME cause[c] \subseteq {"reject"} PROVE SameAt(r)'
      OBVIOUS
    <2>1. pc[r] = "confdsl" => Match(disk[c], self[eng[r]])
      BY <1>1 DEF SameAt
    <2>2. Match(self[eng[r]], self[eng[r]])
      BY <1>1 DEF Match
    <2>3. QED
      BY <1>1, <2>1, <2>2 DEF SameAt
  <1>6. cause[c] \subseteq {"child"} => LoadAt(r)'
    BY <1>1 DEF LoadAt, Alone
  <1>7. cause[c] \subseteq {"child"} /\ pc'[r] # "confreload" => pc[r] = "dslout"
    BY <1>1
  <1>8. QED
    BY <1>1, <1>2, <1>3, <1>4, <1>5, <1>6, <1>7, SaveShows

LEMMA SaveReloadsConf ==
    ASSUME StoreInv, NEW r, NEW c, Save(r, c), ReloadConf(r)
    PROVE  DocInv(c)'
  <1> USE SaveKnows, SaveHolds
  <1>1. /\ pc[r] = "confreload" /\ pc'[r] = "dslout" /\ Active(r)' /\ pc[r] \in UsesEngine
        /\ UNCHANGED <<pool, eng, disk, cause, buf, task>>
        /\ task[r].op = "conf" /\ buf[r] \in GoodDocs
    BY DEF ReloadConf, Goto, TypeOK, Active, Steps, UsesEngine, StepsOf, Saves,
           GoodDocs, Loadable
  <1>2. self'[eng[r]] = buf[r]
    BY <1>1 DEF ReloadConf, TypeOK
  <1>3. Alone(c) => SaveAt(r)' /\ AckAt(r)'
    BY <1>1, <1>2 DEF SaveAt, AckAt
  <1>4. SameAt(r)' /\ LoadAt(r)' /\ ~Before(r)' /\ (Alone(c)' => Alone(c))
    BY <1>1 DEF SameAt, LoadAt, Before, Alone
  <1>5. cause[c] \subseteq {"child"} => self'[pool'[c]] \in GoodDocs
    BY <1>1, <1>2 DEF Alone
  <1>6. QED
    BY <1>1, <1>3, <1>4, <1>5, SaveShows

LEMMA SaveRefusesConf ==
    ASSUME StoreInv, NEW r, NEW c, Save(r, c), RejectConf(r)
    PROVE  DocInv(c)'
  <1> USE SaveKnows, SaveHolds
  <1>1. /\ pc[r] = "confreload" /\ pc'[r] = "err" /\ ~Active(r)' /\ pc[r] \in UsesEngine
        /\ UNCHANGED <<pool, self, disk>> /\ cause'[c] = cause[c] \cup {"reject"}
    BY DEF RejectConf, Blame, Goto, TypeOK, Active, Steps, UsesEngine
  <1>2. ~(cause'[c] \subseteq {"child"})
    BY <1>1
  <1>3. cause'[c] \subseteq {"reject"} => Match(disk'[c], self'[pool'[c]])
    BY <1>1 DEF SameAt, Alone
  <1>4. QED
    BY <1>1, <1>2, <1>3, SaveShows

(* The file.                                                               *)
LEMMA SaveOpens ==
    ASSUME StoreInv, NEW r, NEW c, Save(r, c), OpenFile(r)
    PROVE  DocInv(c)'
  <1> USE SaveKnows, SaveHolds
  <1>1. /\ pc[r] = "trunc" /\ pc'[r] = "write" /\ Active(r)'
        /\ UNCHANGED <<pool, eng, self, cause, buf, task>> /\ disk'[c] = Torn
    BY DEF OpenFile, Goto, TypeOK, Active, Steps
  <1>2. Alone(c) => SaveAt(r)'
    BY <1>1 DEF SaveAt
  <1>3. Alone(c) => AckAt(r)'
    BY <1>1 DEF AckAt, Carries
  <1>4. cause[c] \subseteq {"reject"} => SameAt(r)'
    BY <1>1 DEF SameAt, Match
  <1>5. /\ cause[c] \subseteq {"child"} => LoadAt(r)'
        /\ ~Before(r)' /\ (Alone(c)' => Alone(c))
    BY <1>1 DEF LoadAt, Before, Alone
  <1>6. QED
    BY <1>1, <1>2, <1>3, <1>4, <1>5, SaveShows

LEMMA SaveWrites ==
    ASSUME StoreInv, NEW r, NEW c, Save(r, c), WriteFile(r)
    PROVE  DocInv(c)'
  <1> USE SaveKnows, SaveHolds
  <1>1. /\ pc[r] = "write" /\ pc'[r] = "ok" /\ ~Active(r)'
        /\ UNCHANGED <<pool, eng, self, cause, buf, task>>
    BY DEF WriteFile, Goto, TypeOK, Active, Steps, UsesEngine
  <1>2. Alone(c) => disk'[c] = buf[r] /\ pool[c] # None /\ eng[r] = pool[c]
    <2> SUFFICES ASSUME Alone(c)
                 PROVE  disk'[c] = buf[r] /\ pool[c] # None /\ eng[r] = pool[c]
      OBVIOUS
    <2>1. disk[c] = Torn /\ pool[c] # None /\ eng[r] = pool[c]
      BY <1>1 DEF SaveAt
    <2>2. Chain(r) = c /\ c \in Chains
      BY SaveKnows
    <2>3. PICK f \in CASE disk[c] = Torn -> {buf[r]}
                       [] disk[c] = NoFile -> {NoFile}
                       [] OTHER -> {buf[r], Torn} :
             disk' = [disk EXCEPT ![c] = f]
      BY <2>2 DEF WriteFile
    <2>4. f = buf[r]
      BY <2>1, <2>3, RuleStoreAssumption
    <2>5. QED
      BY <2>1, <2>2, <2>3, <2>4 DEF TypeOK
  <1>3. cause[c] \subseteq {"reject"} =>
           Match(disk'[c], self'[pool'[c]]) /\ disk'[c].conf = self'[pool'[c]].conf
    BY <1>1, <1>2 DEF SameAt, Alone
  <1>4. cause[c] \subseteq {"child"} =>
           disk'[c] \in GoodDocs \cup {NodeDoc} /\ self'[pool'[c]] \in GoodDocs
    BY <1>1, <1>2 DEF LoadAt, Alone
  <1>5. QED
    BY <1>1, <1>3, <1>4, SaveShows

LEMMA DocSave ==
    ASSUME StoreInv, NEW r, NEW c, Save(r, c)
    PROVE  DocInv(c)'
  <1>1. /\ r \in Reqs /\ Active(r) /\ Step(r) /\ task[r].op \in Saves
        /\ pc[r] \in StepsOf(task[r].op)
    BY SaveKnows DEF Save
  <1>2. ~(\E t \in Tasks : Start(r, t))
    BY <1>1 DEF Start, Active, Steps, UsesEngine
  <1>3. pc[r] \notin {"del", "rmfile", "rmruns", "run"}
    BY <1>1 DEF StepsOf, Saves
  <1>4. ~PoolDel(r) /\ ~RemoveFile(r) /\ ~RemoveRuns(r) /\ ~Complete(r)
    BY <1>3 DEF PoolDel, RemoveFile, RemoveRuns, Complete
  <1>5. QED
    BY <1>1, <1>2, <1>4, SaveGet, SaveFinds, SaveMakes, SaveEnds, SaveFaults, SaveReloads,
       SaveReloadsChild, SaveStamps, SaveSetsBase, SaveSetsConf, SaveTakes,
       SaveReloadsConf, SaveRefusesConf, SaveOpens, SaveWrites
    DEF Step

-----------------------------------------------------------------------------
(* StoreInv is inductive.                                                  *)
LEMMA StoreStep ==
    ASSUME StoreInv, NEW r \in Reqs, Step(r)
    PROVE  StoreInv'
  <1>1. TypeOK /\ PresenceInv /\ PathInv /\ OwnerInv /\ KnownInv /\ RunsInv
    BY DEF StoreInv, PresenceInv
  <1>2. PresenceInv' /\ PathInv' /\ OwnerInv' /\ KnownInv' /\ RunsInv'
    BY <1>1, PresenceStep, PathStep, OwnerStep, KnownStep, RunsStep
  <1>3. ASSUME NEW c \in Chains PROVE DocInv(c)'
    <2>1. CASE r \notin On(c) /\ r \notin On(c)'
      BY <2>1, DocElsewhere
    <2>2. CASE r \in On(c)
      <3>1. Active(r) /\ Chain(r) = c /\ task' = task
        BY <1>1, <2>2, StepFrame DEF On, Start, Active, Steps, UsesEngine
      <3>2. task[r].op \in {"exec", "delete"} \cup Saves
        BY <1>1, <3>1, TaskType, RuleStoreAssumption
        DEF Active, Steps, UsesEngine, AllOps, Saves
      <3>3. CASE task[r].op = "exec"
        BY <3>1, <3>3, DocExec
      <3>4. CASE task[r].op = "delete"
        BY <3>1, <3>4, DocDelete
      <3>5. CASE task[r].op \in Saves
        BY <3>1, <3>5, DocSave DEF Save, IsSave
      <3>6. QED
        BY <3>2, <3>3, <3>4, <3>5
    <2>3. CASE r \notin On(c) /\ r \in On(c)'
      <3>1. PICK t \in Tasks : Start(r, t)
        BY <1>1, <2>3, StepFrame DEF On, Chain
      <3>2. t.chain = c
        BY <1>1, <2>3, <3>1 DEF Start, On, Chain, TypeOK
      <3>3. QED
        BY <3>1, <3>2, DocStart
    <2>4. QED
      BY <2>1, <2>2, <2>3
  <1>4. QED
    BY <1>2, <1>3 DEF StoreInv

(* A crash ends every request. On a chain that stays blameless none was    *)
(* saving or deleting.                                                     *)
LEMMA StoreCrash ==
    ASSUME StoreInv, Crash
    PROVE  StoreInv'
  <1>1. TypeOK /\ PresenceInv /\ PathInv /\ OwnerInv /\ KnownInv /\ RunsInv
    BY DEF StoreInv, PresenceInv
  <1>2. PresenceInv' /\ RunsInv'
    BY <1>1, PresenceCrash, RunsCrash
  <1>3. /\ \A q \in Reqs : pc'[q] \notin Steps /\ (pc'[q] = "idle" <=> pc[q] = "idle")
        /\ \A c \in Chains : On(c)' = {} /\ pool'[c] = None
        /\ \A q \in Reqs : eng'[q] = None /\ buf'[q] = None
        /\ UNCHANGED <<self, disk, task>>
    BY <1>1 DEF Crash, TypeOK, On, Active, Steps, UsesEngine, Done
  <1>4. PathInv' /\ OwnerInv'
    BY <1>3 DEF PathInv, OwnerInv, Active
  <1>5. KnownInv'
    BY <1>1, <1>3 DEF KnownInv, MadeDocs, Made
  <1>6. ASSUME NEW c \in Chains PROVE DocInv(c)'
    <2>1. AloneInv(c)' /\ ContentInv(c)'
      BY <1>3 DEF AloneInv, Lone, ContentInv
    <2>2. ASSUME cause'[c] \subseteq {"child"}
          PROVE  disk'[c] \in GoodDocs' \cup {NoFile, NodeDoc}
      <3>1. Idle(c) /\ cause[c] \subseteq {"child"}
        BY <2>2 DEF Crash
      <3>2. \A q \in On(c) : pc[q] # "write"
        BY <1>1, <3>1 DEF Idle, On, PathInv, StepsOf
      <3>3. GoodDocs' = GoodDocs
        BY <1>3 DEF GoodDocs, Loadable, Accepted
      <3>4. QED
        BY <1>3, <3>1, <3>2, <3>3 DEF StoreInv, DocInv, LoadInv
    <2>3. QED
      BY <1>3, <2>1, <2>2 DEF DocInv, LoadInv
  <1>7. QED
    BY <1>2, <1>4, <1>5, <1>6 DEF StoreInv

(* A start-up takes every definition from its file, and only if all load.  *)
LEMMA StoreBoot ==
    ASSUME StoreInv, Boot
    PROVE  StoreInv'
  <1>1. TypeOK /\ PresenceInv /\ PathInv /\ OwnerInv /\ KnownInv /\ RunsInv
    BY DEF StoreInv, PresenceInv
  <1>2. PresenceInv' /\ RunsInv'
    BY <1>1, PresenceBoot, RunsBoot
  <1>3. /\ \A q \in Reqs : ~Active(q) /\ ~Active(q)'
        /\ \A c \in Chains : On(c)' = {}
        /\ UNCHANGED <<disk, task, pc, eng, buf, cause>>
    BY <1>1 DEF Boot, PresenceInv, On, Active
  <1>4. \A c \in Chains : pool'[c] # None => /\ pool'[c] = c /\ disk[c] \in Docs
                                             /\ self'[c] = disk[c]
    BY DEF Boot, Engines
  <1>5. PathInv' /\ OwnerInv'
    BY <1>1, <1>3, <1>4 DEF PathInv, OwnerInv, EnginesOf, Chain
  <1>6. KnownInv'
    <2>1. MadeDocs' = MadeDocs
      BY <1>3 DEF MadeDocs, Made
    <2>2. ASSUME NEW e \in Engines PROVE self'[e] \in MadeDocs
      <3>1. CASE self'[e] = self[e]
        BY <1>1, <3>1 DEF KnownInv
      <3>2. CASE e \in Chains /\ disk[e] \in Docs /\ self'[e] = disk[e]
        BY <1>1, <3>2, RuleStoreAssumption DEF KnownInv
      <3>3. QED
        BY <3>1, <3>2 DEF Boot
    <2>3. QED
      BY <1>1, <1>3, <2>1, <2>2 DEF KnownInv
  <1>7. ASSUME NEW c \in Chains PROVE DocInv(c)'
    <2>1. AloneInv(c)'
      BY <1>3 DEF AloneInv, Lone
    <2>2. ContentInv(c)'
      BY <1>3, <1>4 DEF ContentInv, Match
    <2>3. LoadInv(c)'
      <3>1. GoodDocs' = GoodDocs
        BY <1>3 DEF GoodDocs, Loadable, Accepted
      <3>2. disk[c] \in GoodDocs \cup {NoFile, NodeDoc}
        BY DEF Boot, Starts, Loadable, GoodDocs
      <3>3. disk[c] \in Docs => disk[c] \in GoodDocs
        BY <3>2, RuleStoreAssumption
      <3>4. QED
        BY <1>3, <1>4, <3>1, <3>2, <3>3 DEF LoadInv
    <2>4. QED
      BY <2>1, <2>2, <2>3 DEF DocInv
  <1>8. QED
    BY <1>2, <1>5, <1>6, <1>7 DEF StoreInv

LEMMA StoreInit == Init => StoreInv
  <1> SUFFICES ASSUME Init PROVE StoreInv
    OBVIOUS
  <1> DEFINE D == [nodes |-> Orig, info |-> Orig,
                   conf |-> [k \in Keys |-> Orig], stamp |-> FALSE]
  <1>1. D \in MadeDocs /\ D \in GoodDocs
    BY DEF MadeDocs, Made, GoodDocs, Loadable, Accepted, Docs, Src
  <1>2. /\ self = [e \in Engines |-> D] /\ disk \in [Chains -> {NoFile, D}]
        /\ \A c \in Chains : pool[c] = IF disk[c] = NoFile THEN None ELSE c
        /\ runs = {}
        /\ \A r \in Reqs : pc[r] = "idle" /\ eng[r] = None /\ buf[r] = None
    BY DEF Init
  <1>3. /\ \A r \in Reqs : ~Active(r)
        /\ \A c \in Chains : On(c) = {}
    BY <1>2 DEF On, Active, Steps, UsesEngine
  <1>4. D \in Docs
    BY <1>1 DEF GoodDocs
  <1> HIDE DEF D
  <1>5. PathInv /\ OwnerInv /\ KnownInv /\ RunsInv
    BY <1>1, <1>2, <1>3 DEF PathInv, OwnerInv, EnginesOf, KnownInv, RunsInv
  <1>6. ASSUME NEW c \in Chains PROVE DocInv(c)
    <2>1. pool[c] # None => /\ pool[c] = c /\ pool[c] \in Engines
                            /\ self[pool[c]] = D /\ disk[c] = D
      BY <1>2 DEF Engines
    <2>2. AloneInv(c)
      BY <1>3 DEF AloneInv, Lone
    <2>3. ContentInv(c)
      BY <1>3, <1>4, <2>1 DEF ContentInv, Match
    <2>4. LoadInv(c)
      BY <1>1, <1>2, <1>3, <2>1 DEF LoadInv
    <2>5. QED
      BY <2>2, <2>3, <2>4 DEF DocInv
  <1>7. QED
    BY <1>5, <1>6, PresenceInit DEF StoreInv

LEMMA StoreNext == StoreInv /\ [Next]_vars => StoreInv'
  <1> SUFFICES ASSUME StoreInv, [Next]_vars PROVE StoreInv'
    OBVIOUS
  <1>1. CASE (\E r \in Reqs : Step(r)) \/ Crash \/ Boot
    BY <1>1, StoreStep, StoreCrash, StoreBoot
  <1>2. CASE (\E c \in Chains : OthersRun(c)) \/ UNCHANGED vars
    <2>0. /\ UNCHANGED <<up, pool, self, disk, task, pc, eng, buf, cause, named>>
          /\ \A c \in Chains : <<User, c, "own">> \in runs' => <<User, c, "own">> \in runs
      BY <1>2 DEF OthersRun, vars
    <2>1. PresenceInv'
      BY PresenceNext DEF StoreInv
    <2>2. GoodDocs' = GoodDocs /\ MadeDocs' = MadeDocs
      BY <2>0 DEF GoodDocs, Loadable, Accepted, MadeDocs, Made
    <2>3. \A c \in Chains : On(c)' = On(c)
      BY <2>0 DEF On, Active, Chain
    <2>4. PathInv' /\ OwnerInv' /\ KnownInv'
      BY <2>0, <2>2, <2>3
      DEF StoreInv, PathInv, OwnerInv, EnginesOf, KnownInv, Active, Chain
    <2>5. RunsInv'
      BY <2>0, <2>3 DEF StoreInv, RunsInv, Quiet
    <2>6. ASSUME NEW c \in Chains PROVE DocInv(c)'
      BY <2>0, <2>2, <2>3
      DEF StoreInv, DocInv, AloneInv, Alone, Lone, SaveAt, AckAt, Carries,
          ContentInv, SameAt, Match, Before, LoadInv, LoadAt, Chain, IsSave
    <2>7. QED
      BY <2>1, <2>4, <2>5, <2>6 DEF StoreInv
  <1>3. QED
    BY <1>1, <1>2 DEF Next

LEMMA StoreCorrect == Spec => []StoreInv
  BY StoreInit, StoreNext, PTL DEF Spec

-----------------------------------------------------------------------------
(* On an idle chain only executions run, and they write nothing.           *)
LEMMA IdleChain ==
    ASSUME StoreInv, NEW c \in Chains, Idle(c)
    PROVE  \A r \in On(c) : ~IsSave(r) /\ pc[r] \in {"get", "run"}
  <1> SUFFICES ASSUME NEW r \in On(c) PROVE ~IsSave(r) /\ pc[r] \in {"get", "run"}
    OBVIOUS
  <1>1. r \in Reqs /\ Active(r) /\ task[r].op = "exec"
    BY DEF On, Idle
  <1>2. pc[r] \in StepsOf(task[r].op)
    BY <1>1 DEF StoreInv, PathInv
  <1>3. pc[r] \in {"get", "run"}
    BY <1>1, <1>2 DEF StepsOf
  <1>4. QED
    BY <1>1, <1>3 DEF IsSave, Saves

LEMMA ContentFollows == StoreInv => ContentAgrees
  <1> SUFFICES ASSUME StoreInv, NEW c \in Chains, Idle(c),
                      cause[c] \subseteq {"reject"}, pool[c] # None
               PROVE  /\ Match(disk[c], self[pool[c]])
                      /\ cause[c] = {} => disk[c].conf = self[pool[c]].conf
    BY DEF ContentAgrees, Match
  <1>1. \A r \in On(c) : ~IsSave(r)
    BY IdleChain
  <1>2. QED
    BY <1>1 DEF StoreInv, DocInv, ContentInv

LEMMA LoadFollows == StoreInv => FilesLoad
  <1> SUFFICES ASSUME StoreInv, NEW c \in Chains, Idle(c), cause[c] \subseteq {"child"}
               PROVE  Starts(disk[c])
    BY DEF FilesLoad
  <1>1. \A r \in On(c) : pc[r] # "write"
    BY IdleChain
  <1>2. disk[c] \in GoodDocs \cup {NoFile, NodeDoc}
    BY <1>1 DEF StoreInv, DocInv, LoadInv
  <1>3. QED
    BY <1>2 DEF Starts, GoodDocs

LEMMA RunsFollow == StoreInv => RunsGoWithChain
  <1> SUFFICES ASSUME StoreInv, up, NEW c \in Chains, On(c) = {}, Quiet(c),
                      pool[c] = None, <<User, c, "own">> \in runs
               PROVE  FALSE
    BY DEF RunsGoWithChain
  <1>1. QED
    BY DEF StoreInv, RunsInv

(* The step that acknowledges a save is its WriteFile, into the file it    *)
(* opened itself.                                                          *)
LEMMA AckStep ==
    ASSUME StoreInv, [Next]_vars, NEW r \in Reqs,
           pc[r] # "ok", pc'[r] = "ok", task[r].op \in Saves \ {"child"},
           cause[Chain(r)] \cap {"race", "delrace"} = {}
    PROVE  Carries(disk'[Chain(r)], r)
  <1> DEFINE c == Chain(r)
  <1>1. TypeOK /\ PathInv
    BY DEF StoreInv, PresenceInv
  <1>2. Step(r)
    <2>1. PICK q \in Reqs : Step(q)
      <3>1. ~Crash
        BY <1>1 DEF Crash, TypeOK
      <3>2. ~Boot /\ ~(UNCHANGED vars) /\ ~(\E d \in Chains : OthersRun(d))
        BY DEF Boot, vars, OthersRun
      <3>3. QED
        BY <3>1, <3>2 DEF Next
    <2>2. q = r
      BY <1>1, <2>1, StepFrame
    <2>3. QED
      BY <2>1, <2>2
  <1>3. ~(\E t \in Tasks : Start(r, t))
    BY <1>1 DEF Start, Goto, TypeOK
  <1>4. Active(r) /\ task' = task
    BY <1>1, <1>2, <1>3, StepFrame
  <1>5. r \in On(c) /\ c \in Chains /\ IsSave(r) /\ pc[r] \in StepsOf(task[r].op)
    BY <1>1, <1>4, TaskType DEF On, IsSave, PathInv, Active, Steps, UsesEngine
  <1>6. WriteFile(r)
    <2>1. pc[r] \notin {"del", "rmfile", "rmruns", "run"}
      BY <1>5 DEF StepsOf, Saves
    <2>2. QED
      BY <1>1, <1>2, <1>3, <2>1
      DEF Step, PoolGet, NewFindsEngine, NewMakesEngine, RejectBody, ReloadSelf,
          ReloadChild, Stamp, SetBaseInfo, SetConf, TakeDsl, ReloadConf, RejectConf,
          EngineGone, OpenFile, PoolDel, RemoveFile, RemoveRuns, FileFault, Complete,
          Goto, TypeOK
  <1>7. disk[c] = Torn /\ Carries(buf[r], r)
    BY <1>5, <1>6 DEF StoreInv, DocInv, AloneInv, Alone, SaveAt, AckAt, WriteFile
  <1>8. disk'[c] = buf[r]
    <2>1. PICK f \in CASE disk[c] = Torn -> {buf[r]}
                       [] disk[c] = NoFile -> {NoFile}
                       [] OTHER -> {buf[r], Torn} :
             disk' = [disk EXCEPT ![c] = f]
      BY <1>6 DEF WriteFile
    <2>2. f = buf[r]
      BY <1>7, <2>1, RuleStoreAssumption
    <2>3. QED
      BY <1>1, <1>5, <2>1, <2>2 DEF TypeOK
  <1>9. QED
    BY <1>7, <1>8

-----------------------------------------------------------------------------
(* The strengthening of RunsAreNamed, on top of StoreInv: unless saves or  *)
(* deletes overlapped, an execution works on the engine of the pool, a save*)
(* that is past its stamp has stamped that engine, and after a first save  *)
(* was answered the stamp is missing only from a reload to the next step.  *)
Stamped(r) == pc[r] \in {"confdsl", "confreload", "dslout", "trunc", "write"}

NameInv(c) ==
    Alone(c) =>
        /\ \A r \in On(c) : pc[r] = "run" => pool[c] # None /\ eng[r] = pool[c]
        /\ \A r \in On(c) : Stamped(r) => self[pool[c]].stamp
        /\ c \in named /\ pool[c] # None /\ (\A r \in On(c) : pc[r] # "stamp") =>
              self[pool[c]].stamp

NamedInv ==
    /\ ~up => named = {}
    /\ \A c \in Chains : NameInv(c)

LEMMA NameElsewhere ==
    ASSUME StoreInv, NEW r \in Reqs, Step(r), NEW c \in Chains,
           r \notin On(c), r \notin On(c)', NameInv(c)
    PROVE  NameInv(c)'
  <1>1. TypeOK /\ (Alone(c) => \A q \in On(c) : IsSave(q) => SaveAt(q))
    BY DEF StoreInv, PresenceInv, DocInv, AloneInv
  <1>2. Alone(c)' => Alone(c)
    BY ApartStep, CauseFacts
  <1>3. c \in named' => c \in named
    <2>1. CASE WriteFile(r)
      <3>1. r \in On(Chain(r))
        BY <1>1, <2>1 DEF WriteFile, On, Active, Steps
      <3>2. QED
        BY <2>1, <3>1 DEF WriteFile
    <2>2. CASE ~WriteFile(r)
      BY <2>2 DEF Step, Start, PoolGet, NewFindsEngine, NewMakesEngine, RejectBody,
         ReloadSelf, ReloadChild, Stamp, SetBaseInfo, SetConf, TakeDsl, ReloadConf,
         RejectConf, EngineGone, OpenFile, PoolDel, RemoveFile, RemoveRuns, FileFault,
         Complete
    <2>3. QED
      BY <2>1, <2>2
  <1>4. \A q \in On(c) : Stamped(q) => IsSave(q)
    <2>1. \A q \in On(c) : pc[q] \in StepsOf(task[q].op) /\ task[q].op \in AllOps
      BY <1>1, TaskType, RuleStoreAssumption
      DEF StoreInv, PathInv, On, Active, Steps, UsesEngine
    <2>2. QED
      BY <2>1 DEF Stamped, StepsOf, IsSave, Saves, AllOps
  <1>5. Alone(c) => \A q \in On(c) : Stamped(q) => pool[c] # None
    BY <1>1, <1>4, ApartStep DEF SaveAt, Stamped
  <1>6. QED
    BY <1>2, <1>3, <1>5, ApartStep DEF NameInv, Stamped

(* Executions and deletes of the chain.                                    *)
LEMMA NameExec ==
    ASSUME StoreInv, NEW r \in Reqs, Active(r), task[r].op = "exec", task' = task,
           Step(r), NEW c \in Chains, Chain(r) = c, NameInv(c)
    PROVE  NameInv(c)'
  <1>1. TypeOK /\ r \in On(c) /\ pc[r] \in {"get", "run"}
    BY DEF StoreInv, PresenceInv, PathInv, StepsOf, On
  <1>2. /\ pc'[r] \in {"run", "err", "ok"}
        /\ pc'[r] = "run" => pool[c] # None /\ eng'[r] = pool[c]
        /\ \A q \in Reqs \ {r} : pc'[q] = pc[q] /\ eng'[q] = eng[q]
        /\ UNCHANGED <<pool, self, cause, named>>
    BY <1>1
    DEF Step, Start, PoolGet, NewFindsEngine, NewMakesEngine, RejectBody,
        ReloadSelf, ReloadChild, Stamp, SetBaseInfo, SetConf, TakeDsl,
        ReloadConf, RejectConf, EngineGone, OpenFile, WriteFile, PoolDel,
        RemoveFile, RemoveRuns, FileFault, Complete, UsesEngine, Goto, TypeOK
  <1>3. On(c)' \subseteq On(c) /\ On(c) \subseteq On(c)' \cup {r}
    BY <1>1, <1>2 DEF On, Active, Chain
  <1>4. \A q \in On(c) : q \in Reqs
    BY DEF On
  <1>5. QED
    BY <1>1, <1>2, <1>3, <1>4 DEF NameInv, Alone, Stamped

LEMMA NameDelete ==
    ASSUME StoreInv, NEW r \in Reqs, Active(r), task[r].op = "delete", task' = task,
           Step(r), NEW c \in Chains, Chain(r) = c, NameInv(c)
    PROVE  NameInv(c)'
  <1>1. TypeOK /\ DocInv(c) /\ r \in On(c) /\ pc[r] \in {"del", "rmfile", "rmruns"}
    BY DEF StoreInv, PresenceInv, PathInv, StepsOf, On
  <1>2. PoolDel(r) \/ RemoveFile(r) \/ RemoveRuns(r) \/ FileFault(r)
    BY <1>1
    DEF Step, Start, PoolGet, NewFindsEngine, NewMakesEngine, RejectBody,
        ReloadSelf, ReloadChild, Stamp, SetBaseInfo, SetConf, TakeDsl,
        ReloadConf, RejectConf, EngineGone, OpenFile, WriteFile, PoolDel,
        RemoveFile, RemoveRuns, FileFault, Complete, UsesEngine
  <1>3. /\ pc'[r] \in {"rmfile", "rmruns", "ok", "err"}
        /\ \A q \in Reqs \ {r} : pc'[q] = pc[q]
        /\ UNCHANGED <<self, named>> /\ pool'[c] \in {pool[c], None}
        /\ cause[c] \subseteq cause'[c]
    BY <1>1, <1>2, StepFrame DEF PoolDel, RemoveFile, RemoveRuns, FileFault, Goto, TypeOK
  <1>4. On(c)' \subseteq On(c)
    BY <1>1, <1>3 DEF On, Active, Chain
  <1>5. ASSUME Alone(c)' PROVE Alone(c) /\ On(c) = {r}
    <2>1. Alone(c) /\ Lone(c)
      BY <1>1, <1>3, <1>5, CauseFacts DEF DocInv, AloneInv
    <2>2. QED
      BY <1>1, <2>1 DEF Lone
  <1>6. QED
    BY <1>1, <1>3, <1>4, <1>5 DEF NameInv, Stamped

(* A save: the other requests at work on the chain only execute it.        *)
LEMMA NameSave ==
    ASSUME StoreInv, NEW r, NEW c, Save(r, c), NameInv(c)
    PROVE  NameInv(c)'
  <1>1. /\ TypeOK /\ r \in Reqs /\ c \in Chains /\ r \in On(c) /\ Chain(r) = c
        /\ task[r].op \in Saves /\ pc[r] \in StepsOf(task[r].op)
        /\ cause[c] \subseteq cause'[c] /\ Step(r) /\ task' = task
    BY SaveKnows DEF Save
  <1> SUFFICES ASSUME Alone(c)' PROVE NameInv(c)'
    BY DEF NameInv
  <1>2. Alone(c) /\ SaveAt(r) /\ AckAt(r)
    BY <1>1, CauseFacts, SaveKnows
  <1>3. \A q \in On(c) : q # r => pc[q] \in {"get", "run"}
    <2>1. \A q \in On(c) \ {r} : task[q].op = "exec"
      BY <1>2, SaveKnows
    <2>2. \A q \in On(c) : pc[q] \in StepsOf(task[q].op)
      BY DEF StoreInv, PathInv, On
    <2>3. QED
      BY <2>1, <2>2 DEF StepsOf
  <1>4. \A q \in Reqs \ {r} : pc'[q] = pc[q] /\ eng'[q] = eng[q]
    BY <1>1, StepFrame
  <1>5. /\ On(c)' \subseteq On(c) /\ On(c) \subseteq On(c)' \cup {r}
        /\ r \in On(c)' <=> Active(r)'
        /\ \A q \in On(c) : q \in Reqs
    BY <1>1, <1>4 DEF On, Active, Chain
  <1>6. /\ \A q \in On(c) \ {r} : pc[q] = "run" => pool[c] # None /\ eng[q] = pool[c]
        /\ Stamped(r) => self[pool[c]].stamp
        /\ c \in named /\ pool[c] # None /\ pc[r] # "stamp" => self[pool[c]].stamp
    BY <1>1, <1>2, <1>3 DEF NameInv
  <1>7. ASSUME pool'[c] = pool[c] \/ pool[c] = None, pc'[r] # "run",
               Stamped(r)' => self'[pool'[c]].stamp,
               c \in named' /\ pool'[c] # None /\ pc'[r] # "stamp" =>
                  self'[pool'[c]].stamp
        PROVE  NameInv(c)'
    <2>1. \A q \in On(c)' \ {r} : /\ q \in On(c) /\ pc'[q] = pc[q] /\ eng'[q] = eng[q]
                                  /\ pc[q] \in {"get", "run"}
      BY <1>3, <1>4, <1>5
    <2>2. \A q \in On(c)' : pc'[q] = "run" => pool'[c] # None /\ eng'[q] = pool'[c]
      BY <1>6, <1>7, <2>1
    <2>3. \A q \in On(c)' : Stamped(q)' => self'[pool'[c]].stamp
      BY <1>7, <2>1 DEF Stamped
    <2>4. (\A q \in On(c)' : pc'[q] # "stamp") => pc'[r] # "stamp"
      BY <1>5 DEF Active, Steps, UsesEngine
    <2>5. QED
      BY <1>7, <2>2, <2>3, <2>4 DEF NameInv
  <1>8. pc[r] \in UsesEngine => /\ eng[r] \in Engines /\ self[eng[r]] \in Docs
                                /\ pool[c] = eng[r] /\ pool[c] # None
    BY <1>2, SaveHolds
  <1>9. CASE PoolGet(r) \/ RejectBody(r) \/ RejectConf(r) \/ EngineGone(r) \/ FileFault(r)
    <2>1. ~EngineGone(r)
      BY <1>1, <1>8 DEF EngineGone, Orphan
    <2>2. /\ UNCHANGED <<pool, self, named>> /\ pc[r] # "stamp"
          /\ pc'[r] \in {"new", "reload", "child", "base", "confset", "err"}
      BY <1>1, <1>9, <2>1
      DEF PoolGet, RejectBody, RejectConf, FileFault, Goto, TypeOK, Saves
    <2>3. QED
      BY <1>6, <1>7, <2>2 DEF Stamped
  <1>10. CASE NewFindsEngine(r)
    BY <1>1, <1>2, <1>10 DEF NewFindsEngine, SaveAt
  <1>11. CASE NewMakesEngine(r)
    <2>1. /\ pool[c] = None /\ pool'[c] = r /\ self'[r] = Body(r)
          /\ pc'[r] = IF task[r].op = "base" THEN "dslout" ELSE "stamp"
      BY <1>1, <1>2, <1>11 DEF NewMakesEngine, SaveAt, Goto, TypeOK, Engines
    <2>2. task[r].op = "base" => Body(r).stamp
      BY DEF Body
    <2>3. QED
      BY <1>7, <2>1, <2>2 DEF Stamped
  <1>12. CASE ReloadSelf(r) \/ ReloadChild(r)
    <2>1. pool'[c] = pool[c] /\ pc'[r] = "stamp"
      BY <1>1, <1>12 DEF ReloadSelf, ReloadChild, Goto, TypeOK
    <2>2. QED
      BY <1>7, <2>1 DEF Stamped
  <1>13. CASE Stamp(r) \/ SetBaseInfo(r) \/ SetConf(r)
    <2>1. /\ pool'[c] = pool[c] /\ pc'[r] # "run" /\ pc[r] \in UsesEngine
          /\ self'[eng[r]].stamp
      <3>1. pc[r] \in UsesEngine
        BY <1>13 DEF Stamp, SetBaseInfo, SetConf, UsesEngine
      <3>2. CASE Stamp(r)
        <4>1. self'[eng[r]] = [self[eng[r]] EXCEPT !.stamp = TRUE]
          BY <1>1, <1>8, <3>1, <3>2 DEF Stamp, TypeOK
        <4>2. QED
          BY <1>1, <1>8, <3>1, <3>2, <4>1 DEF Stamp, Goto, TypeOK, Docs
      <3>3. CASE SetBaseInfo(r)
        <4>1. self'[eng[r]] = [self[eng[r]] EXCEPT !.info = r, !.stamp = TRUE]
          BY <1>1, <1>8, <3>1, <3>3 DEF SetBaseInfo, TypeOK
        <4>2. QED
          BY <1>1, <1>8, <3>1, <3>3, <4>1 DEF SetBaseInfo, Goto, TypeOK, Docs
      <3>4. CASE SetConf(r)
        <4>1. self'[eng[r]] = [self[eng[r]] EXCEPT !.conf[task[r].key] = r, !.stamp = TRUE]
          BY <1>1, <1>8, <3>1, <3>4 DEF SetConf, TypeOK
        <4>2. QED
          BY <1>1, <1>8, <3>1, <3>4, <4>1 DEF SetConf, Goto, TypeOK, Docs
      <3>5. QED
        BY <1>13, <3>1, <3>2, <3>3, <3>4
    <2>2. QED
      BY <1>7, <1>8, <2>1
  <1>14. CASE TakeDsl(r)
    <2>1. /\ UNCHANGED <<pool, self, named>> /\ Stamped(r)
          /\ pc'[r] \in {"confreload", "trunc"}
      BY <1>1, <1>14 DEF TakeDsl, Goto, TypeOK, Stamped
    <2>2. QED
      BY <1>6, <1>7, <2>1
  <1>15. CASE ReloadConf(r)
    <2>1. /\ pc[r] = "confreload" /\ pc[r] \in UsesEngine /\ Stamped(r)
          /\ pool' = pool /\ pc'[r] = "dslout"
      BY <1>1, <1>15 DEF ReloadConf, Goto, TypeOK, Stamped, UsesEngine
    <2>2. buf[r] = self[eng[r]] /\ self'[eng[r]] = buf[r]
      BY <1>1, <1>2, <1>8, <1>15, <2>1 DEF ReloadConf, TypeOK, AckAt
    <2>3. QED
      BY <1>6, <1>7, <1>8, <2>1, <2>2
  <1>16. CASE OpenFile(r) \/ WriteFile(r)
    <2>1. /\ UNCHANGED <<pool, self>> /\ Stamped(r) /\ pc'[r] \in {"write", "ok"}
      BY <1>1, <1>16 DEF OpenFile, WriteFile, Goto, TypeOK, Stamped
    <2>2. QED
      BY <1>6, <1>7, <2>1
  <1>17. ~(\E t \in Tasks : Start(r, t))
    BY <1>1 DEF Save, Start, Active, Steps, UsesEngine
  <1>18. ~PoolDel(r) /\ ~RemoveFile(r) /\ ~RemoveRuns(r) /\ ~Complete(r)
    <2>1. pc[r] \notin {"del", "rmfile", "rmruns", "run"}
      BY <1>1 DEF StepsOf, Saves
    <2>2. QED
      BY <2>1 DEF PoolDel, RemoveFile, RemoveRuns, Complete
  <1>19. QED
    BY <1>1, <1>9, <1>10, <1>11, <1>12, <1>13, <1>14, <1>15, <1>16, <1>17, <1>18 DEF Step

LEMMA NameStart ==
    ASSUME StoreInv, NEW r \in Reqs, NEW t \in Tasks, Start(r, t), NameInv(t.chain)
    PROVE  NameInv(t.chain)'
  <1> DEFINE c == t.chain
  <1>1. TypeOK /\ c \in Chains
    BY DEF StoreInv, PresenceInv, Tasks
  <1>2. /\ pc'[r] \in {"del", "get"} /\ task'[r] = t
        /\ \A q \in Reqs \ {r} : pc'[q] = pc[q] /\ task'[q] = task[q]
        /\ UNCHANGED <<pool, self, eng, named>> /\ pc[r] = "idle"
    BY <1>1 DEF Start, Goto, TypeOK
  <1>3. On(c)' = On(c) \cup {r} /\ r \notin On(c) /\ On(c) \subseteq Reqs
    BY <1>2 DEF On, Active, Chain, Steps, UsesEngine
  <1>4. cause[c] \subseteq cause'[c]
    BY <1>1 DEF Start, Blame, TypeOK
  <1>5. QED
    BY <1>2, <1>3, <1>4, CauseFacts, <1>1 DEF NameInv, Stamped

LEMMA NamedStep ==
    ASSUME StoreInv, NamedInv, NEW r \in Reqs, Step(r)
    PROVE  NamedInv'
  <1>1. TypeOK /\ up /\ up'
    BY StepFrame DEF StoreInv, PresenceInv
  <1>2. ASSUME NEW c \in Chains PROVE NameInv(c)'
    <2>0. NameInv(c)
      BY DEF NamedInv
    <2>1. CASE r \notin On(c) /\ r \notin On(c)'
      BY <2>0, <2>1, NameElsewhere
    <2>2. CASE r \in On(c)
      <3>1. Active(r) /\ Chain(r) = c /\ task' = task
        BY <1>1, <2>2, StepFrame DEF On, Start, Active, Steps, UsesEngine
      <3>2. task[r].op \in {"exec", "delete"} \cup Saves
        BY <1>1, <3>1, TaskType, RuleStoreAssumption
        DEF Active, Steps, UsesEngine, AllOps, Saves
      <3>3. CASE task[r].op = "exec"
        BY <2>0, <3>1, <3>3, NameExec
      <3>4. CASE task[r].op = "delete"
        BY <2>0, <3>1, <3>4, NameDelete
      <3>5. CASE task[r].op \in Saves
        BY <2>0, <3>1, <3>5, NameSave DEF Save, IsSave
      <3>6. QED
        BY <3>2, <3>3, <3>4, <3>5
    <2>3. CASE r \notin On(c) /\ r \in On(c)'
      <3>1. PICK t \in Tasks : Start(r, t)
        BY <1>1, <2>3, StepFrame DEF On, Chain
      <3>2. t.chain = c
        BY <1>1, <2>3, <3>1 DEF Start, On, Chain, TypeOK
      <3>3. QED
        BY <2>0, <3>1, <3>2, NameStart
    <2>4. QED
      BY <2>1, <2>2, <2>3
  <1>3. QED
    BY <1>1, <1>2 DEF NamedInv

LEMMA NamedNext == StoreInv /\ NamedInv /\ [Next]_vars => NamedInv'
  <1> SUFFICES ASSUME StoreInv, NamedInv, [Next]_vars PROVE NamedInv'
    OBVIOUS
  <1>1. CASE Crash
    <2>1. /\ \A c \in Chains : On(c)' = {} /\ pool'[c] = None
          /\ named' = {}
      BY <1>1 DEF Crash, StoreInv, PresenceInv, TypeOK, On, Active, Steps, UsesEngine, Done
    <2>2. QED
      BY <2>1 DEF NamedInv, NameInv
  <1>2. CASE Boot
    <2>1. /\ \A c \in Chains : On(c)' = {}
          /\ named' = {}
      BY <1>2 DEF Boot, NamedInv, StoreInv, PresenceInv, On, Active
    <2>2. QED
      BY <2>1 DEF NamedInv, NameInv
  <1>3. CASE (\E c \in Chains : OthersRun(c)) \/ UNCHANGED vars
    <2>1. UNCHANGED <<up, pool, self, task, pc, eng, cause, named>>
      BY <1>3 DEF OthersRun, vars
    <2>2. \A c \in Chains : On(c)' = On(c)
      BY <2>1 DEF On, Active, Chain
    <2>3. QED
      BY <2>1, <2>2 DEF NamedInv, NameInv, Alone, Stamped
  <1>4. QED
    BY <1>1, <1>2, <1>3, NamedStep DEF Next

LEMMA NamedInit == Init => NamedInv
  BY DEF Init, NamedInv, NameInv, On, Active, Steps, UsesEngine

LEMMA NamedFollows ==
    ASSUME StoreInv, NamedInv, [Next]_vars, NEW r \in Reqs,
           pc[r] = "run", pc'[r] = "ok", Chain(r) \in named, Idle(Chain(r)),
           cause[Chain(r)] \cap {"race", "delrace"} = {}
    PROVE  runs' = runs \cup {<<User, Chain(r), "own">>}
  <1> DEFINE c == Chain(r)
  <1>1. TypeOK /\ r \in On(c) /\ c \in Chains
    BY TaskType DEF StoreInv, PresenceInv, On, Active, Steps, UsesEngine
  <1>2. Step(r)
    <2>1. PICK q \in Reqs : Step(q)
      <3>1. ~Crash /\ ~Boot /\ ~(\E d \in Chains : OthersRun(d)) /\ ~(UNCHANGED vars)
        BY <1>1 DEF Crash, Boot, OthersRun, vars, TypeOK
      <3>2. QED
        BY <3>1 DEF Next
    <2>2. q = r
      BY <1>1, <2>1, StepFrame
    <2>3. QED
      BY <2>1, <2>2
  <1>3. Complete(r)
    BY <1>1, <1>2
    DEF Step, Start, PoolGet, NewFindsEngine, NewMakesEngine, RejectBody, ReloadSelf,
        ReloadChild, Stamp, SetBaseInfo, SetConf, TakeDsl, ReloadConf, RejectConf,
        EngineGone, OpenFile, WriteFile, PoolDel, RemoveFile, RemoveRuns, FileFault,
        Goto, TypeOK
  <1>4. \A q \in On(c) : pc[q] \in {"get", "run"}
    BY <1>1, IdleChain
  <1>5. NameInv(c)
    BY <1>1 DEF NamedInv
  <1>6. self[eng[r]].stamp
    BY <1>1, <1>4, <1>5 DEF NameInv, Alone
  <1>7. QED
    BY <1>3, <1>6 DEF Complete, Owner

(* Memory and file of a chain agree whenever no save is in flight, unless  *)
(* saves overlapped, one named a node, or the file system failed.          *)
THEOREM ContentCorrect == Spec => []ContentAgrees
  BY StoreCorrect, ContentFollows, PTL

(* Requests served one by one never leave a file that ends the next        *)
(* start-up in logger.Fatal, unless a configuration was refused.           *)
THEOREM LoadCorrect == Spec => []FilesLoad
  BY StoreCorrect, LoadFollows, PTL

(* A delete that overlapped nothing took the run logs of the chain along,  *)
(* but for those filed under a default user who is not the chain's.        *)
THEOREM RunsCorrect == Spec => []RunsGoWithChain
  BY StoreCorrect, RunsFollow, PTL

(* Only before the first save of a chain is answered, and while a save is  *)
(* in flight, do logs of it go to a default user who is not the chain's,   *)
(* unless saves or deletes of the chain overlapped.                        *)
THEOREM NamedCorrect == Spec => RunsAreNamed
  <1>1. StoreInv /\ NamedInv /\ [Next]_vars =>
          [\A r \in Reqs :
              /\ pc[r] = "run" /\ pc'[r] = "ok"
              /\ Chain(r) \in named /\ Idle(Chain(r))
              /\ cause[Chain(r)] \cap {"race", "delrace"} = {}
              => runs' = runs \cup {<<User, Chain(r), "own">>}]_vars
    BY NamedFollows
  <1>2. QED
    BY <1>1, StoreCorrect, NamedInit, NamedNext, PTL DEF Spec, RunsAreNamed

(* A save that is acknowledged has put what it was sent into the file,     *)
(* unless another save or a delete of the chain overlapped it.             *)
THEOREM AckCorrect == Spec => AckIsDurable
  <1>1. StoreInv /\ [Next]_vars =>
          [\A r \in Reqs :
              /\ pc[r] # "ok" /\ pc'[r] = "ok"
              /\ task[r].op \in Saves \ {"child"}
              /\ cause[Chain(r)] \cap {"race", "delrace"} = {}
              => Carries(disk'[Chain(r)], r)]_vars
    BY AckStep
  <1>2. QED
    BY <1>1, StoreCorrect, PTL DEF Spec, AckIsDurable
=============================================================================
