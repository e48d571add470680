----------------------------- MODULE RuleStore -----------------------------
(***************************************************************************)
(* The rule-chain store of one user, User: RuleEngineService               *)
(* (internal/service/engine.go), the engine pool it fills and the chain    *)
(* files RuleDao keeps (internal/dao/rule.go), driven by concurrent HTTP   *)
(* handlers (internal/controller/rule.go), with crashes and restarts.      *)
(* Nothing in the code orders two handlers: each action below is one step  *)
(* of one handler, and handlers interleave between any two of their steps. *)
(***************************************************************************)
EXTENDS FiniteSets

CONSTANTS
    Chains,     \* rule-chain ids, the :chainId of the URL
    Reqs,       \* HTTP requests; each is served once, so they bound a run
    Keys,       \* configuration sections, the :varType of saveConfig
    Ops,        \* the operations this instance offers, a subset of AllOps
    User,       \* whose store this is
    Default,    \* config.DefaultUsername; it may be User
    Orig,       \* the author of the contents shipped in the data directory
    None,       \* Go's nil
    NoFile,     \* the chain has no file
    Torn,       \* the file holds something that does not parse
    NodeDoc     \* the file parses, but holds one node and no chain

VARIABLES
    up,         \* the process is running
    pool,       \* chain id -> the engine Pool.Get finds, or None
    self,       \* engine -> its Definition(), the DSL held in memory
    disk,       \* chain id -> what <chainId>.json holds
    runs,       \* the run logs there are: <<name they are filed under,
                \* chain id, whether they are of this store's chain>>
    task,       \* request -> what it asks for
    pc,         \* request -> the next step of its handler
    eng,        \* request -> its local variable ruleEngine
    buf,        \* request -> its local bytes def, about to be persisted
    cause,      \* history: chain id -> why memory and file may differ
    named       \* history: the chains with a save answered OK in this process

vars == <<up, pool, self, disk, runs, task, pc, eng, buf, cause, named>>

AllOps == {"dsl", "child", "base", "conf", "delete", "exec"}
Saves == {"dsl", "child", "base", "conf"}

(* An engine is named after the request that created it, or after the      *)
(* chain whose file the loader built it from.                              *)
Engines == Chains \cup Reqs

(* The contents of a chain, each part represented by who wrote it last;    *)
(* stamp: AdditionalInfo names the user and the time of this save.         *)
Src == Reqs \cup {Orig}
Docs == [nodes: Src, info: Src, conf: [Keys -> Src], stamp: BOOLEAN]
Files == Docs \cup {NoFile, Torn, NodeDoc}

(* good: the parser and the node factories accept what the request sends.  *)
Tasks == [op: Ops, chain: Chains, key: Keys, good: BOOLEAN]

(* The request uses the engine it looked up / it still has a file to write.*)
UsesEngine == {"reload", "child", "stamp", "base", "confset", "confdsl",
               "confreload", "dslout", "run"}
Steps == {"get", "new", "trunc", "write", "del", "rmfile", "rmruns"}
            \cup UsesEngine
Done == {"ok", "err", "lost"}

Causes == {"race", "delrace", "child", "reject", "fault"}

ASSUME RuleStoreAssumption ==
    /\ Ops \subseteq AllOps
    /\ Chains \cap Reqs = {}
    /\ Orig \notin Reqs
    /\ None \notin Engines \cup Docs \cup {NodeDoc} \cup Tasks
    /\ {NoFile, Torn, NodeDoc} \cap Docs = {}
    /\ NoFile # Torn /\ NoFile # NodeDoc /\ Torn # NodeDoc

-----------------------------------------------------------------------------

Chain(r) == task[r].chain
Active(r) == pc[r] \in Steps
On(c) == {r \in Reqs : Active(r) /\ Chain(r) = c}
IsSave(r) == task[r].op \in Saves
Idle(c) == \A r \in On(c) : task[r].op = "exec"

(* The document a SaveDsl or a creating SaveBaseInfo sends: all its parts  *)
(* are the request's own. A DSL body carries no stamp of this save.        *)
Body(r) == [nodes |-> r, info |-> r, conf |-> [k \in Keys |-> r],
            stamp |-> task[r].op = "base"]

(* External: the loader accepts a document unless a part it must           *)
(* instantiate was rejected from its author before.                        *)
Accepted(src) == src # Orig => task[src].good
Loadable(d) == /\ d \in Docs
               /\ Accepted(d.nodes)
               /\ \A k \in Keys : Accepted(d.conf[k])
Starts(d) == d \notin {NoFile, NodeDoc} => Loadable(d)

(* External: rulego stops an engine as it leaves the pool; a handler that  *)
(* still holds it may work on the orphan or fail.                          *)
Orphan(e) == \A c \in Chains : pool[c] # e

Goto(r, l) == pc' = [pc EXCEPT ![r] = l]
Blame(c, why) == cause' = [cause EXCEPT ![c] = @ \cup why]

Init ==
    /\ up = TRUE
    /\ disk \in [Chains -> {NoFile, [nodes |-> Orig, info |-> Orig,
                            conf |-> [k \in Keys |-> Orig], stamp |-> FALSE]}]
    /\ pool = [c \in Chains |-> IF disk[c] = NoFile THEN None ELSE c]
    /\ self = [e \in Engines |->
                 [nodes |-> Orig, info |-> Orig,
                  conf |-> [k \in Keys |-> Orig], stamp |-> FALSE]]
    /\ runs = {}
    /\ task = [r \in Reqs |-> None]
    /\ pc = [r \in Reqs |-> "idle"]
    /\ eng = [r \in Reqs |-> None]
    /\ buf = [r \in Reqs |-> None]
    /\ cause = [c \in Chains |-> {}]
    /\ named = {}

-----------------------------------------------------------------------------
(* Faulty variants of actions below, one for each property. A variant      *)
(* takes the place of the action it is named after and must break the      *)
(* property: it shows that the property watches that action.               *)

(* TypeOK: SaveConfiguration uses the engine without checking ok.          *)
PoolGetUnchecked(r) ==
    /\ pc[r] = "get"
    /\ eng' = [eng EXCEPT ![r] = pool[Chain(r)]]
    /\ Goto(r, CASE task[r].op = "conf" -> "confset"
                 [] task[r].op # "conf" /\ pool[Chain(r)] = None -> "new"
                 [] OTHER -> "stamp")
    /\ UNCHANGED <<up, pool, self, disk, runs, task, buf, cause, named>>

(* FilesLoad: SaveDsl goes on to persist a body that was rejected.         *)
RejectBodyIgnored(r) ==
    /\ pc[r] \in {"new", "reload", "child"} /\ ~task[r].good
    /\ eng[r] # None
    /\ Goto(r, "stamp")
    /\ UNCHANGED <<up, pool, self, disk, runs, task, eng, buf, cause, named>>

(* ContentAgrees: the definition is serialised before it is edited.        *)
SetBaseInfoLate(r) ==
    /\ pc[r] = "base"
    /\ buf' = [buf EXCEPT ![r] = self[eng[r]]]
    /\ self' = [self EXCEPT ![eng[r]].info = r, ![eng[r]].stamp = TRUE]
    /\ Goto(r, "trunc")
    /\ UNCHANGED <<up, pool, disk, runs, task, eng, cause, named>>

(* AckIsDurable: the section is set in a copy of the definition.           *)
SetConfInCopy(r) ==
    /\ pc[r] = "confset"
    /\ Goto(r, "confdsl")
    /\ UNCHANGED <<up, pool, self, disk, runs, task, eng, buf, cause, named>>

(* PresenceAgrees: RuleDao.Delete names the file without its suffix.       *)
RemoveFileMissed(r) ==
    /\ pc[r] = "rmfile"
    /\ Goto(r, "rmruns")
    /\ UNCHANGED <<up, pool, self, disk, runs, task, eng, buf, cause, named>>

(* RunsGoWithChain: the logs are removed under the default user.           *)
RemoveRunsOfDefault(r) ==
    /\ pc[r] = "rmruns"
    /\ runs' = {l \in runs : <<l[1], l[2]>> # <<Default, Chain(r)>>}
    /\ Goto(r, "ok")
    /\ UNCHANGED <<up, pool, self, disk, task, eng, buf, cause, named>>

(* RunsAreNamed: SaveDsl stamps a copy of the definition.                  *)
StampCopy(r) ==
    /\ pc[r] = "stamp"
    /\ buf' = [buf EXCEPT ![r] = IF task[r].op = "child" THEN NodeDoc
                                                         ELSE Body(r)]
    /\ Goto(r, "trunc")
    /\ UNCHANGED <<up, pool, self, disk, runs, task, eng, cause, named>>

-----------------------------------------------------------------------------
(* A handler starts: the router has found the user's service. The history  *)
(* variable notes whom the request overlaps on its chain.                  *)
Start(r, t) ==
    /\ up /\ pc[r] = "idle"
    /\ t.op \in {"base", "delete", "exec"} => t.good
    /\ task' = [task EXCEPT ![r] = t]
    /\ Goto(r, IF t.op = "delete" THEN "del" ELSE "get")
    /\ LET rivals == {task[q].op : q \in On(t.chain)}
       IN  Blame(t.chain,
             (IF t.op = "child" THEN {"child"} ELSE {})
             \cup (IF \/ "delete" \in rivals
                      \/ t.op = "delete" /\ rivals # {}
                   THEN {"delrace"} ELSE {})
             \cup (IF t.op \in Saves /\ rivals \cap Saves # {}
                   THEN {"race"} ELSE {}))
    /\ UNCHANGED <<up, pool, self, disk, runs, eng, buf, named>>

(* s.Pool.Get(chainId), and where each operation goes with the answer.     *)
PoolGet(r) ==
    /\ pc[r] = "get"
    /\ eng' = [eng EXCEPT ![r] = pool[Chain(r)]]
    /\ Goto(r, IF pool[Chain(r)] = None
               THEN IF task[r].op \in {"conf", "exec"} THEN "err" ELSE "new"
               ELSE CASE task[r].op = "dsl" -> "reload"
                      [] task[r].op = "child" -> "child"
                      [] task[r].op = "base" -> "base"
                      [] task[r].op = "conf" -> "confset"
                      [] OTHER -> "run")
    /\ UNCHANGED <<up, pool, self, disk, runs, task, buf, cause, named>>

(* External: Pool.New(chainId, def) gives back the engine the pool already *)
(* holds, its definition untouched.                                        *)
NewFindsEngine(r) ==
    /\ pc[r] = "new" /\ pool[Chain(r)] # None
    /\ eng' = [eng EXCEPT ![r] = pool[Chain(r)]]
    /\ Goto(r, IF task[r].op = "base" THEN "dslout" ELSE "stamp")
    /\ UNCHANGED <<up, pool, self, disk, runs, task, buf, cause, named>>

(* External: else it parses def and then publishes the new engine; two     *)
(* requests that both found nothing both publish, the later over the first.*)
NewMakesEngine(r) ==
    /\ pc[r] = "new" /\ task[r].good
    /\ self' = [self EXCEPT ![r] = Body(r)]
    /\ pool' = [pool EXCEPT ![Chain(r)] = r]
    /\ eng' = [eng EXCEPT ![r] = r]
    /\ Goto(r, IF task[r].op = "base" THEN "dslout" ELSE "stamp")
    /\ UNCHANGED <<up, disk, runs, task, buf, cause, named>>

(* New, ReloadSelf or ReloadChild rejects the body of a SaveDsl: the error *)
(* goes back to the client and the engine keeps what it had.               *)
RejectBody(r) ==
    /\ pc[r] \in {"new", "reload", "child"} /\ ~task[r].good
    /\ Goto(r, "err")
    /\ UNCHANGED <<up, pool, self, disk, runs, task, eng, buf, cause, named>>

(* ruleEngine.ReloadSelf(def) of SaveDsl without a node id.                *)
ReloadSelf(r) ==
    /\ pc[r] = "reload" /\ task[r].good
    /\ self' = [self EXCEPT ![eng[r]] = Body(r)]
    /\ Goto(r, "stamp")
    /\ UNCHANGED <<up, pool, disk, runs, task, eng, buf, cause, named>>

(* ruleEngine.ReloadChild(nodeId, def): one node changes in memory.        *)
ReloadChild(r) ==
    /\ pc[r] = "child" /\ task[r].good
    /\ self' = [self EXCEPT ![eng[r]].nodes = r]
    /\ Goto(r, "stamp")
    /\ UNCHANGED <<up, pool, disk, runs, task, eng, buf, cause, named>>

(* fillAdditionalInfo stamps the definition in memory; what SaveDsl        *)
(* persists next is the body it received, not the stamped definition.      *)
Stamp(r) ==
    /\ pc[r] = "stamp"
    /\ self' = [self EXCEPT ![eng[r]].stamp = TRUE]
    /\ buf' = [buf EXCEPT ![r] = IF task[r].op = "child" THEN NodeDoc
                                                         ELSE Body(r)]
    /\ Goto(r, "trunc")
    /\ UNCHANGED <<up, pool, disk, runs, task, eng, cause, named>>

(* SaveBaseInfo on a chain in memory: name, root, debugMode and            *)
(* additionalInfo are replaced in place, then stamped; nothing is reloaded.*)
SetBaseInfo(r) ==
    /\ pc[r] = "base"
    /\ self' = [self EXCEPT ![eng[r]].info = r, ![eng[r]].stamp = TRUE]
    /\ Goto(r, "dslout")
    /\ UNCHANGED <<up, pool, disk, runs, task, eng, buf, cause, named>>

(* SaveConfiguration sets its section in place and stamps, before anything *)
(* has validated the value.                                                *)
SetConf(r) ==
    /\ pc[r] = "confset"
    /\ self' = [self EXCEPT ![eng[r]].conf[task[r].key] = r,
                            ![eng[r]].stamp = TRUE]
    /\ Goto(r, "confdsl")
    /\ UNCHANGED <<up, pool, disk, runs, task, eng, buf, cause, named>>

(* ruleEngine.DSL(): the handler serialises the definition into local      *)
(* bytes, to reload them (SaveConfiguration) or to persist them.           *)
TakeDsl(r) ==
    /\ pc[r] \in {"confdsl", "dslout"}
    /\ buf' = [buf EXCEPT ![r] = self[eng[r]]]
    /\ Goto(r, IF pc[r] = "confdsl" THEN "confreload" ELSE "trunc")
    /\ UNCHANGED <<up, pool, self, disk, runs, task, eng, cause, named>>

(* ruleEngine.ReloadSelf(dsl) of SaveConfiguration installs the bytes.     *)
ReloadConf(r) ==
    /\ pc[r] = "confreload" /\ Loadable(buf[r])
    /\ self' = [self EXCEPT ![eng[r]] = buf[r]]
    /\ Goto(r, "dslout")
    /\ UNCHANGED <<up, pool, disk, runs, task, eng, buf, cause, named>>

(* ... or is refused: the client gets the error, the definition in memory  *)
(* keeps the refused value.                                                *)
RejectConf(r) ==
    /\ pc[r] = "confreload" /\ ~Loadable(buf[r])
    /\ Goto(r, "err")
    /\ Blame(Chain(r), {"reject"})
    /\ UNCHANGED <<up, pool, self, disk, runs, task, eng, buf, named>>

(* The engine was stopped under the handler's feet and the call panics; the*)
(* server recovers the panic and the request fails.                        *)
EngineGone(r) ==
    /\ pc[r] \in UsesEngine /\ Orphan(eng[r])
    /\ Goto(r, "err")
    /\ UNCHANGED <<up, pool, self, disk, runs, task, eng, buf, cause, named>>

-----------------------------------------------------------------------------
(* RuleDao.Save: fs.SaveFile (external) opens the file truncated ...       *)
OpenFile(r) ==
    /\ pc[r] = "trunc"
    /\ disk' = [disk EXCEPT ![Chain(r)] = Torn]
    /\ Goto(r, "write")
    /\ UNCHANGED <<up, pool, self, runs, task, eng, buf, cause, named>>

(* ... and writes. Over bytes of another writer the shorter of the two     *)
(* leaves a tail of the longer; a file unlinked since the open stays gone. *)
WriteFile(r) ==
    /\ pc[r] = "write"
    /\ \E f \in CASE disk[Chain(r)] = Torn -> {buf[r]}
                  [] disk[Chain(r)] = NoFile -> {NoFile}
                  [] OTHER -> {buf[r], Torn} :
          disk' = [disk EXCEPT ![Chain(r)] = f]
    /\ named' = named \cup {Chain(r)}
    /\ Goto(r, "ok")
    /\ UNCHANGED <<up, pool, self, runs, task, eng, buf, cause>>

(* Delete, first step: Pool.Del stops the engine and forgets it.           *)
PoolDel(r) ==
    /\ pc[r] = "del"
    /\ pool' = [pool EXCEPT ![Chain(r)] = None]
    /\ Goto(r, "rmfile")
    /\ UNCHANGED <<up, self, disk, runs, task, eng, buf, cause, named>>

(* RuleDao.Delete removes the file ...                                     *)
RemoveFile(r) ==
    /\ pc[r] = "rmfile"
    /\ disk' = [disk EXCEPT ![Chain(r)] = NoFile]
    /\ Goto(r, "rmruns")
    /\ UNCHANGED <<up, pool, self, runs, task, eng, buf, cause, named>>

(* ... and EventDao.DeleteByChainId whatever is filed under this user for  *)
(* the chain id.                                                           *)
RemoveRuns(r) ==
    /\ pc[r] = "rmruns"
    /\ runs' = {l \in runs : <<l[1], l[2]>> # <<User, Chain(r)>>}
    /\ Goto(r, "ok")
    /\ UNCHANGED <<up, pool, self, disk, task, eng, buf, cause, named>>

(* A file operation fails: the handler answers with the error and undoes   *)
(* nothing of what it did before.                                          *)
FileFault(r) ==
    /\ pc[r] \in {"trunc", "write", "rmfile", "rmruns"}
    /\ Goto(r, "err")
    /\ Blame(Chain(r), {"fault"})
    /\ UNCHANGED <<up, pool, self, disk, runs, task, eng, buf, named>>

(* An execution ends: the completion callback saves the run log under the  *)
(* user the definition names, or under the default user if it names none.  *)
Owner(d) == IF d.stamp THEN User ELSE Default

Complete(r) ==
    /\ pc[r] = "run"
    /\ runs' = runs \cup {<<Owner(self[eng[r]]), Chain(r), "own">>}
    /\ Goto(r, "ok")
    /\ UNCHANGED <<up, pool, self, disk, task, eng, buf, cause, named>>

(* Another user has a chain of this id, and its definition names nobody.   *)
OthersRun(c) ==
    /\ up
    /\ runs' = runs \cup {<<Default, c, "other">>}
    /\ UNCHANGED <<up, pool, self, disk, task, pc, eng, buf, cause, named>>

-----------------------------------------------------------------------------
(* The process ends at any point: a kill, a fatal error, or a signal, on   *)
(* which main() exits without waiting for handlers.                        *)
Crash ==
    /\ up
    /\ up' = FALSE
    /\ pool' = [c \in Chains |-> None]
    /\ pc' = [r \in Reqs |-> IF Active(r) THEN "lost" ELSE pc[r]]
    /\ eng' = [r \in Reqs |-> None]
    /\ buf' = [r \in Reqs |-> None]
    /\ cause' = [c \in Chains |-> IF Idle(c) THEN cause[c]
                                             ELSE cause[c] \cup {"fault"}]
    /\ named' = {}
    /\ UNCHANGED <<self, disk, runs, task>>

(* loadRules at start-up: every file of the rules directory is loaded, and *)
(* one that cannot be ends the process (logger.Fatal). A file that names   *)
(* no chain id brings no chain back (external).                            *)
Boot ==
    /\ ~up
    /\ \A c \in Chains : Starts(disk[c])
    /\ up' = TRUE
    /\ pool' = [c \in Chains |-> IF disk[c] \in Docs THEN c ELSE None]
    /\ self' = [e \in Engines |->
                  IF e \in Chains
                  THEN IF disk[e] \in Docs THEN disk[e] ELSE self[e]
                  ELSE self[e]]
    /\ UNCHANGED <<disk, runs, task, pc, eng, buf, cause, named>>

Step(r) ==
    \/ \E t \in Tasks : Start(r, t)
    \/ PoolGet(r)
    \/ NewFindsEngine(r) \/ NewMakesEngine(r) \/ RejectBody(r)
    \/ ReloadSelf(r) \/ ReloadChild(r) \/ Stamp(r)
    \/ SetBaseInfo(r) \/ SetConf(r) \/ TakeDsl(r)
    \/ ReloadConf(r) \/ RejectConf(r) \/ EngineGone(r)
    \/ OpenFile(r) \/ WriteFile(r)
    \/ PoolDel(r) \/ RemoveFile(r) \/ RemoveRuns(r) \/ FileFault(r)
    \/ Complete(r)

Next ==
    \/ \E r \in Reqs : Step(r)
    \/ \E c \in Chains : OthersRun(c)
    \/ Crash \/ Boot

Spec == Init /\ [][Next]_vars

-----------------------------------------------------------------------------
(* Values have their types, and no handler reaches a step that uses the    *)
(* engine without having one: the nil check after Pool.Get suffices.       *)
TypeOK ==
    /\ up \in BOOLEAN
    /\ pool \in [Chains -> Engines \cup {None}]
    /\ self \in [Engines -> Docs]
    /\ disk \in [Chains -> Files]
    /\ runs \subseteq {User, Default} \X Chains \X {"own", "other"}
    /\ task \in [Reqs -> Tasks \cup {None}]
    /\ pc \in [Reqs -> Steps \cup Done \cup {"idle"}]
    /\ eng \in [Reqs -> Engines \cup {None}]
    /\ buf \in [Reqs -> Docs \cup {NodeDoc, None}]
    /\ cause \in [Chains -> SUBSET Causes]
    /\ named \subseteq Chains
    /\ \A r \in Reqs : /\ pc[r] = "idle" <=> task[r] = None
                       /\ pc[r] \in UsesEngine => eng[r] # None
                       /\ pc[r] \in {"confreload", "trunc", "write"}
                              => buf[r] # None

Quiet(c) == cause[c] \cap {"fault", "delrace", "child"} = {}

(* However saves of a chain interleave, once none is in flight the chain   *)
(* is in the pool exactly if it has a file, as long as no delete overlapped*)
(* another request of the chain, no file operation failed or was cut by a  *)
(* crash, and no save named a node. The code runs saves and deletes with   *)
(* no lock: this is the whole of what it guarantees about presence.        *)
PresenceAgrees ==
    up => \A c \in Chains :
             Idle(c) /\ Quiet(c) => (pool[c] = None <=> disk[c] = NoFile)

(* Without overlapping saves, memory and file hold the same nodes and info,*)
(* and the same configuration too unless a configuration was refused: a    *)
(* refused SaveConfiguration is the one request that leaves memory ahead   *)
(* of the file. The file never claims a stamp memory lacks.                *)
ContentAgrees ==
    up => \A c \in Chains :
             Idle(c) /\ cause[c] \subseteq {"reject"} /\ pool[c] # None =>
                /\ disk[c] \in Docs
                /\ disk[c].nodes = self[pool[c]].nodes
                /\ disk[c].info = self[pool[c]].info
                /\ cause[c] = {} => disk[c].conf = self[pool[c]].conf
                /\ disk[c].stamp => self[pool[c]].stamp

(* A file that makes the next start-up end in logger.Fatal is always owed  *)
(* to overlapping saves, a fault or a crash in a save, or a configuration  *)
(* refused earlier; never to requests that were all served one by one.     *)
FilesLoad ==
    \A c \in Chains :
        Idle(c) /\ cause[c] \subseteq {"child"} => Starts(disk[c])

(* Of a chain that is gone no run logs are left, whatever runs ended       *)
(* before, provided the delete overlapped nothing and was not cut, but for *)
(* those filed under a default user who is somebody else: Delete does not  *)
(* look there.                                                             *)
RunsGoWithChain ==
    up => \A c \in Chains :
             On(c) = {} /\ Quiet(c) /\ pool[c] = None =>
                \A d \in {User, Default} :
                   <<d, c, "own">> \in runs => d = Default /\ Default # User

(* Logs go there only until the first save of the chain is answered after a*)
(* start-up, and while a save is in flight: from then on the definition in *)
(* memory names the user, unless saves or deletes of the chain overlapped. *)
(* A reload takes the name out, and the stamp that puts it back is another *)
(* step.                                                                   *)
RunsAreNamed ==
    [][\A r \in Reqs :
          /\ pc[r] = "run" /\ pc'[r] = "ok"
          /\ Chain(r) \in named /\ Idle(Chain(r))
          /\ cause[Chain(r)] \cap {"race", "delrace"} = {}
          => runs' = runs \cup {<<User, Chain(r), "own">>}]_vars

(* When a save is acknowledged and no other request of the chain overlapped*)
(* it, the file holds what the request sent: the whole body, the base info *)
(* or the one section.                                                     *)
Carries(f, r) ==
    /\ f \in Docs
    /\ task[r].op = "dsl" => f.nodes = r /\ f.info = r
    /\ task[r].op = "base" => f.info = r /\ f.stamp
    /\ task[r].op = "conf" => f.conf[task[r].key] = r /\ f.stamp

AckIsDurable ==
    [][\A r \in Reqs :
          /\ pc[r] # "ok" /\ pc'[r] = "ok"
          /\ task[r].op \in Saves \ {"child"}
          /\ cause[Chain(r)] \cap {"race", "delrace"} = {}
          => Carries(disk'[Chain(r)], r)]_vars

-----------------------------------------------------------------------------
(* What the documentation says and the code does not do.                   *)

(* A node saved through its chain is saved with its chain: README_ZH.md    *)
(* promises that the node definition of the chain is updated, yet for a    *)
(* chain that was loaded from its file SaveDsl persists the node's body    *)
(* over the file of the whole chain.                                       *)
ChildSaveKeepsChain ==
    up => \A c \in Chains :
             Idle(c) /\ cause[c] \subseteq {"child"} /\ pool[c] = c
                => disk[c] \in Docs

(* SaveDsl updates the modification time and then persists the chain, as   *)
(* its comments say: the persisted chain carries the new time.             *)
UpdateTimePersisted ==
    up => \A c \in Chains :
             /\ Idle(c) /\ cause[c] = {} /\ pool[c] # None
             /\ self[pool[c]].stamp
             => disk[c].stamp

(* A configuration section that was saved, and answered with success, is   *)
(* in the chain as long as nothing but other sections was saved since.     *)
SavedSectionKept ==
    up => \A r \in Reqs :
             /\ pc[r] = "ok" /\ task[r].op = "conf"
             /\ pool[Chain(r)] # None
             => self[pool[Chain(r)]].conf[task[r].key] # Orig
=============================================================================
