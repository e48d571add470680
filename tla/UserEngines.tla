---------------------------- MODULE UserEngines ----------------------------
(***************************************************************************)
(* The registry of rule-engine services, one per user:                     *)
(* UserRuleEngineService (internal/service/engine.go). It is filled from   *)
(* the directories under workflows/ at start-up and, for a user it does    *)
(* not know, by the first request (Get, Init). HTTP requests reach it with *)
(* a user name (AuthProcess), MQTT messages with none (router/mqtt.go).    *)
(* A save is abstracted to whether the chain is in the pool and whether its*)
(* file can be loaded; writes of files may fail or be cut short. RuleStore *)
(* has the contents.                                                       *)
(***************************************************************************)
EXTENDS FiniteSets

CONSTANTS
    Users,      \* names of users
    Default,    \* config.DefaultUsername, one of them
    Anon,       \* the empty user name
    Phantom,    \* "rules": the directory of the empty user is workflows/rules
    Chains,     \* rule-chain ids
    ToChain,    \* config.Mqtt.ToChainId, one of them
    Reqs,       \* HTTP requests and MQTT messages, each served once
    None        \* Go's nil

(* What a request, or an MQTT message, asks for.                           *)
Tasks == [op: {"save", "exec"}, user: Users \cup {Anon}, chain: Chains]
            \cup {[op |-> "mqtt", user |-> Anon, chain |-> ToChain]}

ASSUME UserEnginesAssumption ==
    /\ Default \in Users /\ ToChain \in Chains
    /\ Anon \notin Users /\ Phantom \notin Users /\ Anon # Phantom
    /\ Reqs \cap (Users \cup {Anon, Phantom}) = {}
    /\ None \notin Reqs \cup Users \cup {Anon, Phantom} \cup Tasks

Names == Users \cup {Anon, Phantom}

(* A service is named after the request that created it, or after the user *)
(* start-up created it for.                                                *)
Services == Reqs \cup Names

VARIABLES
    up,         \* the process is running
    dirs,       \* the directories under workflows/, by name
    files,      \* name -> chain -> its file in the rules directory of the name
    pool,       \* UserRuleEngineService.Pool: name -> service, or None
    chains,     \* service -> the chains in its own engine pool
    task,       \* request -> what it asks for
    pc,         \* request -> the next step of its handler
    svc,        \* request -> the service it found or built
    acked,      \* history: name -> the chains whose save was answered OK
    raced,      \* history: the names two requests built a service for at once
    unsaved,    \* history: name -> the chains with a failed save in this process
    hurt        \* history: the files a write of which failed, was cut short or
                \* went over another write, with no clean write since

faults == <<unsaved, hurt>>
vars == <<up, dirs, files, pool, chains, task, pc, svc, acked, raced, unsaved, hurt>>

(* AuthProcess puts the default user where the header names none; the MQTT *)
(* routes do not run it.                                                   *)
AuthProcess(t) == IF t.op # "mqtt" /\ t.user = Anon THEN Default ELSE t.user
User(r) == AuthProcess(task[r])

Busy(r) == pc[r] \in {"lookup", "init", "publish", "pool", "file", "write", "run"}
Building(u) == {r \in Reqs : pc[r] \in {"init", "publish"} /\ User(r) = u}
Goto(r, l) == pc' = [pc EXCEPT ![r] = l]

(* Creating a service creates the user's rules directory.                  *)
Dir(u) == IF u = Anon THEN Phantom ELSE u

(* A file is empty from its truncation to its write, whole when it holds a *)
(* chain, and torn when it holds part of one. Only a whole one loads.      *)
FileStates == {"none", "empty", "torn", "whole"}
Stored(u) == {c \in Chains : files[u][c] # "none"}
Loads(u) == \A c \in Chains : files[u][c] \in {"none", "whole"}

(* The files requests have open for writing.                               *)
Written == {<<User(q), task[q].chain>> : q \in {r \in Reqs : pc[r] = "write"}}

Init ==
    /\ up = FALSE
    /\ dirs \in SUBSET Users
    /\ files \in [Names -> [Chains -> {"none", "whole"}]]
    /\ \A u \in Names \ dirs : Stored(u) = {}
    /\ pool = [u \in Names |-> None]
    /\ chains = [s \in Services |-> {}]
    /\ task = [r \in Reqs |-> None]
    /\ pc = [r \in Reqs |-> "idle"]
    /\ svc = [r \in Reqs |-> None]
    /\ acked = [u \in Names |-> {}]
    /\ raced = {}
    /\ unsaved = [u \in Names |-> {}]
    /\ hurt = {}

-----------------------------------------------------------------------------
(* Faulty variants of actions below, one for each property they break.     *)

(* TypeOK: Get gives back the service without looking whether there is one.*)
LookupUnchecked(r) ==
    /\ pc[r] = "lookup"
    /\ svc' = [svc EXCEPT ![r] = pool[User(r)]]
    /\ Goto(r, IF task[r].op = "save" THEN "pool" ELSE "run")
    /\ UNCHANGED <<up, dirs, files, pool, chains, task, acked, raced, faults>>

(* RegisteredOnce: every request builds a service for its user.            *)
LookupFindsNone(r) ==
    /\ pc[r] = "lookup"
    /\ Goto(r, "init")
    /\ UNCHANGED <<up, dirs, files, pool, chains, task, svc, acked, raced, faults>>

(* OneService: start-up registers services that have not loaded their files*)
BootEmpty ==
    /\ ~up
    /\ up' = TRUE
    /\ pool' = [u \in Names |-> IF u \in dirs THEN u ELSE None]
    /\ UNCHANGED <<dirs, files, chains, task, pc, svc, acked, raced, faults>>

(* LoadsWholeFiles: start-up leaves a user whose chains do not load to the *)
(* user's first request.                                                   *)
BootLazily ==
    /\ ~up
    /\ up' = TRUE
    /\ pool' = [u \in Names |-> IF u \in dirs /\ Loads(u) THEN u ELSE None]
    /\ chains' = [s \in Services |-> IF s \in dirs /\ Loads(s) THEN Stored(s) ELSE {}]
    /\ UNCHANGED <<dirs, files, task, pc, svc, acked, raced, faults>>

(* SavedIsServedAfterRestart: the error of opening the file is dropped.    *)
SaveFailsUnseen(r) ==
    /\ pc[r] = "file"
    /\ acked' = [acked EXCEPT ![User(r)] = @ \cup {task[r].chain}]
    /\ Goto(r, "ok")
    /\ UNCHANGED <<up, dirs, files, pool, chains, task, svc, raced, faults>>

-----------------------------------------------------------------------------
(* NewUserRuleEngineServiceImpl: a service for every directory. A file that*)
(* does not load ends the start-up, so that the server never comes up.     *)
Boot ==
    /\ ~up /\ \A u \in dirs : Loads(u)
    /\ up' = TRUE
    /\ pool' = [u \in Names |-> IF u \in dirs THEN u ELSE None]
    /\ chains' = [s \in Services |-> IF s \in dirs THEN Stored(s) ELSE {}]
    /\ UNCHANGED <<dirs, files, task, pc, svc, acked, raced, faults>>

Start(r, t) ==
    /\ up /\ pc[r] = "idle"
    /\ task' = [task EXCEPT ![r] = t]
    /\ Goto(r, "lookup")
    /\ UNCHANGED <<up, dirs, files, pool, chains, svc, acked, raced, faults>>

Serve(op) == CASE op = "save" -> "pool" [] OTHER -> "run"

(* Get: under the read lock, is there a service?                           *)
Lookup(r) ==
    /\ pc[r] = "lookup"
    /\ svc' = [svc EXCEPT ![r] = pool[User(r)]]
    /\ IF pool[User(r)] # None
       THEN /\ Goto(r, Serve(task[r].op))
            /\ UNCHANGED raced
       ELSE /\ Goto(r, "init")
            /\ raced' = raced \cup {u \in {User(r)} : Building(u) # {}}
    /\ UNCHANGED <<up, dirs, files, pool, chains, task, acked, faults>>

(* Init: with no lock held, NewRuleEngineService makes the directory and   *)
(* loads the chains found in it, which ends the process when one does not  *)
(* load (EndOfProcess) ...                                                 *)
NewService(r) ==
    /\ pc[r] = "init" /\ Loads(User(r))
    /\ svc' = [svc EXCEPT ![r] = r]
    /\ dirs' = dirs \cup {Dir(User(r))}
    /\ chains' = [chains EXCEPT ![r] = Stored(User(r))]
    /\ Goto(r, "publish")
    /\ UNCHANGED <<up, files, pool, task, acked, raced, faults>>

(* ... and under the write lock the service replaces whatever is there.    *)
Publish(r) ==
    /\ pc[r] = "publish"
    /\ pool' = [pool EXCEPT ![User(r)] = r]
    /\ Goto(r, Serve(task[r].op))
    /\ UNCHANGED <<up, dirs, files, chains, task, svc, acked, raced, faults>>

(* A save: the chain enters the pool of the service, unless the engine     *)
(* rejects the body ...                                                    *)
SavePool(r) ==
    /\ pc[r] = "pool"
    /\ chains' = [chains EXCEPT ![svc[r]] = @ \cup {task[r].chain}]
    /\ Goto(r, "file")
    /\ UNCHANGED <<up, dirs, files, pool, task, svc, acked, raced, faults>>

Reject(r) ==
    /\ pc[r] = "pool"
    /\ Goto(r, "err")
    /\ UNCHANGED <<up, dirs, files, pool, chains, task, svc, acked, raced, faults>>

(* ... and gets its file, in a directory made if need be: opening the file *)
(* truncates it, and what is written over another write may leave the end  *)
(* of that behind.                                                         *)
PutFile(r, f) ==
    files' = [files EXCEPT ![User(r)] = [files[User(r)] EXCEPT ![task[r].chain] = f]]

OpenFile(r) ==
    /\ pc[r] = "file"
    /\ dirs' = dirs \cup {Dir(User(r))}
    /\ PutFile(r, "empty")
    /\ Goto(r, "write")
    /\ UNCHANGED <<up, pool, chains, task, svc, acked, raced, faults>>

WriteFile(r) ==
    /\ pc[r] = "write"
    /\ LET found == files[User(r)][task[r].chain]
           it    == <<User(r), task[r].chain>>
       IN  IF found = "empty"
           THEN PutFile(r, "whole") /\ hurt' = hurt \ {it}
           ELSE /\ \E f \in {"whole", "torn"} : PutFile(r, f)
                /\ hurt' = hurt \cup {it}
    /\ acked' = [acked EXCEPT ![User(r)] = @ \cup {task[r].chain}]
    /\ Goto(r, "ok")
    /\ UNCHANGED <<up, dirs, pool, chains, task, svc, raced, unsaved>>

(* Opening the file fails, or writing it, half way: the caller gets the    *)
(* error, and the chain stays in the pool.                                 *)
SaveFails(r) ==
    /\ \/ /\ pc[r] = "file"
          /\ dirs' \in {dirs, dirs \cup {Dir(User(r))}}
          /\ UNCHANGED <<files, hurt>>
       \/ /\ pc[r] = "write"
          /\ \E f \in {files[User(r)][task[r].chain], "torn"} : PutFile(r, f)
          /\ hurt' = hurt \cup {<<User(r), task[r].chain>>}
          /\ UNCHANGED dirs
    /\ unsaved' = [unsaved EXCEPT ![User(r)] = @ \cup {task[r].chain}]
    /\ Goto(r, "err")
    /\ UNCHANGED <<up, pool, chains, task, svc, acked, raced>>

(* An execution, or an MQTT message: To("chain:...") finds the chain in the*)
(* pool GetRuleGoFunc chose, or fails.                                     *)
Run(r) ==
    /\ pc[r] = "run"
    /\ Goto(r, IF task[r].chain \in chains[svc[r]] THEN "ok" ELSE "notfound")
    /\ UNCHANGED <<up, dirs, files, pool, chains, task, svc, acked, raced, faults>>

(* The process ends, killed or by the logger's Fatal on a file that does   *)
(* not load, which may cut writes short.                                   *)
EndOfProcess ==
    /\ up' = FALSE
    /\ pool' = [u \in Names |-> None]
    /\ chains' = [s \in Services |-> {}]
    /\ pc' = [r \in Reqs |-> IF Busy(r) THEN "lost" ELSE pc[r]]
    /\ svc' = [r \in Reqs |-> None]
    /\ \E cut \in SUBSET Written :
          files' = [u \in Names |-> [c \in Chains |->
                      IF <<u, c>> \in cut THEN "torn" ELSE files[u][c]]]
    /\ hurt' = hurt \cup Written
    /\ unsaved' = [u \in Names |-> {}]
    /\ raced' = {}
    /\ UNCHANGED <<dirs, task, acked>>

Crash == up /\ EndOfProcess
Fatal(r) == pc[r] = "init" /\ ~Loads(User(r)) /\ EndOfProcess

Step(r) ==
    \/ \E t \in Tasks : Start(r, t)
    \/ Lookup(r) \/ NewService(r) \/ Fatal(r) \/ Publish(r)
    \/ SavePool(r) \/ Reject(r) \/ OpenFile(r) \/ WriteFile(r) \/ SaveFails(r)
    \/ Run(r)

Next == (\E r \in Reqs : Step(r)) \/ Crash \/ Boot

Spec == Init /\ [][Next]_vars

-----------------------------------------------------------------------------
(* Values have their types, and no request works on a service without      *)
(* having one, also right after Init has run for an unknown user.          *)
TypeOK ==
    /\ up \in BOOLEAN
    /\ dirs \subseteq Users \cup {Phantom}
    /\ files \in [Names -> [Chains -> FileStates]]
    /\ pool \in [Names -> Services \cup {None}]
    /\ chains \in [Services -> SUBSET Chains]
    /\ task \in [Reqs -> Tasks \cup {None}]
    /\ pc \in [Reqs -> {"idle", "lookup", "init", "publish", "pool", "file", "write",
                        "run", "ok", "err", "notfound", "lost"}]
    /\ svc \in [Reqs -> Services \cup {None}]
    /\ acked \in [Names -> SUBSET Chains]
    /\ raced \subseteq Names
    /\ unsaved \in [Names -> SUBSET Chains]
    /\ hurt \subseteq Names \X Chains
    /\ \A r \in Reqs : /\ pc[r] = "idle" <=> task[r] = None
                       /\ pc[r] \in {"publish", "pool", "file", "write", "run"}
                             => svc[r] # None

(* Unless the first requests of a user overlapped, the service registered  *)
(* for the user is the only one at work and its pool is what the directory *)
(* holds, but for saves under way and saves that failed: a chain answered  *)
(* OK is found by whoever asks next. Get checks under one lock and Init    *)
(* stores under another.                                                   *)
Saving(u) == {task[r].chain : r \in {q \in Reqs : pc[q] = "file" /\ User(q) = u}}

OneService ==
    \A u \in Names \ raced :
        /\ \A r \in Reqs : /\ pc[r] \in {"pool", "file", "write", "run"}
                           /\ User(r) = u
                           => svc[r] = pool[u]
        /\ up /\ pool[u] # None =>
              chains[pool[u]] = Stored(u) \cup Saving(u) \cup unsaved[u]

(* A first request never ends the process over a file that another is still*)
(* writing, or has left in pieces, unless the first requests of the user   *)
(* overlapped: whoever saves does so through a registered service, and a   *)
(* start-up that comes up has loaded every file.                           *)
LoadsWholeFiles ==
    \A r \in Reqs : pc[r] = "init" /\ ~Loads(User(r)) => User(r) \in raced

(* A service start-up registered is never replaced while the process runs, *)
(* whatever first requests of other users race.                            *)
RegisteredOnce ==
    [][\A u \in Names : up /\ up' /\ pool[u] \in Names => pool'[u] = pool[u]]_vars

(* The server comes up again unless a write of a file failed, was cut short*)
(* or went over another one. When it does, even where two services of one  *)
(* user were built at once and the saves of one are in nobody's pool, every*)
(* save answered OK is served: the user has a directory there, and the file*)
(* is in it.                                                               *)
SavedIsServedAfterRestart ==
    [][~up => /\ hurt = {} => \A u \in Names : Loads(u)
              /\ up' => \A u \in Users : acked[u] # {} =>
                            /\ pool'[u] # None
                            /\ acked[u] \subseteq chains'[pool'[u]]]_vars

-----------------------------------------------------------------------------
(* README_ZH.md: MQTT data goes to the chain to_chain_id names. The routes *)
(* of router/mqtt.go put no user name in the message, so the chain is      *)
(* looked up among those of the empty user name, and not found although    *)
(* the default user has it.                                                *)
MqttReachesChain ==
    \A r \in Reqs : pc[r] = "notfound" /\ task[r].op = "mqtt"
                        => ToChain \notin Stored(Default)
=============================================================================
