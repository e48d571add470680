# A verification of the RuleGo editor server

TLA+ models, TLC runs and TLAPS proofs for the server in this repository: it
keeps rule chains per user, runs them on request (HTTP, MQTT), shows and logs what
their nodes see, and keeps a log of every run. The models are translated from the Go
source; `PROJECT.json` maps every definition to the lines it stands for.

## The system

| component | state | operations | meets |
|---|---|---|---|
| **Rule-chain store** `service/engine.go`, `dao/rule.go` | engine pool in memory, `workflows/<user>/rules/<chain>.json` | SaveDsl (chain, node), SaveBaseInfo, SaveConfiguration, Delete, load at start-up | engine library, run logs (Delete), registry |
| **Engine registry** `service/engine.go` | map user → service, a directory per user | start-up, Get, Init | every route asks it first; MQTT too |
| **Debug data** `service/node_debug_data.go` | per node a queue of the latest items | Add (OnDebug callback), GetToPage (HTTP) | executions against viewers, on one array |
| **Run logs** `dao/event.go`, `utils/file` | `workflows/<user>/runs/<chain>/<id>` | SaveRunLog, List, Get, Delete, DeleteByChainId | executions, Delete of a chain |
| **Debug observers, WebSocket** `router/websocket.go`, `controller/event.go` | per service a map client id → callback | connect, message, disconnect, OnDebug | executions; registry |
| **User storage** `dao/user.go`, `dao/file_storage.go` | an ini file and its copy in memory | create, delete, validate, list | built at start-up, called by no route yet |
| Workflow storage `dao/workflow.go` | directories | Create, Delete, List | called by nothing |
| Routes, MQTT, start and stop `router/`, `controller/`, `cmd/server` | none | parse a request, call a service | |
| Configuration, logger, types | constant after start-up | | |

Each HTTP request is a goroutine, each WebSocket connection one more, and OnDebug
starts one for every observer. Only four pieces of state have a lock: the
registry's map, the observers' map, the debug queues' pushes and the writing of
the user file. Everything else (the definition of a chain, its file, the run
logs, the sorting and paging of a queue, the users in memory) is read and
written by handlers that interleave freely; main() exits on a signal without
waiting for them, and nothing is repaired at start-up.

What makes each component correct:

* **Store**: memory and files agree when nothing is in flight; an acknowledged
  save is in the file; no served request makes a start-up fail; the run logs of a
  chain are filed under its user and go with it. (The code keeps this last promise
  only in part, see *Run logs and their owner*.)
* **Registry**: one service per user, never replaced; no request ends the process
  over a file that another is writing; what was saved is served again after a
  restart.
* **Debug data**: the bound; the latest items; pages that are pages of something;
  executions never wait for good.
* **Run logs**: a completed run has its log until it is deleted, unless its own save
  met an error; a delete deletes; a list misses nothing and answers its page.
* **Debug observers**: no callback outlives its connection; of the connections
  that share a client id one is served; an event is sent once, and to every client id
  that is registered.
* **User storage**: file and memory agree when nothing is in flight and the last write
  succeeded; a created user is stored; only users that were created log in.

**Run logs and their owner.** A run log is filed under the user its chain's definition
names at the end of the run, or under the default user if it names none
(`dao/event.go:140`). A definition is without a name from start-up to the first save of
the chain, since SaveDsl writes the file without it, and for a moment inside every save.
Deleting a chain removes only what is filed under its own user: logs filed under the
default user stay for ever, and the default user's delete of a chain of the same id
removes them with its own. `RuleStore` has both kinds of logs: `RunsGoWithChain` says
which of a chain's logs a delete may leave, `RunsAreNamed` when logs may go astray. The
run has a user who is not the default user; the theorems cover both. Nothing in the
repository's documents promises more, so there is no finding about it.

The hazards, at their lines, are in `PROJECT.json`.

## Modules

| module | models | correspondence |
|---|---|---|
| `RuleStore` | the store of one user, with runs | one action per step of a handler (look-up, New, Reload…, edit, DSL(), truncate, write, pool delete, remove…); `pool`, `disk`, `runs` are the engine pool and the directory tree, `self` the definitions in memory, `eng` and `buf` a handler's local variables |
| `UserEngines` | the registry | `pool` is its map, `chains` a service's own engine pool, `dirs` and `files` the tree under `workflows/`; Get and Init are three steps, for they take the lock twice; a file is truncated, then written, and either may fail; `Boot` is a start-up that succeeds, and one that ends in Fatal leaves everything as it was; `Fatal` is a first request that meets a file it cannot load |
| `DebugData` | one node's queue | Go slices as offsets into the arrays `append` allocates: push, sort and page share an array as they do in Go, and a sort is one assignment to it after another |
| `RunLogs` | the run logs of one user | one action per system call of SaveRunLog, of `filepath.Walk` (each directory read, each file looked at), of `os.RemoveAll` and of the reading of a page; `SaveFails` and the partial `MakeDirs` are SaveRunLog's error paths; the seconds and message ids that name a log |
| `LogBook` | what run logs promise, with no file system: a log is kept until a delete of its name, a run of its name, an error of its save or the end of the process takes it away | abstract specification, implemented by `RunLogs` (`KeepsTheBook`) |
| `DebugObservers` | the observers of one user and the goroutines that write to them | `observer` is `onDebugObserver` of each service, Come, Speak and Leave the look-up of the service in the library's events, Connect, Message and Disconnect the call that follows, `flights` the goroutines OnDebug has started |
| `FileStorage` | the users and their file | one action per access to the ini library: finding a key, setting it, the lock, truncating, writing; a write that ends early leaves a beginning of the contents, and a start-up refuses a file that does not parse |
| `GoInt` | integers of a given width | |
| `…Proofs` | theorems about the module they are named after | `RuleStoreProofs` has types and presence, `RuleStoreContentProofs` what chains and files contain |
| `PageProofs` | lemmas on Go's integers and on positions in a sorted list | shared by `DebugDataProofs` and `RunLogsProofs`, as the page arithmetic of the two components is the same |
| `MC…` | small instances | symmetry sets, the width of int and the pages asked for |

`KeepsTheBook` maps the tree to the book: a run is *kept* when some file holds its
complete log, *gone* when its save has ended and none does; a delete is *active*
between its first and its last system call. Every system call is then a step of
the book or a stutter: the last unlink before a delete's answer, a truncation by
a twin and a write to a removed file are `Vanish`, an error of a save is `Fail`.

A variable or field named *history* in its declaration (`cause`, `raced`, `clash`,
`named`, `pushed`, `sorted`, `acked`, `unsaved`, `hurt`, `doomed`, `target`, `known`,
`hit`, `faulty`, `crashed`, `home`, `spoke`, `failed`, `cut`) is read by properties only,
with two exceptions: in `RunLogs` `faulty` and `crashed` bound what goes wrong
(`MaxFaults`), and in `DebugData` a sort that no other overlapped (`clash`) leaves its
slice in order.
Definitions called *faulty variants* are not part of the model: each is the form
a definition would take with a plausible bug, and `PROJECT.json` names the
property that must then fail.

### Abstractions

* A document is represented by who wrote its parts last (nodes, base
  information, each configuration section) and whether this server stamped it.
  A body that arrives names no user, and its own id is the id of the URL.
* `good` says whether the engine library will accept what a request sends. The
  library is not in the repository; its Pool.Get, New, Del, Load, Reload… are
  modelled from how this code uses them and are marked *external*, as are
  `append`, `sort.Slice` and `os.RemoveAll`.
* In SaveConfiguration the edit of the map and the stamp (252–259) are one step.
  Concurrent writes to one Go map end the process: that is `Crash`.
* A file that two writers hold ends as either's content or damaged; bytes written
  to a file that was removed are lost. A write that fails, or that the end of the
  process cuts short, may leave none, some or (its close failing) all of its bytes.
* `UserEngines` knows of a file only whether it loads. The files under the data
  directory all load at first; each Go process starts on what the last one left.
* A log that another user's chain files under the default user (`OthersRun`) may appear
  at any time.
* The nested locks of Add are one lock; a reader's lock, given back at once, is a
  guard. A slice header is read whole; what a reader may see of a push in progress
  is the state between its two assignments.
* A sort of a queue is any number of swaps of any two items of its slice, each in two
  assignments, between which pushes, copies by `append` and other sorts may come. Which
  swaps, is left open: the comparisons read the live queue, so that a sort disturbed by
  a push may do anything. One that nothing disturbed ends with the latest first. An
  item is copied in one step: that a reader may find it half written is abstracted.
* Page arithmetic (GetToPage, EventDao.List) is done at the width of int, `Bits`;
  a page that is no valid slice panics.
* The seconds of `RunLogs` are those a run saw pass, up to `MaxSec`. The page a
  list is asked for is picked in the step that first uses it. A DELETE with an id and
  no chain id names nothing, or, if the id is a chain's, that chain's directory. The
  directories that CreateDirs may leave out, dropping the error, are the chain's or both.
* The WebSocket endpoint is external: a connection has one goroutine, which reads
  and raises the events in order, and concurrent writes to a connection are
  serialised by the library. A write may fail, or block for good on a peer that does
  not read: a goroutine in `flights` need never write.
* The ini library is external, too: its own lock guards each access, Section.Key adds a
  missing key with the value "", SetValue on a Key that was removed from its section
  changes nothing that is read, and SaveTo makes the contents, truncates the file and
  writes. A beginning of the file holds some of
  the lines, and of one more a part: its value cut (`Begins` says which password begins
  with which), or something that does not parse.
* `MaxService` bounds how often a race of first requests (`UserEngines`)
  replaces the service that observers have registered with.

## Runs

| run | instance | shows |
|---|---|---|
| `RuleStore_safety` | 1 chain, 3 requests of any kind, 1 section | `PresenceAgrees`, `ContentAgrees`, `FilesLoad`, `RunsGoWithChain`, `RunsAreNamed`, `AckIsDurable`: each is as strong as the code allows, its exceptions named by `cause` |
| `DebugData_safety` | 3 pushes, 2 views, queue of 2, four pages | the bound; the latest items until a view moves one; exact pages for views nothing raced with, where the arithmetic does not overflow |
| `DebugData_liveness` | 3 pushes, 1 view that may never end, pushes fair | every push ends |
| `UserEngines_registry` | 2 users, 3 requests, 1 chain | one service per user unless first requests overlapped, its pool what the files are but for saves under way or failed; services of start-up stay; only racing first requests meet a half-written file; the server comes up unless a write was cut or failed, and then serves every acknowledged save, even one made through a race |
| `RunLogs_safety` | 2 chains, 2 runs, a list or get, a delete, one failing save or crash | no log lost but to a delete that was at work, an error of its own save, a crash or a twin; a delete is complete; a list misses nothing; the page is exact, and which pages panic; damaged logs have a cause; `KeepsTheBook` |
| `DebugObservers` | 2 connections, 2 client ids, 2 events, a service replaced, writes that fail or hang | `NoGhost`, `OneIsServed`, `SentOnce`, `RawOnceSpoken`, `EventsAreSent` |
| `FileStorage` | 2 users, 2 passwords, one beginning with the other, 3 requests, writes that end early, restarts | `QuietAgrees` although edits are outside the lock; `SavedIsStored` until a rewrite is cut short; `OnlyUsersLogIn`, but that after a rewrite cut short a beginning of a password may pass for it |

and five that find what a comment or the README promises and the code does not do:

| run | finding |
|---|---|
| `RuleStore_child` | a save with a node id replaces the chain's file by the node |
| `RuleStore_stamp` | SaveDsl's update time never reaches the file |
| `RuleStore_config` | of two overlapping saves of two sections one is lost |
| `DebugData_latest` | after a view the queue evicts an item newer than one it keeps |
| `UserEngines_mqtt` | MQTT messages look for their chain under the empty user name |

**Why the bounds suffice.** Handlers of different chains share nothing but the process,
so one chain with all its requests shows the store's races; three requests give two that
overlap and a third that meets what they left, or a restart and a request after it. A
queue of two is full after two pushes and evicts at the third; `Spare` 0 or 1 gives both
outcomes of every `append`; two views are the least that sort at once. The pages of
debug data asked for are the whole log, a second page, a negative size and, in integers
of four bits, a product that overflows. In the registry two requests race for one user
and a third sees the result. In the run logs two runs, in the same second or not, make
twins, or are saved before and during a walk; the page asked for is the second one, of
one log: it has a log in a list of two, none in a list of one, and panics for an empty
list. One thing goes wrong (`MaxFaults`), an error of a save or the end of the process;
that more may go wrong at once is covered by the theorems, which hold for every bound.
Two connections share a client id or have their own; each may be the one that registered
last, or the one that leaves first; one replacement leaves observers behind in the old
service. In the user file two edits of two keys race for the lock and a third request
meets what a failed write or a restart left. Requests are served once, so runs are
finite, and `CHECK_DEADLOCK FALSE` says that a server whose requests are all answered
may idle.

**Fairness** is assumed in one place, `DebugData!FairSpec`, and for pushes only: the Go
scheduler runs the goroutine that holds the lock (weak fairness of `AppendItem`), and
`sync.RWMutex` hands over to a waiter, so a push that finds the lock free again and
again gets it (strong fairness of `Shift`). Views need not make a step, for adding needs
nothing of them. Nothing makes a request arrive, a write to a connection end, a client
speak or a client leave.

## Proofs

Each component has its theorems in modules of their own. They hold for every value
of the constants (any chains, users, requests, connections, sizes, integer widths)
that meets the assumption the component's module names. These only keep model values
apart, make sizes naturals where the code has them so, and name one default user and
one MQTT chain; TLC evaluates them in every run. All theorems follow one argument: an
inductive invariant, true initially and kept by every action, implies the property;
TLC checked each invariant on the run's instance before it was proved.

**`RuleStoreProofs`, `RuleStoreContentProofs`** (from `RuleStoreAssumption`).

* `TypeCorrect`: `TypeOK` is inductive. Its last conjunct, that no handler uses an
  engine or bytes it has not got, rests on the nil check after Pool.Get.
* `PresenceCorrect`: `PresenceAgrees` speaks of quiet moments only. `PresenceInv`
  adds what holds in between: a delete that overlaps nothing is alone on its chain
  (`DeleteInv`); a save that has its engine still finds it in the pool, and its file
  (`SaveInv`); pool and directory differ only inside a delete or before the engine's
  creator has opened the file (`FileInv`); steps belong to operations (`OpInv`); node
  documents come from node saves only (`NodeInv`).
* `ContentCorrect`, `LoadCorrect`, `RunsCorrect`, `NamedCorrect`, `AckCorrect` rest on
  `StoreInv`, `NamedCorrect` also on `NamedInv`: without overlaps, and with no save in
  flight, the definition of a chain saved in this process names its user. `StoreInv`
  says which step belongs to which operation (`PathInv`), that chains share no engine
  (`OwnerInv`), that documents are made of parts of requests already made (`KnownInv`),
  where the run logs of a quiet chain may be (`RunsInv`), and of each chain `DocInv`:
  without overlaps one save at most is in flight and what it was sent is in the
  definition, then in its bytes (`AloneInv`); memory and file differ only between its
  edit and its write (`ContentInv`); nothing the loader refuses is on its way to the
  file (`LoadInv`). `DocElsewhere` shows that a step leaves the other chains alone;
  the lemmas `Save…` take the actions of a save one by one.

**`UserEnginesProofs`** (from `UserEnginesAssumption`): `TypeCorrect`,
`OneServiceCorrect`, `LoadsCorrect`, `RegisteredCorrect`, `RestartCorrect`. The
strengthening says who owns a service (`OwnInv`), that an unregistered service is one a
first request is building (`FirstInv`, `BuildInv`), that pool and directory of a
registered service differ by the saves under way and those that failed (`ServiceInv`,
`FileInv`), and which writes a file that does not load is owed to.

**`DebugDataProofs`** (from `DebugDataAssumption`): `TypeCorrect`, `BoundCorrect`,
`LatestCorrect`. `TypeOK` alone is not inductive: that a sort in place leaves no empty
slot in the queue needs `FilledIn` of the slices being sorted, which may lie in an array
the queue has left, and that the item a swap holds aside is one (`HoleIn`, both in
`MemInv`). `QueueBounded` needs that only the lock's holder is between the halves of
Push, and has room (`LockInv`). `QuietPageCorrect` follows a view that nothing raced
with from the items it found through the sort to the cut (`QuietAt`): in the middle of a
swap its slice is whole only with the item held aside (`Whole`); what an array holds has
its time stamp for good (`StampInv`).

**`RunLogsProofs`** (from `RunLogsAssumption`): `TypeCorrect`, `KeptCorrect`,
`TornCorrect`, `DeleteCorrect`, `ListCorrect` and the refinement `BookCorrect`. `LogInv`
says where each log is at every system call: `KeptAt` the directory, the truncated file
and the log of each step of SaveRunLog; `ScopeInv` that a delete works only on names it
covers; `OwedAt` that a log a delete owes is where the delete has yet to come;
`FoundInv` the same of a list and what it has to find. `QuietListCorrect` adds the page:
with nothing overlapping, what the list found stays on disk and whole (`Settled`), and
what it has read and has yet to read is at its positions (`PageAt`, by `Position` of
`PageProofs`), which are counted in finite sets (`FiniteInv`). For `BookCorrect` every
action is mapped: MakeDirs is `Begin`, WriteLog `Keep` or `Vanish`, SaveFails `Fail`,
OpenLog and Unlink `Vanish` or a stutter, StartDel `Ask`, the last RmDir or RmRoot
`Finish`, Crash `Crash`, and all steps of a list stutter. The proof of RmDir failed once
for a reason: two guards of a CASE overlapped, so that what the model said depended on a
choice; the guards are now exclusive, as the code's branches are.

**`DebugObserversProofs`** (from `DebugObserversAssumption`): `TypeCorrect`,
`GhostFree`, `ServedCorrect`, `SentCorrect`, `RawCorrect`, `EventsCorrect`. `NoGhost` and
`OneIsServed` are inductive only together with `RegInv` (a registration is under the
client id of its connection, in a service that connection has looked up); `FlightInv`
says that an event is on its way to a connection, or there, in one form at most.

**`FileStorageProofs`** (from `FileStorageAssumption`): `TypeCorrect`, `QuietCorrect`,
`LoginCorrect`, `StoredCorrect`, although the lock does not cover the edits: an edit
that a write under way missed belongs to a request that has yet to write. For
`LoginCorrect` every value in memory, in a file and in the bytes being written is one
that some request gave the user, or a beginning of one.

**Only model-checked**: the liveness property `AddsReturn`, for liveness under fairness
is out of the prover's reach. That a view ends is not stated: what follows its look-up
takes no lock.

## Not modelled

* Workflow storage (`dao/workflow.go`): nothing calls it, so there is no caller to
  take the order and the concurrency of its operations from.
* FileStorageManager: nothing makes one; the variable for it is commented out
  (`file_storage.go:81`). The user storage itself is built at start-up but no route
  calls it; the models let any of its operations run concurrently, as a route would.
* Debug data's Clear, Pop and Peek have no caller.
* Read-only routes (a chain's definition, lists of chains and components), static
  files, CORS, configuration, flags and logging: no state, or constant after
  start-up.
* "User not found" cannot happen: Get builds a service for any name, and what fails
  in it ends the process.

## Plan

Done: the store, debug data, the registry, run logs, observers, the user file; page
arithmetic at machine width; run logs as an implementation of `LogBook`; proofs of
every safety and action property that the passing runs check. Left:

1. An abstract catalogue of chains (a map that saves and deletes change
   atomically) that `RuleStore`, restricted to requests that do not overlap,
   implements, proved from `StoreInv`.
2. The composition of `RuleStore` with `RunLogs` through Delete.
