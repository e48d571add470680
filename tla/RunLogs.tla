------------------------------ MODULE RunLogs ------------------------------
(***************************************************************************)
(* The run logs of one user: EventDao (internal/dao/event.go) behind       *)
(* GET and DELETE /event/runs (internal/controller/event.go), the          *)
(* completion callbacks of executions (internal/controller/rule.go) and    *)
(* the deletion of a chain (engine.go). All state is in the directory tree *)
(* runs/<chainId>/<id>, which the requests change one system call at a     *)
(* time with no lock between them; the process may end at any point.       *)
(***************************************************************************)
EXTENDS Integers, Sequences, FiniteSets, Functions, SequencesExt, GoInt

CONSTANTS
    Chains,     \* rule-chain ids
    All,        \* chainId "", which stands for the directory runs/ itself
    Runs,       \* executions, each completing once
    Msgs,       \* message ids; a client may choose them (msgId)
    Lists,      \* GET requests
    Dels,       \* DELETE requests, and deletions of chains
    MaxSec,     \* bound on the seconds that pass
    MaxFaults,  \* bound on errors and ends of the process together
    Bits,       \* the width of Go's int
    Asks,       \* the <<pageSize, current>> pairs asked for
    Torn,       \* a log that is not completely written
    None        \* no id

Ids == [chain: Chains, sec: 0..MaxSec, msg: Msgs]

ASSUME RunLogsAssumption ==
    /\ All \notin Chains
    /\ Torn \notin Runs
    /\ MaxSec \in Nat /\ MaxFaults \in Nat
    /\ Bits \in Nat \ {0} /\ Asks \subseteq GoInts(Bits) \X GoInts(Bits)
    /\ None \notin Ids

VARIABLES
    now,        \* the clock, in the seconds that a run saw pass
    dirs,       \* the directories that exist: All, and chains below it
    files,      \* the logs that exist: id -> the run it holds, or Torn
    rpc,        \* run -> the next step of SaveRunLog
    id,         \* run -> the name of its log
    lpc,        \* list -> the next step of its handler
    list,       \* list -> its local state
    dpc,        \* delete -> the next step of its handler
    del,        \* delete -> its local state
    hit,        \* history: runs a delete covered while it was at work
    faulty,     \* history: runs an error of the file system or of json met
    crashed     \* history: the process has ended at least once

vars == <<now, dirs, files, rpc, id, lpc, list, dpc, del, hit, faulty, crashed>>

Scope(c) == IF c = All THEN Chains ELSE {c}
In(c) == {f \in DOMAIN files : f.chain \in Scope(c)}
Below(c) == IF c = All THEN dirs \ {All} ELSE {c}
Put(f, content) == [g \in DOMAIN files \cup {f} |->
                       IF g = f THEN content ELSE files[g]]

(* todo, names: the directories and files the walk has yet to visit; found:*)
(* the files it collected. As history, of a list the logs that existed at  *)
(* the start, and whether saves or deletes overlapped, and of a delete the *)
(* names it covers and the runs whose logs it has to remove.               *)
NoList == [chain |-> All, size |-> 0, current |-> 0, todo |-> {},
           names |-> {}, found |-> {}, total |-> 0, page |-> <<>>,
           data |-> <<>>, known |-> {}, saves |-> FALSE, dels |-> FALSE]
NoDel == [chain |-> All, id |-> None, todo |-> {}, dir |-> All,
          names |-> {}, target |-> {}, doomed |-> {}]

Walking == {l \in Lists : lpc[l] \in {"root", "walk", "read"}}
SawSave == [l \in Lists |-> [list[l] EXCEPT !.saves = @ \/ l \in Walking]]
SawDel == [l \in Lists |-> [list[l] EXCEPT !.dels = @ \/ l \in Walking]]
Deleting == {"root", "dir", "unlink"}
Named(T) == {r \in Runs : id[r] # None /\ id[r] \in T}
Has(r) == id[r] \in DOMAIN files /\ files[id[r]] = r

(* Of the next state: no more has gone wrong than the bound allows.        *)
WithinBound == Cardinality(faulty') + (IF crashed' THEN 1 ELSE 0) <= MaxFaults

Init ==
    /\ now = 0
    /\ dirs = {}
    /\ files = << >>
    /\ rpc = [r \in Runs |-> "idle"]
    /\ id = [r \in Runs |-> None]
    /\ lpc = [l \in Lists |-> "idle"]
    /\ list = [l \in Lists |-> NoList]
    /\ dpc = [d \in Dels |-> "idle"]
    /\ del = [d \in Dels |-> NoDel]
    /\ hit = {}
    /\ faulty = {}
    /\ crashed = FALSE

-----------------------------------------------------------------------------
(* Faulty variants of definitions below, one for each property they break. *)

(* TypeOK: the log is created whether its directory still exists or not.   *)
OpenLogAnywhere(r) ==
    /\ rpc[r] = "open"
    /\ files' = Put(id[r], Torn)
    /\ rpc' = [rpc EXCEPT ![r] = "write"]
    /\ list' = SawSave
    /\ UNCHANGED <<now, dirs, id, lpc, dpc, del, hit, faulty, crashed>>

(* TornHasCause: a short write goes unnoticed.                             *)
WriteLogShort(r) ==
    /\ rpc[r] = "write"
    /\ rpc' = [rpc EXCEPT ![r] = "saved"]
    /\ list' = SawSave
    /\ UNCHANGED <<now, dirs, files, id, lpc, dpc, del, hit, faulty, crashed>>

(* ListMissesNothing: the last file visited replaces the others.           *)
VisitFileLast(l) ==
    /\ lpc[l] = "walk"
    /\ \E f \in list[l].names :
          list' = [list EXCEPT ![l].found = {f}, ![l].names = @ \ {f}]
    /\ UNCHANGED <<now, dirs, files, rpc, id, lpc, dpc, del, hit, faulty, crashed>>

(* QuietListIsExact: the files stay in the order of the walk.              *)
UnsortedLogs(S) == SetToSeqs(S)

(* LogsKept: deleting the logs of a chain deletes all logs.                *)
DelRootAll(d) ==
    /\ dpc[d] = "root"
    /\ del' = [del EXCEPT ![d].todo = dirs \ {All}]
    /\ dpc' = [dpc EXCEPT ![d] = "dir"]
    /\ UNCHANGED <<now, dirs, files, rpc, id, lpc, list, hit, faulty, crashed>>

(* KeepsTheBook: deleting one log removes its directory, as if it were the *)
(* last.                                                                   *)
RmDirOfLog(d) ==
    /\ dpc[d] = "unlink" /\ del[d].names = {}
    /\ dirs' = dirs \ {del[d].dir}
    /\ files' = Restrict(files, DOMAIN files \ In(del[d].dir))
    /\ dpc' = [dpc EXCEPT ![d] = IF del[d].chain = All THEN "dir" ELSE "ok"]
    /\ list' = SawDel
    /\ UNCHANGED <<now, rpc, id, lpc, del, hit, faulty, crashed>>

(* DeleteIsComplete: the path names nothing, which is no error.            *)
DelRootMissed(d) ==
    /\ dpc[d] = "root"
    /\ dpc' = [dpc EXCEPT ![d] = "dir"]
    /\ UNCHANGED <<now, dirs, files, rpc, id, lpc, list, del, hit, faulty, crashed>>

-----------------------------------------------------------------------------
(* SaveRunLog: the directories are made, as far as they can be (the error  *)
(* is dropped), and the log is named after the second (the layout's last   *)
(* 000 is literal) and the message id ...                                  *)
MakeDirs(r, c, m) ==
    /\ rpc[r] = "idle"
    /\ \E made \in {{}, {All}, {All, c}} : dirs' = dirs \cup made
    /\ faulty' = faulty \cup {q \in {r} : c \notin dirs'}
    /\ now' \in {now, now + 1} \cap 0..MaxSec
    /\ id' = [id EXCEPT ![r] = [chain |-> c, sec |-> now', msg |-> m]]
    /\ rpc' = [rpc EXCEPT ![r] = "open"]
    /\ list' = SawSave
    /\ hit' = hit \cup {q \in {r} : \E d \in Dels :
                            dpc[d] \in Deleting /\ id'[r] \in del[d].target}
    /\ UNCHANGED <<files, lpc, dpc, del, crashed>>
    /\ WithinBound

(* ... the file is created, or truncated if it exists, unless there is no  *)
(* directory, which a delete may have removed again: the error is logged   *)
(* and the log lost ...                                                    *)
OpenLog(r) ==
    /\ rpc[r] = "open"
    /\ IF id[r].chain \in dirs
       THEN /\ files' = Put(id[r], Torn)
            /\ rpc' = [rpc EXCEPT ![r] = "write"]
       ELSE /\ rpc' = [rpc EXCEPT ![r] = "lost"]
            /\ UNCHANGED files
    /\ list' = SawSave
    /\ UNCHANGED <<now, dirs, id, lpc, dpc, del, hit, faulty, crashed>>

(* ... and written. What is written to a file removed meanwhile is lost,   *)
(* and over the bytes of another run a tail of the longer may be left.     *)
WriteLog(r) ==
    /\ rpc[r] = "write"
    /\ IF id[r] \in DOMAIN files
       THEN \E content \in {r} \cup {t \in {Torn} : files[id[r]] # Torn} :
               files' = Put(id[r], content)
       ELSE UNCHANGED files
    /\ rpc' = [rpc EXCEPT ![r] = "saved"]
    /\ list' = SawSave
    /\ UNCHANGED <<now, dirs, id, lpc, dpc, del, hit, faulty, crashed>>

(* The snapshot does not marshal, the file does not open (a message id may *)
(* hold a slash), or the write ends after none or some of the bytes. The   *)
(* error is logged, the log is lost, and what was written stays.           *)
SaveFails(r) ==
    /\ \/ rpc[r] = "open" /\ UNCHANGED files
       \/ /\ rpc[r] = "write"
          /\ \/ UNCHANGED files
             \/ id[r] \in DOMAIN files /\ files' = Put(id[r], Torn)
    /\ rpc' = [rpc EXCEPT ![r] = "lost"]
    /\ faulty' = faulty \cup {r}
    /\ list' = SawSave
    /\ UNCHANGED <<now, dirs, id, lpc, dpc, del, hit, crashed>>
    /\ WithinBound

-----------------------------------------------------------------------------
StartList(l, c) ==
    /\ lpc[l] = "idle"
    /\ lpc' = [lpc EXCEPT ![l] = "root"]
    /\ list' = [list EXCEPT ![l] =
                  [NoList EXCEPT !.chain = c,
                                 !.known = In(c),
                                 !.saves = Range(rpc) \cap {"open", "write"} # {},
                                 !.dels = Range(dpc) \cap Deleting # {}]]
    /\ UNCHANGED <<now, dirs, files, rpc, id, dpc, del, hit, faulty, crashed>>

(* filepath.Walk: any entry that vanishes before it is visited makes visit *)
(* give up, and List answers that there are no logs, with no error.        *)
GiveUp(l) ==
    /\ lpc' = [lpc EXCEPT ![l] = "ok"]
    /\ UNCHANGED list

OpenRoot(l) ==
    /\ lpc[l] = "root"
    /\ IF list[l].chain \in dirs
       THEN /\ lpc' = [lpc EXCEPT ![l] = "walk"]
            /\ list' = [list EXCEPT ![l].todo = Below(list[l].chain)]
       ELSE GiveUp(l)
    /\ UNCHANGED <<now, dirs, files, rpc, id, dpc, del, hit, faulty, crashed>>

ReadDir(l) ==
    /\ lpc[l] = "walk" /\ list[l].names = {}
    /\ \E c \in list[l].todo :
          IF c \in dirs
          THEN /\ list' = [list EXCEPT ![l].todo = @ \ {c}, ![l].names = In(c)]
               /\ UNCHANGED lpc
          ELSE GiveUp(l)
    /\ UNCHANGED <<now, dirs, files, rpc, id, dpc, del, hit, faulty, crashed>>

VisitFile(l) ==
    /\ lpc[l] = "walk"
    /\ \E f \in list[l].names :
          IF f \in DOMAIN files
          THEN /\ list' = [list EXCEPT ![l].found = @ \cup {f},
                                       ![l].names = @ \ {f}]
               /\ UNCHANGED lpc
          ELSE GiveUp(l)
    /\ UNCHANGED <<now, dirs, files, rpc, id, dpc, del, hit, faulty, crashed>>

(* SortFilesByTimestamp: latest first, to the second; within a second in   *)
(* some order (the code's is a function of the names, left open here).     *)
LatestFirst(s) == \A i, j \in DOMAIN s : i < j => s[i].sec >= s[j].sec
SortedLogs(S) == {s \in SetToSeqs(S) : LatestFirst(s)}

(* The page asked for (picked here, where it is first used). One that      *)
(* begins past the last log, or before the first, is an invalid slice: the *)
(* handler panics. (GetToPage answers those.)                              *)
PageFrom(size, current) == Wrap((current - 1) * size, Bits)
PageTo(size, current, n) ==
    LET end == Wrap(PageFrom(size, current) + size, Bits)
    IN  IF end > n THEN n ELSE end

SortAndCut(l) ==
    /\ lpc[l] = "walk" /\ list[l].todo = {} /\ list[l].names = {}
    /\ \E ask \in Asks, s \in SortedLogs(list[l].found) :
          LET n == Len(s)
              from == PageFrom(ask[1], ask[2])
              to == PageTo(ask[1], ask[2], n)
              valid == from \in 0..to
          IN  /\ list' = [list EXCEPT ![l].size = ask[1], ![l].current = ask[2],
                   ![l].total = n,
                   ![l].page = IF valid THEN SubSeq(s, from + 1, to) ELSE <<>>]
              /\ lpc' = [lpc EXCEPT ![l] = IF valid THEN "read" ELSE "panic"]
    /\ UNCHANGED <<now, dirs, files, rpc, id, dpc, del, hit, faulty, crashed>>

(* Get asks for one log by its id; the client has seen it in a list.       *)
StartGet(l, r) ==
    /\ lpc[l] = "idle" /\ id[r] # None
    /\ lpc' = [lpc EXCEPT ![l] = "read"]
    /\ list' = [list EXCEPT ![l] = [NoList EXCEPT !.chain = id[r].chain,
                                                  !.page = <<id[r]>>]]
    /\ UNCHANGED <<now, dirs, files, rpc, id, dpc, del, hit, faulty, crashed>>

(* The logs of the page are read one after another; one that is gone or    *)
(* does not parse makes the whole answer an error (404).                   *)
ReadLog(l) ==
    /\ lpc[l] = "read"
    /\ IF list[l].page = <<>>
       THEN lpc' = [lpc EXCEPT ![l] = "ok"] /\ UNCHANGED list
       ELSE LET f == Head(list[l].page)
            IN  IF f \in DOMAIN files /\ files[f] # Torn
                THEN /\ list' = [list EXCEPT ![l].data = Append(@, files[f]),
                                             ![l].page = Tail(@)]
                     /\ UNCHANGED lpc
                ELSE lpc' = [lpc EXCEPT ![l] = "err"] /\ UNCHANGED list
    /\ UNCHANGED <<now, dirs, files, rpc, id, dpc, del, hit, faulty, crashed>>

-----------------------------------------------------------------------------
(* Delete, DeleteByChainId: os.RemoveAll of a log, of a chain's directory  *)
(* or, with neither id, of runs/. An id goes with any chainId: without one *)
(* it names nothing (or, if it is a chain's, that chain's directory, which *)
(* is StartDel(d, c, None)), with another than its own the log of its name *)
(* there. The history notes what must go.                                  *)
Covered(c, f) == {g \in Ids : IF f = None THEN g.chain \in Scope(c)
                             ELSE g = [f EXCEPT !.chain = c]}

StartDel(d, c, f) ==
    /\ dpc[d] = "idle"
    /\ dpc' = [dpc EXCEPT ![d] = IF f # None THEN "unlink" ELSE "root"]
    /\ LET target == Covered(c, f)
       IN  /\ del' = [del EXCEPT ![d] =
                        [NoDel EXCEPT !.chain = c, !.id = f, !.dir = c,
                           !.names = {g \in target : f # None}, !.target = target,
                           !.doomed = Named(target) \cap Range(files)]]
           /\ hit' = hit \cup Named(target)
    /\ UNCHANGED <<now, dirs, files, rpc, id, lpc, list, faulty, crashed>>

(* External (os.RemoveAll): the names of a directory are read ...          *)
DelRoot(d) ==
    /\ dpc[d] = "root"
    /\ del' = [del EXCEPT ![d].todo = Below(del[d].chain) \cap dirs]
    /\ dpc' = [dpc EXCEPT ![d] = "dir"]
    /\ UNCHANGED <<now, dirs, files, rpc, id, lpc, list, hit, faulty, crashed>>

DelReadDir(d) ==
    /\ dpc[d] = "dir"
    /\ \E c \in del[d].todo :
          del' = [del EXCEPT ![d].todo = @ \ {c}, ![d].dir = c,
                             ![d].names = In(c)]
    /\ dpc' = [dpc EXCEPT ![d] = "unlink"]
    /\ UNCHANGED <<now, dirs, files, rpc, id, lpc, list, hit, faulty, crashed>>

(* ... each is removed, one that has gone already being no error ...       *)
Unlink(d) ==
    /\ dpc[d] = "unlink"
    /\ \E f \in del[d].names :
          /\ files' = Restrict(files, DOMAIN files \ {f})
          /\ del' = [del EXCEPT ![d].names = @ \ {f}]
    /\ list' = SawDel
    /\ UNCHANGED <<now, dirs, rpc, id, lpc, dpc, hit, faulty, crashed>>

(* ... and the directory with them, if it is still empty. An error below   *)
(* runs/ does not end the walk, but then runs/ cannot be removed either.   *)
RmDir(d) ==
    /\ dpc[d] = "unlink" /\ del[d].names = {}
    /\ IF del[d].id # None \/ In(del[d].dir) # {}
       THEN UNCHANGED dirs
       ELSE dirs' = dirs \ {del[d].dir}
    /\ dpc' = [dpc EXCEPT ![d] =
                 IF del[d].id = None /\ del[d].chain = All THEN "dir"
                 ELSE IF del[d].id # None \/ In(del[d].dir) = {} THEN "ok"
                 ELSE "err"]
    /\ list' = SawDel
    /\ UNCHANGED <<now, files, rpc, id, lpc, del, hit, faulty, crashed>>

RmRoot(d) ==
    /\ dpc[d] = "dir" /\ del[d].todo = {}
    /\ IF del[d].chain = All
       THEN IF dirs \subseteq {All}
            THEN dirs' = {} /\ dpc' = [dpc EXCEPT ![d] = "ok"]
            ELSE dpc' = [dpc EXCEPT ![d] = "err"] /\ UNCHANGED dirs
       ELSE dpc' = [dpc EXCEPT ![d] = "ok"] /\ UNCHANGED dirs
    /\ list' = SawDel
    /\ UNCHANGED <<now, files, rpc, id, lpc, del, hit, faulty, crashed>>

-----------------------------------------------------------------------------
(* The process ends (once, to bound the instance); its requests end with   *)
(* it, the tree stays as it is.                                            *)
Crash ==
    /\ ~crashed
    /\ crashed' = TRUE
    /\ rpc' = [r \in Runs |-> IF rpc[r] \in {"open", "write"} THEN "lost" ELSE rpc[r]]
    /\ lpc' = [l \in Lists |-> IF l \in Walking THEN "lost" ELSE lpc[l]]
    /\ dpc' = [d \in Dels |-> IF dpc[d] \in Deleting THEN "lost" ELSE dpc[d]]
    /\ <<rpc', lpc', dpc'>> # <<rpc, lpc, dpc>>
    /\ list' = [l \in Lists |-> IF l \in Walking THEN NoList ELSE list[l]]
    /\ UNCHANGED <<now, dirs, files, id, del, hit, faulty>>
    /\ WithinBound

SaveRunLog(r) ==
    \/ \E c \in Chains, m \in Msgs : MakeDirs(r, c, m)
    \/ OpenLog(r) \/ WriteLog(r) \/ SaveFails(r)
List(l) ==
    \/ \E c \in Chains \cup {All} : StartList(l, c)
    \/ \E r \in Runs : StartGet(l, r)
    \/ OpenRoot(l) \/ ReadDir(l) \/ VisitFile(l) \/ SortAndCut(l) \/ ReadLog(l)
Delete(d) ==
    \/ \E c \in Chains \cup {All} :
          \/ StartDel(d, c, None)
          \/ \E r \in Runs : id[r] # None /\ StartDel(d, c, id[r])
    \/ DelRoot(d) \/ DelReadDir(d) \/ Unlink(d) \/ RmDir(d) \/ RmRoot(d)

Next ==
    \/ \E r \in Runs : SaveRunLog(r)
    \/ \E l \in Lists : List(l)
    \/ \E d \in Dels : Delete(d)
    \/ Crash

Spec == Init /\ [][Next]_vars

-----------------------------------------------------------------------------
(* Values have their types and the tree is one: a log has its directory.   *)
TypeOK ==
    /\ now \in 0..MaxSec
    /\ dirs \subseteq Chains \cup {All}
    /\ dirs # {} => All \in dirs
    /\ DOMAIN files \subseteq Ids /\ Range(files) \subseteq Runs \cup {Torn}
    /\ \A f \in DOMAIN files : f.chain \in dirs
    /\ rpc \in [Runs -> {"idle", "open", "write", "saved", "lost"}]
    /\ \A r \in Runs : id[r] \in Ids \cup {None}
    /\ lpc \in [Lists -> {"idle", "root", "walk", "read", "ok", "err",
                          "panic", "lost"}]
    /\ dpc \in [Dels -> {"idle", "root", "dir", "unlink", "ok", "err", "lost"}]
    /\ hit \cup faulty \subseteq {r \in Runs : id[r] # None}

(* Every run that completed has its log, complete, unless the process ended*)
(* once, its own save met an error, a delete covered it that was not over  *)
(* when the run ended, or a run of the same chain with the same message id *)
(* ended in the same second. The saves of others, failing or not, and the  *)
(* deletes of other logs do it no harm.                                    *)
Twins(r) == {q \in Runs \ {r} : id[q] = id[r]}

LogsKept ==
    \A r \in Runs :
        /\ rpc[r] \in {"saved", "lost"} /\ ~crashed
        /\ Twins(r) = {} /\ r \notin hit \cup faulty
        => Has(r)

(* A delete that was answered OK has removed every log that was complete   *)
(* when it was asked for, also when saves and deletes ran between its      *)
(* system calls, and none of them comes back.                              *)
DeleteIsComplete ==
    \A d \in Dels : dpc[d] = "ok" => Range(files) \cap del[d].doomed = {}

(* A list that no delete overlapped has found every log that existed when  *)
(* it was asked for, whatever was saved while it walked.                   *)
ListMissesNothing ==
    \A l \in Lists :
        lpc[l] \in {"read", "ok"} /\ ~list[l].dels => list[l].known \subseteq list[l].found

(* A list that nothing overlapped, with no damaged logs around, answers the*)
(* runs at the positions of its page, the latest first; it panics for a    *)
(* page outside the list and fails for no other reason.                    *)
Before(S, f) == {g \in S : g.sec > f.sec}
NotAfter(S, f) == {g \in S : g.sec >= f.sec}

QuietListIsExact ==
    \A l \in Lists :
        /\ lpc[l] \in {"ok", "err", "panic"} /\ list[l].found # {}
        /\ ~list[l].saves /\ ~list[l].dels /\ ~crashed /\ faulty = {}
        /\ list[l].size >= 0 /\ Fits((list[l].current - 1) * list[l].size, Bits)
        /\ Fits(list[l].current * list[l].size, Bits)
        /\ \A r \in Runs : id[r] # None => Twins(r) = {}
        => LET n == Cardinality(list[l].found)
               first == (list[l].current - 1) * list[l].size
               left == IF list[l].size < n - first THEN list[l].size ELSE n - first
           IN  /\ lpc[l] = "panic" <=> first < 0 \/ first > n
               /\ lpc[l] # "err"
               /\ lpc[l] = "ok" =>
                    /\ list[l].total = n
                    /\ Len(list[l].data) = left
                    /\ \A i \in DOMAIN list[l].data :
                          LET f == id[list[l].data[i]]
                          IN  /\ Cardinality(Before(list[l].found, f)) < first + i
                              /\ Cardinality(NotAfter(list[l].found, f)) >= first + i

(* The tree, with everything that can happen to it between two system      *)
(* calls, keeps what LogBook promises of the logs and of the deletes.      *)
BookOf(r) == CASE Has(r) -> "kept"
               [] ~Has(r) /\ rpc[r] \in {"saved", "lost"} -> "gone"
               [] OTHER -> "none"
PhaseOf(d) == CASE dpc[d] \in Deleting -> "active"
                [] dpc[d] \in {"idle", "ok"} -> dpc[d]
                [] OTHER -> "failed"

Book == INSTANCE LogBook WITH
    Names <- Ids,
    name <- id,
    book <- [r \in Runs |-> BookOf(r)],
    phase <- [d \in Dels |-> PhaseOf(d)],
    target <- [d \in Dels |-> del[d].target],
    owed <- [d \in Dels |-> del[d].doomed]

KeepsTheBook == Book!Spec

(* A log that does not parse, which makes every list of its page fail until*)
(* it is deleted, is being written, or is owed to the end of the process,  *)
(* to twin runs or to a write of its own run that failed.                  *)
TornHasCause ==
    \A f \in DOMAIN files :
        files[f] = Torn =>
            \/ crashed
            \/ \E r \in Runs : id[r] = f /\ (rpc[r] = "write" \/ r \in faulty \/ Twins(r) # {})
=============================================================================
