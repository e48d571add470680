------------------------------- MODULE LogBook -------------------------------
(***************************************************************************)
(* What the run logs of a user promise, whatever the file system goes      *)
(* through for it: a log is kept from the end of its run until something   *)
(* takes it away for good, and only a delete that covers its name, a run of*)
(* the same name, or the end of the process or an error while it is being  *)
(* saved, does.                                                            *)
(* RunLogs implements this specification.                                  *)
(***************************************************************************)
CONSTANTS
    Runs,       \* executions, each saving one log
    Dels,       \* deletes
    Names,      \* the names logs may be given
    None        \* no name yet

VARIABLES
    name,       \* run -> the name of its log
    book,       \* run -> "none" before the log is saved, then "kept", "gone"
    phase,      \* delete -> "idle", "active", "ok", "failed"
    target,     \* delete -> the names it covers
    owed,       \* delete -> the logs that were kept when it was asked for
    hit,        \* runs that met a delete of their name, saving or saved
    faulty      \* runs whose save met an error

vars == <<name, book, phase, target, owed, hit, faulty>>

Saving == {r \in Runs : name[r] # None /\ book[r] = "none"}
Kept == {r \in Runs : book[r] = "kept"}
Named(T) == {r \in Runs : name[r] # None /\ name[r] \in T}
Twins(r) == {q \in Runs \ {r} : name[q] # None /\ name[q] = name[r]}
Active == {d \in Dels : phase[d] = "active"}

Init ==
    /\ name = [r \in Runs |-> None]
    /\ book = [r \in Runs |-> "none"]
    /\ phase = [d \in Dels |-> "idle"]
    /\ target = [d \in Dels |-> {}]
    /\ owed = [d \in Dels |-> {}]
    /\ hit = {}
    /\ faulty = {}

(* A run has ended and its log is given a name.                            *)
Begin(r) ==
    /\ name[r] = None
    /\ \E n \in Names :
          /\ name' = [name EXCEPT ![r] = n]
          /\ hit' = hit \cup {q \in {r} : \E d \in Active : n \in target[d]}
    /\ faulty' \in {faulty, faulty \cup {r}}
    /\ UNCHANGED <<book, phase, target, owed>>

(* The log is complete, in the place of any other of its name.             *)
Keep(r) ==
    /\ r \in Saving
    /\ book' = [q \in Runs |-> IF q = r THEN "kept"
                               ELSE IF q \in Twins(r) \cap Kept THEN "gone"
                               ELSE book[q]]
    /\ UNCHANGED <<name, phase, target, owed, hit, faulty>>

(* The save fails: the log goes, and with it some of its name.             *)
Fail(r) ==
    /\ r \in Saving
    /\ \E S \in SUBSET (Twins(r) \cap Kept) :
          book' = [q \in Runs |-> IF q \in S \cup {r} THEN "gone" ELSE book[q]]
    /\ faulty' = faulty \cup {r}
    /\ UNCHANGED <<name, phase, target, owed, hit>>

(* Logs go: those being saved if they met a delete or an error, those that *)
(* are kept if a delete is at work on their name, any whose name another   *)
(* run has.                                                                *)
Vanish(S) ==
    /\ \A r \in S :
          \/ r \in Saving \cap (hit \cup faulty)
          \/ r \in Kept /\ \E d \in Active : name[r] \in target[d]
          \/ r \in Saving \cup Kept /\ Twins(r) # {}
    /\ book' = [r \in Runs |-> IF r \in S THEN "gone" ELSE book[r]]
    /\ UNCHANGED <<name, phase, target, owed, hit, faulty>>

Ask(d, T) ==
    /\ phase[d] = "idle"
    /\ phase' = [phase EXCEPT ![d] = "active"]
    /\ target' = [target EXCEPT ![d] = T]
    /\ owed' = [owed EXCEPT ![d] = Named(T) \cap Kept]
    /\ hit' = hit \cup Named(T)
    /\ UNCHANGED <<name, book, faulty>>

(* A delete may fail, but is OK only when all it owed is gone.             *)
Finish(d) ==
    /\ d \in Active
    /\ \/ phase' = [phase EXCEPT ![d] = "ok"] /\ owed[d] \cap Kept = {}
       \/ phase' = [phase EXCEPT ![d] = "failed"]
    /\ UNCHANGED <<name, book, target, owed, hit, faulty>>

(* The process ends, and with it what it was doing; logs are kept.         *)
Crash ==
    /\ book' = [r \in Runs |-> IF r \in Saving THEN "gone" ELSE book[r]]
    /\ phase' = [d \in Dels |-> IF d \in Active THEN "failed" ELSE phase[d]]
    /\ UNCHANGED <<name, target, owed, hit, faulty>>

Next ==
    \/ \E S \in SUBSET Runs : Vanish(S)
    \/ \E r \in Runs : Begin(r) \/ Keep(r) \/ Fail(r)
    \/ \E d \in Dels : Finish(d) \/ \E T \in SUBSET Names : Ask(d, T)
    \/ Crash

Spec == Init /\ [][Next]_vars
=============================================================================
