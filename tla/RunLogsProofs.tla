---------------------------- MODULE RunLogsProofs ----------------------------
(***************************************************************************)
(* Theorems about RunLogs, for any chains, runs, message ids, requests and *)
(* crashes: TypeCorrect, KeptCorrect, TornCorrect, DeleteCorrect,          *)
(* ListCorrect, QuietListCorrect, and BookCorrect, that the tree implements*)
(* LogBook.                                                                *)
(***************************************************************************)
EXTENDS RunLogs, PageProofs, TLAPS

(* The tree and the control of the requests.                               *)
TreeInv ==
    /\ now \in 0..MaxSec
    /\ dirs \subseteq Chains \cup {All}
    /\ dirs # {} => All \in dirs
    /\ DOMAIN files \subseteq Ids /\ Range(files) \subseteq Runs \cup {Torn}
    /\ \A f \in DOMAIN files : f.chain \in dirs

CtlInv ==
    /\ rpc \in [Runs -> {"idle", "open", "write", "saved", "lost"}]
    /\ id \in [Runs -> Ids \cup {None}]
    /\ \A r \in Runs : id[r] = None <=> rpc[r] = "idle"
    /\ lpc \in [Lists -> {"idle", "root", "walk", "read", "ok", "err",
                          "panic", "lost"}]
    /\ dpc \in [Dels -> {"idle", "root", "dir", "unlink", "ok", "err", "lost"}]
    /\ hit \cup faulty \subseteq {r \in Runs : id[r] # None}

(* A delete knows what it covers, and works nowhere else.                  *)
DelRecs == [chain: Chains \cup {All}, id: Ids \cup {None}, todo: SUBSET Chains,
            dir: Chains \cup {All}, names: SUBSET Ids, target: SUBSET Ids,
            doomed: SUBSET Runs]

ScopeInv(d) ==
    LET e == del[d]
    IN  /\ e.target = Covered(e.chain, e.id)
        /\ e.names \subseteq e.target
        /\ e.todo \subseteq Scope(e.chain)
        /\ dpc[d] \in {"root", "dir"} => e.id = None
        /\ dpc[d] = "unlink" =>
              /\ e.id = None => e.dir \in Scope(e.chain)
              /\ e.id # None \/ e.chain # All => e.todo = {}

DelInv ==
    /\ del \in [Dels -> DelRecs]
    /\ \A d \in Dels : dpc[d] \in Deleting => ScopeInv(d)

(* A run that met a delete which covers it is in hit.                      *)
HitInv ==
    \A d \in Dels, r \in Runs :
        dpc[d] \in Deleting /\ id[r] \in del[d].target => r \in hit

(* A log in the tree is that of a run of its name, and complete.           *)
HoldsInv ==
    \A f \in DOMAIN files : files[f] # Torn => id[files[f]] = f /\ rpc[files[f]] = "saved"

(* The strengthening of LogsKept, at every step of SaveRunLog. (One that   *)
(* only said what has become of a saved log would not be inductive: the    *)
(* directory has to be there when the log is opened, the log when it is    *)
(* written, and only a twin may have written to it before.)                *)
KeptAt(r) ==
    /\ rpc[r] = "open" /\ r \notin hit \cup faulty => id[r].chain \in dirs
    /\ rpc[r] = "write" /\ Twins(r) = {} =>
          /\ r \notin hit => id[r] \in DOMAIN files
          /\ id[r] \in DOMAIN files => files[id[r]] = Torn
    /\ rpc[r] = "saved" /\ Twins(r) = {} /\ r \notin hit => Has(r)
    /\ rpc[r] = "lost" => crashed \/ r \in hit \cup faulty

KeptInv == \A r \in Runs : KeptAt(r)

(* The strengthening of DeleteIsComplete: a log that a delete owes is where*)
(* the delete has not been yet.                                            *)
Ahead(d, f) ==
    \/ dpc[d] = "root"
    \/ dpc[d] = "dir" /\ f.chain \in del[d].todo
    \/ dpc[d] = "unlink" /\ (f \in del[d].names \/ f.chain \in del[d].todo)

OwedAt(d, r) ==
    r \in del[d].doomed =>
        /\ rpc[r] = "saved"
        /\ dpc[d] \in Deleting => id[r] \in del[d].target
        /\ dpc[d] \in Deleting /\ Has(r) => Ahead(d, id[r])
        /\ dpc[d] = "ok" => ~Has(r)

OwedInv == \A d \in Dels, r \in Runs : OwedAt(d, r)

(* The strengthening of ListMissesNothing: what a list has to find is in   *)
(* the tree, and where the walk has not been yet.                          *)
Fields == {"chain", "todo", "names", "found", "known", "dels"}

FoundInv(l) ==
    LET e == list[l]
    IN  /\ lpc[l] \in {"root", "walk"} =>
              /\ e.known \subseteq In(e.chain)
              /\ e.names \subseteq DOMAIN files
              /\ e.todo \subseteq dirs
        /\ lpc[l] = "walk" =>
              \A f \in e.known : \/ f \in e.found \cup e.names
                                 \/ f.chain \in e.todo
        /\ lpc[l] \in {"read", "ok"} => e.known \subseteq e.found

ListInv ==
    /\ list = [l \in Lists |-> list[l]]
    /\ \A l \in Lists : Fields \subseteq DOMAIN list[l]
    /\ \A l \in Lists : ~list[l].dels => FoundInv(l)

LogInv ==
    /\ TreeInv /\ CtlInv /\ DelInv /\ HitInv /\ HoldsInv /\ KeptInv /\ OwedInv
    /\ TornHasCause

-----------------------------------------------------------------------------
(* The tree.                                                               *)

LEMMA PutFacts ==
    ASSUME NEW f, NEW x, files' = Put(f, x)
    PROVE  /\ DOMAIN files' = DOMAIN files \cup {f} /\ files'[f] = x
           /\ \A g \in DOMAIN files \ {f} : files'[g] = files[g]
  BY DEF Put

LEMMA TakeFacts ==
    ASSUME NEW f, files' = Restrict(files, DOMAIN files \ {f})
    PROVE  /\ DOMAIN files' = DOMAIN files \ {f}
           /\ \A g \in DOMAIN files' : files'[g] = files[g]
  BY DEF Restrict

LEMMA IdFacts ==
    ASSUME CtlInv, NEW r \in Runs, rpc[r] # "idle"
    PROVE  /\ id[r] \in Ids /\ id[r] # None
           /\ id[r].chain \in Chains /\ id[r].chain # All
  <1>1. id[r] \in Ids
    BY DEF CtlInv
  <1>2. QED
    BY <1>1, RunLogsAssumption DEF Ids

LEMMA RangeFiles ==
    TreeInv => \A f \in DOMAIN files : /\ files[f] \in Runs \cup {Torn} /\ f \in Ids
                                       /\ f.chain \in Chains \cap dirs
  BY DEF TreeInv, Range, Ids

LEMMA HasFacts ==
    ASSUME TreeInv, HoldsInv, NEW r \in Runs
    PROVE  r \in Range(files) <=> Has(r)
  <1>1. r # Torn
    BY RunLogsAssumption
  <1>2. QED
    BY <1>1 DEF Has, HoldsInv, Range

(* Names are given once, so twins stay twins.                              *)
LEMMA TwinsStay ==
    ASSUME \A q \in Runs : id[q] # None => id'[q] = id[q]
    PROVE  \A q \in Runs : id[q] # None => Twins(q) \subseteq Twins(q)'
  BY DEF Twins

(* A run that does not move keeps KeptAt, if only a delete that it met or a*)
(* twin has touched its log.                                               *)
LEMMA KeptFrame ==
    ASSUME NEW q \in Runs, KeptAt(q), rpc'[q] = rpc[q], id'[q] = id[q],
           Twins(q) \subseteq Twins(q)', q \in hit => q \in hit',
           q \in faulty => q \in faulty', crashed => crashed',
           id[q].chain \in dirs => id[q].chain \in dirs' \/ q \in hit',
           \/ Twins(q)' # {}
           \/ /\ id[q] \in DOMAIN files => id[q] \in DOMAIN files' \/ q \in hit'
              /\ id[q] \in DOMAIN files' =>
                    id[q] \in DOMAIN files /\ files'[id[q]] = files[id[q]]
    PROVE  KeptAt(q)'
  <1>1. rpc[q] = "open" /\ q \notin hit' \cup faulty' => id[q].chain \in dirs'
    BY DEF KeptAt
  <1>2. ASSUME rpc[q] = "write", Twins(q)' = {}
        PROVE  /\ q \notin hit' => id[q] \in DOMAIN files'
               /\ id[q] \in DOMAIN files' => files'[id[q]] = Torn
    BY <1>2 DEF KeptAt
  <1>3. ASSUME rpc[q] = "saved", Twins(q)' = {}, q \notin hit'
        PROVE  id[q] \in DOMAIN files' /\ files'[id[q]] = q
    BY <1>3 DEF KeptAt, Has
  <1>4. rpc[q] = "lost" => crashed' \/ q \in hit' \cup faulty'
    BY DEF KeptAt
  <1>5. QED
    BY <1>1, <1>2, <1>3, <1>4 DEF KeptAt, Has

(* A delete that does not move keeps what it owes, for no log comes back.  *)
LEMMA OwedFrame ==
    ASSUME NEW d \in Dels, NEW r \in Runs, OwedAt(d, r), dpc'[d] = dpc[d],
           del'[d] = del[d], rpc[r] = "saved" => rpc'[r] = "saved" /\ id'[r] = id[r],
           rpc[r] = "saved" /\ Has(r)' => Has(r)
    PROVE  OwedAt(d, r)'
  BY DEF OwedAt, Ahead

-----------------------------------------------------------------------------
(* The steps of SaveRunLog.                                                *)

LEMMA LogMakeDirs ==
    ASSUME LogInv, NEW r \in Runs, NEW c \in Chains, NEW m \in Msgs, MakeDirs(r, c, m)
    PROVE  LogInv'
  <1> USE DEF LogInv
  <1>1. PICK n \in Ids : n.chain = c /\ id' = [id EXCEPT ![r] = n]
    <2>1. [chain |-> c, sec |-> now', msg |-> m] \in Ids
      BY DEF MakeDirs, Ids
    <2>2. QED
      BY <2>1 DEF MakeDirs
  <1>2. /\ n # None /\ id'[r] = n /\ id[r] = None /\ rpc[r] = "idle" /\ rpc'[r] = "open"
        /\ \A q \in Runs \ {r} : id'[q] = id[q] /\ rpc'[q] = rpc[q]
        /\ files' = files /\ dirs \subseteq dirs' /\ dirs' \subseteq dirs \cup {All, c}
        /\ dirs' # {} => dirs # {} \/ All \in dirs'
        /\ faulty \subseteq faulty' /\ faulty' \subseteq faulty \cup {r}
        /\ c \in dirs' \/ r \in faulty'
        /\ dpc' = dpc /\ del' = del /\ lpc' = lpc /\ crashed' = crashed
        /\ hit' = hit \cup {q \in {r} : \E d \in Dels :
                                dpc[d] \in Deleting /\ id'[r] \in del[d].target}
    <2>1. PICK made \in {{}, {All}, {All, c}} : dirs' = dirs \cup made
      BY DEF MakeDirs
    <2>2. n # None /\ c \in {c}
      BY RunLogsAssumption
    <2>3. /\ id'[r] = n /\ id[r] = None /\ rpc[r] = "idle" /\ rpc'[r] = "open"
          /\ \A q \in Runs \ {r} : id'[q] = id[q] /\ rpc'[q] = rpc[q]
      BY <1>1 DEF MakeDirs, CtlInv
    <2>4. /\ dirs \subseteq dirs' /\ dirs' \subseteq dirs \cup {All, c}
          /\ dirs' # {} => dirs # {} \/ All \in dirs'
      BY <2>1
    <2>5. /\ faulty \subseteq faulty' /\ faulty' \subseteq faulty \cup {r}
          /\ c \in dirs' \/ r \in faulty'
      BY DEF MakeDirs
    <2>6. QED
      BY <2>2, <2>3, <2>4, <2>5 DEF MakeDirs
  <1>3. TreeInv'
    BY <1>2, RangeFiles DEF TreeInv, MakeDirs
  <1>4. CtlInv'
    <2>1. /\ rpc' = [rpc EXCEPT ![r] = "open"]
      BY DEF MakeDirs
    <2>2. hit' \cup faulty' \subseteq {q \in Runs : id'[q] # None}
      BY <1>2 DEF CtlInv
    <2>3. QED
      BY <1>1, <1>2, <2>1, <2>2 DEF CtlInv
  <1>5. DelInv'
    BY <1>2 DEF DelInv, ScopeInv
  <1>6. HitInv'
    BY <1>2 DEF HitInv
  <1>7. HoldsInv'
    <2> SUFFICES ASSUME NEW f \in DOMAIN files, files[f] # Torn
                 PROVE  id'[files[f]] = f /\ rpc'[files[f]] = "saved"
      BY <1>2 DEF HoldsInv
    <2>1. files[f] \in Runs /\ id[files[f]] = f /\ rpc[files[f]] = "saved"
      BY RangeFiles DEF HoldsInv
    <2>2. QED
      BY <1>2, <2>1
  <1>8. ASSUME NEW q \in Runs PROVE KeptAt(q)'
    <2>1. CASE q = r
      BY <1>1, <1>2, <2>1 DEF KeptAt
    <2>2. CASE q # r /\ id[q] = None
      BY <1>2, <2>2 DEF KeptAt, CtlInv
    <2>3. CASE q # r /\ id[q] # None
      <3>1. Twins(q) \subseteq Twins(q)'
        BY <1>2, TwinsStay, <2>3
      <3>2. KeptAt(q)
        BY DEF KeptInv
      <3>3. QED
        BY <1>2, <2>3, <3>1, <3>2, KeptFrame
    <2>4. QED
      BY <2>1, <2>2, <2>3
  <1>9. OwedInv'
    <2>1. ASSUME NEW d \in Dels, NEW q \in Runs PROVE OwedAt(d, q)'
      <3>1. rpc[q] = "saved" => rpc'[q] = "saved" /\ id'[q] = id[q]
        BY <1>2
      <3>2. rpc[q] = "saved" /\ Has(q)' => Has(q)
        BY <1>2, <3>1 DEF Has
      <3>3. OwedAt(d, q)
        BY DEF OwedInv
      <3>4. QED
        BY <1>2, <3>1, <3>2, <3>3, OwedFrame
    <2>2. QED
      BY <2>1 DEF OwedInv
  <1>10. TornHasCause'
    <2> SUFFICES ASSUME NEW f \in DOMAIN files, files[f] = Torn, ~crashed
                 PROVE  \E q \in Runs : id'[q] = f /\ (rpc'[q] = "write" \/ q \in faulty' \/ Twins(q)' # {})
      BY <1>2 DEF TornHasCause
    <2>1. PICK q \in Runs : id[q] = f /\ (rpc[q] = "write" \/ q \in faulty \/ Twins(q) # {})
      BY DEF TornHasCause
    <2>2. id[q] # None
      BY <2>1, RangeFiles, RunLogsAssumption
    <2>3. Twins(q) \subseteq Twins(q)'
      BY <1>2, <2>2, TwinsStay
    <2>4. QED
      BY <1>2, <2>1, <2>2, <2>3
  <1>11. QED
    BY <1>3, <1>4, <1>5, <1>6, <1>7, <1>8, <1>9, <1>10 DEF KeptInv

(* What the steps that leave names and deletes alone leave as it is.       *)
LEMMA SameNames ==
    ASSUME DelInv, HitInv, UNCHANGED <<id, dpc, del, hit>>
    PROVE  DelInv' /\ HitInv' /\ \A q \in Runs : Twins(q)' = Twins(q)
  BY DEF DelInv, ScopeInv, HitInv, Twins

LEMMA LogOpenLog ==
    ASSUME LogInv, NEW r \in Runs, OpenLog(r)
    PROVE  LogInv'
  <1> USE DEF LogInv
  <1>1. /\ rpc[r] = "open" /\ rpc'[r] \in {"write", "lost"}
        /\ \A q \in Runs \ {r} : rpc'[q] = rpc[q]
        /\ dirs' = dirs /\ id' = id /\ dpc' = dpc /\ del' = del /\ hit' = hit
        /\ lpc' = lpc /\ crashed' = crashed /\ now' = now /\ faulty' = faulty
    BY DEF OpenLog, CtlInv
  <1>2. /\ id[r] \in Ids /\ id[r] # None
        /\ id[r].chain \in Chains /\ id[r].chain # All
    BY <1>1, IdFacts
  <1>3. DelInv' /\ HitInv' /\ \A q \in Runs : Twins(q)' = Twins(q)
    BY <1>1, SameNames
  <1>4. CtlInv'
    BY <1>1, <1>2 DEF CtlInv, OpenLog
  <1>5. \A q \in Runs : q # Torn
    BY RunLogsAssumption
  <1>6. CASE id[r].chain \in dirs
    <2>1. files' = Put(id[r], Torn) /\ rpc'[r] = "write"
      BY <1>1, <1>6 DEF OpenLog, CtlInv
    <2>2. /\ DOMAIN files' = DOMAIN files \cup {id[r]} /\ files'[id[r]] = Torn
          /\ \A g \in DOMAIN files \ {id[r]} : files'[g] = files[g]
      BY <2>1, PutFacts
    <2>3. TreeInv'
      BY <1>1, <1>2, <1>6, <2>2, RangeFiles DEF TreeInv, Range
    <2>4. HoldsInv'
      <3> SUFFICES ASSUME NEW f \in DOMAIN files', files'[f] # Torn
                   PROVE  id'[files'[f]] = f /\ rpc'[files'[f]] = "saved"
        BY DEF HoldsInv
      <3>1. f \in DOMAIN files /\ files'[f] = files[f]
        BY <2>2
      <3>2. files[f] \in Runs /\ id[files[f]] = f /\ rpc[files[f]] = "saved"
        BY <3>1, RangeFiles DEF HoldsInv
      <3>3. QED
        BY <1>1, <3>1, <3>2
    <2>5. ASSUME NEW q \in Runs PROVE KeptAt(q)'
      <3>1. CASE q = r
        BY <1>1, <2>1, <2>2, <3>1 DEF KeptAt
      <3>2. CASE q # r
        <4>1. KeptAt(q)
          BY DEF KeptInv
        <4>2. id[q] = id[r] => Twins(q)' # {}
          BY <1>3, <3>2 DEF Twins
        <4>3. QED
          BY <1>1, <1>3, <2>2, <3>2, <4>1, <4>2, KeptFrame
      <3>3. QED
        BY <3>1, <3>2
    <2>6. ASSUME NEW d \in Dels, NEW q \in Runs PROVE OwedAt(d, q)'
      <3>1. rpc[q] = "saved" => rpc'[q] = "saved" /\ id'[q] = id[q]
        BY <1>1
      <3>2. Has(q)' => Has(q)
        BY <1>1, <1>5, <2>2 DEF Has
      <3>3. OwedAt(d, q)
        BY DEF OwedInv
      <3>4. QED
        BY <1>1, <3>1, <3>2, <3>3, OwedFrame
    <2>7. TornHasCause'
      <3> SUFFICES ASSUME NEW f \in DOMAIN files', files'[f] = Torn, ~crashed
                   PROVE  \E q \in Runs : id[q] = f /\ (rpc'[q] = "write" \/ q \in faulty \/ Twins(q) # {})
        BY <1>1, <1>3 DEF TornHasCause
      <3>1. CASE f = id[r]
        BY <2>1, <3>1
      <3>2. CASE f # id[r]
        <4>1. PICK q \in Runs : id[q] = f /\ (rpc[q] = "write" \/ q \in faulty \/ Twins(q) # {})
          BY <2>2, <3>2 DEF TornHasCause
        <4>2. QED
          BY <1>1, <3>2, <4>1
      <3>3. QED
        BY <3>1, <3>2
    <2>8. QED
      BY <1>3, <1>4, <2>3, <2>4, <2>5, <2>6, <2>7 DEF KeptInv, OwedInv
  <1>7. CASE id[r].chain \notin dirs
    <2>1. files' = files /\ rpc'[r] = "lost"
      BY <1>1, <1>7 DEF OpenLog, CtlInv
    <2>2. TreeInv'
      BY <1>1, <2>1 DEF TreeInv
    <2>3. HoldsInv'
      <3> SUFFICES ASSUME NEW f \in DOMAIN files, files[f] # Torn
                   PROVE  id[files[f]] = f /\ rpc'[files[f]] = "saved"
        BY <1>1, <2>1 DEF HoldsInv
      <3>1. files[f] \in Runs /\ id[files[f]] = f /\ rpc[files[f]] = "saved"
        BY RangeFiles DEF HoldsInv
      <3>2. QED
        BY <1>1, <3>1
    <2>4. ASSUME NEW q \in Runs PROVE KeptAt(q)'
      <3>1. KeptAt(q)
        BY DEF KeptInv
      <3>2. CASE q = r
        BY <1>1, <1>7, <2>1, <3>1, <3>2 DEF KeptAt
      <3>3. CASE q # r
        BY <1>1, <1>3, <2>1, <3>1, <3>3, KeptFrame
      <3>4. QED
        BY <3>2, <3>3
    <2>5. ASSUME NEW d \in Dels, NEW q \in Runs PROVE OwedAt(d, q)'
      <3>1. rpc[q] = "saved" => rpc'[q] = "saved" /\ id'[q] = id[q]
        BY <1>1
      <3>2. Has(q)' => Has(q)
        BY <1>1, <2>1 DEF Has
      <3>3. OwedAt(d, q)
        BY DEF OwedInv
      <3>4. QED
        BY <1>1, <3>1, <3>2, <3>3, OwedFrame
    <2>6. TornHasCause'
      <3> SUFFICES ASSUME NEW f \in DOMAIN files, files[f] = Torn, ~crashed
                   PROVE  \E q \in Runs : id[q] = f /\ (rpc'[q] = "write" \/ q \in faulty \/ Twins(q) # {})
        BY <1>1, <1>3, <2>1 DEF TornHasCause
      <3>1. PICK q \in Runs : id[q] = f /\ (rpc[q] = "write" \/ q \in faulty \/ Twins(q) # {})
        BY DEF TornHasCause
      <3>2. QED
        BY <1>1, <3>1
    <2>7. QED
      BY <1>3, <1>4, <2>2, <2>3, <2>4, <2>5, <2>6 DEF KeptInv, OwedInv
  <1>8. QED
    BY <1>6, <1>7

LEMMA LogWriteLog ==
    ASSUME LogInv, NEW r \in Runs, WriteLog(r)
    PROVE  LogInv'
  <1> USE DEF LogInv
  <1>1. /\ rpc[r] = "write" /\ rpc'[r] = "saved"
        /\ \A q \in Runs \ {r} : rpc'[q] = rpc[q]
        /\ dirs' = dirs /\ id' = id /\ dpc' = dpc /\ del' = del /\ hit' = hit
        /\ lpc' = lpc /\ crashed' = crashed /\ now' = now /\ faulty' = faulty
    BY DEF WriteLog, CtlInv
  <1>2. /\ id[r] \in Ids /\ id[r] # None
        /\ id[r].chain \in Chains /\ id[r].chain # All
    BY <1>1, IdFacts
  <1>3. DelInv' /\ HitInv' /\ \A q \in Runs : Twins(q)' = Twins(q)
    BY <1>1, SameNames
  <1>4. CtlInv'
    BY <1>1, <1>2 DEF CtlInv, WriteLog
  <1>5. /\ DOMAIN files' = DOMAIN files
        /\ \A g \in DOMAIN files \ {id[r]} : files'[g] = files[g]
        /\ id[r] \in DOMAIN files =>
              \/ files'[id[r]] = r
              \/ files'[id[r]] = Torn /\ files[id[r]] # Torn
    <2>1. CASE id[r] \in DOMAIN files
      <3>1. PICK content \in {r} \cup {t \in {Torn} : files[id[r]] # Torn} :
               files' = Put(id[r], content)
        BY <2>1 DEF WriteLog
      <3>2. /\ DOMAIN files' = DOMAIN files \cup {id[r]} /\ files'[id[r]] = content
            /\ \A g \in DOMAIN files \ {id[r]} : files'[g] = files[g]
        BY <3>1, PutFacts
      <3>3. content = r \/ (content = Torn /\ files[id[r]] # Torn)
        OBVIOUS
      <3>4. QED
        BY <2>1, <3>2, <3>3
    <2>2. CASE id[r] \notin DOMAIN files
      BY <2>2 DEF WriteLog
    <2>3. QED
      BY <2>1, <2>2
  <1>6. r # Torn /\ KeptAt(r)
    BY RunLogsAssumption DEF KeptInv
  <1>7. TreeInv'
    <2>1. \A f \in DOMAIN files' : files'[f] \in Runs \cup {Torn}
      BY <1>5, RangeFiles
    <2>2. Range(files') \subseteq Runs \cup {Torn}
      BY <2>1 DEF Range
    <2>3. QED
      BY <1>1, <1>5, <2>2 DEF TreeInv
  <1>8. HoldsInv'
    <2> SUFFICES ASSUME NEW f \in DOMAIN files', files'[f] # Torn
                 PROVE  id[files'[f]] = f /\ rpc'[files'[f]] = "saved"
      BY <1>1 DEF HoldsInv
    <2>1. CASE f = id[r]
      BY <1>1, <1>5, <2>1
    <2>2. CASE f # id[r]
      <3>1. f \in DOMAIN files /\ files'[f] = files[f]
        BY <1>5, <2>2
      <3>2. files[f] \in Runs /\ id[files[f]] = f /\ rpc[files[f]] = "saved"
        BY <3>1, RangeFiles DEF HoldsInv
      <3>3. QED
        BY <1>1, <3>1, <3>2
    <2>3. QED
      BY <2>1, <2>2
  <1>9. ASSUME NEW q \in Runs PROVE KeptAt(q)'
    <2>1. CASE q = r
      BY <1>1, <1>3, <1>5, <1>6, <2>1 DEF KeptAt, Has
    <2>2. CASE q # r
      <3>1. KeptAt(q)
        BY DEF KeptInv
      <3>2. id[q] = id[r] => Twins(q)' # {}
        BY <1>3, <2>2 DEF Twins
      <3>3. QED
        BY <1>1, <1>3, <1>5, <2>2, <3>1, <3>2, KeptFrame
    <2>3. QED
      BY <2>1, <2>2
  <1>10. ASSUME NEW d \in Dels, NEW q \in Runs PROVE OwedAt(d, q)'
    <2>1. rpc[q] = "saved" => q # r /\ rpc'[q] = "saved" /\ id'[q] = id[q]
      BY <1>1
    <2>2. q # r /\ Has(q)' => Has(q)
      <3>1. q # Torn
        BY RunLogsAssumption
      <3>2. QED
        BY <1>1, <1>5, <3>1 DEF Has
    <2>3. OwedAt(d, q)
      BY DEF OwedInv
    <2>4. QED
      BY <1>1, <2>1, <2>2, <2>3, OwedFrame
  <1>11. TornHasCause'
    <2> SUFFICES ASSUME NEW f \in DOMAIN files', files'[f] = Torn, ~crashed
                 PROVE  \E q \in Runs : id[q] = f /\ (rpc'[q] = "write" \/ q \in faulty \/ Twins(q) # {})
      BY <1>1, <1>3 DEF TornHasCause
    <2>1. CASE f = id[r]
      <3>1. Twins(r) # {}
        BY <1>1, <1>5, <1>6, <2>1 DEF KeptAt
      <3>2. QED
        BY <2>1, <3>1
    <2>2. CASE f # id[r]
      <3>1. PICK q \in Runs : id[q] = f /\ (rpc[q] = "write" \/ q \in faulty \/ Twins(q) # {})
        BY <1>5, <2>2 DEF TornHasCause
      <3>2. QED
        BY <1>1, <2>2, <3>1
    <2>3. QED
      BY <2>1, <2>2
  <1>12. QED
    BY <1>3, <1>4, <1>7, <1>8, <1>9, <1>10, <1>11 DEF KeptInv, OwedInv

LEMMA LogSaveFails ==
    ASSUME LogInv, NEW r \in Runs, SaveFails(r)
    PROVE  LogInv'
  <1> USE DEF LogInv
  <1>1. /\ rpc[r] \in {"open", "write"} /\ rpc'[r] = "lost"
        /\ \A q \in Runs \ {r} : rpc'[q] = rpc[q]
        /\ faulty' = faulty \cup {r}
        /\ dirs' = dirs /\ id' = id /\ dpc' = dpc /\ del' = del /\ hit' = hit
        /\ lpc' = lpc /\ crashed' = crashed /\ now' = now
    BY DEF SaveFails, CtlInv
  <1>2. /\ id[r] \in Ids /\ id[r] # None
        /\ id[r].chain \in Chains /\ id[r].chain # All
    BY <1>1, IdFacts
  <1>3. DelInv' /\ HitInv' /\ \A q \in Runs : Twins(q)' = Twins(q)
    BY <1>1, SameNames
  <1>4. CtlInv'
    <2>1. rpc' = [rpc EXCEPT ![r] = "lost"]
      BY DEF SaveFails
    <2>2. QED
      BY <1>1, <1>2, <2>1 DEF CtlInv
  <1>5. /\ DOMAIN files' = DOMAIN files
        /\ \A g \in DOMAIN files \ {id[r]} : files'[g] = files[g]
        /\ id[r] \in DOMAIN files => files'[id[r]] \in {files[id[r]], Torn}
    <2>1. CASE UNCHANGED files
      BY <2>1
    <2>2. CASE id[r] \in DOMAIN files /\ files' = Put(id[r], Torn)
      <3>1. /\ DOMAIN files' = DOMAIN files \cup {id[r]} /\ files'[id[r]] = Torn
            /\ \A g \in DOMAIN files \ {id[r]} : files'[g] = files[g]
        BY <2>2, PutFacts
      <3>2. QED
        BY <2>2, <3>1
    <2>3. QED
      BY <2>1, <2>2 DEF SaveFails
  <1>6. \A q \in Runs : q # Torn
    BY RunLogsAssumption
  <1>7. TreeInv'
    <2>1. \A f \in DOMAIN files' : files'[f] \in Runs \cup {Torn}
      BY <1>5, RangeFiles
    <2>2. Range(files') \subseteq Runs \cup {Torn}
      BY <2>1 DEF Range
    <2>3. QED
      BY <1>1, <1>5, <2>2 DEF TreeInv
  <1>8. HoldsInv'
    <2> SUFFICES ASSUME NEW f \in DOMAIN files', files'[f] # Torn
                 PROVE  id[files'[f]] = f /\ rpc'[files'[f]] = "saved"
      BY <1>1 DEF HoldsInv
    <2>1. f \in DOMAIN files /\ files'[f] = files[f]
      BY <1>5
    <2>2. files[f] \in Runs /\ id[files[f]] = f /\ rpc[files[f]] = "saved"
      BY <2>1, RangeFiles DEF HoldsInv
    <2>3. QED
      BY <1>1, <2>1, <2>2
  <1>9. ASSUME NEW q \in Runs PROVE KeptAt(q)'
    <2>1. CASE q = r
      BY <1>1, <2>1 DEF KeptAt
    <2>2. CASE q # r
      <3>1. KeptAt(q)
        BY DEF KeptInv
      <3>2. id[q] = id[r] => Twins(q)' # {}
        BY <1>3, <2>2 DEF Twins
      <3>3. QED
        BY <1>1, <1>3, <1>5, <2>2, <3>1, <3>2, KeptFrame
    <2>3. QED
      BY <2>1, <2>2
  <1>10. ASSUME NEW d \in Dels, NEW q \in Runs PROVE OwedAt(d, q)'
    <2>1. rpc[q] = "saved" => rpc'[q] = "saved" /\ id'[q] = id[q]
      BY <1>1
    <2>2. Has(q)' => Has(q)
      BY <1>1, <1>5, <1>6 DEF Has
    <2>3. OwedAt(d, q)
      BY DEF OwedInv
    <2>4. QED
      BY <1>1, <2>1, <2>2, <2>3, OwedFrame
  <1>11. TornHasCause'
    <2> SUFFICES ASSUME NEW f \in DOMAIN files', files'[f] = Torn, ~crashed
                 PROVE  \E q \in Runs : id[q] = f /\ (rpc'[q] = "write" \/ q \in faulty'
                                                       \/ Twins(q) # {})
      BY <1>1, <1>3 DEF TornHasCause
    <2>1. CASE f = id[r]
      BY <1>1, <2>1
    <2>2. CASE f # id[r]
      <3>1. PICK q \in Runs : id[q] = f /\ (rpc[q] = "write" \/ q \in faulty
                                             \/ Twins(q) # {})
        BY <1>5, <2>2 DEF TornHasCause
      <3>2. QED
        BY <1>1, <2>2, <3>1
    <2>3. QED
      BY <2>1, <2>2
  <1>12. QED
    BY <1>3, <1>4, <1>7, <1>8, <1>9, <1>10, <1>11 DEF KeptInv, OwedInv

-----------------------------------------------------------------------------
(* The steps of a delete. A step of d moves neither runs nor names nor any *)
(* other delete, and only takes away what d covers.                        *)
DelStep(d) ==
    /\ UNCHANGED <<now, rpc, id, lpc, faulty, crashed>>
    /\ \A e \in Dels \ {d} : dpc'[e] = dpc[e] /\ del'[e] = del[e]
    /\ DOMAIN files' \subseteq DOMAIN files
    /\ \A f \in DOMAIN files' : files'[f] = files[f]
    /\ \A f \in DOMAIN files \ DOMAIN files' : f \in del[d].target
    /\ dirs' \subseteq dirs

LEMMA DelFrame ==
    ASSUME LogInv, NEW d \in Dels, DelStep(d), dpc[d] \in Deleting, hit' = hit,
           DelInv', TreeInv', CtlInv',
           del'[d].target = del[d].target, del'[d].doomed = del[d].doomed,
           \A f \in Ids : f.chain \in dirs \ dirs' => f \in del[d].target,
           \A r \in Runs : r \in del[d].doomed /\ Has(r) /\ Ahead(d, id[r]) =>
              /\ dpc'[d] # "ok" \/ ~Has(r)'
              /\ dpc'[d] \in Deleting => Ahead(d, id[r])' \/ ~Has(r)'
    PROVE  LogInv'
  <1> USE DEF LogInv
  <1>1. HitInv'
    BY DEF HitInv, DelStep
  <1>2. HoldsInv'
    BY DEF HoldsInv, DelStep
  <1>3. \A q \in Runs : Twins(q)' = Twins(q)
    BY DEF DelStep, Twins
  <1>4. ASSUME NEW q \in Runs PROVE KeptAt(q)'
    <2>1. KeptAt(q)
      BY DEF KeptInv
    <2>2. CASE rpc[q] = "idle"
      BY <2>2 DEF KeptAt, DelStep
    <2>3. CASE rpc[q] # "idle"
      <3>1. id[q] \in Ids
        BY <2>3, IdFacts
      <3>2. id[q] \in del[d].target => q \in hit
        BY DEF HitInv
      <3>3. id[q].chain \in dirs => id[q].chain \in dirs' \/ q \in hit
        BY <3>1, <3>2
      <3>4. /\ id[q] \in DOMAIN files => id[q] \in DOMAIN files' \/ q \in hit
            /\ id[q] \in DOMAIN files' =>
                  id[q] \in DOMAIN files /\ files'[id[q]] = files[id[q]]
        BY <3>2 DEF DelStep
      <3>5. /\ rpc'[q] = rpc[q] /\ id'[q] = id[q]
            /\ crashed' = crashed /\ faulty' = faulty
        BY DEF DelStep
      <3>6. QED
        BY <1>3, <2>1, <3>3, <3>4, <3>5, KeptFrame
    <2>4. QED
      BY <2>2, <2>3
  <1>5. ASSUME NEW e \in Dels, NEW r \in Runs PROVE OwedAt(e, r)'
    <2>1. OwedAt(e, r)
      BY DEF OwedInv
    <2>2. Has(r)' => Has(r)
      BY DEF Has, DelStep
    <2>3. rpc'[r] = rpc[r] /\ id'[r] = id[r]
      BY DEF DelStep
    <2>4. CASE e = d
      BY <2>1, <2>2, <2>3, <2>4 DEF OwedAt
    <2>5. CASE e # d
      BY <2>1, <2>2, <2>3, <2>5, OwedFrame DEF DelStep
    <2>6. QED
      BY <2>4, <2>5
  <1>6. TornHasCause'
    <2> SUFFICES ASSUME NEW f \in DOMAIN files', files'[f] = Torn, ~crashed
                 PROVE  \E q \in Runs : id[q] = f /\ (rpc[q] = "write" \/ q \in faulty \/ Twins(q) # {})
      BY <1>3 DEF TornHasCause, DelStep
    <2>1. f \in DOMAIN files /\ files[f] = Torn
      BY DEF DelStep
    <2>2. QED
      BY <2>1 DEF TornHasCause
  <1>7. QED
    BY <1>1, <1>2, <1>4, <1>5, <1>6 DEF KeptInv, OwedInv

LEMMA ScopeFacts ==
    ASSUME DelInv, NEW d \in Dels, dpc[d] \in Deleting
    PROVE  /\ ScopeInv(d) /\ del[d] \in DelRecs
           /\ Scope(del[d].chain) \subseteq Chains
           /\ All \notin Chains
  BY RunLogsAssumption DEF DelInv, DelRecs, Scope

LEMMA LogStartDel ==
    ASSUME LogInv, NEW d \in Dels, NEW c \in Chains \cup {All}, NEW f \in Ids \cup {None},
           StartDel(d, c, f)
    PROVE  LogInv'
  <1> USE DEF LogInv
  <1> DEFINE target == Covered(c, f)
             e == [NoDel EXCEPT !.chain = c, !.id = f, !.dir = c,
                       !.names = {g \in target : f # None}, !.target = target,
                       !.doomed = Named(target) \cap Range(files)]
  <1>1. /\ UNCHANGED <<now, dirs, files, rpc, id, lpc, faulty, crashed>>
        /\ dpc[d] = "idle" /\ del' = [del EXCEPT ![d] = e]
        /\ dpc' = [dpc EXCEPT ![d] = IF f # None THEN "unlink" ELSE "root"]
        /\ hit' = hit \cup Named(target)
    BY DEF StartDel
  <1>2. target \subseteq Ids
    BY DEF Covered
  <1>3. /\ e.chain = c /\ e.id = f /\ e.dir = c /\ e.names = {g \in target : f # None}
        /\ e.target = target /\ e.doomed = Named(target) \cap Range(files)
        /\ e.todo = {} /\ e \in DelRecs
    BY <1>2 DEF NoDel, DelRecs, Named
  <1> HIDE DEF e, target
  <1>4. /\ del'[d] = e /\ dpc'[d] = IF f # None THEN "unlink" ELSE "root"
        /\ \A x \in Dels \ {d} : del'[x] = del[x] /\ dpc'[x] = dpc[x]
    BY <1>1 DEF DelInv, CtlInv
  <1>5. TreeInv' /\ HoldsInv'
    BY <1>1 DEF TreeInv, HoldsInv
  <1>6. CtlInv'
    BY <1>1 DEF CtlInv, Named
  <1>7. ScopeInv(d)'
    <2>1. e.names \subseteq target /\ target = Covered(c, f)
      BY <1>3 DEF target
    <2>2. f = None \/ (f # None /\ dpc'[d] = "unlink")
      BY <1>4
    <2>3. QED
      BY <1>3, <1>4, <2>1, <2>2 DEF ScopeInv
  <1>8. DelInv'
    <2>1. del' \in [Dels -> DelRecs]
      BY <1>1, <1>3 DEF DelInv
    <2>2. ASSUME NEW x \in Dels, dpc'[x] \in Deleting PROVE ScopeInv(x)'
      <3>1. CASE x = d
        BY <1>7, <3>1
      <3>2. CASE x # d
        <4>1. del'[x] = del[x] /\ dpc'[x] = dpc[x] /\ ScopeInv(x)
          BY <1>4, <2>2, <3>2 DEF DelInv
        <4>2. QED
          BY <4>1 DEF ScopeInv
      <3>3. QED
        BY <3>1, <3>2
    <2>3. QED
      BY <2>1, <2>2 DEF DelInv
  <1>9. \A r \in Runs : id[r] # None /\ id[r] \in target => r \in hit'
    BY <1>1 DEF Named
  <1>10. HitInv'
    <2> SUFFICES ASSUME NEW x \in Dels, NEW r \in Runs, dpc'[x] \in Deleting,
                        id[r] \in del'[x].target
                 PROVE  r \in hit'
      BY <1>1 DEF HitInv
    <2>1. CASE x = d
      <3>1. id[r] \in target
        BY <1>3, <1>4, <2>1
      <3>2. QED
        BY <1>2, <1>9, <3>1, RunLogsAssumption
    <2>2. CASE x # d
      BY <1>1, <1>4, <2>2 DEF HitInv
    <2>3. QED
      BY <2>1, <2>2
  <1>11. \A q \in Runs : Twins(q)' = Twins(q)
    BY <1>1 DEF Twins
  <1>12. ASSUME NEW q \in Runs PROVE KeptAt(q)'
    <2>1. KeptAt(q)
      BY DEF KeptInv
    <2>2. QED
      BY <1>1, <1>11, <2>1, KeptFrame
  <1>13. ASSUME NEW x \in Dels, NEW r \in Runs PROVE OwedAt(x, r)'
    <2>1. CASE x # d
      <3>1. OwedAt(x, r) /\ Has(r)' = Has(r)
        BY <1>1 DEF OwedInv, Has
      <3>2. QED
        BY <1>1, <1>4, <2>1, <3>1, OwedFrame
    <2>2. CASE x = d /\ r \in e.doomed
      <3>1. id[r] \in target /\ r \in Range(files)
        BY <1>3, <2>2 DEF Named
      <3>2. Has(r) /\ r # Torn
        BY <3>1, HasFacts, RunLogsAssumption
      <3>3. rpc[r] = "saved"
        BY <3>2 DEF Has, HoldsInv
      <3>4. f # None => id[r] \in e.names
        BY <1>3, <3>1
      <3>5. Ahead(d, id[r])'
        BY <1>1, <1>4, <3>4 DEF Ahead
      <3>6. dpc'[d] # "ok"
        BY <1>4
      <3>7. QED
        BY <1>1, <1>3, <1>4, <2>2, <3>1, <3>3, <3>5, <3>6 DEF OwedAt
    <2>3. CASE x = d /\ r \notin e.doomed
      BY <1>4, <2>3 DEF OwedAt
    <2>4. QED
      BY <2>1, <2>2, <2>3
  <1>14. TornHasCause'
    BY <1>1, <1>11 DEF TornHasCause
  <1>15. QED
    BY <1>5, <1>6, <1>8, <1>10, <1>12, <1>13, <1>14 DEF KeptInv, OwedInv

LEMMA LogDelRoot ==
    ASSUME LogInv, NEW d \in Dels, DelRoot(d)
    PROVE  LogInv'
  <1> USE DEF LogInv
  <1> DEFINE e == del[d]
  <1>1. /\ UNCHANGED <<now, dirs, files, rpc, id, lpc, faulty, crashed, hit>>
        /\ dpc[d] = "root" /\ dpc' = [dpc EXCEPT ![d] = "dir"]
        /\ del' = [del EXCEPT ![d].todo = Below(e.chain) \cap dirs]
    BY DEF DelRoot
  <1>2. ScopeInv(d) /\ e \in DelRecs /\ Scope(e.chain) \subseteq Chains /\ All \notin Chains
    BY <1>1, ScopeFacts DEF Deleting
  <1>3. Below(e.chain) \cap dirs \subseteq Scope(e.chain)
    BY <1>2 DEF Below, Scope, TreeInv
  <1>4. /\ del'[d] \in DelRecs /\ del'[d].todo = Below(e.chain) \cap dirs
        /\ del'[d].chain = e.chain /\ del'[d].id = e.id /\ del'[d].names = e.names
        /\ del'[d].target = e.target /\ del'[d].doomed = e.doomed /\ dpc'[d] = "dir"
        /\ \A x \in Dels \ {d} : del'[x] = del[x] /\ dpc'[x] = dpc[x]
    BY <1>1, <1>2, <1>3 DEF DelInv, CtlInv, DelRecs
  <1>5. TreeInv' /\ CtlInv'
    BY <1>1 DEF TreeInv, CtlInv
  <1>6. DelInv'
    <2>1. ScopeInv(d)'
      BY <1>1, <1>2, <1>3, <1>4 DEF ScopeInv
    <2>2. \A x \in Dels \ {d} : dpc'[x] \in Deleting => ScopeInv(x)'
      BY <1>4 DEF DelInv, ScopeInv
    <2>3. del' \in [Dels -> DelRecs]
      BY <1>1, <1>4 DEF DelInv
    <2>4. QED
      BY <2>1, <2>2, <2>3 DEF DelInv
  <1>7. ASSUME NEW r \in Runs, r \in e.doomed, Has(r) PROVE Ahead(d, id[r])'
    <2>1. id[r] \in e.target
      BY <1>1, <1>7 DEF OwedInv, OwedAt, Deleting
    <2>2. id[r].chain \in Scope(e.chain) /\ id[r].chain \in dirs
      BY <1>1, <1>2, <1>7, <2>1 DEF ScopeInv, Covered, Has, TreeInv
    <2>3. id[r].chain \in Below(e.chain)
      BY <1>2, <2>2 DEF Below, Scope
    <2>4. QED
      BY <1>1, <1>4, <2>2, <2>3 DEF Ahead
  <1>8. DelStep(d) /\ dpc[d] \in Deleting
    BY <1>1, <1>4 DEF DelStep, Deleting
  <1>9. QED
    BY <1>1, <1>4, <1>5, <1>6, <1>7, <1>8, DelFrame

LEMMA LogDelReadDir ==
    ASSUME LogInv, NEW d \in Dels, DelReadDir(d)
    PROVE  LogInv'
  <1> USE DEF LogInv
  <1> DEFINE e == del[d]
  <1>1. /\ UNCHANGED <<now, dirs, files, rpc, id, lpc, faulty, crashed, hit>>
        /\ dpc[d] = "dir" /\ dpc' = [dpc EXCEPT ![d] = "unlink"]
    BY DEF DelReadDir
  <1>2. PICK c \in e.todo : del' = [del EXCEPT ![d].todo = @ \ {c}, ![d].dir = c,
                                               ![d].names = In(c)]
    BY DEF DelReadDir
  <1>3. ScopeInv(d) /\ e \in DelRecs /\ Scope(e.chain) \subseteq Chains /\ All \notin Chains
    BY <1>1, ScopeFacts DEF Deleting
  <1>4. c \in Scope(e.chain) /\ c \in Chains /\ e.id = None
    BY <1>1, <1>3 DEF ScopeInv
  <1>5. In(c) = {f \in DOMAIN files : f.chain = c}
    BY <1>3, <1>4 DEF In, Scope
  <1>6. In(c) \subseteq Ids
    BY <1>5 DEF TreeInv
  <1>7. /\ del'[d] \in DelRecs /\ del'[d].todo = e.todo \ {c} /\ del'[d].dir = c
        /\ del'[d].chain = e.chain /\ del'[d].id = e.id /\ del'[d].names = In(c)
        /\ del'[d].target = e.target /\ del'[d].doomed = e.doomed /\ dpc'[d] = "unlink"
        /\ \A x \in Dels \ {d} : del'[x] = del[x] /\ dpc'[x] = dpc[x]
    BY <1>1, <1>2, <1>3, <1>4, <1>6 DEF DelInv, CtlInv, DelRecs
  <1>8. TreeInv' /\ CtlInv'
    BY <1>1 DEF TreeInv, CtlInv
  <1>9. DelInv'
    <2>1. In(c) \subseteq e.target
      BY <1>3, <1>4, <1>5, <1>6 DEF ScopeInv, Covered
    <2>2. e.chain # All => e.todo \ {c} = {}
      BY <1>3, <1>4 DEF ScopeInv, Scope
    <2>3. ScopeInv(d)'
      BY <1>1, <1>3, <1>4, <1>7, <2>1, <2>2 DEF ScopeInv
    <2>4. \A x \in Dels \ {d} : dpc'[x] \in Deleting => ScopeInv(x)'
      BY <1>7 DEF DelInv, ScopeInv
    <2>5. del' \in [Dels -> DelRecs]
      BY <1>2, <1>7 DEF DelInv
    <2>6. QED
      BY <2>3, <2>4, <2>5 DEF DelInv
  <1>10. ASSUME NEW r \in Runs, r \in e.doomed, Has(r), Ahead(d, id[r])
         PROVE  Ahead(d, id[r])'
    <2>1. id[r].chain \in e.todo
      BY <1>1, <1>10 DEF Ahead
    <2>2. id[r].chain = c => id[r] \in In(c)
      BY <1>5, <1>10 DEF Has
    <2>3. QED
      BY <1>1, <1>7, <2>1, <2>2 DEF Ahead
  <1>11. DelStep(d) /\ dpc[d] \in Deleting
    BY <1>1, <1>7 DEF DelStep, Deleting
  <1>12. QED
    BY <1>1, <1>7, <1>8, <1>9, <1>10, <1>11, DelFrame

LEMMA LogUnlink ==
    ASSUME LogInv, NEW d \in Dels, Unlink(d)
    PROVE  LogInv'
  <1> USE DEF LogInv
  <1> DEFINE e == del[d]
  <1>1. /\ UNCHANGED <<now, dirs, rpc, id, lpc, faulty, crashed, hit, dpc>>
        /\ dpc[d] = "unlink"
    BY DEF Unlink
  <1>2. PICK f \in e.names : /\ files' = Restrict(files, DOMAIN files \ {f})
                             /\ del' = [del EXCEPT ![d].names = @ \ {f}]
    BY DEF Unlink
  <1>3. ScopeInv(d) /\ e \in DelRecs /\ Scope(e.chain) \subseteq Chains /\ All \notin Chains
    BY <1>1, ScopeFacts DEF Deleting
  <1>4. f \in e.target
    BY <1>3 DEF ScopeInv
  <1>5. /\ DOMAIN files' = DOMAIN files \ {f}
        /\ \A g \in DOMAIN files' : files'[g] = files[g]
    BY <1>2, TakeFacts
  <1>6. /\ del'[d] \in DelRecs /\ del'[d].todo = e.todo /\ del'[d].dir = e.dir
        /\ del'[d].chain = e.chain /\ del'[d].id = e.id /\ del'[d].names = e.names \ {f}
        /\ del'[d].target = e.target /\ del'[d].doomed = e.doomed
        /\ \A x \in Dels \ {d} : del'[x] = del[x]
    BY <1>2, <1>3 DEF DelInv, DelRecs
  <1>7. TreeInv'
    <2>1. Range(files') \subseteq Runs \cup {Torn}
      BY <1>5, RangeFiles DEF Range
    <2>2. QED
      BY <1>1, <1>5, <2>1 DEF TreeInv
  <1>8. CtlInv'
    BY <1>1 DEF CtlInv
  <1>9. DelInv'
    <2>1. ScopeInv(d)'
      BY <1>1, <1>3, <1>6 DEF ScopeInv
    <2>2. \A x \in Dels \ {d} : dpc'[x] \in Deleting => ScopeInv(x)'
      BY <1>1, <1>6 DEF DelInv, ScopeInv
    <2>3. del' \in [Dels -> DelRecs]
      BY <1>2, <1>6 DEF DelInv
    <2>4. QED
      BY <2>1, <2>2, <2>3 DEF DelInv
  <1>10. ASSUME NEW r \in Runs, r \in e.doomed, Has(r), Ahead(d, id[r])
         PROVE  Ahead(d, id[r])' \/ ~Has(r)'
    BY <1>1, <1>5, <1>6, <1>10 DEF Ahead, Has
  <1>11. DelStep(d) /\ dpc[d] \in Deleting
    BY <1>1, <1>4, <1>5, <1>6 DEF DelStep, Deleting
  <1>12. QED
    BY <1>1, <1>6, <1>7, <1>8, <1>9, <1>10, <1>11, DelFrame

LEMMA LogRmDir ==
    ASSUME LogInv, NEW d \in Dels, RmDir(d)
    PROVE  LogInv'
  <1> USE DEF LogInv
  <1> DEFINE e == del[d]
  <1>1. /\ UNCHANGED <<now, files, rpc, id, lpc, faulty, crashed, hit, del>>
        /\ dpc[d] = "unlink" /\ e.names = {}
    BY DEF RmDir
  <1>2. ScopeInv(d) /\ e \in DelRecs /\ Scope(e.chain) \subseteq Chains /\ All \notin Chains
    BY <1>1, ScopeFacts DEF Deleting
  <1>3. \/ dirs' = dirs
        \/ /\ e.id = None /\ In(e.dir) = {} /\ dirs' = dirs \ {e.dir}
           /\ e.dir \in Scope(e.chain) /\ e.dir \in Chains
    BY <1>1, <1>2 DEF RmDir, ScopeInv
  <1>4. /\ dpc'[d] \in {"ok", "dir", "err"}
        /\ dpc'[d] = "dir" => e.id = None /\ e.chain = All
        /\ dpc'[d] = "ok" => e.id # None \/ e.chain # All
        /\ \A x \in Dels \ {d} : dpc'[x] = dpc[x]
    BY DEF RmDir, CtlInv
  <1>5. TreeInv'
    <2>1. CASE dirs' = dirs
      BY <1>1, <2>1 DEF TreeInv
    <2>2. CASE In(e.dir) = {} /\ dirs' = dirs \ {e.dir} /\ e.dir \in Chains
      <3>1. \A f \in DOMAIN files : f.chain # e.dir
        BY <1>2, <2>2 DEF In, Scope
      <3>2. QED
        BY <1>1, <1>2, <2>2, <3>1 DEF TreeInv
    <2>3. QED
      BY <1>3, <2>1, <2>2
  <1>6. CtlInv'
    <2>1. dpc' \in [Dels -> {"idle", "root", "dir", "unlink", "ok", "err", "lost"}]
      BY <1>4 DEF RmDir, CtlInv
    <2>2. QED
      BY <1>1, <2>1 DEF CtlInv
  <1>7. DelInv'
    <2>1. dpc'[d] \in Deleting => ScopeInv(d)'
      BY <1>1, <1>2, <1>4 DEF ScopeInv, Deleting
    <2>2. \A x \in Dels \ {d} : dpc'[x] \in Deleting => ScopeInv(x)'
      BY <1>1, <1>4 DEF DelInv, ScopeInv
    <2>3. QED
      BY <1>1, <2>1, <2>2 DEF DelInv
  <1>8. ASSUME NEW f \in Ids, f.chain \in dirs \ dirs' PROVE f \in e.target
    BY <1>2, <1>3, <1>8 DEF ScopeInv, Covered
  <1>9. ASSUME NEW r \in Runs, r \in e.doomed, Has(r), Ahead(d, id[r])
        PROVE  dpc'[d] # "ok" /\ (dpc'[d] \in Deleting => Ahead(d, id[r])')
    <2>1. id[r].chain \in e.todo
      BY <1>1, <1>9 DEF Ahead
    <2>2. e.id = None /\ e.chain = All
      BY <1>1, <1>2, <2>1 DEF ScopeInv
    <2>3. QED
      BY <1>1, <1>4, <2>1, <2>2 DEF Ahead, Deleting
  <1>10. DelStep(d) /\ dpc[d] \in Deleting
    BY <1>1, <1>3, <1>4 DEF DelStep, Deleting
  <1>11. QED
    BY <1>1, <1>5, <1>6, <1>7, <1>8, <1>9, <1>10, DelFrame

LEMMA LogRmRoot ==
    ASSUME LogInv, NEW d \in Dels, RmRoot(d)
    PROVE  LogInv'
  <1> USE DEF LogInv
  <1> DEFINE e == del[d]
  <1>1. /\ UNCHANGED <<now, files, rpc, id, lpc, faulty, crashed, hit, del>>
        /\ dpc[d] = "dir" /\ e.todo = {}
    BY DEF RmRoot
  <1>2. ScopeInv(d) /\ e \in DelRecs /\ Scope(e.chain) \subseteq Chains /\ All \notin Chains
    BY <1>1, ScopeFacts DEF Deleting
  <1>3. dirs' = dirs \/ (dirs' = {} /\ dirs \subseteq {All})
    BY DEF RmRoot
  <1>4. /\ dpc'[d] \in {"ok", "err"}
        /\ \A x \in Dels \ {d} : dpc'[x] = dpc[x]
    BY DEF RmRoot, CtlInv
  <1>5. TreeInv'
    <2>1. CASE dirs' = dirs
      BY <1>1, <2>1 DEF TreeInv
    <2>2. CASE dirs' = {} /\ dirs \subseteq {All}
      <3>1. DOMAIN files = {}
        BY <1>2, <2>2, RangeFiles
      <3>2. QED
        BY <1>1, <2>2, <3>1 DEF TreeInv
    <2>3. QED
      BY <1>3, <2>1, <2>2
  <1>6. CtlInv'
    <2>1. dpc' \in [Dels -> {"idle", "root", "dir", "unlink", "ok", "err", "lost"}]
      BY <1>4 DEF RmRoot, CtlInv
    <2>2. QED
      BY <1>1, <2>1 DEF CtlInv
  <1>7. DelInv'
    <2>1. dpc'[d] \notin Deleting
      BY <1>4 DEF Deleting
    <2>2. \A x \in Dels \ {d} : dpc'[x] \in Deleting => ScopeInv(x)'
      BY <1>1, <1>4 DEF DelInv, ScopeInv
    <2>3. QED
      BY <1>1, <2>1, <2>2 DEF DelInv
  <1>8. ASSUME NEW f \in Ids, f.chain \in dirs \ dirs' PROVE FALSE
    BY <1>2, <1>3, <1>8 DEF Ids
  <1>9. \A r \in Runs : ~Ahead(d, id[r])
    BY <1>1 DEF Ahead
  <1>10. DelStep(d) /\ dpc[d] \in Deleting
    BY <1>1, <1>3, <1>4 DEF DelStep, Deleting
  <1>11. QED
    BY <1>1, <1>4, <1>5, <1>6, <1>7, <1>8, <1>9, <1>10, DelFrame

-----------------------------------------------------------------------------
(* The steps of a list, which change nothing, and the end of the process.  *)

LEMMA ListLeaves ==
    ASSUME NEW l \in Lists, List(l)
    PROVE  /\ UNCHANGED <<now, dirs, files, rpc, id, dpc, del, hit, faulty, crashed>>
           /\ \E pc \in {"root", "walk", "read", "ok", "err", "panic"} :
                 lpc' = [lpc EXCEPT ![l] = pc] \/ lpc' = lpc
  BY DEF List, StartList, StartGet, OpenRoot, ReadDir, VisitFile, SortAndCut, ReadLog,
         GiveUp

(* A step that moves neither runs nor deletes nor the tree.                *)
LEMMA LogSame ==
    ASSUME LogInv, CtlInv',
           UNCHANGED <<now, dirs, files, rpc, id, dpc, del, hit, faulty, crashed>>
    PROVE  LogInv'
  <1> USE DEF LogInv
  <1>1. TreeInv' /\ HoldsInv'
    BY DEF TreeInv, HoldsInv
  <1>2. DelInv' /\ HitInv' /\ \A q \in Runs : Twins(q)' = Twins(q)
    BY SameNames
  <1>3. KeptInv'
    BY <1>2 DEF KeptInv, KeptAt, Has
  <1>4. OwedInv'
    BY DEF OwedInv, OwedAt, Ahead, Has
  <1>5. TornHasCause'
    BY <1>2 DEF TornHasCause
  <1>6. QED
    BY <1>1, <1>2, <1>3, <1>4, <1>5

LEMMA LogList ==
    ASSUME LogInv, NEW l \in Lists, List(l)
    PROVE  LogInv'
  <1>1. CtlInv'
    BY ListLeaves DEF LogInv, CtlInv
  <1>2. QED
    BY <1>1, ListLeaves, LogSame

LEMMA LogCrash ==
    ASSUME LogInv, Crash
    PROVE  LogInv'
  <1> USE DEF LogInv
  <1>1. /\ UNCHANGED <<now, dirs, files, id, del, hit, faulty>> /\ crashed'
        /\ \A r \in Runs : rpc'[r] = IF rpc[r] \in {"open", "write"} THEN "lost" ELSE rpc[r]
        /\ \A d \in Dels : dpc'[d] = IF dpc[d] \in Deleting THEN "lost" ELSE dpc[d]
    BY DEF Crash
  <1>2. TreeInv'
    BY <1>1 DEF TreeInv
  <1>3. CtlInv'
    BY <1>1 DEF Crash, CtlInv
  <1>4. \A d \in Dels : dpc'[d] \notin Deleting
    BY <1>1 DEF Deleting
  <1>5. DelInv' /\ HitInv'
    BY <1>1, <1>4 DEF DelInv, HitInv
  <1>6. HoldsInv'
    <2> SUFFICES ASSUME NEW f \in DOMAIN files, files[f] # Torn
                 PROVE  id[files[f]] = f /\ rpc'[files[f]] = "saved"
      BY <1>1 DEF HoldsInv
    <2>1. files[f] \in Runs /\ id[files[f]] = f /\ rpc[files[f]] = "saved"
      BY RangeFiles DEF HoldsInv
    <2>2. QED
      BY <1>1, <2>1
  <1>7. ASSUME NEW q \in Runs PROVE KeptAt(q)'
    <2>1. KeptAt(q) /\ Twins(q)' = Twins(q)
      BY <1>1 DEF KeptInv, Twins
    <2>2. QED
      BY <1>1, <2>1 DEF KeptAt, Has
  <1>8. ASSUME NEW d \in Dels, NEW r \in Runs PROVE OwedAt(d, r)'
    <2>1. OwedAt(d, r)
      BY DEF OwedInv
    <2>2. dpc'[d] = "ok" => dpc[d] = "ok"
      BY <1>1
    <2>3. QED
      BY <1>1, <1>4, <2>1, <2>2 DEF OwedAt, Has
  <1>9. TornHasCause'
    BY <1>1 DEF TornHasCause
  <1>10. QED
    BY <1>2, <1>3, <1>5, <1>6, <1>7, <1>8, <1>9 DEF KeptInv, OwedInv

-----------------------------------------------------------------------------
LEMMA InitLog == Init => LogInv
  <1> SUFFICES ASSUME Init PROVE LogInv
    OBVIOUS
  <1>1. DOMAIN files = {} /\ Range(files) = {}
    BY DEF Init, Range
  <1>2. TreeInv
    BY <1>1, RunLogsAssumption DEF Init, TreeInv
  <1>3. CtlInv
    BY DEF Init, CtlInv
  <1>4. NoDel \in DelRecs /\ NoDel.doomed = {}
    BY DEF NoDel, DelRecs
  <1>5. DelInv /\ HitInv
    BY <1>4 DEF Init, DelInv, HitInv, Deleting
  <1>6. HoldsInv /\ TornHasCause
    BY <1>1 DEF HoldsInv, TornHasCause
  <1>7. KeptInv
    BY DEF Init, KeptInv, KeptAt
  <1>8. OwedInv
    BY <1>4 DEF Init, OwedInv, OwedAt
  <1>9. QED
    BY <1>2, <1>3, <1>5, <1>6, <1>7, <1>8 DEF LogInv

LEMMA LogNext == LogInv /\ [Next]_vars => LogInv'
  <1> SUFFICES ASSUME LogInv, [Next]_vars PROVE LogInv'
    OBVIOUS
  <1>1. CASE UNCHANGED vars
    <2>1. CtlInv'
      BY <1>1 DEF vars, LogInv, CtlInv
    <2>2. QED
      BY <1>1, <2>1, LogSame DEF vars
  <1>2. ASSUME NEW r \in Runs, SaveRunLog(r) PROVE LogInv'
    BY <1>2, LogMakeDirs, LogOpenLog, LogWriteLog, LogSaveFails
       DEF SaveRunLog
  <1>3. ASSUME NEW d \in Dels, Delete(d) PROVE LogInv'
    <2>1. ASSUME NEW c \in Chains \cup {All}, StartDel(d, c, None) PROVE LogInv'
      BY <2>1, LogStartDel
    <2>2. ASSUME NEW c \in Chains \cup {All}, NEW r \in Runs, id[r] # None,
                 StartDel(d, c, id[r])
          PROVE  LogInv'
      <3>1. id[r] \in Ids
        BY <2>2 DEF LogInv, CtlInv
      <3>2. QED
        BY <2>2, <3>1, LogStartDel
    <2>3. QED
      BY <1>3, <2>1, <2>2, LogDelRoot, LogDelReadDir, LogUnlink, LogRmDir, LogRmRoot
         DEF Delete
  <1>4. QED
    BY <1>1, <1>2, <1>3, LogList, LogCrash DEF Next

LEMMA LogCorrect == Spec => []LogInv
  BY InitLog, LogNext, PTL DEF Spec

-----------------------------------------------------------------------------
(* ListInv is preserved.                                                   *)

(* What a list that does not move relies on is still there.                *)
LEMMA FoundFrame ==
    ASSUME NEW l \in Lists, FoundInv(l), lpc'[l] = lpc[l],
           list'[l].chain = list[l].chain, list'[l].todo = list[l].todo,
           list'[l].names = list[l].names, list'[l].found = list[l].found,
           list'[l].known = list[l].known,
           \/ DOMAIN files \subseteq DOMAIN files' /\ dirs \subseteq dirs'
           \/ l \notin Walking
    PROVE  FoundInv(l)'
  <1>1. CASE DOMAIN files \subseteq DOMAIN files' /\ dirs \subseteq dirs'
    <2>1. In(list[l].chain) \subseteq {f \in DOMAIN files' : f.chain \in Scope(list[l].chain)}
      BY <1>1 DEF In
    <2>2. QED
      BY <1>1, <2>1 DEF FoundInv, In
  <1>2. CASE l \notin Walking
    BY <1>2 DEF FoundInv, Walking
  <1>3. QED
    BY <1>1, <1>2

LEMMA SawSaveFacts ==
    ASSUME ListInv, list' = SawSave
    PROVE  /\ list' = [l \in Lists |-> list'[l]]
           /\ \A l \in Lists : /\ Fields \subseteq DOMAIN list'[l]
                               /\ \A x \in Fields : list'[l][x] = list[l][x]
  <1>1. \A l \in Lists : list'[l] = [list[l] EXCEPT !.saves = @ \/ l \in Walking]
    BY DEF SawSave
  <1>2. ASSUME NEW l \in Lists
        PROVE  /\ Fields \subseteq DOMAIN list'[l]
               /\ \A x \in Fields : list'[l][x] = list[l][x]
    BY <1>1 DEF ListInv, Fields
  <1>3. QED
    BY <1>2 DEF SawSave

LEMMA SawDelFacts ==
    ASSUME ListInv, list' = SawDel
    PROVE  /\ list' = [l \in Lists |-> list'[l]]
           /\ \A l \in Lists :
                 /\ Fields \subseteq DOMAIN list'[l]
                 /\ \A x \in Fields \ {"dels"} : list'[l][x] = list[l][x]
                 /\ ~list'[l].dels => ~list[l].dels /\ l \notin Walking
  <1>1. \A l \in Lists : list'[l] = [list[l] EXCEPT !.dels = @ \/ l \in Walking]
    BY DEF SawDel
  <1>2. ASSUME NEW l \in Lists
        PROVE  /\ Fields \subseteq DOMAIN list'[l]
               /\ \A x \in Fields \ {"dels"} : list'[l][x] = list[l][x]
               /\ ~list'[l].dels => ~list[l].dels /\ l \notin Walking
    BY <1>1 DEF ListInv, Fields
  <1>3. QED
    BY <1>2 DEF SawDel

LEMMA ListSave ==
    ASSUME ListInv, NEW r \in Runs, SaveRunLog(r)
    PROVE  ListInv'
  <1>1. /\ list' = SawSave /\ lpc' = lpc /\ DOMAIN files \subseteq DOMAIN files'
        /\ dirs \subseteq dirs'
    BY DEF SaveRunLog, MakeDirs, OpenLog, WriteLog, SaveFails, Put
  <1>2. \A l \in Lists : ~list'[l].dels => ~list[l].dels
    BY <1>1, SawSaveFacts DEF Fields
  <1>3. ASSUME NEW l \in Lists, ~list[l].dels PROVE FoundInv(l)'
    BY <1>1, <1>3, SawSaveFacts, FoundFrame DEF ListInv, Fields
  <1>4. QED
    BY <1>1, <1>2, <1>3, SawSaveFacts DEF ListInv

LEMMA ListDelete ==
    ASSUME ListInv, NEW d \in Dels, Delete(d)
    PROVE  ListInv'
  <1>1. CASE UNCHANGED <<list, lpc, files, dirs>>
    BY <1>1 DEF ListInv, FoundInv, In
  <1>2. CASE list' = SawDel /\ lpc' = lpc
    <2>1. ASSUME NEW l \in Lists, ~list'[l].dels PROVE FoundInv(l)'
      BY <1>2, <2>1, SawDelFacts, FoundFrame DEF ListInv, Fields
    <2>2. QED
      BY <1>2, <2>1, SawDelFacts DEF ListInv
  <1>3. QED
    BY <1>1, <1>2 DEF Delete, StartDel, DelRoot, DelReadDir, Unlink, RmDir, RmRoot

LEMMA ListCrash ==
    ASSUME ListInv, Crash
    PROVE  ListInv'
  <1>1. UNCHANGED <<files, dirs>>
    BY DEF Crash
  <1>2. list' = [l \in Lists |-> IF l \in Walking THEN NoList ELSE list[l]]
    BY DEF Crash
  <1>3. ASSUME NEW l \in Lists
        PROVE  /\ lpc'[l] = IF l \in Walking THEN "lost" ELSE lpc[l]
               /\ list'[l] = IF l \in Walking THEN NoList ELSE list[l]
    <2>1. lpc'[l] = IF l \in Walking THEN "lost" ELSE lpc[l]
      BY DEF Crash
    <2>2. QED
      BY <1>2, <2>1
  <1>4. list' = [l \in Lists |-> list'[l]]
    <2> DEFINE left == [l \in Lists |-> IF l \in Walking THEN NoList ELSE list[l]]
    <2>1. list' = left /\ left = [l \in Lists |-> left[l]]
      BY <1>2
    <2> HIDE DEF left
    <2>2. QED
      BY <2>1
  <1>5. ASSUME NEW l \in Lists PROVE Fields \subseteq DOMAIN list'[l]
    <2>1. Fields \subseteq DOMAIN NoList
      BY DEF NoList, Fields
    <2>2. Fields \subseteq DOMAIN list[l]
      BY DEF ListInv
    <2>3. QED
      BY <1>3, <2>1, <2>2
  <1>6. ASSUME NEW l \in Lists, ~list'[l].dels PROVE FoundInv(l)'
    <2>1. CASE l \in Walking
      BY <1>3, <2>1 DEF FoundInv
    <2>2. CASE l \notin Walking
      <3>1. list'[l] = list[l] /\ lpc'[l] = lpc[l] /\ FoundInv(l)
        BY <1>3, <1>6, <2>2 DEF ListInv
      <3>2. QED
        BY <1>1, <3>1 DEF FoundInv, In
    <2>3. QED
      BY <2>1, <2>2
  <1>7. QED
    BY <1>4, <1>5, <1>6 DEF ListInv

(* A step of one list.                                                     *)
LEMMA ListFrame ==
    ASSUME ListInv, NEW l \in Lists, UNCHANGED <<dirs, files>>,
           list' = [k \in Lists |-> list'[k]],
           \A k \in Lists \ {l} : list'[k] = list[k] /\ lpc'[k] = lpc[k],
           Fields \subseteq DOMAIN list'[l],
           ~list'[l].dels => FoundInv(l)'
    PROVE  ListInv'
  <1>1. ASSUME NEW k \in Lists, ~list'[k].dels PROVE FoundInv(k)'
    BY <1>1 DEF ListInv, FoundInv, In
  <1>2. QED
    BY <1>1 DEF ListInv

LEMMA ListStart ==
    ASSUME CtlInv, ListInv, NEW l \in Lists,
           \/ \E c \in Chains \cup {All} : StartList(l, c)
           \/ \E r \in Runs : StartGet(l, r)
    PROVE  ListInv'
  <1>1. UNCHANGED <<dirs, files>> /\ \A k \in Lists \ {l} : lpc'[k] = lpc[k]
    BY DEF StartList, StartGet, CtlInv
  <1>2. CASE \E c \in Chains \cup {All} : StartList(l, c)
    <2>1. PICK c \in Chains \cup {All} : StartList(l, c)
      BY <1>2
    <2> DEFINE e == [NoList EXCEPT !.chain = c, !.known = In(c),
                                   !.saves = Range(rpc) \cap {"open", "write"} # {},
                                   !.dels = Range(dpc) \cap Deleting # {}]
    <2>2. /\ Fields \subseteq DOMAIN e
          /\ e.known = In(c) /\ e.chain = c /\ e.names = {} /\ e.todo = {}
      BY DEF NoList, Fields
    <2>3. list' = [list EXCEPT ![l] = e]
      BY <2>1 DEF StartList
    <2> HIDE DEF e
    <2>4. /\ list' = [list EXCEPT ![l] = e] /\ Fields \subseteq DOMAIN e
          /\ e.known = In(c) /\ e.chain = c /\ e.names = {} /\ e.todo = {}
      BY <2>2, <2>3
    <2>5. lpc'[l] = "root"
      BY <2>1 DEF StartList, CtlInv
    <2>6. list' = [k \in Lists |-> list'[k]] /\ list'[l] = e
          /\ \A k \in Lists \ {l} : list'[k] = list[k]
      BY <2>4 DEF ListInv
    <2>7. FoundInv(l)'
      BY <1>1, <2>4, <2>5, <2>6 DEF FoundInv, In
    <2>8. QED
      BY <1>1, <2>4, <2>6, <2>7, ListFrame
  <1>3. CASE \E r \in Runs : StartGet(l, r)
    <2> PICK r \in Runs : StartGet(l, r)
      BY <1>3
    <2> DEFINE e == [NoList EXCEPT !.chain = id[r].chain, !.page = <<id[r]>>]
    <2>1. Fields \subseteq DOMAIN e /\ e.known = {}
      BY DEF NoList, Fields
    <2>2. list' = [list EXCEPT ![l] = e]
      BY DEF StartGet
    <2> HIDE DEF e
    <2>3. /\ list' = [list EXCEPT ![l] = e] /\ Fields \subseteq DOMAIN e
          /\ e.known = {}
      BY <2>1, <2>2
    <2>4. lpc'[l] = "read"
      BY <1>3 DEF StartGet, CtlInv
    <2>5. list' = [k \in Lists |-> list'[k]] /\ list'[l] = e
          /\ \A k \in Lists \ {l} : list'[k] = list[k]
      BY <2>3 DEF ListInv
    <2>6. FoundInv(l)'
      BY <2>3, <2>4, <2>5 DEF FoundInv
    <2>7. QED
      BY <1>1, <2>3, <2>5, <2>6, ListFrame
  <1>4. QED
    BY <1>2, <1>3

LEMMA ListOpenRoot ==
    ASSUME TreeInv, CtlInv, ListInv, NEW l \in Lists, OpenRoot(l)
    PROVE  ListInv'
  <1> DEFINE e == list[l]
  <1>1. /\ UNCHANGED <<dirs, files>> /\ \A k \in Lists \ {l} : lpc'[k] = lpc[k]
        /\ lpc[l] = "root"
    BY DEF OpenRoot, GiveUp, CtlInv
  <1>2. ~e.dels => e.known \subseteq In(e.chain)
    BY <1>1 DEF ListInv, FoundInv
  <1>3. \A f \in In(e.chain) : /\ f.chain \in dirs /\ f.chain \in Scope(e.chain)
                               /\ f.chain \in Chains /\ f.chain # All
                               /\ All \in dirs
    BY RangeFiles, RunLogsAssumption DEF In, TreeInv
  <1>4. CASE e.chain \in dirs
    <2>1. /\ list' = [list EXCEPT ![l].todo = Below(e.chain)] /\ lpc'[l] = "walk"
      BY <1>4 DEF OpenRoot, CtlInv
    <2>2. /\ list' = [k \in Lists |-> list'[k]] /\ Fields \subseteq DOMAIN list'[l]
          /\ \A k \in Lists \ {l} : list'[k] = list[k]
          /\ list'[l].todo = Below(e.chain)
          /\ \A x \in Fields \ {"todo"} : list'[l][x] = e[x]
      BY <2>1 DEF ListInv, Fields
    <2>3. Below(e.chain) \subseteq dirs
      BY <1>4 DEF Below
    <2>4. \A f \in In(e.chain) : f.chain \in Below(e.chain)
      BY <1>3 DEF Below, Scope
    <2>5. e.names \subseteq DOMAIN files \/ e.dels
      BY <1>1 DEF ListInv, FoundInv
    <2>6. ~list'[l].dels => FoundInv(l)'
      BY <1>1, <1>2, <2>1, <2>2, <2>3, <2>4, <2>5 DEF FoundInv, Fields, In
    <2>7. QED
      BY <1>1, <2>2, <2>6, ListFrame
  <1>5. CASE e.chain \notin dirs
    <2>1. list' = list /\ lpc'[l] = "ok"
      BY <1>5 DEF OpenRoot, GiveUp, CtlInv
    <2>2. In(e.chain) = {}
      BY <1>3, <1>5 DEF Scope
    <2>3. ~list'[l].dels => FoundInv(l)'
      BY <1>2, <2>1, <2>2 DEF FoundInv
    <2>4. QED
      BY <1>1, <2>1, <2>3, ListFrame DEF ListInv
  <1>6. QED
    BY <1>4, <1>5

LEMMA ListReadDir ==
    ASSUME TreeInv, CtlInv, ListInv, NEW l \in Lists, ReadDir(l)
    PROVE  ListInv'
  <1> DEFINE e == list[l]
  <1>1. /\ UNCHANGED <<dirs, files>> /\ \A k \in Lists \ {l} : lpc'[k] = lpc[k]
        /\ lpc[l] = "walk" /\ e.names = {}
    BY DEF ReadDir, GiveUp, CtlInv
  <1>2. PICK c \in e.todo :
           IF c \in dirs
           THEN /\ lpc'[l] = "walk"
                /\ list' = [list EXCEPT ![l].todo = @ \ {c}, ![l].names = In(c)]
           ELSE lpc'[l] = "ok" /\ list' = list
    BY DEF ReadDir, GiveUp, CtlInv
  <1>3. ~e.dels => FoundInv(l)
    BY DEF ListInv
  <1>4. CASE c \in dirs
    <2>1. /\ list' = [k \in Lists |-> list'[k]] /\ Fields \subseteq DOMAIN list'[l]
          /\ \A k \in Lists \ {l} : list'[k] = list[k]
          /\ list'[l].todo = e.todo \ {c} /\ list'[l].names = In(c)
          /\ \A x \in Fields \ {"todo", "names"} : list'[l][x] = e[x]
      BY <1>2, <1>4 DEF ListInv, Fields
    <2>2. In(c) \subseteq DOMAIN files
      BY DEF In
    <2>3. ASSUME ~e.dels, NEW f \in e.known, f.chain = c PROVE f \in In(c)
      BY <1>1, <1>3, <2>3, RangeFiles, RunLogsAssumption DEF FoundInv, In, Scope
    <2>4. ~list'[l].dels => FoundInv(l)'
      BY <1>1, <1>2, <1>3, <1>4, <2>1, <2>2, <2>3 DEF FoundInv, Fields, In
    <2>5. QED
      BY <1>1, <2>1, <2>4, ListFrame
  <1>5. CASE c \notin dirs
    <2>1. e.dels
      BY <1>1, <1>3, <1>5 DEF FoundInv
    <2>2. QED
      BY <1>1, <1>2, <1>5, <2>1, ListFrame DEF ListInv
  <1>6. QED
    BY <1>4, <1>5

LEMMA ListVisitFile ==
    ASSUME CtlInv, ListInv, NEW l \in Lists, VisitFile(l)
    PROVE  ListInv'
  <1> DEFINE e == list[l]
  <1>1. /\ UNCHANGED <<dirs, files>> /\ \A k \in Lists \ {l} : lpc'[k] = lpc[k]
        /\ lpc[l] = "walk"
    BY DEF VisitFile, GiveUp, CtlInv
  <1>2. ~e.dels => FoundInv(l)
    BY DEF ListInv
  <1>3. PICK f \in e.names :
           IF f \in DOMAIN files
           THEN /\ list' = [list EXCEPT ![l].found = @ \cup {f}, ![l].names = @ \ {f}]
                /\ lpc'[l] = "walk"
           ELSE lpc'[l] = "ok" /\ list' = list
    BY DEF VisitFile, GiveUp, CtlInv
  <1>4. CASE f \in DOMAIN files
    <2>1. /\ list' = [k \in Lists |-> list'[k]] /\ Fields \subseteq DOMAIN list'[l]
          /\ \A k \in Lists \ {l} : list'[k] = list[k]
          /\ list'[l].found = e.found \cup {f} /\ list'[l].names = e.names \ {f}
          /\ \A x \in Fields \ {"found", "names"} : list'[l][x] = e[x]
      BY <1>3, <1>4 DEF ListInv, Fields
    <2>2. ~list'[l].dels => FoundInv(l)'
      BY <1>1, <1>2, <1>3, <1>4, <2>1 DEF FoundInv, Fields, In
    <2>3. QED
      BY <1>1, <2>1, <2>2, ListFrame
  <1>5. CASE f \notin DOMAIN files
    <2>1. e.dels
      BY <1>1, <1>2, <1>5 DEF FoundInv
    <2>2. QED
      BY <1>1, <1>3, <1>5, <2>1, ListFrame DEF ListInv
  <1>6. QED
    BY <1>4, <1>5

LEMMA ListAnswer ==
    ASSUME CtlInv, ListInv, NEW l \in Lists, SortAndCut(l) \/ ReadLog(l)
    PROVE  ListInv'
  <1> DEFINE e == list[l]
  <1>1. /\ UNCHANGED <<dirs, files>> /\ \A k \in Lists \ {l} : lpc'[k] = lpc[k]
        /\ lpc'[l] \in {"read", "ok", "panic", "err"}
        /\ lpc[l] = "read" \/ (lpc[l] = "walk" /\ e.todo = {} /\ e.names = {})
    BY DEF SortAndCut, ReadLog, CtlInv
  <1>2. ~e.dels => e.known \subseteq e.found
    BY <1>1 DEF ListInv, FoundInv
  <1>3. /\ list' = [k \in Lists |-> list'[k]] /\ Fields \subseteq DOMAIN list'[l]
        /\ \A k \in Lists \ {l} : list'[k] = list[k]
        /\ \A x \in Fields : list'[l][x] = e[x]
    <2>1. CASE SortAndCut(l)
      <3>1. PICK ask \in Asks, s \in SortedLogs(e.found) :
               list' = [list EXCEPT ![l].size = ask[1], ![l].current = ask[2],
                          ![l].total = Len(s),
                          ![l].page = IF PageFrom(ask[1], ask[2])
                                           \in 0..PageTo(ask[1], ask[2], Len(s))
                                      THEN SubSeq(s, PageFrom(ask[1], ask[2]) + 1,
                                                  PageTo(ask[1], ask[2], Len(s)))
                                      ELSE <<>>]
        BY <2>1 DEF SortAndCut
      <3>2. QED
        BY <3>1 DEF ListInv, Fields
    <2>2. CASE ReadLog(l)
      BY <2>2 DEF ReadLog, ListInv, Fields
    <2>3. QED
      BY <2>1, <2>2
  <1>4. ~list'[l].dels => FoundInv(l)'
    BY <1>1, <1>2, <1>3 DEF FoundInv, Fields
  <1>5. QED
    BY <1>1, <1>3, <1>4, ListFrame

LEMMA ListNext == TreeInv /\ CtlInv /\ ListInv /\ [Next]_vars => ListInv'
  <1> SUFFICES ASSUME TreeInv, CtlInv, ListInv, [Next]_vars PROVE ListInv'
    OBVIOUS
  <1>1. CASE UNCHANGED vars
    BY <1>1 DEF vars, ListInv, FoundInv, In
  <1>2. QED
    BY <1>1, ListSave, ListDelete, ListCrash, ListStart, ListOpenRoot, ListReadDir,
       ListVisitFile, ListAnswer DEF Next, List

LEMMA InitList == Init => ListInv
  <1> SUFFICES ASSUME Init PROVE ListInv
    OBVIOUS
  <1>1. \A l \in Lists : list[l] = NoList /\ lpc[l] = "idle"
    BY DEF Init
  <1>2. Fields \subseteq DOMAIN NoList
    BY DEF NoList, Fields
  <1>3. QED
    BY <1>1, <1>2 DEF Init, ListInv, FoundInv

LEMMA ListsCorrect == Spec => [](LogInv /\ ListInv)
  <1>1. LogInv /\ ListInv /\ [Next]_vars => LogInv' /\ ListInv'
    BY LogNext, ListNext DEF LogInv
  <1>2. QED
    BY <1>1, InitLog, InitList, PTL DEF Spec

-----------------------------------------------------------------------------
(* TypeOK: every variable keeps its type, and a log never exists without   *)
(* the directory of its chain, although the directories are removed and    *)
(* made with no lock (SaveRunLog, DeleteByChainId).                        *)
THEOREM TypeCorrect == Spec => []TypeOK
  <1>1. LogInv => TypeOK
    BY DEF LogInv, TreeInv, CtlInv, TypeOK
  <1>2. QED
    BY <1>1, LogCorrect, PTL

(* LogsKept: with no crash, the log of a run that ended is lost only to an *)
(* error its own save met, to a delete that met the run or to a run of the *)
(* same name (SaveRunLog, Delete, DeleteByChainId).                        *)
THEOREM KeptCorrect == Spec => []LogsKept
  <1>1. LogInv => LogsKept
    BY DEF LogInv, KeptInv, KeptAt, Has, LogsKept
  <1>2. QED
    BY <1>1, LogCorrect, PTL

(* TornHasCause: a log that does not parse is being written, or follows    *)
(* from a crash, from a write that failed or from two runs of one name.    *)
THEOREM TornCorrect == Spec => []TornHasCause
  BY LogCorrect, PTL DEF LogInv

(* DeleteIsComplete: what a delete that answered OK had to remove is gone  *)
(* for good.                                                               *)
THEOREM DeleteCorrect == Spec => []DeleteIsComplete
  <1>1. ASSUME LogInv, NEW d \in Dels, dpc[d] = "ok"
        PROVE  Range(files) \cap del[d].doomed = {}
    <2>1. del[d].doomed \subseteq Runs
      BY <1>1 DEF LogInv, DelInv, DelRecs
    <2>2. \A r \in del[d].doomed : r \notin Range(files)
      BY <1>1, <2>1, HasFacts DEF LogInv, OwedInv, OwedAt
    <2>3. QED
      BY <2>2
  <1>2. LogInv => DeleteIsComplete
    BY <1>1 DEF DeleteIsComplete
  <1>3. QED
    BY <1>2, LogCorrect, PTL

(* ListMissesNothing: a list that no delete overlapped found every log that*)
(* existed when it was asked for (List, GetRunLogs).                       *)
THEOREM ListCorrect == Spec => []ListMissesNothing
  <1>1. LogInv /\ ListInv => ListMissesNothing
    BY DEF ListInv, FoundInv, ListMissesNothing
  <1>2. QED
    BY <1>1, ListsCorrect, PTL

-----------------------------------------------------------------------------
(* The tree keeps the book.                                                *)

LEMMA BookFacts ==
    LogInv => \A r \in Runs :
        /\ BookOf(r) \in {"kept", "gone", "none"}
        /\ BookOf(r) = "kept" <=> Has(r)
        /\ BookOf(r) = "none" <=> rpc[r] \notin {"saved", "lost"}
        /\ Has(r) => rpc[r] = "saved"
  <1> SUFFICES ASSUME LogInv, NEW r \in Runs
               PROVE  /\ BookOf(r) \in {"kept", "gone", "none"}
                      /\ BookOf(r) = "kept" <=> Has(r)
                      /\ BookOf(r) = "none" <=> rpc[r] \notin {"saved", "lost"}
                      /\ Has(r) => rpc[r] = "saved"
    OBVIOUS
  <1>1. Has(r) => rpc[r] = "saved"
    BY RunLogsAssumption DEF LogInv, HoldsInv, Has
  <1>2. QED
    BY <1>1 DEF BookOf

LEMMA PhaseFacts ==
    LogInv => \A d \in Dels :
        /\ PhaseOf(d) \in {"active", "idle", "ok", "failed"}
        /\ PhaseOf(d) = "active" <=> dpc[d] \in Deleting
        /\ PhaseOf(d) = "ok" <=> dpc[d] = "ok"
        /\ PhaseOf(d) = "idle" <=> dpc[d] = "idle"
  BY DEF PhaseOf, Deleting, LogInv, CtlInv

(* A step that only takes logs away, for one of LogBook's reasons.         *)
LEMMA BookVanish ==
    ASSUME NEW S \in SUBSET Runs, UNCHANGED <<id, hit, faulty>>,
           \A d \in Dels : /\ PhaseOf(d)' = PhaseOf(d)
                           /\ del'[d].target = del[d].target
                           /\ del'[d].doomed = del[d].doomed,
           \A r \in S : /\ BookOf(r)' = "gone"
                        /\ \/ /\ BookOf(r) = "none" /\ id[r] # None
                              /\ r \in hit \cup faulty \/ Twins(r) # {}
                           \/ /\ BookOf(r) = "kept" /\ id[r] # None
                              /\ \/ Twins(r) # {}
                                 \/ \E d \in Dels : /\ PhaseOf(d) = "active"
                                                    /\ id[r] \in del[d].target,
           \A r \in Runs \ S : BookOf(r)' = BookOf(r)
    PROVE  [Book!Next]_Book!vars
  <1>1. \A r \in Runs : id[r] # None => Book!Twins(r) = Twins(r)
    BY DEF Book!Twins, Twins
  <1>2. Book!Vanish(S)
    BY <1>1 DEF Book!Vanish, Book!Saving, Book!Kept, Book!Active
  <1>3. QED
    BY <1>2 DEF Book!Next

(* BookFacts and PhaseFacts after a step.                                  *)
LEMMA BookNext ==
    ASSUME LogInv'
    PROVE  \A r \in Runs :
               /\ BookOf(r)' \in {"kept", "gone", "none"}
               /\ BookOf(r)' = "kept" <=> Has(r)'
               /\ BookOf(r)' = "none" <=> rpc'[r] \notin {"saved", "lost"}
               /\ Has(r)' => rpc'[r] = "saved"
  <1>1. (LogInv => \A r \in Runs :
            /\ BookOf(r) \in {"kept", "gone", "none"}
            /\ BookOf(r) = "kept" <=> Has(r)
            /\ BookOf(r) = "none" <=> rpc[r] \notin {"saved", "lost"}
            /\ Has(r) => rpc[r] = "saved")'
    BY BookFacts, PTL
  <1>2. QED
    BY <1>1

LEMMA PhaseNext ==
    ASSUME LogInv'
    PROVE  \A d \in Dels :
               /\ PhaseOf(d)' \in {"active", "idle", "ok", "failed"}
               /\ PhaseOf(d)' = "active" <=> dpc'[d] \in Deleting
               /\ PhaseOf(d)' = "ok" <=> dpc'[d] = "ok"
               /\ PhaseOf(d)' = "idle" <=> dpc'[d] = "idle"
  <1>1. (LogInv => \A d \in Dels :
            /\ PhaseOf(d) \in {"active", "idle", "ok", "failed"}
            /\ PhaseOf(d) = "active" <=> dpc[d] \in Deleting
            /\ PhaseOf(d) = "ok" <=> dpc[d] = "ok"
            /\ PhaseOf(d) = "idle" <=> dpc[d] = "idle")'
    BY PhaseFacts, PTL
  <1>2. QED
    BY <1>1 DEF Deleting

LEMMA BookSame ==
    ASSUME LogInv, LogInv', NEW r \in Runs, Has(r)' <=> Has(r),
           rpc'[r] \in {"saved", "lost"} <=> rpc[r] \in {"saved", "lost"}
    PROVE  BookOf(r)' = BookOf(r)
  BY BookFacts, BookNext

LEMMA PhaseSame ==
    ASSUME LogInv, LogInv', NEW d \in Dels,
           dpc'[d] = dpc[d] \/ (dpc[d] \in Deleting /\ dpc'[d] \in Deleting)
    PROVE  PhaseOf(d)' = PhaseOf(d)
  BY PhaseFacts, PhaseNext DEF Deleting

(* A log is in the tree under its run's name.                              *)
LEMMA HasName ==
    ASSUME LogInv, NEW r \in Runs, Has(r)
    PROVE  id[r] \in Ids /\ id[r] # None /\ rpc[r] = "saved"
  <1>1. rpc[r] = "saved"
    BY BookFacts
  <1>2. QED
    BY <1>1, IdFacts DEF LogInv

-----------------------------------------------------------------------------
LEMMA BookMakeDirs ==
    ASSUME LogInv, LogInv', NEW r \in Runs, NEW c \in Chains, NEW m \in Msgs,
           MakeDirs(r, c, m)
    PROVE  Book!Begin(r)
  <1>1. PICK n \in Ids : id' = [id EXCEPT ![r] = n]
    <2>1. [chain |-> c, sec |-> now', msg |-> m] \in Ids
      BY DEF MakeDirs, Ids, LogInv, TreeInv
    <2>2. QED
      BY <2>1 DEF MakeDirs
  <1>2. /\ id[r] = None /\ id'[r] = n /\ rpc[r] = "idle" /\ rpc'[r] = "open"
        /\ \A q \in Runs \ {r} : id'[q] = id[q] /\ rpc'[q] = rpc[q]
        /\ UNCHANGED <<files, dpc, del>>
        /\ hit' = hit \cup {q \in {r} : \E d \in Dels :
                                dpc[d] \in Deleting /\ n \in del[d].target}
        /\ faulty' \in {faulty, faulty \cup {r}}
    BY <1>1 DEF MakeDirs, LogInv, CtlInv
  <1>3. ASSUME NEW q \in Runs PROVE BookOf(q)' = BookOf(q)
    <2>1. CASE q = r
      BY <1>2, <2>1, BookFacts, BookNext
    <2>2. CASE q # r
      BY <1>2, <2>2, BookSame DEF Has
    <2>3. QED
      BY <2>1, <2>2
  <1>4. \A d \in Dels : PhaseOf(d)' = PhaseOf(d)
    BY <1>2, PhaseSame
  <1>5. \A d \in Dels : dpc[d] \in Deleting <=> PhaseOf(d) = "active"
    BY PhaseFacts
  <1>6. hit' = hit \cup {q \in {r} : \E d \in Book!Active :
                           n \in [e \in Dels |-> del[e].target][d]}
    BY <1>2, <1>5 DEF Book!Active
  <1>7. UNCHANGED [q \in Runs |-> BookOf(q)]
    BY <1>3
  <1>8. UNCHANGED <<[d \in Dels |-> PhaseOf(d)], [d \in Dels |-> del[d].target],
                    [d \in Dels |-> del[d].doomed]>>
    BY <1>2, <1>4
  <1>9. QED
    BY <1>1, <1>2, <1>6, <1>7, <1>8 DEF Book!Begin

LEMMA BookOpenLog ==
    ASSUME LogInv, LogInv', NEW r \in Runs, OpenLog(r)
    PROVE  [Book!Next]_Book!vars
  <1>1. /\ rpc[r] = "open" /\ UNCHANGED <<id, dpc, del, hit, faulty>> /\ id[r] # None
        /\ \A q \in Runs \ {r} : rpc'[q] = rpc[q]
        /\ rpc'[r] \in {"write", "lost"}
    BY IdFacts DEF OpenLog, LogInv, CtlInv
  <1>2. \A d \in Dels : PhaseOf(d)' = PhaseOf(d)
    BY <1>1, PhaseSame
  <1>3. CASE id[r].chain \in dirs
    <2> DEFINE S == {q \in Runs : Has(q) /\ id[q] = id[r]}
    <2>1. files' = Put(id[r], Torn) /\ rpc'[r] = "write"
      BY <1>3 DEF OpenLog, LogInv, CtlInv
    <2>2. /\ DOMAIN files' = DOMAIN files \cup {id[r]} /\ files'[id[r]] = Torn
          /\ \A g \in DOMAIN files \ {id[r]} : files'[g] = files[g]
      BY <2>1, PutFacts
    <2>3. \A q \in Runs : q # Torn
      BY RunLogsAssumption
    <2>4. ASSUME NEW q \in S
          PROVE  /\ q \in Runs /\ Twins(q) # {} /\ id[q] # None
                 /\ BookOf(q) = "kept" /\ BookOf(q)' = "gone"
      <3>1. q \in Runs /\ Has(q) /\ id[q] = id[r] /\ rpc[q] = "saved"
        BY HasName
      <3>2. r \in Twins(q)
        BY <1>1, <3>1 DEF Twins
      <3>3. ~Has(q)' /\ rpc'[q] = "saved"
        BY <1>1, <2>2, <2>3, <3>1 DEF Has
      <3>4. QED
        BY <1>1, <3>1, <3>2, <3>3, BookFacts, BookNext
    <2>5. ASSUME NEW q \in Runs \ S PROVE BookOf(q)' = BookOf(q)
      <3>1. CASE q = r
        BY <1>1, <2>1, <3>1, BookFacts, BookNext
      <3>2. CASE q # r
        <4>1. Has(q)' <=> Has(q)
          BY <1>1, <2>2, <2>3 DEF Has
        <4>2. QED
          BY <1>1, <3>2, <4>1, BookSame
      <3>3. QED
        BY <3>1, <3>2
    <2>6. S \in SUBSET Runs
      OBVIOUS
    <2> HIDE DEF S
    <2>7. QED
      BY <1>1, <1>2, <2>4, <2>5, <2>6, BookVanish
  <1>4. CASE id[r].chain \notin dirs
    <2>1. files' = files /\ rpc'[r] = "lost"
      BY <1>4 DEF OpenLog, LogInv, CtlInv
    <2>2. r \in hit \cup faulty
      BY <1>1, <1>4 DEF LogInv, KeptInv, KeptAt
    <2>3. BookOf(r) = "none" /\ BookOf(r)' = "gone"
      BY <1>1, <2>1, BookFacts, BookNext
    <2>4. \A q \in Runs \ {r} : BookOf(q)' = BookOf(q)
      BY <1>1, <2>1, BookSame DEF Has
    <2>5. /\ {r} \in SUBSET Runs
          /\ \A q \in {r} : /\ BookOf(q) = "none" /\ BookOf(q)' = "gone"
                           /\ id[q] # None /\ q \in hit \cup faulty
      BY <1>1, <2>2, <2>3
    <2>6. QED
      BY <1>1, <1>2, <2>4, <2>5, BookVanish
  <1>5. QED
    BY <1>3, <1>4

LEMMA BookWriteLog ==
    ASSUME LogInv, LogInv', NEW r \in Runs, WriteLog(r)
    PROVE  [Book!Next]_Book!vars
  <1>1. /\ rpc[r] = "write" /\ UNCHANGED <<id, dpc, del, hit, faulty>>
        /\ id[r] # None /\ id[r] \in Ids
        /\ \A q \in Runs \ {r} : rpc'[q] = rpc[q]
        /\ rpc'[r] = "saved"
    BY IdFacts DEF WriteLog, LogInv, CtlInv
  <1>2. \A d \in Dels : PhaseOf(d)' = PhaseOf(d)
    BY <1>1, PhaseSame
  <1>3. \A q \in Runs : q # Torn
    BY RunLogsAssumption
  <1>4. BookOf(r) = "none" /\ ~Has(r)
    BY <1>1, BookFacts
  <1>5. CASE id[r] \notin DOMAIN files
    <2>1. files' = files
      BY <1>5 DEF WriteLog
    <2>2. r \in hit \/ Twins(r) # {}
      BY <1>1, <1>5 DEF LogInv, KeptInv, KeptAt
    <2>3. BookOf(r)' = "gone"
      BY <1>1, <1>4, <2>1, BookNext DEF Has
    <2>4. \A q \in Runs \ {r} : BookOf(q)' = BookOf(q)
      BY <1>1, <2>1, BookSame DEF Has
    <2>5. /\ {r} \in SUBSET Runs
          /\ \A q \in {r} : /\ BookOf(q) = "none" /\ BookOf(q)' = "gone"
                            /\ id[q] # None /\ (q \in hit \/ Twins(q) # {})
      BY <1>1, <1>4, <2>2, <2>3
    <2>6. QED
      BY <1>1, <1>2, <2>4, <2>5, BookVanish
  <1>6. ASSUME files' = Put(id[r], r)
        PROVE  Book!Keep(r)
    <2>1. /\ DOMAIN files' = DOMAIN files \cup {id[r]} /\ files'[id[r]] = r
          /\ \A g \in DOMAIN files \ {id[r]} : files'[g] = files[g]
      BY <1>6, PutFacts
    <2>2. BookOf(r)' = "kept"
      BY <1>1, <2>1, BookNext DEF Has
    <2>3. ASSUME NEW q \in Runs \ {r}
          PROVE  BookOf(q)' = IF q \in Book!Twins(r) \cap Book!Kept THEN "gone"
                              ELSE BookOf(q)
      <3>1. q \in Book!Twins(r) \cap Book!Kept <=> Has(q) /\ id[q] = id[r]
        BY <1>1, BookFacts DEF Book!Twins, Book!Kept
      <3>2. CASE Has(q) /\ id[q] = id[r]
        <4>1. rpc'[q] = "saved" /\ ~Has(q)'
          BY <1>1, <2>1, <3>2, BookFacts DEF Has
        <4>2. QED
          BY <3>1, <3>2, <4>1, BookNext
      <3>3. CASE ~(Has(q) /\ id[q] = id[r])
        <4>1. Has(q)' <=> Has(q)
          BY <1>1, <2>1, <3>3 DEF Has
        <4>2. QED
          BY <1>1, <3>1, <3>3, <4>1, BookSame
      <3>4. QED
        BY <3>2, <3>3
    <2>4. r \in Book!Saving
      BY <1>1, <1>4 DEF Book!Saving
    <2>5. [q \in Runs |-> BookOf(q)]'
              = [q \in Runs |-> IF q = r THEN "kept"
                                ELSE IF q \in Book!Twins(r) \cap Book!Kept THEN "gone"
                                ELSE [p \in Runs |-> BookOf(p)][q]]
      BY <2>2, <2>3
    <2>6. UNCHANGED <<[d \in Dels |-> PhaseOf(d)], [d \in Dels |-> del[d].target],
                      [d \in Dels |-> del[d].doomed]>>
      BY <1>1, <1>2
    <2>7. QED
      BY <1>1, <2>4, <2>5, <2>6 DEF Book!Keep
  <1>7. CASE id[r] \in DOMAIN files /\ files' = Put(id[r], Torn) /\ files[id[r]] # Torn
    <2> DEFINE S == {q \in Runs : q = r \/ (Has(q) /\ id[q] = id[r])}
    <2>1. /\ DOMAIN files' = DOMAIN files \cup {id[r]} /\ files'[id[r]] = Torn
          /\ \A g \in DOMAIN files \ {id[r]} : files'[g] = files[g]
      BY <1>7, PutFacts
    <2>2. PICK o \in Runs : o # r /\ id[o] = id[r]
      <3>1. /\ files[id[r]] \in Runs /\ id[files[id[r]]] = id[r]
            /\ rpc[files[id[r]]] = "saved"
        BY <1>7, RangeFiles DEF LogInv, HoldsInv
      <3>2. QED
        BY <1>1, <3>1
    <2>3. ASSUME NEW q \in S
          PROVE  /\ q \in Runs /\ Twins(q) # {} /\ id[q] # None
                 /\ BookOf(q) \in {"none", "kept"} /\ BookOf(q)' = "gone"
      <3>1. q \in Runs /\ id[q] = id[r]
        OBVIOUS
      <3>2. r \in Twins(q) \/ o \in Twins(q)
        BY <2>2, <3>1 DEF Twins
      <3>3. ~Has(q)' /\ rpc'[q] = "saved"
        BY <1>1, <1>3, <2>1, <3>1, BookFacts DEF Has
      <3>4. BookOf(q) \in {"none", "kept"}
        BY <1>4, BookFacts
      <3>5. QED
        BY <1>1, <3>1, <3>2, <3>3, <3>4, BookNext
    <2>4. ASSUME NEW q \in Runs \ S PROVE BookOf(q)' = BookOf(q)
      <3>1. Has(q)' <=> Has(q)
        BY <1>1, <1>3, <2>1 DEF Has
      <3>2. QED
        BY <1>1, <3>1, BookSame
    <2>5. S \in SUBSET Runs
      OBVIOUS
    <2> HIDE DEF S
    <2>6. QED
      BY <1>1, <1>2, <2>3, <2>4, <2>5, BookVanish
  <1>8. \/ id[r] \notin DOMAIN files
        \/ files' = Put(id[r], r)
        \/ id[r] \in DOMAIN files /\ files' = Put(id[r], Torn) /\ files[id[r]] # Torn
    BY DEF WriteLog
  <1>9. QED
    BY <1>5, <1>6, <1>7, <1>8 DEF Book!Next

LEMMA BookSaveFails ==
    ASSUME LogInv, LogInv', NEW r \in Runs, SaveFails(r)
    PROVE  Book!Fail(r)
  <1>1. /\ rpc[r] \in {"open", "write"} /\ UNCHANGED <<id, dpc, del, hit>>
        /\ id[r] # None /\ id[r] \in Ids
        /\ \A q \in Runs \ {r} : rpc'[q] = rpc[q]
        /\ rpc'[r] = "lost" /\ faulty' = faulty \cup {r}
    BY IdFacts DEF SaveFails, LogInv, CtlInv
  <1>2. \/ files' = files
        \/ /\ DOMAIN files' = DOMAIN files \cup {id[r]}
           /\ \A g \in DOMAIN files \ {id[r]} : files'[g] = files[g]
    <2>1. files' = files \/ files' = Put(id[r], Torn)
      BY DEF SaveFails
    <2>2. QED
      BY <2>1, PutFacts
  <1>3. \A g \in DOMAIN files' : g = id[r] \/ (g \in DOMAIN files /\ files'[g] = files[g])
    BY <1>2
  <1>4. \A g \in DOMAIN files : g = id[r] \/ (g \in DOMAIN files' /\ files'[g] = files[g])
    BY <1>2
  <1>5. BookOf(r) = "none" /\ BookOf(r)' = "gone"
    <2>1. ~Has(r)'
      BY <1>1, BookNext
    <2>2. QED
      BY <1>1, <2>1, BookFacts, BookNext
  <1> DEFINE S == {q \in Runs \ {r} : Has(q) /\ ~Has(q)'}
  <1>6. id[r] \in DOMAIN files' => \/ id[r] \in DOMAIN files /\ files'[id[r]] = files[id[r]]
                                  \/ files'[id[r]] = Torn
    BY PutFacts DEF SaveFails
  <1>7. ASSUME NEW q \in Runs \ {r}
        PROVE  BookOf(q)' = IF q \in S \cup {r} THEN "gone" ELSE BookOf(q)
    <2>1. CASE Has(q) /\ ~Has(q)'
      <3>1. rpc'[q] = "saved"
        BY <1>1, <2>1, BookFacts
      <3>2. QED
        BY <2>1, <3>1, BookNext
    <2>2. CASE ~(Has(q) /\ ~Has(q)')
      <3>1. q # Torn
        BY RunLogsAssumption
      <3>2. Has(q)' => Has(q)
        BY <1>1, <1>3, <1>6, <3>1 DEF Has
      <3>3. (Has(q)' <=> Has(q)) /\ q \notin S \cup {r}
        BY <2>2, <3>2
      <3>4. QED
        BY <1>1, <3>3, BookSame
    <2>3. QED
      BY <2>1, <2>2
  <1>8. S \in SUBSET (Book!Twins(r) \cap Book!Kept)
    <2> SUFFICES ASSUME NEW q \in Runs \ {r}, Has(q), ~Has(q)'
                 PROVE  q \in Book!Twins(r) \cap Book!Kept
      OBVIOUS
    <2>1. id[q] = id[r]
      BY <1>1, <1>4 DEF Has
    <2>2. QED
      BY <1>1, <2>1, BookFacts DEF Book!Twins, Book!Kept
  <1> HIDE DEF S
  <1>9. [q \in Runs |-> BookOf(q)]'
            = [q \in Runs |-> IF q \in S \cup {r} THEN "gone"
                              ELSE [p \in Runs |-> BookOf(p)][q]]
    BY <1>5, <1>7
  <1>10. UNCHANGED <<[d \in Dels |-> PhaseOf(d)], [d \in Dels |-> del[d].target],
                    [d \in Dels |-> del[d].doomed]>>
    BY <1>1, PhaseSame
  <1>11. r \in Book!Saving
    BY <1>1, <1>5 DEF Book!Saving
  <1>12. QED
    BY <1>1, <1>8, <1>9, <1>10, <1>11 DEF Book!Fail

LEMMA BookStartDel ==
    ASSUME LogInv, LogInv', NEW d \in Dels, NEW c, NEW f, StartDel(d, c, f)
    PROVE  [Book!Next]_Book!vars
  <1> DEFINE T == Covered(c, f)
  <1>1. /\ dpc[d] = "idle" /\ dpc'[d] \in Deleting
        /\ \A e \in Dels \ {d} : dpc'[e] = dpc[e]
        /\ UNCHANGED <<files, rpc, id, faulty>> /\ hit' = hit \cup Named(T)
    BY DEF StartDel, Deleting, LogInv, CtlInv
  <1>2. /\ del'[d].target = T /\ del'[d].doomed = Named(T) \cap Range(files)
        /\ \A e \in Dels \ {d} : del'[e] = del[e]
    BY DEF StartDel, NoDel, LogInv, DelInv
  <1>3. T \in SUBSET Ids
    BY DEF Covered
  <1> HIDE DEF T
  <1>4. Named(T) \cap Range(files) = Book!Named(T) \cap Book!Kept
    <2>1. \A r \in Runs : r \in Range(files) <=> BookOf(r) = "kept"
      BY HasFacts, BookFacts DEF LogInv
    <2>2. QED
      BY <2>1 DEF Named, Book!Named, Book!Kept
  <1>5. \A r \in Runs : BookOf(r)' = BookOf(r)
    BY <1>1, BookSame DEF Has
  <1>6. /\ PhaseOf(d) = "idle" /\ PhaseOf(d)' = "active"
        /\ \A e \in Dels \ {d} : PhaseOf(e)' = PhaseOf(e)
    BY <1>1, PhaseFacts, PhaseNext, PhaseSame
  <1>7. [e \in Dels |-> PhaseOf(e)]' = [[e \in Dels |-> PhaseOf(e)] EXCEPT ![d] = "active"]
    BY <1>6
  <1>8. /\ [e \in Dels |-> del[e].target]'
              = [[e \in Dels |-> del[e].target] EXCEPT ![d] = T]
        /\ [e \in Dels |-> del[e].doomed]'
              = [[e \in Dels |-> del[e].doomed] EXCEPT ![d] = Book!Named(T) \cap Book!Kept]
    BY <1>2, <1>4
  <1>9. Book!Ask(d, T)
    BY <1>1, <1>5, <1>6, <1>7, <1>8 DEF Book!Ask, Book!Named, Named
  <1>10. QED
    BY <1>3, <1>9 DEF Book!Next

LEMMA BookUnlink ==
    ASSUME LogInv, LogInv', NEW d \in Dels, Unlink(d)
    PROVE  [Book!Next]_Book!vars
  <1>1. PICK f \in del[d].names :
            /\ files' = Restrict(files, DOMAIN files \ {f})
            /\ del' = [del EXCEPT ![d].names = @ \ {f}]
    BY DEF Unlink
  <1>2. dpc[d] = "unlink" /\ UNCHANGED <<rpc, id, dpc, hit, faulty>>
    BY DEF Unlink
  <1>3. \A e \in Dels : /\ PhaseOf(e)' = PhaseOf(e)
                        /\ del'[e].target = del[e].target
                        /\ del'[e].doomed = del[e].doomed
    BY <1>1, <1>2, PhaseSame DEF LogInv, DelInv, DelRecs
  <1>4. /\ DOMAIN files' = DOMAIN files \ {f}
        /\ \A g \in DOMAIN files' : files'[g] = files[g]
    BY <1>1, TakeFacts
  <1>5. f \in del[d].target /\ PhaseOf(d) = "active"
    BY <1>2, PhaseFacts DEF LogInv, DelInv, ScopeInv, Deleting
  <1> DEFINE S == {q \in Runs : Has(q) /\ id[q] = f}
  <1>6. ASSUME NEW q \in S
        PROVE  /\ BookOf(q) = "kept" /\ BookOf(q)' = "gone" /\ id[q] # None
               /\ \E e \in Dels : PhaseOf(e) = "active" /\ id[q] \in del[e].target
    <2>1. rpc'[q] = "saved" /\ ~Has(q)' /\ id[q] # None
      BY <1>2, <1>4, HasName DEF Has
    <2>2. QED
      BY <1>5, <2>1, BookFacts, BookNext
  <1>7. ASSUME NEW q \in Runs \ S PROVE BookOf(q)' = BookOf(q)
    <2>1. Has(q)' <=> Has(q)
      BY <1>2, <1>4 DEF Has
    <2>2. QED
      BY <1>2, <2>1, BookSame
  <1>8. S \in SUBSET Runs
    OBVIOUS
  <1> HIDE DEF S
  <1>9. QED
    BY <1>2, <1>3, <1>6, <1>7, <1>8, BookVanish

(* A step that changes nothing the book speaks of.                         *)
LEMMA BookStutter ==
    ASSUME LogInv, LogInv', UNCHANGED <<id, hit, faulty, files, rpc>>,
           \A d \in Dels : /\ PhaseOf(d)' = PhaseOf(d)
                           /\ del'[d].target = del[d].target
                           /\ del'[d].doomed = del[d].doomed
    PROVE  [Book!Next]_Book!vars
  <1>1. \A r \in Runs : BookOf(r)' = BookOf(r)
    BY BookSame DEF Has
  <1>2. QED
    BY <1>1 DEF Book!vars

LEMMA BookWalk ==
    ASSUME LogInv, LogInv', NEW d \in Dels, DelRoot(d) \/ DelReadDir(d)
    PROVE  [Book!Next]_Book!vars
  <1>1. UNCHANGED <<id, hit, faulty, files, rpc>>
    BY DEF DelRoot, DelReadDir
  <1>2. \A e \in Dels : /\ del'[e].target = del[e].target
                        /\ del'[e].doomed = del[e].doomed
    <2>1. CASE DelRoot(d)
      BY <2>1 DEF DelRoot, LogInv, DelInv, DelRecs
    <2>2. CASE DelReadDir(d)
      <3>1. PICK c \in del[d].todo :
               del' = [del EXCEPT ![d].todo = @ \ {c}, ![d].dir = c, ![d].names = In(c)]
        BY <2>2 DEF DelReadDir
      <3>2. QED
        BY <3>1 DEF LogInv, DelInv, DelRecs
    <2>3. QED
      BY <2>1, <2>2
  <1>3. \A e \in Dels : dpc'[e] = dpc[e] \/ (dpc[e] \in Deleting /\ dpc'[e] \in Deleting)
    BY DEF DelRoot, DelReadDir, Deleting, LogInv, CtlInv
  <1>4. QED
    BY <1>1, <1>2, <1>3, PhaseSame, BookStutter

(* A delete that is over has removed what it owed, or failed.              *)
LEMMA BookFinish ==
    ASSUME LogInv, LogInv', NEW d \in Dels, RmDir(d) \/ RmRoot(d)
    PROVE  [Book!Next]_Book!vars
  <1>1. UNCHANGED <<id, hit, faulty, files, rpc, del>>
    BY DEF RmDir, RmRoot
  <1>2. /\ dpc[d] \in Deleting /\ dpc'[d] \in {"dir", "ok", "err"}
        /\ \A e \in Dels \ {d} : dpc'[e] = dpc[e]
    BY DEF RmDir, RmRoot, Deleting, LogInv, CtlInv
  <1>3. \A e \in Dels \ {d} : PhaseOf(e)' = PhaseOf(e)
    BY <1>2, PhaseSame
  <1>4. CASE dpc'[d] = "dir"
    <2>1. PhaseOf(d)' = PhaseOf(d)
      BY <1>2, <1>4, PhaseSame DEF Deleting
    <2>2. QED
      BY <1>1, <1>3, <2>1, BookStutter
  <1>5. CASE dpc'[d] \in {"ok", "err"}
    <2>1. \A r \in Runs : BookOf(r)' = BookOf(r)
      BY <1>1, BookSame DEF Has
    <2>2. /\ PhaseOf(d) = "active" /\ PhaseOf(d)' \in {"ok", "failed"}
          /\ PhaseOf(d)' = "ok" => dpc'[d] = "ok"
      BY <1>2, <1>5, PhaseFacts, PhaseNext DEF Deleting
    <2>3. ASSUME dpc'[d] = "ok" PROVE del[d].doomed \cap Book!Kept = {}
      <3>1. \A r \in Runs : r \in del[d].doomed => ~Has(r)
        BY <1>1, <2>3 DEF LogInv, OwedInv, OwedAt, Has
      <3>2. QED
        BY <3>1, BookFacts DEF Book!Kept
    <2>4. [e \in Dels |-> PhaseOf(e)]'
              = [[e \in Dels |-> PhaseOf(e)] EXCEPT ![d] = PhaseOf(d)']
      BY <1>3
    <2>5. UNCHANGED <<[r \in Runs |-> BookOf(r)], [e \in Dels |-> del[e].target],
                      [e \in Dels |-> del[e].doomed]>>
      BY <1>1, <2>1
    <2>6. d \in Book!Active
      BY <2>2 DEF Book!Active
    <2>7. Book!Finish(d)
      BY <1>1, <2>2, <2>3, <2>4, <2>5, <2>6 DEF Book!Finish
    <2>8. QED
      BY <2>7 DEF Book!Next
  <1>6. QED
    BY <1>2, <1>4, <1>5

LEMMA BookCrash ==
    ASSUME LogInv, LogInv', Crash
    PROVE  Book!Crash
  <1>1. /\ UNCHANGED <<id, hit, faulty, files, del>>
        /\ \A r \in Runs : rpc'[r] = IF rpc[r] \in {"open", "write"} THEN "lost" ELSE rpc[r]
        /\ \A d \in Dels : dpc'[d] = IF dpc[d] \in Deleting THEN "lost" ELSE dpc[d]
    BY DEF Crash
  <1>2. ASSUME NEW r \in Runs
        PROVE  BookOf(r)' = IF r \in Book!Saving THEN "gone" ELSE BookOf(r)
    <2>1. r \in Book!Saving <=> rpc[r] \in {"open", "write"}
      BY BookFacts DEF Book!Saving, LogInv, CtlInv
    <2>2. Has(r)' <=> Has(r)
      BY <1>1 DEF Has
    <2>3. CASE rpc[r] \in {"open", "write"}
      BY <1>1, <2>1, <2>2, <2>3, BookFacts, BookNext
    <2>4. CASE rpc[r] \notin {"open", "write"}
      BY <1>1, <2>1, <2>2, <2>4, BookSame
    <2>5. QED
      BY <2>3, <2>4
  <1>3. ASSUME NEW d \in Dels
        PROVE  PhaseOf(d)' = IF d \in Book!Active THEN "failed" ELSE PhaseOf(d)
    <2>1. d \in Book!Active <=> dpc[d] \in Deleting
      BY PhaseFacts DEF Book!Active
    <2>2. CASE dpc[d] \in Deleting
      BY <1>1, <2>1, <2>2, PhaseNext DEF Deleting
    <2>3. CASE dpc[d] \notin Deleting
      BY <1>1, <2>1, <2>3, PhaseSame
    <2>4. QED
      BY <2>2, <2>3
  <1>4. QED
    BY <1>1, <1>2, <1>3 DEF Book!Crash

LEMMA BookStep == LogInv /\ LogInv' /\ [Next]_vars => [Book!Next]_Book!vars
  <1> SUFFICES ASSUME LogInv, LogInv', [Next]_vars
               PROVE  [Book!Next]_Book!vars
    OBVIOUS
  <1>1. CASE UNCHANGED vars
    <2>1. UNCHANGED <<id, hit, faulty, files, rpc, dpc, del>>
      BY <1>1 DEF vars
    <2>2. \A d \in Dels : PhaseOf(d)' = PhaseOf(d)
      BY <2>1, PhaseSame
    <2>3. QED
      BY <2>1, <2>2, BookStutter
  <1>2. ASSUME NEW r \in Runs, SaveRunLog(r) PROVE [Book!Next]_Book!vars
    <2>1. CASE \E c \in Chains, m \in Msgs : MakeDirs(r, c, m)
      BY <2>1, BookMakeDirs DEF Book!Next
    <2>2. QED
      BY <1>2, <2>1, BookOpenLog, BookWriteLog, BookSaveFails DEF SaveRunLog, Book!Next
  <1>3. ASSUME NEW l \in Lists, List(l) PROVE [Book!Next]_Book!vars
    <2>1. UNCHANGED <<id, hit, faulty, files, rpc, dpc, del>>
      BY <1>3 DEF List, StartList, StartGet, OpenRoot, ReadDir, VisitFile, SortAndCut,
                  ReadLog
    <2>2. \A d \in Dels : PhaseOf(d)' = PhaseOf(d)
      BY <2>1, PhaseSame
    <2>3. QED
      BY <2>1, <2>2, BookStutter
  <1>4. ASSUME NEW d \in Dels, Delete(d) PROVE [Book!Next]_Book!vars
    BY <1>4, BookStartDel, BookWalk, BookUnlink, BookFinish DEF Delete
  <1>5. QED
    BY <1>1, <1>2, <1>3, <1>4, BookCrash DEF Next, Book!Next

LEMMA BookInit == Init => Book!Init
  <1> SUFFICES ASSUME Init PROVE Book!Init
    OBVIOUS
  <1>1. LogInv
    BY InitLog
  <1>2. \A r \in Runs : BookOf(r) = "none"
    BY <1>1, BookFacts DEF Init
  <1>3. \A d \in Dels : /\ PhaseOf(d) = "idle"
                        /\ del[d].target = {} /\ del[d].doomed = {}
    BY <1>1, PhaseFacts DEF Init, NoDel
  <1>4. QED
    BY <1>2, <1>3 DEF Init, Book!Init

(* KeepsTheBook: RunLogs implements LogBook. Whatever happens to the tree  *)
(* between two system calls, a log is kept from the end of its run until a *)
(* delete of its name, a run of its name or, during the save, a crash or an*)
(* error takes it, and a delete is OK only when all it owed is gone.       *)
THEOREM BookCorrect == Spec => KeepsTheBook
  <1>1. Spec => Book!Init
    BY BookInit DEF Spec
  <1>2. Spec => [][Book!Next]_Book!vars
    BY BookStep, LogCorrect, PTL DEF Spec
  <1>3. QED
    BY <1>1, <1>2, PTL DEF KeepsTheBook, Book!Spec

-----------------------------------------------------------------------------
(* A list that nothing overlapped.                                         *)

ListRecs == [chain: Chains \cup {All}, size: Int, current: Int, todo: SUBSET Chains,
             names: SUBSET Ids, found: SUBSET Ids, total: Nat, page: Seq(Ids),
             data: Seq(Runs), known: SUBSET Ids, saves: BOOLEAN, dels: BOOLEAN]

NoTwins == \A r \in Runs : id[r] # None => Twins(r) = {}

(* It found something: it is no Get, and its page can be an error.         *)
Quiet(l) ==
    /\ list[l].found # {} /\ ~list[l].saves /\ ~list[l].dels
    /\ ~crashed /\ faulty = {} /\ NoTwins

First(l) == (list[l].current - 1) * list[l].size
Sound(l) ==
    /\ list[l].size >= 0 /\ Fits(First(l), Bits)
    /\ Fits(list[l].current * list[l].size, Bits)

Left(l) ==
    LET n == Cardinality(list[l].found)
    IN  IF list[l].size < n - First(l) THEN list[l].size ELSE n - First(l)

Placed(S, f, p) ==
    f \in S /\ Cardinality(Before(S, f)) < p /\ Cardinality(NotAfter(S, f)) >= p

(* The logs read and the logs still to be read are those of the page.      *)
PageAt(l) ==
    LET e == list[l]
    IN  /\ e.total = Cardinality(e.found) /\ First(l) \in 0..e.total
        /\ Len(e.data) + Len(e.page) = Left(l)
        /\ \A j \in 1..Len(e.page) :
              Placed(e.found, e.page[j], First(l) + Len(e.data) + j)
        /\ \A i \in 1..Len(e.data) : Placed(e.found, id[e.data[i]], First(l) + i)

(* While it walks and reads, nothing is written and what it found stays.   *)
Settled(l) ==
    /\ \A r \in Runs : rpc[r] \notin {"open", "write"}
    /\ list[l].found \subseteq DOMAIN files

SettledAt(l) ==
    /\ lpc[l] \in {"root", "walk"} \/ (lpc[l] = "read" /\ list[l].found # {})
    /\ ~list[l].saves /\ ~list[l].dels /\ ~crashed
    => Settled(l)

QuietAt(l) ==
    Quiet(l) /\ Sound(l) =>
        /\ lpc[l] \in {"read", "ok"} => PageAt(l)
        /\ lpc[l] = "ok" => list[l].page = <<>>
        /\ lpc[l] = "panic" => First(l) \notin 0..Cardinality(list[l].found)
        /\ lpc[l] # "err"

FiniteInv ==
    /\ IsFiniteSet(DOMAIN files)
    /\ \A l \in Lists : IsFiniteSet(list[l].names) /\ IsFiniteSet(list[l].found)

Fresh(l) ==
    /\ lpc[l] = "root" => list[l].found = {}
    /\ lpc[l] \in {"root", "walk"} => list[l].data = <<>>

QuietInv ==
    /\ list \in [Lists -> ListRecs]
    /\ \A l \in Lists : Fresh(l) /\ SettledAt(l) /\ QuietAt(l)

(* What a step of somebody else leaves of a list.                          *)
SameList(l) ==
    /\ lpc'[l] = lpc[l]
    /\ list'[l].size = list[l].size /\ list'[l].current = list[l].current
    /\ list'[l].found = list[l].found /\ list'[l].total = list[l].total
    /\ list'[l].page = list[l].page /\ list'[l].data = list[l].data
    /\ list'[l].names = list[l].names

LEMMA NoListFacts ==
    /\ NoList \in ListRecs /\ NoList.data = <<>>
    /\ NoList.names = {} /\ NoList.found = {}
  <1>1. <<>> \in Seq(Ids) /\ <<>> \in Seq(Runs)
    OBVIOUS
  <1>2. QED
    BY <1>1 DEF NoList, ListRecs

LEMMA SawFacts ==
    ASSUME list \in [Lists -> ListRecs], lpc' = lpc, list' = SawSave \/ list' = SawDel
    PROVE  /\ list' \in [Lists -> ListRecs]
           /\ \A l \in Lists : /\ SameList(l)
                               /\ list[l].saves => list'[l].saves
                               /\ list[l].dels => list'[l].dels
                               /\ l \in Walking => list'[l].saves \/ list'[l].dels
  <1>1. CASE list' = SawSave
    <2>1. ASSUME NEW l \in Lists
          PROVE  /\ list'[l] \in ListRecs /\ SameList(l)
                 /\ list[l].saves => list'[l].saves
                 /\ list[l].dels => list'[l].dels
                 /\ l \in Walking => list'[l].saves
      <3> DEFINE b == list[l].saves \/ l \in Walking
      <3>1. list'[l] = [list[l] EXCEPT !.saves = b] /\ b \in BOOLEAN
        BY <1>1 DEF SawSave
      <3> HIDE DEF b
      <3>2. list[l] \in ListRecs
        OBVIOUS
      <3>3. list'[l] \in ListRecs /\ SameList(l)
        BY <3>1, <3>2 DEF ListRecs, SameList
      <3>4. list'[l].saves = b /\ list'[l].dels = list[l].dels
        BY <3>1, <3>2 DEF ListRecs
      <3>5. QED
        BY <3>3, <3>4 DEF b
    <2>2. list' = [l \in Lists |-> list'[l]]
      BY <1>1 DEF SawSave
    <2>3. QED
      BY <2>1, <2>2
  <1>2. CASE list' = SawDel
    <2>1. ASSUME NEW l \in Lists
          PROVE  /\ list'[l] \in ListRecs /\ SameList(l)
                 /\ list[l].saves => list'[l].saves
                 /\ list[l].dels => list'[l].dels
                 /\ l \in Walking => list'[l].dels
      <3> DEFINE b == list[l].dels \/ l \in Walking
      <3>1. list'[l] = [list[l] EXCEPT !.dels = b] /\ b \in BOOLEAN
        BY <1>2 DEF SawDel
      <3> HIDE DEF b
      <3>2. list[l] \in ListRecs
        OBVIOUS
      <3>3. list'[l] \in ListRecs /\ SameList(l)
        BY <3>1, <3>2 DEF ListRecs, SameList
      <3>4. list'[l].dels = b /\ list'[l].saves = list[l].saves
        BY <3>1, <3>2 DEF ListRecs
      <3>5. QED
        BY <3>3, <3>4 DEF b
    <2>2. list' = [l \in Lists |-> list'[l]]
      BY <1>2 DEF SawDel
    <2>3. QED
      BY <2>1, <2>2
  <1>3. QED
    BY <1>1, <1>2

(* The answer of a list stays right when nobody renames a run.             *)
LEMMA PageFrame ==
    ASSUME NEW l \in Lists, list[l] \in ListRecs, SameList(l), PageAt(l),
           \A r \in Runs : id[r] # None => id'[r] = id[r]
    PROVE  PageAt(l)'
  <1>1. First(l)' = First(l) /\ Left(l)' = Left(l)
    BY DEF SameList, First, Left
  <1>2. ASSUME NEW i \in 1..Len(list[l].data)
        PROVE  id'[list[l].data[i]] = id[list[l].data[i]]
    <2>1. list[l].data[i] \in Runs /\ list[l].found \subseteq Ids
      BY DEF ListRecs
    <2>2. id[list[l].data[i]] \in Ids
      BY <2>1 DEF PageAt, Placed
    <2>3. QED
      BY <2>1, <2>2, RunLogsAssumption
  <1>3. QED
    BY <1>1, <1>2 DEF PageAt, SameList

LEMMA QuietFrame ==
    ASSUME NEW l \in Lists, list[l] \in ListRecs, QuietAt(l), SameList(l),
           \A r \in Runs : id[r] # None => id'[r] = id[r],
           list[l].saves => list'[l].saves, list[l].dels => list'[l].dels,
           crashed => crashed', faulty \subseteq faulty'
    PROVE  QuietAt(l)'
  <1>1. First(l)' = First(l) /\ (Sound(l)' => Sound(l))
    BY DEF SameList, First, Sound
  <1>2. NoTwins' => NoTwins
    BY TwinsStay DEF NoTwins
  <1>3. Quiet(l)' => Quiet(l)
    BY <1>2 DEF Quiet, SameList
  <1>4. QED
    BY <1>1, <1>3, PageFrame DEF QuietAt, SameList

LEMMA SettledFrame ==
    ASSUME NEW l \in Lists, SettledAt(l), SameList(l), UNCHANGED <<files, rpc>>,
           list[l].saves => list'[l].saves, list[l].dels => list'[l].dels,
           crashed => crashed'
    PROVE  SettledAt(l)'
  BY DEF SettledAt, Settled, SameList

(* A step that changes the tree, or may do so soon, overlaps every list at *)
(* work and is too late for the others.                                    *)
LEMMA QuietSaw ==
    ASSUME QuietInv, lpc' = lpc, list' = SawSave \/ list' = SawDel,
           \A r \in Runs : id[r] # None => id'[r] = id[r], crashed => crashed',
           faulty \subseteq faulty'
    PROVE  QuietInv'
  <1>1. list' \in [Lists -> ListRecs]
    BY SawFacts DEF QuietInv
  <1>2. ASSUME NEW l \in Lists PROVE QuietAt(l)'
    BY SawFacts, QuietFrame DEF QuietInv
  <1>3. ASSUME NEW l \in Lists PROVE SettledAt(l)'
    <2>1. lpc'[l] = lpc[l] /\ (l \in Walking => list'[l].saves \/ list'[l].dels)
      BY SawFacts DEF QuietInv
    <2>2. QED
      BY <2>1 DEF SettledAt, Walking
  <1>4. ASSUME NEW l \in Lists PROVE Fresh(l)'
    BY SawFacts DEF QuietInv, Fresh, SameList
  <1>5. QED
    BY <1>1, <1>2, <1>3, <1>4 DEF QuietInv

LEMMA QuietSave ==
    ASSUME CtlInv, QuietInv, NEW r \in Runs, SaveRunLog(r)
    PROVE  QuietInv'
  <1>1. list' = SawSave /\ lpc' = lpc /\ crashed' = crashed /\ faulty \subseteq faulty'
    BY DEF SaveRunLog, MakeDirs, OpenLog, WriteLog, SaveFails
  <1>2. \A q \in Runs : id[q] # None => id'[q] = id[q]
    BY DEF SaveRunLog, MakeDirs, OpenLog, WriteLog, SaveFails, CtlInv
  <1>3. QED
    BY <1>1, <1>2, QuietSaw

LEMMA QuietSameList ==
    ASSUME QuietInv, UNCHANGED <<files, rpc, id, lpc, list, faulty, crashed>>
    PROVE  QuietInv'
  BY QuietFrame, SettledFrame DEF QuietInv, Fresh, SameList

LEMMA QuietDelete ==
    ASSUME QuietInv, NEW d \in Dels, Delete(d)
    PROVE  QuietInv'
  <1>1. CASE UNCHANGED <<list, files>>
    <2>1. UNCHANGED <<rpc, id, lpc, faulty, crashed>>
      BY DEF Delete, StartDel, DelRoot, DelReadDir, Unlink, RmDir, RmRoot
    <2>2. QED
      BY <1>1, <2>1, QuietSameList
  <1>2. CASE list' = SawDel
    <2>1. UNCHANGED <<id, lpc, faulty, crashed>>
      BY DEF Delete, StartDel, DelRoot, DelReadDir, Unlink, RmDir, RmRoot
    <2>2. QED
      BY <1>2, <2>1, QuietSaw
  <1>3. QED
    BY <1>1, <1>2 DEF Delete, StartDel, DelRoot, DelReadDir, Unlink, RmDir, RmRoot

LEMMA QuietCrash ==
    ASSUME QuietInv, Crash
    PROVE  QuietInv'
  <1>1. /\ list' = [l \in Lists |-> IF l \in Walking THEN NoList ELSE list[l]]
        /\ crashed'
        /\ \A l \in Lists : lpc'[l] = IF l \in Walking THEN "lost" ELSE lpc[l]
    BY DEF Crash
  <1>2. list' \in [Lists -> ListRecs]
    BY <1>1, NoListFacts DEF QuietInv
  <1>3. \A l \in Lists : Fresh(l)'
    BY <1>1 DEF Walking, Fresh
  <1>4. QED
    BY <1>1, <1>2, <1>3 DEF QuietInv, SettledAt, QuietAt, Quiet

(* A step of one list.                                                     *)
LEMMA QuietStep ==
    ASSUME QuietInv, NEW l \in Lists, UNCHANGED <<files, rpc, id, faulty, crashed>>,
           NEW e \in ListRecs, list' = [list EXCEPT ![l] = e],
           \A k \in Lists \ {l} : lpc'[k] = lpc[k],
           list'[l] = e => Fresh(l)' /\ SettledAt(l)' /\ QuietAt(l)'
    PROVE  QuietInv'
  <1>1. /\ list' \in [Lists -> ListRecs] /\ list'[l] = e
        /\ \A k \in Lists \ {l} : list'[k] = list[k]
    BY DEF QuietInv
  <1>2. ASSUME NEW k \in Lists \ {l} PROVE Fresh(k)' /\ SettledAt(k)' /\ QuietAt(k)'
    BY <1>1, QuietFrame, SettledFrame DEF QuietInv, Fresh, SameList
  <1>3. QED
    BY <1>1, <1>2 DEF QuietInv

LEMMA QuietStart ==
    ASSUME TreeInv, CtlInv, QuietInv, NEW l \in Lists,
           \/ \E c \in Chains \cup {All} : StartList(l, c)
           \/ \E r \in Runs : StartGet(l, r)
    PROVE  QuietInv'
  <1>1. /\ UNCHANGED <<files, rpc, id, faulty, crashed>>
        /\ \A k \in Lists \ {l} : lpc'[k] = lpc[k]
    BY DEF StartList, StartGet, CtlInv
  <1>2. NoList \in ListRecs /\ NoList.found = {} /\ NoList.data = <<>>
    BY NoListFacts
  <1>3. ASSUME NEW c \in Chains \cup {All}, StartList(l, c) PROVE QuietInv'
    <2> DEFINE s == Range(rpc) \cap {"open", "write"} # {}
               d == Range(dpc) \cap Deleting # {}
               e == [NoList EXCEPT !.chain = c, !.known = In(c), !.saves = s, !.dels = d]
    <2>1. list' = [list EXCEPT ![l] = e] /\ lpc'[l] = "root"
      BY <1>3 DEF StartList, CtlInv
    <2>2. s \in BOOLEAN /\ d \in BOOLEAN /\ In(c) \subseteq Ids
      BY DEF In, TreeInv
    <2>3. ~s => \A r \in Runs : rpc[r] \notin {"open", "write"}
      BY DEF Range, CtlInv
    <2> HIDE DEF s, d
    <2>4. e \in ListRecs /\ e.found = {} /\ e.saves = s /\ e.data = <<>>
      BY <1>2, <2>2 DEF ListRecs
    <2> HIDE DEF e
    <2>5. list'[l] = e => Fresh(l)' /\ SettledAt(l)' /\ QuietAt(l)'
      BY <1>1, <2>3, <2>4 DEF Fresh, SettledAt, Settled, QuietAt, Quiet
    <2>6. QED
      BY <1>1, <2>1, <2>4, <2>5, QuietStep
  <1>4. ASSUME NEW r \in Runs, StartGet(l, r) PROVE QuietInv'
    <2> DEFINE e == [NoList EXCEPT !.chain = id[r].chain, !.page = <<id[r]>>]
    <2>1. list' = [list EXCEPT ![l] = e] /\ lpc'[l] = "read" /\ id[r] # None
      BY <1>4 DEF StartGet, CtlInv
    <2>2. id[r] \in Ids /\ id[r].chain \in Chains /\ <<id[r]>> \in Seq(Ids)
      BY <2>1 DEF CtlInv, Ids
    <2>3. e \in ListRecs /\ e.found = {}
      BY <1>2, <2>2 DEF ListRecs
    <2> HIDE DEF e
    <2>4. list'[l] = e => Fresh(l)' /\ SettledAt(l)' /\ QuietAt(l)'
      BY <2>1, <2>3 DEF Fresh, SettledAt, QuietAt, Quiet
    <2>5. QED
      BY <1>1, <2>1, <2>3, <2>4, QuietStep
  <1>5. QED
    BY <1>3, <1>4

(* A walk that gives up met a delete.                                      *)
LEMMA QuietWalk ==
    ASSUME TreeInv, CtlInv, ListInv, QuietInv, NEW l \in Lists,
           OpenRoot(l) \/ ReadDir(l) \/ VisitFile(l)
    PROVE  QuietInv'
  <1> DEFINE e == list[l]
  <1>1. /\ UNCHANGED <<files, rpc, id, faulty, crashed>>
        /\ \A k \in Lists \ {l} : lpc'[k] = lpc[k]
        /\ lpc[l] \in {"root", "walk"}
    BY DEF OpenRoot, ReadDir, VisitFile, GiveUp, CtlInv
  <1>2. /\ e \in ListRecs /\ SettledAt(l)
        /\ lpc[l] = "root" => e.found = {}
        /\ e.data = <<>>
        /\ ~e.dels => FoundInv(l)
    BY <1>1 DEF QuietInv, ListInv, Fresh
  <1>3. list = [list EXCEPT ![l] = e]
    BY DEF QuietInv
  <1>4. ~e.dels => e.names \subseteq DOMAIN files /\ e.todo \subseteq dirs
    BY <1>1, <1>2 DEF FoundInv
  <1>5. CASE OpenRoot(l)
    <2>1. lpc[l] = "root" /\ e.found = {}
      BY <1>2, <1>5 DEF OpenRoot
    <2>2. CASE e.chain \in dirs
      <3> DEFINE b == [e EXCEPT !.todo = Below(e.chain)]
      <3>1. list' = [list EXCEPT ![l] = b] /\ lpc'[l] = "walk"
        BY <1>2, <1>5, <2>2 DEF OpenRoot, CtlInv
      <3>2. Below(e.chain) \subseteq Chains
        BY <1>2 DEF Below, TreeInv, ListRecs
      <3>3. /\ b \in ListRecs /\ b.found = {}
            /\ b.data = e.data /\ b.saves = e.saves /\ b.dels = e.dels
        BY <1>2, <2>1, <3>2 DEF ListRecs
      <3> HIDE DEF b
      <3>4. list'[l] = b => Fresh(l)' /\ SettledAt(l)' /\ QuietAt(l)'
        BY <1>1, <1>2, <3>1, <3>3 DEF Fresh, SettledAt, Settled, QuietAt, Quiet
      <3>5. QED
        BY <1>1, <3>1, <3>3, <3>4, QuietStep
    <2>3. CASE e.chain \notin dirs
      <3>1. list' = [list EXCEPT ![l] = e] /\ lpc'[l] = "ok"
        BY <1>3, <1>5, <2>3 DEF OpenRoot, GiveUp, CtlInv
      <3>2. list'[l] = e => Fresh(l)' /\ SettledAt(l)' /\ QuietAt(l)'
        BY <2>1, <3>1 DEF Fresh, SettledAt, QuietAt, Quiet
      <3>3. QED
        BY <1>1, <1>2, <3>1, <3>2, QuietStep
    <2>4. QED
      BY <2>2, <2>3
  <1>6. ASSUME lpc'[l] = "ok", list' = list, e.dels PROVE QuietInv'
    <2>1. list'[l] = e => Fresh(l)' /\ SettledAt(l)' /\ QuietAt(l)'
      BY <1>6 DEF Fresh, SettledAt, QuietAt, Quiet
    <2>2. QED
      BY <1>1, <1>2, <1>3, <1>6, <2>1, QuietStep
  <1>7. CASE ReadDir(l)
    <2>1. PICK c \in e.todo :
             IF c \in dirs
             THEN /\ lpc'[l] = "walk"
                  /\ list' = [list EXCEPT ![l].todo = @ \ {c}, ![l].names = In(c)]
             ELSE lpc'[l] = "ok" /\ list' = list
      BY <1>7 DEF ReadDir, GiveUp, CtlInv
    <2>2. CASE c \in dirs
      <3> DEFINE b == [e EXCEPT !.todo = @ \ {c}, !.names = In(c)]
      <3>1. list' = [list EXCEPT ![l] = b] /\ lpc'[l] = "walk"
        BY <1>2, <2>1, <2>2 DEF QuietInv
      <3>2. In(c) \subseteq Ids
        BY DEF In, TreeInv
      <3>3. /\ b \in ListRecs /\ b.found = e.found
            /\ b.data = e.data /\ b.saves = e.saves /\ b.dels = e.dels
        BY <1>2, <3>2 DEF ListRecs
      <3> HIDE DEF b
      <3>4. list'[l] = b => Fresh(l)' /\ SettledAt(l)' /\ QuietAt(l)'
        BY <1>1, <1>2, <3>1, <3>3 DEF Fresh, SettledAt, Settled, QuietAt
      <3>5. QED
        BY <1>1, <3>1, <3>3, <3>4, QuietStep
    <2>3. CASE c \notin dirs
      <3>1. lpc'[l] = "ok" /\ list' = list /\ e.dels
        BY <1>4, <2>1, <2>3
      <3>2. QED
        BY <1>6, <3>1
    <2>4. QED
      BY <2>2, <2>3
  <1>8. CASE VisitFile(l)
    <2>1. PICK f \in e.names :
             IF f \in DOMAIN files
             THEN /\ lpc' = lpc
                  /\ list' = [list EXCEPT ![l].found = @ \cup {f},
                                          ![l].names = @ \ {f}]
             ELSE lpc'[l] = "ok" /\ list' = list
      BY <1>8 DEF VisitFile, GiveUp, CtlInv
    <2>2. CASE f \in DOMAIN files
      <3> DEFINE b == [e EXCEPT !.found = @ \cup {f}, !.names = @ \ {f}]
      <3>1. list' = [list EXCEPT ![l] = b] /\ lpc'[l] = "walk"
        BY <1>2, <1>8, <2>1, <2>2 DEF VisitFile, QuietInv
      <3>2. f \in Ids
        BY <1>2 DEF ListRecs
      <3>3. /\ b \in ListRecs /\ b.found = e.found \cup {f}
            /\ b.data = e.data /\ b.saves = e.saves /\ b.dels = e.dels
        BY <1>2, <3>2 DEF ListRecs
      <3> HIDE DEF b
      <3>4. list'[l] = b => Fresh(l)' /\ SettledAt(l)' /\ QuietAt(l)'
        BY <1>1, <1>2, <2>2, <3>1, <3>3 DEF Fresh, SettledAt, Settled, QuietAt
      <3>5. QED
        BY <1>1, <3>1, <3>3, <3>4, QuietStep
    <2>3. CASE f \notin DOMAIN files
      <3>1. lpc'[l] = "ok" /\ list' = list /\ e.dels
        BY <1>4, <2>1, <2>3
      <3>2. QED
        BY <1>6, <3>1
    <2>4. QED
      BY <2>2, <2>3
  <1>9. QED
    BY <1>5, <1>7, <1>8

(* In the sorted files each has its place.                                 *)
LEMMA SortedPlaces ==
    ASSUME NEW S \in SUBSET Ids, IsFiniteSet(S), NEW s \in SortedLogs(S)
    PROVE  /\ Cardinality(S) \in Nat /\ s \in [1..Cardinality(S) -> S]
           /\ \A p \in 1..Cardinality(S) : Placed(S, s[p], p)
  <1> DEFINE n == Cardinality(S)
             sec == [f \in S |-> f.sec]
  <1>1. n \in Nat
    BY FS_CardinalityType
  <1>2. /\ s \in [1..n -> S] /\ LatestFirst(s)
        /\ \A i, j \in 1..n : i # j => s[i] # s[j]
    BY DEF SortedLogs, SetToSeqs
  <1>3. sec \in [S -> Int]
    BY RunLogsAssumption DEF Ids
  <1>4. \A f \in S : \E i \in 1..n : s[i] = f
    <2>1. s \in Injection(1..n, S)
      BY <1>2 DEF Injection, IsInjective
    <2>2. Cardinality(1..n) = n
      BY <1>1, FS_Interval
    <2>3. s \in Surjection(1..n, S)
      BY <2>1, <2>2, FS_Injection
    <2>4. QED
      BY <2>3 DEF Surjection
  <1>5. \A i, j \in 1..n : i < j => sec[s[i]] >= sec[s[j]]
    BY <1>2 DEF LatestFirst
  <1>6. LatestFirstList(n, S, s, sec)
    BY <1>1, <1>2, <1>3, <1>4, <1>5 DEF LatestFirstList
  <1>7. ASSUME NEW p \in 1..n PROVE Placed(S, s[p], p)
    <2>1. s[p] \in S
      BY <1>2
    <2>2. BelongsAt(S, sec, s[p], p)
      <3> HIDE DEF sec, n
      <3>1. QED
        BY <1>6, Position
    <2>3. /\ {f \in S : sec[f] > sec[s[p]]} = Before(S, s[p])
          /\ {f \in S : sec[f] >= sec[s[p]]} = NotAfter(S, s[p])
      BY <2>1 DEF Before, NotAfter
    <2> HIDE DEF sec
    <2>4. QED
      BY <2>1, <2>2, <2>3 DEF Placed, BelongsAt
  <1>8. QED
    BY <1>1, <1>2, <1>7

(* Where the page begins and ends.                                         *)
LEMMA PageBounds ==
    ASSUME NEW size \in Int, NEW current \in Int, GoInts(Bits) # {}, NEW n \in Nat
    PROVE  /\ PageFrom(size, current) \in Int /\ PageTo(size, current, n) \in Int
           /\ PageTo(size, current, n) <= n
           /\ Fits((current - 1) * size, Bits) /\ Fits(current * size, Bits) =>
                 /\ PageFrom(size, current) = (current - 1) * size
                 /\ PageTo(size, current, n) =
                       IF (current - 1) * size + size > n THEN n
                       ELSE (current - 1) * size + size
  <1> DEFINE a == (current - 1) * size
  <1>1. a \in Int /\ current * size = a + size
    BY PageProduct
  <1>2. Bits \in Nat \ {0}
    BY RunLogsAssumption
  <1>3. PageFrom(size, current) = Wrap(a, Bits)
    BY DEF PageFrom
  <1>4. PageFrom(size, current) \in Int
    BY <1>1, <1>2, <1>3, WrapInt
  <1> HIDE DEF a
  <1>5. Wrap(PageFrom(size, current) + size, Bits) \in Int
    BY <1>2, <1>4, WrapInt
  <1>6. PageTo(size, current, n) \in Int /\ PageTo(size, current, n) <= n
    BY <1>5 DEF PageTo
  <1>7. ASSUME Fits(a, Bits), Fits(a + size, Bits)
        PROVE  /\ PageFrom(size, current) = a
               /\ PageTo(size, current, n) = IF a + size > n THEN n ELSE a + size
    <2>1. PageFrom(size, current) = a
      BY <1>1, <1>2, <1>3, <1>7, WrapFits
    <2>2. Wrap(a + size, Bits) = a + size
      BY <1>1, <1>2, <1>7, WrapFits
    <2>3. QED
      BY <2>1, <2>2 DEF PageTo
  <1>8. QED
    BY <1>1, <1>4, <1>6, <1>7 DEF a

LEMMA QuietCut ==
    ASSUME CtlInv, FiniteInv, QuietInv, NEW l \in Lists, SortAndCut(l)
    PROVE  QuietInv'
  <1> DEFINE e == list[l]
             S == e.found
             n == Cardinality(S)
  <1>1. /\ UNCHANGED <<files, rpc, id, faulty, crashed>>
        /\ \A k \in Lists \ {l} : lpc'[k] = lpc[k]
        /\ lpc[l] = "walk"
    BY DEF SortAndCut, CtlInv
  <1>2. e \in ListRecs /\ SettledAt(l) /\ e.data = <<>> /\ S \subseteq Ids
    BY <1>1 DEF QuietInv, Fresh, ListRecs
  <1>3. PICK ask \in Asks, s \in SortedLogs(S) :
           LET from == PageFrom(ask[1], ask[2])
               to == PageTo(ask[1], ask[2], Len(s))
               valid == from \in 0..to
           IN  /\ list' = [list EXCEPT ![l].size = ask[1], ![l].current = ask[2],
                    ![l].total = Len(s),
                    ![l].page = IF valid THEN SubSeq(s, from + 1, to) ELSE <<>>]
               /\ lpc' = [lpc EXCEPT ![l] = IF valid THEN "read" ELSE "panic"]
    BY DEF SortAndCut
  <1>4. /\ n \in Nat /\ s \in [1..n -> S]
        /\ \A p \in 1..n : Placed(S, s[p], p)
    BY <1>2, SortedPlaces DEF FiniteInv
  <1>5. Len(s) = n /\ s \in Seq(Ids)
    BY <1>2, <1>4
  <1> DEFINE size == ask[1]
             current == ask[2]
             from == PageFrom(size, current)
             to == PageTo(size, current, n)
             page == IF from \in 0..to THEN SubSeq(s, from + 1, to) ELSE <<>>
             b == [e EXCEPT !.size = size, !.current = current, !.total = n, !.page = page]
  <1>6. size \in Int /\ current \in Int /\ GoInts(Bits) # {}
    BY RunLogsAssumption DEF GoInts
  <1>7. /\ list' = [list EXCEPT ![l] = b]
        /\ lpc'[l] = IF from \in 0..to THEN "read" ELSE "panic"
    BY <1>2, <1>3, <1>5 DEF QuietInv, CtlInv
  <1>8. /\ from \in Int /\ to \in Int /\ to <= n
        /\ Fits((current - 1) * size, Bits) /\ Fits(current * size, Bits) =>
              /\ from = (current - 1) * size
              /\ to = IF (current - 1) * size + size > n THEN n
                      ELSE (current - 1) * size + size
    BY <1>4, <1>6, PageBounds
  <1> HIDE DEF from, to
  <1>9. /\ page \in Seq(Ids)
        /\ from \in 0..to => /\ Len(page) = to - from
                             /\ \A j \in 1..to - from : page[j] = s[from + j]
    <2>1. CASE from \in 0..to
      <3>1. SubSeq(s, from + 1, to) = [j \in 1..to - from |-> s[from + j]]
        BY <1>4, <1>5, <1>8, <2>1
      <3>2. \A j \in 1..to - from : s[from + j] \in Ids
        BY <1>2, <1>4, <1>8, <2>1
      <3> DEFINE q == [j \in 1..to - from |-> s[from + j]]
      <3>3. to - from \in Nat
        BY <1>8, <2>1
      <3>4. q \in Seq(Ids) /\ Len(q) = to - from
        BY <3>2, <3>3
      <3>5. \A j \in 1..to - from : q[j] = s[from + j]
        OBVIOUS
      <3>6. page = q
        BY <2>1, <3>1
      <3> HIDE DEF q, page
      <3>7. QED
        BY <3>4, <3>5, <3>6
    <2>2. CASE from \notin 0..to
      BY <2>2
    <2>3. QED
      BY <2>1, <2>2
  <1> HIDE DEF page, size, current
  <1>10. /\ b \in ListRecs /\ b.found = S /\ b.data = <<>> /\ b.saves = e.saves
         /\ b.dels = e.dels /\ b.size = size /\ b.current = current
         /\ b.total = n /\ b.page = page
    BY <1>2, <1>4, <1>6, <1>9 DEF ListRecs
  <1> HIDE DEF b
  <1>11. ASSUME list'[l] = b PROVE Fresh(l)' /\ SettledAt(l)' /\ QuietAt(l)'
    <2>1. lpc'[l] \in {"read", "panic"}
      BY <1>7
    <2>2. Fresh(l)'
      BY <2>1 DEF Fresh
    <2>3. SettledAt(l)'
      BY <1>1, <1>2, <1>10, <1>11, <2>1 DEF SettledAt, Settled
    <2>4. ASSUME Sound(l)'
          PROVE  /\ lpc'[l] = "read" => PageAt(l)'
                 /\ lpc'[l] = "panic" => First(l)' \notin 0..n
      <3> DEFINE first == (current - 1) * size
      <3>1. /\ First(l)' = first /\ size >= 0
            /\ Fits((current - 1) * size, Bits) /\ Fits(current * size, Bits)
        BY <1>10, <1>11, <2>4 DEF Sound, First
      <3>2. first \in Int
        BY <1>6, PageProduct
      <3> HIDE DEF first
      <3>3. from = first /\ to = IF first + size > n THEN n ELSE first + size
        BY <1>8, <3>1 DEF first
      <3>4. from \in 0..to <=> first \in 0..n
        BY <1>4, <1>6, <3>1, <3>2, <3>3
      <3>5. CASE lpc'[l] = "panic"
        BY <1>7, <3>1, <3>4, <3>5
      <3>6. CASE lpc'[l] = "read"
        <4>1. from \in 0..to /\ first \in 0..n
          BY <1>7, <3>4, <3>6
        <4>2. Len(page) = IF size < n - first THEN size ELSE n - first
          BY <1>4, <1>6, <1>9, <3>2, <3>3, <4>1
        <4>3. Left(l)' = IF size < n - first THEN size ELSE n - first
          BY <1>10, <1>11, <3>1 DEF Left
        <4>4. ASSUME NEW j \in 1..Len(page) PROVE Placed(S, page[j], first + 0 + j)
          <5>1. j \in 1..to - from /\ from + j \in 1..n /\ first + 0 + j = from + j
            BY <1>4, <1>8, <1>9, <3>3, <4>1
          <5>2. QED
            BY <1>4, <1>9, <4>1, <5>1
        <4>5. Len(b.data) = 0 /\ Len(page) \in Nat
          BY <1>9, <1>10
        <4>6. /\ list'[l].total = n /\ list'[l].found = S
              /\ list'[l].page = page /\ list'[l].data = <<>>
          BY <1>10, <1>11
        <4>7. Len(<<>>) + Len(page) = Left(l)'
          BY <4>2, <4>3, <4>5
        <4>8. \A j \in 1..Len(page) : Placed(S, page[j], First(l)' + Len(<<>>) + j)
          BY <3>1, <4>4
        <4>9. First(l)' \in 0..n
          BY <3>1, <4>1
        <4>10. PageAt(l)'
          BY <4>6, <4>7, <4>8, <4>9 DEF PageAt
        <4>11. QED
          BY <3>6, <4>10
      <3>7. QED
        BY <2>1, <3>5, <3>6
    <2>5. QuietAt(l)'
      BY <1>10, <1>11, <2>1, <2>4 DEF QuietAt
    <2>6. QED
      BY <2>2, <2>3, <2>5
  <1>12. QED
    BY <1>1, <1>7, <1>10, <1>11, QuietStep

(* Every log of the page is there and whole when its turn comes.           *)
LEMMA QuietRead ==
    ASSUME TreeInv, CtlInv, HoldsInv, TornHasCause, QuietInv, NEW l \in Lists, ReadLog(l)
    PROVE  QuietInv'
  <1> DEFINE e == list[l]
             f == Head(e.page)
  <1>1. /\ UNCHANGED <<files, rpc, id, faulty, crashed>>
        /\ \A k \in Lists \ {l} : lpc'[k] = lpc[k]
        /\ lpc[l] = "read"
    BY DEF ReadLog, CtlInv
  <1>2. /\ e \in ListRecs /\ SettledAt(l) /\ QuietAt(l)
        /\ e.page \in Seq(Ids) /\ e.data \in Seq(Runs)
    BY DEF QuietInv, ListRecs
  <1>3. list = [list EXCEPT ![l] = e]
    BY DEF QuietInv
  <1>4. NoTwins' => NoTwins
    BY <1>1 DEF NoTwins, Twins
  <1>5. CASE e.page = <<>>
    <2>1. list' = [list EXCEPT ![l] = e] /\ lpc'[l] = "ok"
      BY <1>3, <1>5 DEF ReadLog, CtlInv
    <2>2. ASSUME list'[l] = e PROVE Fresh(l)' /\ SettledAt(l)' /\ QuietAt(l)'
      <3>1. PageAt(l) => PageAt(l)'
        BY <1>1, <2>2 DEF PageAt, First, Left
      <3>2. Sound(l)' => Sound(l)
        BY <2>2 DEF Sound, First
      <3>3. Quiet(l)' => Quiet(l)
        BY <1>1, <1>4, <2>2 DEF Quiet
      <3>4. QuietAt(l)'
        BY <1>1, <1>2, <1>5, <2>1, <2>2, <3>1, <3>2, <3>3 DEF QuietAt
      <3>5. QED
        BY <2>1, <3>4 DEF Fresh, SettledAt
    <2>3. QED
      BY <1>1, <1>2, <2>1, <2>2, QuietStep
  <1>6. CASE e.page # <<>>
    <2>1. /\ f = e.page[1] /\ f \in Ids /\ Len(e.page) \in Nat \ {0}
          /\ Tail(e.page) \in Seq(Ids) /\ Len(Tail(e.page)) = Len(e.page) - 1
          /\ \A j \in 1..Len(e.page) - 1 : Tail(e.page)[j] = e.page[j + 1]
      BY <1>2, <1>6
    <2>2. CASE f \in DOMAIN files /\ files[f] # Torn
      <3> DEFINE r == files[f]
                 dt == Append(e.data, r)
                 pg == Tail(e.page)
                 b == [e EXCEPT !.data = dt, !.page = pg]
      <3>1. list' = [list EXCEPT ![l] = b] /\ lpc'[l] = "read"
        BY <1>1, <1>2, <1>6, <2>2 DEF ReadLog, QuietInv
      <3>2. r \in Runs /\ id[r] = f
        BY <2>2, RangeFiles DEF HoldsInv
      <3> HIDE DEF r
      <3>3. /\ dt \in Seq(Runs) /\ Len(dt) = Len(e.data) + 1 /\ Len(e.data) \in Nat
            /\ dt[Len(e.data) + 1] = r
            /\ \A i \in 1..Len(e.data) : dt[i] = e.data[i]
        BY <1>2, <3>2
      <3>4. /\ pg \in Seq(Ids) /\ Len(pg) = Len(e.page) - 1 /\ Len(e.page) \in Nat \ {0}
            /\ \A j \in 1..Len(e.page) - 1 : pg[j] = e.page[j + 1]
        BY <2>1
      <3> HIDE DEF dt, pg
      <3>5. /\ b \in ListRecs /\ b.data = dt /\ b.page = pg
            /\ b.found = e.found /\ b.total = e.total /\ b.size = e.size
            /\ b.current = e.current /\ b.saves = e.saves /\ b.dels = e.dels
        BY <1>2, <3>3, <3>4 DEF ListRecs
      <3> HIDE DEF b
      <3>6. ASSUME list'[l] = b PROVE Fresh(l)' /\ SettledAt(l)' /\ QuietAt(l)'
        <4>1. First(l)' = First(l) /\ Left(l)' = Left(l) /\ (Sound(l)' => Sound(l))
          BY <3>5, <3>6 DEF First, Left, Sound
        <4>2. Quiet(l)' => Quiet(l)
          BY <1>1, <1>4, <3>5, <3>6 DEF Quiet
        <4>3. ASSUME PageAt(l) PROVE PageAt(l)'
          <5>1. First(l) \in 0..e.total /\ Len(e.data) + Len(e.page) = Left(l)
                /\ e.total = Cardinality(e.found)
            BY <4>3 DEF PageAt
          <5>2. First(l) \in Int
            BY <5>1
          <5>3. Len(dt) + Len(pg) = Left(l)
            <6> DEFINE u == Len(e.data)
                       v == Len(e.page)
            <6>1. u \in Nat /\ v \in Nat /\ Len(dt) = u + 1 /\ Len(pg) = v - 1
              BY <3>3, <3>4
            <6>2. u + v = Left(l)
              BY <5>1
            <6> HIDE DEF u, v
            <6>3. (u + 1) + (v - 1) = u + v
              BY <6>1
            <6>4. QED
              BY <6>1, <6>2, <6>3
          <5>4. ASSUME NEW j \in 1..Len(pg)
                PROVE  Placed(e.found, pg[j], First(l) + Len(dt) + j)
            <6>1. j + 1 \in 1..Len(e.page) /\ pg[j] = e.page[j + 1]
              BY <3>4
            <6>2. First(l) + Len(dt) + j = First(l) + Len(e.data) + (j + 1)
              <7>1. j \in Int
                OBVIOUS
              <7> DEFINE u == Len(e.data)
                         v == First(l)
              <7>2. u \in Nat /\ Len(dt) = u + 1 /\ v \in Int
                BY <3>3, <5>2
              <7> HIDE DEF u, v
              <7>3. v + (u + 1) + j = v + u + (j + 1)
                BY <7>1, <7>2
              <7>4. QED
                BY <7>2, <7>3 DEF u, v
            <6>3. Placed(e.found, e.page[j + 1], First(l) + Len(e.data) + (j + 1))
              BY <4>3, <6>1 DEF PageAt
            <6>4. QED
              BY <6>1, <6>2, <6>3
          <5>5. ASSUME NEW i \in 1..Len(dt)
                PROVE  Placed(e.found, id[dt[i]], First(l) + i)
            <6>1. CASE i \in 1..Len(e.data)
              BY <3>3, <4>3, <6>1 DEF PageAt
            <6>2. CASE i = Len(e.data) + 1
              <7>1. Placed(e.found, e.page[1], First(l) + Len(e.data) + 1)
                BY <2>1, <4>3 DEF PageAt
              <7>2. First(l) + Len(e.data) + 1 = First(l) + i
                BY <3>3, <5>2, <6>2
              <7>3. QED
                BY <2>1, <3>2, <3>3, <6>2, <7>1, <7>2
            <6>3. QED
              BY <3>3, <6>1, <6>2
          <5>6. /\ list'[l].found = e.found /\ list'[l].total = e.total
                /\ list'[l].page = pg /\ list'[l].data = dt /\ id' = id
            BY <1>1, <3>5, <3>6
          <5>7. QED
            BY <4>1, <5>1, <5>3, <5>4, <5>5, <5>6 DEF PageAt
        <4>4. QuietAt(l)'
          BY <1>1, <1>2, <3>1, <4>1, <4>2, <4>3 DEF QuietAt
        <4>5. SettledAt(l)'
          BY <1>1, <1>2, <3>1, <3>5, <3>6 DEF SettledAt, Settled
        <4>6. QED
          BY <3>1, <4>4, <4>5 DEF Fresh
      <3>7. QED
        BY <1>1, <3>1, <3>5, <3>6, QuietStep
    <2>3. CASE ~(f \in DOMAIN files /\ files[f] # Torn)
      <3>1. list' = [list EXCEPT ![l] = e] /\ lpc'[l] = "err"
        BY <1>3, <1>6, <2>3 DEF ReadLog, CtlInv
      <3>2. ASSUME Quiet(l), Sound(l) PROVE FALSE
        <4>1. PageAt(l) /\ Settled(l)
          BY <1>1, <1>2, <3>2 DEF QuietAt, SettledAt, Quiet
        <4>2. f \in e.found
          BY <2>1, <4>1 DEF PageAt, Placed
        <4>3. /\ f \in DOMAIN files /\ files[f] = Torn
              /\ ~crashed /\ faulty = {} /\ NoTwins
          BY <2>3, <3>2, <4>1, <4>2 DEF Settled, Quiet
        <4>4. PICK r \in Runs :
                 id[r] = f /\ (rpc[r] = "write" \/ r \in faulty \/ Twins(r) # {})
          BY <4>3 DEF TornHasCause
        <4>5. id[r] # None
          BY <2>1, <4>4, RunLogsAssumption
        <4>6. QED
          BY <4>1, <4>3, <4>4, <4>5 DEF Settled, NoTwins
      <3>3. ASSUME list'[l] = e PROVE Fresh(l)' /\ SettledAt(l)' /\ QuietAt(l)'
        <4>1. Sound(l)' => Sound(l)
          BY <3>3 DEF Sound, First
        <4>2. Quiet(l)' => Quiet(l)
          BY <1>1, <1>4, <3>3 DEF Quiet
        <4>3. QED
          BY <3>1, <3>2, <4>1, <4>2 DEF Fresh, SettledAt, QuietAt
      <3>4. QED
        BY <1>1, <1>2, <3>1, <3>3, QuietStep
    <2>4. QED
      BY <2>2, <2>3
  <1>7. QED
    BY <1>5, <1>6

LEMMA QuietNext ==
    LogInv /\ ListInv /\ FiniteInv /\ QuietInv /\ [Next]_vars => QuietInv'
  <1> SUFFICES ASSUME LogInv, ListInv, FiniteInv, QuietInv, [Next]_vars PROVE QuietInv'
    OBVIOUS
  <1>1. CASE UNCHANGED vars
    BY <1>1, QuietSameList DEF vars
  <1>2. ASSUME NEW l \in Lists, List(l) PROVE QuietInv'
    BY <1>2, QuietStart, QuietWalk, QuietCut, QuietRead DEF List, LogInv
  <1>3. QED
    BY <1>1, <1>2, QuietSave, QuietDelete, QuietCrash DEF Next, LogInv

(* The sets of logs a list counts are finite, as the tree is.              *)
LEMMA FiniteTree ==
    FiniteInv /\ [Next]_vars => IsFiniteSet(DOMAIN files')
  <1> SUFFICES ASSUME FiniteInv, [Next]_vars PROVE IsFiniteSet(DOMAIN files')
    OBVIOUS
  <1> DEFINE Moves == \/ files' = files
                      \/ \E f, x : files' = Put(f, x)
                      \/ \E f : files' = Restrict(files, DOMAIN files \ {f})
  <1>1. CASE files' = files
    BY <1>1 DEF FiniteInv
  <1>2. ASSUME NEW f, NEW x, files' = Put(f, x) PROVE IsFiniteSet(DOMAIN files')
    <2>1. DOMAIN files' = DOMAIN files \cup {f}
      BY <1>2, PutFacts
    <2>2. QED
      BY <2>1, FS_AddElement DEF FiniteInv
  <1>3. ASSUME NEW f, files' = Restrict(files, DOMAIN files \ {f})
        PROVE  IsFiniteSet(DOMAIN files')
    <2>1. DOMAIN files' \subseteq DOMAIN files
      BY <1>3, TakeFacts
    <2>2. QED
      BY <2>1, FS_Subset DEF FiniteInv
  <1>4. Moves
    <2>1. CASE UNCHANGED vars
      BY <2>1 DEF vars
    <2>2. ASSUME NEW r \in Runs, SaveRunLog(r) PROVE Moves
      BY <2>2 DEF SaveRunLog, MakeDirs, OpenLog, WriteLog, SaveFails
    <2>3. ASSUME NEW l \in Lists, List(l) PROVE Moves
      BY <2>3, ListLeaves
    <2>4. ASSUME NEW d \in Dels, Delete(d) PROVE Moves
      BY <2>4 DEF Delete, StartDel, DelRoot, DelReadDir, Unlink, RmDir, RmRoot
    <2>5. QED
      BY <2>1, <2>2, <2>3, <2>4 DEF Next, Crash
  <1>5. QED
    BY <1>1, <1>2, <1>3, <1>4

Counted(e) == IsFiniteSet(e.names) /\ IsFiniteSet(e.found)

LEMMA FiniteStep ==
    ASSUME QuietInv, FiniteInv, NEW l \in Lists, NEW e, Counted(e),
           list' = [list EXCEPT ![l] = e], NEW k \in Lists
    PROVE  Counted(list'[k])
  BY DEF QuietInv, FiniteInv, Counted

LEMMA FiniteList ==
    ASSUME QuietInv, FiniteInv, NEW l \in Lists, List(l), NEW k \in Lists
    PROVE  Counted(list'[k])
  <1> DEFINE e == list[l]
  <1>1. e \in ListRecs /\ Counted(e)
    BY DEF QuietInv, FiniteInv, Counted
  <1>2. Counted(NoList)
    BY FS_EmptySet, NoListFacts DEF Counted
  <1>3. CASE list' = list
    BY <1>3 DEF FiniteInv, Counted
  <1>4. ASSUME NEW c \in Chains \cup {All}, StartList(l, c) PROVE Counted(list'[k])
    <2> DEFINE n == [NoList EXCEPT !.chain = c, !.known = In(c),
                           !.saves = Range(rpc) \cap {"open", "write"} # {},
                           !.dels = Range(dpc) \cap Deleting # {}]
    <2>1. list' = [list EXCEPT ![l] = n]
      BY <1>4 DEF StartList
    <2>2. n.names = NoList.names /\ n.found = NoList.found
      BY DEF NoList
    <2> HIDE DEF n
    <2>3. Counted(n)
      BY <1>2, <2>2 DEF Counted
    <2>4. QED
      BY <2>1, <2>3, FiniteStep
  <1>5. ASSUME NEW r \in Runs, StartGet(l, r) PROVE Counted(list'[k])
    <2> DEFINE n == [NoList EXCEPT !.chain = id[r].chain, !.page = <<id[r]>>]
    <2>1. list' = [list EXCEPT ![l] = n]
      BY <1>5 DEF StartGet
    <2>2. n.names = NoList.names /\ n.found = NoList.found
      BY DEF NoList
    <2> HIDE DEF n
    <2>3. Counted(n)
      BY <1>2, <2>2 DEF Counted
    <2>4. QED
      BY <2>1, <2>3, FiniteStep
  <1>6. CASE OpenRoot(l) /\ list' # list
    <2> DEFINE n == [e EXCEPT !.todo = Below(e.chain)]
    <2>1. list' = [list EXCEPT ![l] = n]
      BY <1>6 DEF OpenRoot, GiveUp
    <2>2. n.names = e.names /\ n.found = e.found
      BY <1>1 DEF ListRecs
    <2> HIDE DEF n
    <2>3. Counted(n)
      BY <1>1, <2>2 DEF Counted
    <2>4. QED
      BY <2>1, <2>3, FiniteStep
  <1>7. CASE ReadDir(l) /\ list' # list
    <2>1. PICK c \in e.todo : list' = [list EXCEPT ![l].todo = @ \ {c}, ![l].names = In(c)]
      BY <1>7 DEF ReadDir, GiveUp
    <2> DEFINE n == [e EXCEPT !.todo = @ \ {c}, !.names = In(c)]
    <2>2. list' = [list EXCEPT ![l] = n]
      BY <2>1 DEF QuietInv
    <2>3. n.names = In(c) /\ n.found = e.found
      BY <1>1 DEF ListRecs
    <2> HIDE DEF n
    <2>4. In(c) \subseteq DOMAIN files
      BY DEF In
    <2>5. IsFiniteSet(In(c))
      BY <2>4, FS_Subset DEF FiniteInv
    <2>6. Counted(n)
      BY <1>1, <2>3, <2>5 DEF Counted
    <2>7. QED
      BY <2>2, <2>6, FiniteStep
  <1>8. CASE VisitFile(l) /\ list' # list
    <2>1. PICK f \in e.names :
             list' = [list EXCEPT ![l].found = @ \cup {f}, ![l].names = @ \ {f}]
      BY <1>8 DEF VisitFile, GiveUp
    <2> DEFINE n == [e EXCEPT !.found = @ \cup {f}, !.names = @ \ {f}]
    <2>2. list' = [list EXCEPT ![l] = n]
      BY <2>1 DEF QuietInv
    <2>3. n.names = e.names \ {f} /\ n.found = e.found \cup {f}
      BY <1>1 DEF ListRecs
    <2> HIDE DEF n
    <2>4. IsFiniteSet(e.found) /\ IsFiniteSet(e.names)
      BY <1>1 DEF Counted
    <2>5. IsFiniteSet(e.found \cup {f}) /\ IsFiniteSet(e.names \ {f})
      <3> HIDE DEF e
      <3>1. QED
        BY <2>4, FS_AddElement, FS_RemoveElement
    <2>6. Counted(n)
      BY <2>3, <2>5 DEF Counted
    <2>7. QED
      BY <2>2, <2>6, FiniteStep
  <1>9. CASE SortAndCut(l)
    <2>1. PICK ask, s, pg :
             list' = [list EXCEPT ![l].size = ask[1], ![l].current = ask[2],
                                  ![l].total = Len(s), ![l].page = pg]
      <3>1. PICK ask \in Asks, s \in SortedLogs(e.found) :
               LET to == PageTo(ask[1], ask[2], Len(s))
                   from == PageFrom(ask[1], ask[2])
               IN  list' = [list EXCEPT ![l].size = ask[1], ![l].current = ask[2],
                      ![l].total = Len(s),
                      ![l].page = IF from \in 0..to THEN SubSeq(s, from + 1, to)
                                  ELSE <<>>]
        BY <1>9 DEF SortAndCut
      <3> DEFINE pg == IF PageFrom(ask[1], ask[2]) \in 0..PageTo(ask[1], ask[2], Len(s))
                       THEN SubSeq(s, PageFrom(ask[1], ask[2]) + 1,
                                   PageTo(ask[1], ask[2], Len(s)))
                       ELSE <<>>
      <3>2. list' = [list EXCEPT ![l].size = ask[1], ![l].current = ask[2],
                                 ![l].total = Len(s), ![l].page = pg]
        BY <3>1
      <3> HIDE DEF pg
      <3>3. QED
        BY <3>2
    <2> DEFINE n == [e EXCEPT !.size = ask[1], !.current = ask[2],
                              !.total = Len(s), !.page = pg]
    <2>2. list' = [list EXCEPT ![l] = n]
      BY <2>1 DEF QuietInv
    <2>3. n.names = e.names /\ n.found = e.found
      BY <1>1 DEF ListRecs
    <2> HIDE DEF n
    <2>4. Counted(n)
      BY <1>1, <2>3 DEF Counted
    <2>5. QED
      BY <2>2, <2>4, FiniteStep
  <1>10. CASE ReadLog(l) /\ list' # list
    <2>1. PICK dt, pg : list' = [list EXCEPT ![l].data = dt, ![l].page = pg]
      BY <1>10 DEF ReadLog, QuietInv
    <2> DEFINE n == [e EXCEPT !.data = dt, !.page = pg]
    <2>2. list' = [list EXCEPT ![l] = n]
      BY <2>1 DEF QuietInv
    <2>3. n.names = e.names /\ n.found = e.found
      BY <1>1 DEF ListRecs
    <2> HIDE DEF n
    <2>4. Counted(n)
      BY <1>1, <2>3 DEF Counted
    <2>5. QED
      BY <2>2, <2>4, FiniteStep
  <1>11. QED
    BY <1>3, <1>4, <1>5, <1>6, <1>7, <1>8, <1>9, <1>10 DEF List

LEMMA FiniteNext == QuietInv /\ FiniteInv /\ [Next]_vars => FiniteInv'
  <1> SUFFICES ASSUME QuietInv, FiniteInv, [Next]_vars PROVE FiniteInv'
    OBVIOUS
  <1>1. CASE list' = list
    BY <1>1, FiniteTree DEF FiniteInv
  <1>2. CASE lpc' = lpc /\ (list' = SawSave \/ list' = SawDel)
    <2>1. \A l \in Lists : list'[l].names = list[l].names /\ list'[l].found = list[l].found
      BY <1>2, SawFacts DEF QuietInv, SameList
    <2>2. QED
      BY <2>1, FiniteTree DEF FiniteInv
  <1>3. ASSUME NEW l \in Lists, List(l) PROVE FiniteInv'
    BY <1>3, FiniteTree, FiniteList DEF FiniteInv, Counted
  <1>4. ASSUME NEW r \in Runs, SaveRunLog(r) PROVE list' = SawSave /\ lpc' = lpc
    BY <1>4 DEF SaveRunLog, MakeDirs, OpenLog, WriteLog, SaveFails
  <1>5. ASSUME NEW d \in Dels, Delete(d)
        PROVE  lpc' = lpc /\ (list' = list \/ list' = SawDel)
    BY <1>5 DEF Delete, StartDel, DelRoot, DelReadDir, Unlink, RmDir, RmRoot
  <1>6. CASE Crash
    <2>1. \A l \in Lists : list'[l] = IF l \in Walking THEN NoList ELSE list[l]
      BY <1>6 DEF Crash
    <2>2. IsFiniteSet(NoList.names) /\ IsFiniteSet(NoList.found)
      BY FS_EmptySet, NoListFacts
    <2>3. QED
      BY <2>1, <2>2, FiniteTree DEF FiniteInv
  <1>7. QED
    BY <1>1, <1>2, <1>3, <1>4, <1>5, <1>6 DEF Next, vars

LEMMA InitQuiet == Init => FiniteInv /\ QuietInv
  <1> SUFFICES ASSUME Init PROVE FiniteInv /\ QuietInv
    OBVIOUS
  <1>1. DOMAIN files = {}
    BY DEF Init
  <1>2. \A l \in Lists : list[l] = NoList /\ lpc[l] = "idle"
    BY DEF Init
  <1>3. NoList \in ListRecs /\ NoList.names = {} /\ NoList.found = {}
    BY NoListFacts
  <1>4. FiniteInv
    BY <1>1, <1>2, <1>3, FS_EmptySet DEF FiniteInv
  <1>5. list \in [Lists -> ListRecs]
    BY <1>3 DEF Init
  <1>6. \A l \in Lists : Fresh(l) /\ SettledAt(l) /\ QuietAt(l)
    BY <1>2, <1>3 DEF Fresh, SettledAt, QuietAt
  <1>7. QED
    BY <1>4, <1>5, <1>6 DEF QuietInv

(* QuietListIsExact: a list that no save, delete or crash overlapped, with *)
(* no twin runs and no save that failed before it, answers the runs at the *)
(* positions of its page in the order of their seconds, panics exactly for *)
(* a page outside the list, and is never an error (List, GetRunLogs,       *)
(* SortFilesByTimestamp).                                                  *)
THEOREM QuietListCorrect == Spec => []QuietListIsExact
  <1> DEFINE Inv == LogInv /\ ListInv /\ FiniteInv /\ QuietInv
  <1>1. Init => Inv
    BY InitLog, InitList, InitQuiet
  <1>2. Inv /\ [Next]_vars => Inv'
    BY LogNext, ListNext, FiniteNext, QuietNext DEF LogInv
  <1>3. ASSUME Inv, NEW l \in Lists,
               lpc[l] \in {"ok", "err", "panic"}, Quiet(l), Sound(l)
        PROVE  LET n == Cardinality(list[l].found)
                   left == IF list[l].size < n - First(l) THEN list[l].size
                           ELSE n - First(l)
               IN  /\ lpc[l] = "panic" <=> First(l) < 0 \/ First(l) > n
                   /\ lpc[l] # "err"
                   /\ lpc[l] = "ok" =>
                        /\ list[l].total = n
                        /\ Len(list[l].data) = left
                        /\ \A i \in DOMAIN list[l].data :
                              LET f == id[list[l].data[i]]
                              IN  /\ Cardinality(Before(list[l].found, f)) < First(l) + i
                                  /\ Cardinality(NotAfter(list[l].found, f)) >= First(l) + i
    <2> DEFINE e == list[l]
               n == Cardinality(e.found)
    <2>1. e \in ListRecs /\ IsFiniteSet(e.found) /\ QuietAt(l)
      BY <1>3 DEF QuietInv, FiniteInv
    <2>2. n \in Nat
      BY <2>1, FS_CardinalityType
    <2>3. First(l) \in Int
      BY <2>1 DEF First, ListRecs
    <2>4. lpc[l] # "err" /\ (lpc[l] = "panic" => First(l) \notin 0..n)
      BY <1>3, <2>1 DEF QuietAt
    <2>5. ASSUME lpc[l] = "ok"
          PROVE  /\ First(l) \in 0..n /\ e.total = n /\ Len(e.data) = Left(l)
                 /\ \A i \in 1..Len(e.data) : Placed(e.found, id[e.data[i]], First(l) + i)
      <3>1. PageAt(l) /\ e.page = <<>>
        BY <1>3, <2>1, <2>5 DEF QuietAt
      <3>2. Len(e.data) \in Nat /\ Len(e.page) = 0
        BY <2>1, <3>1 DEF ListRecs
      <3>3. Len(e.data) + Len(e.page) = Left(l)
        BY <3>1 DEF PageAt
      <3>4. Len(e.data) = Left(l)
        BY <3>2, <3>3
      <3>5. QED
        BY <3>1, <3>4 DEF PageAt
    <2>6. DOMAIN e.data = 1..Len(e.data)
      BY <2>1 DEF ListRecs
    <2>7. lpc[l] = "panic" <=> First(l) < 0 \/ First(l) > n
      BY <1>3, <2>2, <2>3, <2>4, <2>5
    <2>8. ASSUME lpc[l] = "ok"
          PROVE  /\ Len(e.data) = IF e.size < n - First(l) THEN e.size ELSE n - First(l)
                 /\ \A i \in DOMAIN e.data :
                      /\ Cardinality(Before(e.found, id[e.data[i]])) < First(l) + i
                      /\ Cardinality(NotAfter(e.found, id[e.data[i]])) >= First(l) + i
      BY <2>5, <2>6, <2>8 DEF Left, Placed
    <2>9. QED
      BY <2>4, <2>5, <2>7, <2>8
  <1>4. Inv => QuietListIsExact
    BY <1>3 DEF QuietListIsExact, Quiet, Sound, First, NoTwins
  <1>5. QED
    BY <1>1, <1>2, <1>4, PTL DEF Spec
=============================================================================
