----------------------------- MODULE DebugData -----------------------------
(***************************************************************************)
(* The debug log of one node (internal/service/node_debug_data.go): a      *)
(* FixedQueue that rule-chain executions fill through the OnDebug callback *)
(* (engine.go) while HTTP handlers read pages of it (GetToPage, called by  *)
(* controller/event.go). Pushing is locked; sorting, cutting the page and  *)
(* marshalling it are not, and all of them work on the array the queue is  *)
(* still using. Logs of different nodes share nothing but the map lock, so *)
(* one queue is modelled.                                                  *)
(***************************************************************************)
EXTENDS Integers, Sequences, FiniteSets, Functions, GoInt

CONSTANTS
    Events,     \* OnDebug callbacks; each adds one item, named after it
    Views,      \* GET /event/debug requests
    ConfSize,   \* max_node_log_size of the configuration
    DefaultSize,    \* 40: used where the configuration says 0
    FallbackSize,   \* 60: used where it says less
    Spare,      \* bound on the room append leaves when it reallocates
    Bits,       \* the width of Go's int
    Asks,       \* the <<pageSize, current>> pairs views ask for
    None        \* no item, no lock holder

ASSUME DebugDataAssumption ==
    /\ ConfSize \in Int
    /\ DefaultSize \in Nat \ {0} /\ FallbackSize \in Nat \ {0}
    /\ Spare \in Nat
    /\ Bits \in Nat \ {0} /\ Asks \subseteq GoInts(Bits) \X GoInts(Bits)
    /\ None \notin Events

VARIABLES
    now,        \* time.Now() in steps of the clock that some event saw
    ts,         \* event -> the Ts it was stamped with
    epc,        \* event -> the next step of its callback
    lock,       \* the event whose Add holds RuleChainDebugData.mu, or None
    heap,       \* the arrays append has allocated, the newest last
    queue,      \* FixedQueue.Items: slots lo + 1 to hi of heap[arr]
    vpc,        \* view -> the next step of its handler
    view,       \* view -> its local state
    pushed,     \* history: the events in the order they were appended
    sorted      \* history: some view has moved an item

vars == <<now, ts, epc, lock, heap, queue, vpc, view, pushed, sorted>>

(* The capacity of every queue, from NewRuleEngineService,                 *)
(* NewRuleChainDebugData and NewNodeDebugData. It is never 0.              *)
MaxSize == CASE ConfSize = 0 -> DefaultSize
             [] ConfSize < 0 -> FallbackSize
             [] OTHER -> ConfSize

Slices == [arr: Nat, lo: Nat, hi: Nat]
Size(s) == s.hi - s.lo
At(s) == [i \in 1..Size(s) |-> heap[s.arr][s.lo + i]]
Items == At(queue)

(* A view: what it was asked, the total it read, the slice it works on, the*)
(* item its sort holds aside in the middle of a swap and the place that it *)
(* will fill (0: none), and as history the items it found (until it is     *)
(* raced), whether pushes or other views touched the queue meanwhile, and  *)
(* whether two sorts overlapped.                                           *)
NoView == [pageSize |-> 0, current |-> 0, total |-> 0,
           slice |-> [arr |-> 1, lo |-> 0, hi |-> 0],
           hole |-> 0, tmp |-> None,
           found |-> {}, raced |-> FALSE, clash |-> FALSE]

Open == {v \in Views : vpc[v] \in {"sort", "sorting", "cut", "marshal"}}
Sorting == {v \in Views : vpc[v] = "sorting"}
Race(others) ==
    [v \in Views |-> IF v \in Open \cap others
                     THEN [view[v] EXCEPT !.raced = TRUE, !.found = {}]
                     ELSE view[v]]

(* Where the page begins and ends, in Go's int: a product or a sum that    *)
(* does not fit wraps around, and a negative size counts backwards.        *)
PageSize(v) == IF view[v].pageSize = 0 THEN view[v].total ELSE view[v].pageSize
Current(v) == IF view[v].current <= 0 THEN 1 ELSE view[v].current

(* Faulty PageStart, breaking QuietPageIsExact: pages counted from zero.   *)
PageStartFromOne(v) == Wrap(Current(v) * PageSize(v), Bits)

PageStart(v) == Wrap((Current(v) - 1) * PageSize(v), Bits)
PageEnd(v) ==
    LET end == Wrap(PageStart(v) + PageSize(v), Bits)
    IN  IF end > view[v].total THEN view[v].total ELSE end

Init ==
    /\ now = 0
    /\ ts = [e \in Events |-> 0]
    /\ epc = [e \in Events |-> "idle"]
    /\ lock = None
    /\ heap = <<[i \in 1..MaxSize |-> None]>>
    /\ queue = [arr |-> 1, lo |-> 0, hi |-> 0]
    /\ vpc = [v \in Views |-> "idle"]
    /\ view = [v \in Views |-> NoView]
    /\ pushed = <<>>
    /\ sorted = FALSE

-----------------------------------------------------------------------------
(* Faulty variants of definitions below, one for each property they break. *)

(* QueueBounded: Add does not wait for the lock.                           *)
ShiftUnlocked(e) ==
    /\ epc[e] = "add"
    /\ lock' = e
    /\ queue' = IF Size(queue) = MaxSize THEN [queue EXCEPT !.lo = @ + 1]
                                         ELSE queue
    /\ epc' = [epc EXCEPT ![e] = "append"]
    /\ view' = Race(Views)
    /\ UNCHANGED <<now, ts, heap, vpc, pushed, sorted>>

(* UnviewedKeepsLatest: a full queue drops its last item.                  *)
ShiftLast(e) ==
    /\ epc[e] = "add" /\ lock = None
    /\ lock' = e
    /\ queue' = IF Size(queue) = MaxSize THEN [queue EXCEPT !.hi = @ - 1]
                                         ELSE queue
    /\ epc' = [epc EXCEPT ![e] = "append"]
    /\ view' = Race(Views)
    /\ UNCHANGED <<now, ts, heap, vpc, pushed, sorted>>

(* TypeOK: append does not look whether the array has room.                *)
RoomIgnored(e) ==
    /\ epc[e] = "append"
    /\ queue' = [queue EXCEPT !.hi = @ + 1]
    /\ heap' = IF queue.hi < Len(heap[queue.arr])
               THEN [heap EXCEPT ![queue.arr][queue.hi + 1] = e] ELSE heap
    /\ pushed' = Append(pushed, e)
    /\ lock' = None
    /\ epc' = [epc EXCEPT ![e] = "done"]
    /\ view' = Race(Views)
    /\ UNCHANGED <<now, ts, vpc, sorted>>

(* AddsReturn: Add returns with its lock held.                             *)
AppendKeepsLock(e) ==
    /\ epc[e] = "append" /\ queue.hi < Len(heap[queue.arr])
    /\ heap' = [heap EXCEPT ![queue.arr][queue.hi + 1] = e]
    /\ queue' = [queue EXCEPT !.hi = @ + 1]
    /\ pushed' = Append(pushed, e)
    /\ epc' = [epc EXCEPT ![e] = "done"]
    /\ view' = Race(Views)
    /\ UNCHANGED <<now, ts, lock, vpc, sorted>>

-----------------------------------------------------------------------------
(* OnDebug stamps its item before it waits for any lock.                   *)
Stamp(e) ==
    /\ epc[e] = "idle"
    /\ now' \in {now, now + 1}
    /\ ts' = [ts EXCEPT ![e] = now']
    /\ epc' = [epc EXCEPT ![e] = "add"]
    /\ UNCHANGED <<lock, heap, queue, vpc, view, pushed, sorted>>

(* Add holds the map lock until Push has returned. Push first makes room:  *)
(* Items = Items[1:] if the queue has exactly MaxSize items.               *)
Shift(e) ==
    /\ epc[e] = "add" /\ lock = None
    /\ lock' = e
    /\ queue' = IF Size(queue) = MaxSize THEN [queue EXCEPT !.lo = @ + 1]
                                         ELSE queue
    /\ epc' = [epc EXCEPT ![e] = "append"]
    /\ view' = Race(Views)
    /\ UNCHANGED <<now, ts, heap, vpc, pushed, sorted>>

(* ... then Items = append(Items, item): in place if the array has room,   *)
(* else (external: the Go runtime) in a larger copy. The locks are left.   *)
AppendItem(e) ==
    /\ epc[e] = "append"
    /\ LET a == heap[queue.arr]
       IN  IF queue.hi < Len(a)
           THEN /\ heap' = [heap EXCEPT ![queue.arr][queue.hi + 1] = e]
                /\ queue' = [queue EXCEPT !.hi = @ + 1]
           ELSE /\ \E room \in 0..Spare :
                      heap' = Append(heap, Append(Items, e)
                                             \o [i \in 1..room |-> None])
                /\ queue' = [arr |-> Len(heap) + 1, lo |-> 0,
                             hi |-> Size(queue) + 1]
    /\ pushed' = Append(pushed, e)
    /\ lock' = None
    /\ epc' = [epc EXCEPT ![e] = "done"]
    /\ view' = Race(Views)
    /\ UNCHANGED <<now, ts, vpc, sorted>>

-----------------------------------------------------------------------------
(* GetToPage finds the queue and reads its length, both under read locks   *)
(* it gives back at once. A node without a log has an empty page.          *)
Find(v, pageSize, current) ==
    /\ vpc[v] = "idle" /\ lock = None
    /\ view' = [view EXCEPT ![v] =
                  [NoView EXCEPT !.pageSize = pageSize, !.current = current,
                                 !.total = Size(queue),
                                 !.found = Range(Items)]]
    /\ vpc' = [vpc EXCEPT ![v] = IF pushed = <<>> THEN "done" ELSE "sort"]
    /\ UNCHANGED <<now, ts, epc, lock, heap, queue, pushed, sorted>>

(* sort.Slice(list.Items, ...) takes the slice as it is now ...            *)
BeginSort(v) ==
    /\ vpc[v] = "sort"
    /\ LET rivals == {w \in Sorting : view[w].slice.arr = queue.arr}
       IN  view' = [w \in Views |->
                      IF w = v THEN [view[v] EXCEPT !.slice = queue,
                                                    !.clash = rivals # {}]
                      ELSE IF w \in rivals THEN [view[w] EXCEPT !.clash = TRUE]
                      ELSE view[w]]
    /\ vpc' = [vpc EXCEPT ![v] = "sorting"]
    /\ UNCHANGED <<now, ts, epc, lock, heap, queue, pushed, sorted>>

(* ... and rearranges it in place, swap by swap. Which items are swapped,  *)
(* and how often, is left open: the comparisons read the live queue, so    *)
(* after a push meanwhile the order that results is anybody's guess. A swap*)
(* overwrites one place and holds its item aside, then fills the other.    *)
Write(s, i, item) == [heap EXCEPT ![s.arr][s.lo + i] = item]

SwapFirst(v) ==
    /\ vpc[v] = "sorting" /\ view[v].hole = 0
    /\ LET s == view[v].slice
       IN  \E i, j \in 1..Size(s) :
              /\ i # j
              /\ heap' = Write(s, i, At(s)[j])
              /\ view' = [Race(Views \ {v}) EXCEPT ![v].hole = j,
                                                   ![v].tmp = At(s)[i]]
    /\ sorted' = TRUE
    /\ UNCHANGED <<now, ts, epc, lock, queue, vpc, pushed>>

SwapSecond(v) ==
    /\ vpc[v] = "sorting" /\ view[v].hole # 0
    /\ heap' = Write(view[v].slice, view[v].hole, view[v].tmp)
    /\ view' = [Race(Views \ {v}) EXCEPT ![v].hole = 0, ![v].tmp = None]
    /\ sorted' = TRUE
    /\ UNCHANGED <<now, ts, epc, lock, queue, vpc, pushed>>

(* A sort that no push and no other sort disturbed leaves the latest first,*)
(* equal times in any order.                                               *)
LatestFirst(s) == \A i, j \in DOMAIN s : i < j => ts[s[i]] >= ts[s[j]]

EndSort(v) ==
    /\ vpc[v] = "sorting" /\ view[v].hole = 0
    /\ view[v].slice = queue /\ ~view[v].clash => LatestFirst(Items)
    /\ vpc' = [vpc EXCEPT ![v] = "cut"]
    /\ UNCHANGED <<now, ts, epc, lock, heap, queue, view, pushed, sorted>>

(* While an Add is between its two assignments, the comparisons of a sort  *)
(* index past the end of Items: the handler panics, the sort half done.    *)
SortPanic(v) ==
    /\ vpc[v] = "sorting" /\ view[v].hole = 0 /\ lock # None
    /\ Size(queue) < Size(view[v].slice)
    /\ vpc' = [vpc EXCEPT ![v] = "panic"]
    /\ UNCHANGED <<now, ts, epc, lock, heap, queue, view, pushed, sorted>>

(* The page is cut by the total read at the start, as indices of the queue *)
(* as it is now. Slicing before its head, backwards or past the capacity of*)
(* its array panics.                                                       *)
CutPage(v) ==
    /\ vpc[v] = "cut"
    /\ LET start == PageStart(v)
           end == PageEnd(v)
       IN  IF start >= view[v].total
           THEN /\ view' = [view EXCEPT ![v].slice = [queue EXCEPT !.hi = queue.lo]]
                /\ vpc' = [vpc EXCEPT ![v] = "marshal"]
           ELSE IF start < 0 \/ end < start \/ queue.lo + end > Len(heap[queue.arr])
           THEN /\ vpc' = [vpc EXCEPT ![v] = "panic"]
                /\ UNCHANGED view
           ELSE /\ view' = [view EXCEPT ![v].slice =
                             [arr |-> queue.arr, lo |-> queue.lo + start,
                              hi |-> queue.lo + end]]
                /\ vpc' = [vpc EXCEPT ![v] = "marshal"]
    /\ UNCHANGED <<now, ts, epc, lock, heap, queue, pushed, sorted>>

(* json.Marshal(page) reads the items, still out of the shared array, and  *)
(* the request is over.                                                    *)
Answer(v) == At(view[v].slice)

Marshal(v) ==
    /\ vpc[v] = "marshal"
    /\ view' = [view EXCEPT ![v] = NoView]
    /\ vpc' = [vpc EXCEPT ![v] = "done"]
    /\ UNCHANGED <<now, ts, epc, lock, heap, queue, pushed, sorted>>

-----------------------------------------------------------------------------
Callback(e) == Stamp(e) \/ Shift(e) \/ AppendItem(e)

Handler(v) == \/ BeginSort(v) \/ SwapFirst(v) \/ SwapSecond(v)
              \/ EndSort(v) \/ SortPanic(v) \/ CutPage(v) \/ Marshal(v)

Next ==
    \/ \E e \in Events : Callback(e)
    \/ \E v \in Views : \/ \E ask \in Asks : Find(v, ask[1], ask[2])
                        \/ Handler(v)

Spec == Init /\ [][Next]_vars

(* The Go scheduler runs every goroutine, and its mutex hands over to a    *)
(* goroutine that has waited. Nothing makes a request come, and adding     *)
(* needs nothing of the views.                                             *)
Fairness ==
    \A e \in Events : /\ WF_vars(AppendItem(e))
                      /\ SF_vars(Shift(e))

FairSpec == Spec /\ Fairness

-----------------------------------------------------------------------------
(* Values have their types, and the queue lies within its array: no slot of*)
(* it is one append has not filled, whatever reallocations moved it.       *)
TypeOK ==
    /\ now \in Nat
    /\ ts \in [Events -> 0..now]
    /\ epc \in [Events -> {"idle", "add", "append", "done"}]
    /\ lock \in Events \cup {None}
    /\ \A a \in DOMAIN heap : Range(heap[a]) \subseteq Events \cup {None}
    /\ queue.arr \in DOMAIN heap
    /\ queue.lo >= 0 /\ queue.hi <= Len(heap[queue.arr])
    /\ None \notin Range(Items)
    /\ vpc \in [Views -> {"idle", "sort", "sorting", "cut", "marshal",
                          "done", "panic"}]
    /\ \A v \in Views : view[v].slice.arr \in DOMAIN heap

(* The queue never outgrows MaxSize. Push compares the length with = and   *)
(* not >=, so an overshoot of one item would never be trimmed again: this  *)
(* rests on Add's locks keeping the two halves of Push together.           *)
QueueBounded == Size(queue) \in 0..MaxSize

(* As long as nobody has looked, the queue holds the latest MaxSize items  *)
(* in the order they were appended, whatever the reallocations.            *)
Latest(n) == SubSeq(pushed, IF Len(pushed) > n THEN Len(pushed) - n + 1 ELSE 1,
                    Len(pushed))

UnviewedKeepsLatest == ~sorted /\ lock = None => Items = Latest(MaxSize)

(* A page that nothing raced with is exact: the items at its positions in  *)
(* the order latest first, so each has as many later ones before it as its *)
(* position says, and it is as long as the total and the page size allow.  *)
(* It panics for a negative size or a position that overflows, if at all.  *)
Least(S) == CHOOSE m \in S : \A n \in S : m <= n

QuietPageIsExact ==
    \A v \in Views :
        /\ vpc[v] \in {"marshal", "panic"} /\ ~view[v].raced /\ ~view[v].clash
        /\ Cardinality(view[v].found) = view[v].total
        /\ PageSize(v) >= 0 /\ Fits(Current(v) * PageSize(v), Bits)
        => LET before == (Current(v) - 1) * PageSize(v)
               left == view[v].total - before
               later(e) == {f \in view[v].found : ts[f] > ts[e]}
               notEarlier(e) == {f \in view[v].found : ts[f] >= ts[e]}
           IN  /\ vpc[v] = "marshal"
               /\ Len(Answer(v)) = IF left <= 0 THEN 0
                                   ELSE Least({left, PageSize(v)})
               /\ \A i \in DOMAIN Answer(v) :
                     /\ Answer(v)[i] \in view[v].found
                     /\ Cardinality(later(Answer(v)[i])) < before + i
                     /\ Cardinality(notEarlier(Answer(v)[i])) >= before + i

(* An execution whose node logs its data is never held up for good by      *)
(* other executions, or by viewers, even one whose sort never ends.        *)
AddsReturn == \A e \in Events : epc[e] = "add" ~> epc[e] = "done"

-----------------------------------------------------------------------------
(* Push's comment says that it deletes the oldest item of a full queue, and*)
(* README_ZH.md that a node keeps the latest. A push drops the head of     *)
(* Items, which a view's in-place sort, over by then, has made the latest: *)
(* newer than what is kept, by its time and by its place in the log.       *)
Newer(e, f) ==
    /\ ts[e] > ts[f]
    /\ \E i, j \in DOMAIN pushed : i > j /\ pushed[i] = e /\ pushed[j] = f

KeepsLatest ==
    [][\A e \in Events :
          Shift(e) /\ Size(queue) = MaxSize /\ Sorting = {}
              => \A f \in Range(Items) : ~Newer(Items[1], f)]_vars
=============================================================================
