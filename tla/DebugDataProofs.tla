--------------------------- MODULE DebugDataProofs ---------------------------
(***************************************************************************)
(* Theorems about DebugData, for any events and views, any configured size,*)
(* and whatever room append leaves: TypeCorrect, BoundCorrect,             *)
(* LatestCorrect and QuietPageCorrect.                                     *)
(***************************************************************************)
EXTENDS DebugData, PageProofs, SequenceTheorems, TLAPS

Arrays == Seq(Seq(Events \cup {None}))

(* A slice of an array, none of whose slots append has left empty.         *)
FilledIn(h, s) ==
    /\ s \in Slices /\ s.arr \in DOMAIN h
    /\ s.lo <= s.hi /\ s.hi <= Len(h[s.arr])
    /\ \A i \in s.lo + 1 .. s.hi : h[s.arr][i] \in Events

(* A sort holds an item of its slice aside, or none.                       *)
HoleIn(r) == /\ r.hole \in 0..Size(r.slice)
             /\ r.hole # 0 => r.tmp \in Events

(* The strengthening of TypeOK: the queue is such a slice, and so is what a*)
(* view sorts, which may be an array the queue has left meanwhile.         *)
MemInv ==
    /\ heap \in Arrays
    /\ FilledIn(heap, queue)
    /\ view = [v \in Views |-> view[v]]
    /\ \A v \in Views : /\ {"slice", "hole", "tmp"} \subseteq DOMAIN view[v]
                        /\ view[v].slice.arr \in DOMAIN heap
                        /\ vpc[v] = "sort" => view[v].hole = 0
                        /\ vpc[v] = "sorting" =>
                              FilledIn(heap, view[v].slice) /\ HoleIn(view[v])

(* What the rest of TypeOK says.                                           *)
CtlInv ==
    /\ now \in Nat
    /\ ts \in [Events -> 0..now]
    /\ epc \in [Events -> {"idle", "add", "append", "done"}]
    /\ lock \in Events \cup {None}
    /\ vpc \in [Views -> {"idle", "sort", "sorting", "cut", "marshal",
                          "done", "panic"}]

(* The strengthening of QueueBounded: only the holder of the lock is       *)
(* between the two halves of Push, and there is room then.                 *)
LockInv ==
    /\ \A e \in Events : epc[e] = "append" <=> lock = e
    /\ Size(queue) <= MaxSize
    /\ lock # None => Size(queue) < MaxSize

(* The strengthening of UnviewedKeepsLatest: between the two halves of Push*)
(* the queue holds one item less.                                          *)
Held == IF lock = None THEN MaxSize ELSE MaxSize - 1

LatestInv ==
    /\ pushed \in Seq(Events)
    /\ ~sorted =>
        /\ Size(queue) = IF Len(pushed) <= Held THEN Len(pushed) ELSE Held
        /\ \A i \in 1..Size(queue) :
              heap[queue.arr][queue.lo + i] = pushed[Len(pushed) - Size(queue) + i]

DataInv == MemInv /\ CtlInv /\ LockInv /\ LatestInv

-----------------------------------------------------------------------------
(* Arrays.                                                                 *)

(* Every array stays, with its length, and no slot is emptied.             *)
Keeps(h, g) ==
    \A a \in DOMAIN h :
        /\ a \in DOMAIN g /\ Len(g[a]) = Len(h[a])
        /\ \A i \in 1..Len(h[a]) : h[a][i] \in Events => g[a][i] \in Events

LEMMA SizePositive == MaxSize \in Nat \ {0}
  BY DebugDataAssumption DEF MaxSize

LEMMA StaysFilled ==
    ASSUME NEW h \in Arrays, NEW g, NEW s, FilledIn(h, s), Keeps(h, g)
    PROVE  FilledIn(g, s)
  <1>1. Len(h[s.arr]) \in Nat
    BY DEF FilledIn, Arrays
  <1>2. \A i \in s.lo + 1 .. s.hi : i \in 1..Len(h[s.arr])
    BY <1>1 DEF FilledIn, Slices
  <1>3. QED
    BY <1>1, <1>2 DEF FilledIn, Keeps

LEMMA FilledSlots ==
    ASSUME NEW h \in Arrays, NEW s, FilledIn(h, s)
    PROVE  /\ Size(s) \in Nat
           /\ \A i \in 1..Size(s) : h[s.arr][s.lo + i] \in Events
  BY DEF FilledIn, Slices, Size

(* A write into a slice changes one slot, and empties none.                *)
LEMMA WriteKeeps ==
    ASSUME heap \in Arrays, NEW sl, FilledIn(heap, sl), NEW i \in 1..Size(sl), NEW x \in Events
    PROVE  /\ Write(sl, i, x) \in Arrays /\ Keeps(heap, Write(sl, i, x))
           /\ DOMAIN Write(sl, i, x) = DOMAIN heap
           /\ \A a \in DOMAIN heap :
                 /\ DOMAIN Write(sl, i, x)[a] = DOMAIN heap[a]
                 /\ \A j \in DOMAIN heap[a] :
                       Write(sl, i, x)[a][j] = IF a = sl.arr /\ j = sl.lo + i THEN x
                                               ELSE heap[a][j]
  <1> DEFINE a == heap[sl.arr]
             k == sl.lo + i
             b == [a EXCEPT ![k] = x]
  <1>1. /\ sl.arr \in DOMAIN heap /\ a \in Seq(Events \cup {None})
        /\ sl \in Slices /\ sl.hi <= Len(a)
    BY DEF FilledIn, Arrays
  <1>2. Len(a) \in Nat /\ DOMAIN a = 1..Len(a)
    BY <1>1
  <1>3. k \in 1..Len(a)
    BY <1>1, <1>2 DEF Slices, Size
  <1>4. Write(sl, i, x) = [heap EXCEPT ![sl.arr] = b]
    BY DEF Write
  <1>5. /\ b \in Seq(Events \cup {None}) /\ Len(b) = Len(a)
        /\ \A j \in 1..Len(a) : b[j] = IF j = k THEN x ELSE a[j]
    BY <1>1, <1>3, ExceptSeq
  <1>6. DOMAIN b = DOMAIN a
    BY <1>2, <1>5
  <1> HIDE DEF b, k
  <1>7. Write(sl, i, x) \in Arrays
    BY <1>1, <1>4, <1>5 DEF Arrays
  <1>8. Keeps(heap, Write(sl, i, x))
    BY <1>1, <1>4, <1>5 DEF Keeps, Arrays
  <1>9. /\ DOMAIN Write(sl, i, x) = DOMAIN heap
        /\ Write(sl, i, x)[sl.arr] = b
        /\ \A n \in DOMAIN heap : n # sl.arr => Write(sl, i, x)[n] = heap[n]
    BY <1>1, <1>4
  <1>10. ASSUME NEW n \in DOMAIN heap
         PROVE  /\ DOMAIN Write(sl, i, x)[n] = DOMAIN heap[n]
                /\ \A j \in DOMAIN heap[n] :
                      Write(sl, i, x)[n][j] = IF n = sl.arr /\ j = k THEN x ELSE heap[n][j]
    <2>1. CASE n = sl.arr
      BY <1>2, <1>5, <1>6, <1>9, <2>1
    <2>2. CASE n # sl.arr
      BY <1>9, <2>2
    <2>3. QED
      BY <2>1, <2>2
  <1>11. QED
    BY <1>7, <1>8, <1>9, <1>10 DEF k

(* append adds its item behind the others, in place or in a copy.          *)
LEMMA AppendAdds ==
    ASSUME heap \in Arrays, FilledIn(heap, queue), NEW e \in Events, AppendItem(e)
    PROVE  /\ heap' \in Arrays /\ Keeps(heap, heap') /\ FilledIn(heap', queue')
           /\ Size(queue') = Size(queue) + 1
           /\ \A i \in 1..Size(queue) :
                 heap'[queue'.arr][queue'.lo + i] = heap[queue.arr][queue.lo + i]
           /\ heap'[queue'.arr][queue'.lo + Size(queue) + 1] = e
  <1> DEFINE a == heap[queue.arr]
  <1>1. /\ queue \in Slices /\ queue.arr \in DOMAIN heap /\ queue.lo <= queue.hi
        /\ queue.hi <= Len(a) /\ a \in Seq(Events \cup {None}) /\ Len(a) \in Nat
        /\ \A i \in queue.lo + 1 .. queue.hi : a[i] \in Events
    BY DEF FilledIn, Arrays
  <1>2. Size(queue) \in Nat /\ \A i \in 1..Size(queue) : a[queue.lo + i] \in Events
    BY FilledSlots
  <1>3. CASE queue.hi < Len(a)
    <2> DEFINE b == [a EXCEPT ![queue.hi + 1] = e]
    <2>1. heap' = [heap EXCEPT ![queue.arr] = b] /\ queue' = [queue EXCEPT !.hi = @ + 1]
      BY <1>3 DEF AppendItem
    <2>2. /\ queue'.arr = queue.arr /\ queue'.lo = queue.lo
          /\ queue'.hi = queue.hi + 1 /\ queue' \in Slices
      BY <1>1, <2>1 DEF Slices
    <2>3. queue.hi + 1 \in 1..Len(a)
      BY <1>1, <1>3 DEF Slices
    <2>4. /\ b \in Seq(Events \cup {None}) /\ Len(b) = Len(a)
          /\ \A j \in 1..Len(a) : b[j] = IF j = queue.hi + 1 THEN e ELSE a[j]
      BY <1>1, <2>3, ExceptSeq
    <2> HIDE DEF b
    <2>5. heap'[queue.arr] = b /\ heap' \in Arrays
      BY <1>1, <2>1, <2>4 DEF Arrays
    <2>6. Keeps(heap, heap')
      BY <1>1, <2>1, <2>4 DEF Keeps, Arrays
    <2>7. \A i \in queue.lo + 1 .. queue.hi + 1 : b[i] \in Events
      BY <1>1, <2>3, <2>4 DEF Slices
    <2>8. FilledIn(heap', queue')
      BY <1>1, <1>3, <2>1, <2>2, <2>4, <2>5, <2>7 DEF FilledIn, Slices, Arrays
    <2>9. Size(queue') = Size(queue) + 1
      BY <1>1, <2>2 DEF Size, Slices
    <2>10. \A i \in 1..Size(queue) : b[queue.lo + i] = a[queue.lo + i]
      <3>1. \A i \in 1..Size(queue) :
               queue.lo + i \in 1..Len(a) /\ queue.lo + i # queue.hi + 1
        BY <1>1 DEF Size, Slices
      <3>2. QED
        BY <2>4, <3>1
    <2>11. b[queue.lo + Size(queue) + 1] = e
      <3>1. queue.lo + Size(queue) + 1 = queue.hi + 1
        BY <1>1 DEF Size, Slices
      <3>2. QED
        BY <2>3, <2>4, <3>1
    <2>12. QED
      BY <2>2, <2>5, <2>6, <2>8, <2>9, <2>10, <2>11
  <1>4. CASE ~(queue.hi < Len(a))
    <2>1. PICK room \in 0..Spare :
             heap' = Append(heap, Append(Items, e) \o [i \in 1..room |-> None])
      BY <1>4 DEF AppendItem
    <2> DEFINE t == [i \in 1..room |-> None]
               c == Append(Items, e)
               b == c \o t
    <2>2. /\ Items \in Seq(Events) /\ Len(Items) = Size(queue)
          /\ \A i \in 1..Size(queue) : Items[i] = a[queue.lo + i]
      BY <1>2 DEF Items, At
    <2>3. /\ c \in Seq(Events \cup {None}) /\ Len(c) = Size(queue) + 1
          /\ \A i \in 1..Size(queue) : c[i] = a[queue.lo + i]
          /\ c[Size(queue) + 1] = e
      BY <1>2, <2>2
    <2>4. t \in Seq(Events \cup {None}) /\ Len(t) \in Nat
      BY <2>1, DebugDataAssumption
    <2>5. heap' = Append(heap, b)
      BY <2>1
    <2> HIDE DEF c, t
    <2>6. /\ b \in Seq(Events \cup {None}) /\ Len(b) = Size(queue) + 1 + Len(t)
          /\ \A i \in 1..Size(queue) : b[i] = a[queue.lo + i]
          /\ b[Size(queue) + 1] = e
      <3>1. /\ b \in Seq(Events \cup {None}) /\ Len(b) = Len(c) + Len(t)
            /\ \A i \in 1..Len(c) + Len(t) : b[i] = IF i <= Len(c) THEN c[i] ELSE t[i - Len(c)]
        BY <2>3, <2>4, ConcatProperties
      <3>2. \A i \in 1..Size(queue) + 1 : b[i] = c[i]
        BY <1>2, <2>3, <2>4, <3>1
      <3>3. QED
        BY <1>2, <2>3, <3>1, <3>2
    <2> HIDE DEF b
    <2>7. /\ heap' \in Arrays /\ heap'[Len(heap) + 1] = b
          /\ \A n \in DOMAIN heap : n \in DOMAIN heap' /\ heap'[n] = heap[n]
          /\ Len(heap) + 1 \in DOMAIN heap' /\ Len(heap) \in Nat
      BY <2>5, <2>6 DEF Arrays
    <2>8. /\ queue'.arr = Len(heap) + 1 /\ queue'.lo = 0
          /\ queue'.hi = Size(queue) + 1
      BY <1>4 DEF AppendItem
    <2>9. queue' \in Slices /\ Size(queue') = Size(queue) + 1
      BY <1>2, <1>4, <2>7, <2>8 DEF AppendItem, Slices, Size
    <2>10. Keeps(heap, heap')
      BY <2>7 DEF Keeps
    <2>11. \A i \in 1..Size(queue) + 1 : b[i] \in Events
      BY <1>2, <2>6
    <2>12. FilledIn(heap', queue')
      BY <1>2, <2>4, <2>6, <2>7, <2>8, <2>9, <2>11 DEF FilledIn
    <2>13. /\ heap'[queue'.arr] = b /\ queue'.lo = 0
      BY <2>7, <2>8
    <2>14. \A i \in 1..Size(queue) : heap'[queue'.arr][queue'.lo + i] = a[queue.lo + i]
      BY <1>2, <2>6, <2>13
    <2>15. heap'[queue'.arr][queue'.lo + Size(queue) + 1] = e
      BY <1>2, <2>6, <2>13
    <2>16. QED
      BY <2>7, <2>9, <2>10, <2>12, <2>14, <2>15
  <1>5. QED
    BY <1>3, <1>4

-----------------------------------------------------------------------------
(* MemInv is preserved.                                                    *)

LEMMA RaceKeeps ==
    ASSUME MemInv, NEW S
    PROVE  /\ Race(S) = [v \in Views |-> Race(S)[v]]
           /\ \A v \in Views : /\ {"slice", "hole", "tmp"} \subseteq DOMAIN Race(S)[v]
                               /\ Race(S)[v].slice = view[v].slice
                               /\ Race(S)[v].hole = view[v].hole
                               /\ Race(S)[v].tmp = view[v].tmp
                               /\ v \notin S => Race(S)[v] = view[v]
  <1>1. ASSUME NEW v \in Views
        PROVE  /\ {"slice", "hole", "tmp"} \subseteq DOMAIN Race(S)[v]
               /\ Race(S)[v].slice = view[v].slice
               /\ Race(S)[v].hole = view[v].hole
               /\ Race(S)[v].tmp = view[v].tmp
    <2>1. CASE v \in Open \cap S
      <3>1. Race(S)[v] = [view[v] EXCEPT !.raced = TRUE, !.found = {}]
        BY <2>1 DEF Race
      <3>2. QED
        BY <3>1 DEF MemInv
    <2>2. CASE v \notin Open \cap S
      BY <2>2 DEF Race, MemInv
    <2>3. QED
      BY <2>1, <2>2
  <1>2. QED
    BY <1>1 DEF Race

(* A step by which no view begins to sort, and no slot is emptied.         *)
LEMMA MemFrame ==
    ASSUME MemInv, heap' \in Arrays, Keeps(heap, heap'), FilledIn(heap', queue'),
           view' = [v \in Views |-> view'[v]],
           \A v \in Views : /\ {"slice", "hole", "tmp"} \subseteq DOMAIN view'[v]
                            /\ view'[v].slice.arr \in DOMAIN heap'
                            /\ vpc'[v] = "sort" => view'[v].hole = 0
                            /\ vpc'[v] = "sorting" => /\ vpc[v] = "sorting"
                                                      /\ view'[v].slice = view[v].slice
                                                      /\ HoleIn(view'[v])
    PROVE  MemInv'
  <1>1. ASSUME NEW v \in Views, vpc'[v] = "sorting"
        PROVE  FilledIn(heap', view'[v].slice)
    <2>1. FilledIn(heap, view[v].slice) /\ view'[v].slice = view[v].slice
      BY <1>1 DEF MemInv
    <2>2. QED
      BY <2>1, StaysFilled DEF MemInv
  <1>2. \A v \in Views : vpc'[v] = "sorting" => HoleIn(view[v])'
    BY DEF HoleIn, Size
  <1>3. QED
    BY <1>1, <1>2 DEF MemInv

(* ... and what sorts hold aside is left alone.                            *)
LEMMA MemSame ==
    ASSUME MemInv, heap' \in Arrays, Keeps(heap, heap'), FilledIn(heap', queue'),
           NEW S, view' = Race(S), vpc' = vpc
    PROVE  MemInv'
  <1>1. \A a \in DOMAIN heap : a \in DOMAIN heap'
    BY DEF Keeps
  <1>2. ASSUME NEW v \in Views
        PROVE  /\ {"slice", "hole", "tmp"} \subseteq DOMAIN view'[v]
               /\ view'[v].slice.arr \in DOMAIN heap'
               /\ vpc'[v] = "sort" => view'[v].hole = 0
               /\ vpc'[v] = "sorting" => /\ vpc[v] = "sorting"
                                         /\ view'[v].slice = view[v].slice
                                         /\ HoleIn(view'[v])
    BY <1>1, RaceKeeps DEF MemInv, HoleIn
  <1>3. QED
    BY <1>2, RaceKeeps, MemFrame

LEMMA SameHeap == MemInv => Keeps(heap, heap)
  BY DEF Keeps, MemInv, Arrays

LEMMA MemShift ==
    ASSUME MemInv, CtlInv, NEW e \in Events, Shift(e)
    PROVE  MemInv'
  <1>1. FilledIn(heap', queue')
    <2>1. CASE Size(queue) = MaxSize
      <3>1. heap' = heap /\ queue' = [queue EXCEPT !.lo = queue.lo + 1]
        BY <2>1 DEF Shift
      <3>2. queue \in Slices /\ queue.lo < queue.hi
        BY <2>1, SizePositive DEF MemInv, FilledIn, Slices, Size
      <3>3. /\ queue'.lo = queue.lo + 1 /\ queue'.hi = queue.hi
            /\ queue'.arr = queue.arr /\ queue' \in Slices
        BY <3>1, <3>2 DEF Slices
      <3>4. QED
        BY <3>1, <3>2, <3>3 DEF MemInv, FilledIn, Slices
    <2>2. CASE Size(queue) # MaxSize
      BY <2>2 DEF Shift, MemInv
    <2>3. QED
      BY <2>1, <2>2
  <1>2. heap' = heap /\ vpc' = vpc /\ view' = Race(Views)
    BY DEF Shift
  <1>3. heap' \in Arrays /\ Keeps(heap, heap')
    BY <1>2, SameHeap DEF MemInv
  <1>4. QED
    BY <1>1, <1>2, <1>3, MemSame

LEMMA MemAppend ==
    ASSUME MemInv, NEW e \in Events, AppendItem(e)
    PROVE  MemInv'
  <1>1. heap' \in Arrays /\ Keeps(heap, heap') /\ FilledIn(heap', queue')
    BY AppendAdds DEF MemInv
  <1>2. vpc' = vpc /\ view' = Race(Views)
    BY DEF AppendItem
  <1>3. QED
    BY <1>1, <1>2, MemSame

LEMMA MemFind ==
    ASSUME MemInv, CtlInv, NEW v \in Views, NEW p, NEW c, Find(v, p, c)
    PROVE  MemInv'
  <1>1. heap' = heap /\ queue' = queue
    BY DEF Find
  <1>2. heap' \in Arrays /\ Keeps(heap, heap') /\ FilledIn(heap', queue')
    BY <1>1, SameHeap DEF MemInv
  <1>3. /\ view'[v].slice.arr = 1 /\ view'[v].hole = 0
        /\ {"slice", "hole", "tmp"} \subseteq DOMAIN view'[v]
    BY DEF MemInv, Find, NoView
  <1>4. 1 \in DOMAIN heap
    BY DEF MemInv, FilledIn, Arrays
  <1>5. view' = [w \in Views |-> view'[w]] /\ \A w \in Views \ {v} : view'[w] = view[w]
    BY DEF MemInv, Find
  <1>6. vpc'[v] # "sorting" /\ \A w \in Views \ {v} : vpc'[w] = vpc[w]
    BY DEF CtlInv, Find
  <1>7. QED
    BY <1>1, <1>2, <1>3, <1>4, <1>5, <1>6, MemFrame DEF MemInv

LEMMA MemBeginSort ==
    ASSUME MemInv, CtlInv, NEW v \in Views, BeginSort(v)
    PROVE  MemInv'
  <1>1. heap' = heap /\ queue' = queue /\ view' = [w \in Views |-> view'[w]]
    BY DEF BeginSort
  <1> DEFINE S == {w \in Sorting : view[w].slice.arr = queue.arr}
  <1>2. view' = [w \in Views |->
                   IF w = v THEN [view[v] EXCEPT !.slice = queue, !.clash = S # {}]
                   ELSE IF w \in S THEN [view[w] EXCEPT !.clash = TRUE]
                   ELSE view[w]]
    BY DEF BeginSort
  <1> HIDE DEF S
  <1>3. /\ view'[v].slice = queue /\ view'[v].hole = 0
        /\ {"slice", "hole", "tmp"} \subseteq DOMAIN view'[v]
    BY <1>2 DEF MemInv, BeginSort
  <1>4. ASSUME NEW w \in Views \ {v}
        PROVE  /\ view'[w].slice = view[w].slice
               /\ view'[w].hole = view[w].hole /\ view'[w].tmp = view[w].tmp
               /\ {"slice", "hole", "tmp"} \subseteq DOMAIN view'[w]
    <2>1. CASE w \in S
      <3>1. view'[w] = [view[w] EXCEPT !.clash = TRUE]
        BY <1>2, <2>1
      <3>2. QED
        BY <3>1 DEF MemInv
    <2>2. CASE w \notin S
      BY <1>2, <2>2 DEF MemInv
    <2>3. QED
      BY <2>1, <2>2
  <1>5. vpc'[v] = "sorting" /\ \A w \in Views \ {v} : vpc'[w] = vpc[w]
    BY DEF CtlInv, BeginSort
  <1>6. FilledIn(heap, queue) /\ queue.arr \in DOMAIN heap /\ Size(queue) \in Nat
    BY FilledSlots DEF MemInv, FilledIn
  <1>7. \A w \in Views : /\ HoleIn(view[w])' <=> HoleIn(view'[w])
                         /\ FilledIn(heap, view[w].slice)' <=> FilledIn(heap', view'[w].slice)
    BY DEF HoleIn, Size, FilledIn
  <1>8. HoleIn(view'[v]) /\ \A w \in Views \ {v} : HoleIn(view[w]) => HoleIn(view'[w])
    BY <1>3, <1>4, <1>6 DEF HoleIn
  <1>9. QED
    BY <1>1, <1>3, <1>4, <1>5, <1>6, <1>7, <1>8 DEF MemInv

(* A step of a swap writes one slot of the slice, and leaves the other     *)
(* views as they are, but for the race.                                    *)
LEMMA SwapStep ==
    ASSUME MemInv, NEW v \in Views, SwapFirst(v) \/ SwapSecond(v)
    PROVE  \E i \in 1..Size(view[v].slice), x \in Events :
             \E h \in 0..Size(view[v].slice), y \in Events \cup {None} :
                /\ heap' = Write(view[v].slice, i, x)
                /\ view' = [Race(Views \ {v}) EXCEPT ![v].hole = h, ![v].tmp = y]
                /\ h # 0 => y \in Events
                /\ \/ x = view[v].tmp
                   \/ \E j \in 1..Size(view[v].slice) :
                         x = heap[view[v].slice.arr][view[v].slice.lo + j]
                /\ \/ y = None
                   \/ \E j \in 1..Size(view[v].slice) :
                         y = heap[view[v].slice.arr][view[v].slice.lo + j]
  <1> DEFINE s == view[v].slice
  <1>1. FilledIn(heap, s) /\ HoleIn(view[v]) /\ heap \in Arrays
    BY DEF MemInv, SwapFirst, SwapSecond
  <1>2. /\ Size(s) \in Nat
        /\ \A i \in 1..Size(s) : heap[s.arr][s.lo + i] \in Events
    BY <1>1, FilledSlots
  <1>3. \A i \in 1..Size(s) : At(s)[i] = heap[s.arr][s.lo + i]
    BY DEF At
  <1>4. CASE SwapFirst(v)
    <2>1. PICK i \in 1..Size(s), j \in 1..Size(s) :
             /\ heap' = Write(s, i, At(s)[j])
             /\ view' = [Race(Views \ {v}) EXCEPT ![v].hole = j, ![v].tmp = At(s)[i]]
      BY <1>4 DEF SwapFirst
    <2> DEFINE x == At(s)[j]
               y == At(s)[i]
    <2>2. x = heap[s.arr][s.lo + j] /\ y = heap[s.arr][s.lo + i] /\ x \in Events /\ y \in Events
      BY <1>2, <1>3
    <2>3. j \in 0..Size(s)
      BY <1>2
    <2> HIDE DEF s, x, y
    <2>4. heap' = Write(s, i, x)
          /\ view' = [Race(Views \ {v}) EXCEPT ![v].hole = j, ![v].tmp = y]
      BY <2>1 DEF x, y
    <2>5. QED
      BY <2>2, <2>3, <2>4 DEF s
  <1>5. CASE SwapSecond(v)
    <2> DEFINE i == view[v].hole
               x == view[v].tmp
    <2>1. /\ heap' = Write(s, i, x) /\ i # 0
          /\ view' = [Race(Views \ {v}) EXCEPT ![v].hole = 0, ![v].tmp = None]
      BY <1>5 DEF SwapSecond
    <2>2. i \in 1..Size(s) /\ x \in Events /\ 0 \in 0..Size(s)
      BY <1>1, <1>2, <2>1 DEF HoleIn
    <2>3. QED
      BY <2>1, <2>2
  <1>6. QED
    BY <1>4, <1>5

LEMMA MemSwap ==
    ASSUME MemInv, CtlInv, NEW v \in Views, SwapFirst(v) \/ SwapSecond(v)
    PROVE  MemInv'
  <1> DEFINE sl == view[v].slice
             R == Race(Views \ {v})
  <1>1. /\ FilledIn(heap, sl) /\ heap \in Arrays
        /\ UNCHANGED <<queue, vpc>> /\ vpc[v] = "sorting"
    BY DEF MemInv, SwapFirst, SwapSecond
  <1>2. PICK i \in 1..Size(sl), x \in Events, h \in 0..Size(sl), y \in Events \cup {None} :
           /\ heap' = Write(sl, i, x)
           /\ view' = [R EXCEPT ![v].hole = h, ![v].tmp = y]
           /\ h # 0 => y \in Events
    BY SwapStep
  <1> HIDE DEF sl
  <1>3. heap' \in Arrays /\ Keeps(heap, heap')
    BY <1>1, <1>2, WriteKeeps
  <1>4. FilledIn(heap', queue')
    BY <1>1, <1>3, StaysFilled DEF MemInv
  <1>5. \A a \in DOMAIN heap : a \in DOMAIN heap'
    BY <1>3 DEF Keeps
  <1>6. /\ R = [w \in Views |-> R[w]] /\ R[v] = view[v]
        /\ \A w \in Views : /\ {"slice", "hole", "tmp"} \subseteq DOMAIN R[w]
                            /\ R[w].slice = view[w].slice
                            /\ R[w].hole = view[w].hole /\ R[w].tmp = view[w].tmp
    BY RaceKeeps
  <1> HIDE DEF R
  <1>7. /\ view' = [w \in Views |-> view'[w]]
        /\ view'[v] = [view[v] EXCEPT !.hole = h, !.tmp = y]
        /\ \A w \in Views \ {v} : view'[w] = R[w]
    BY <1>2, <1>6
  <1>8. /\ {"slice", "hole", "tmp"} \subseteq DOMAIN view'[v]
        /\ view'[v].slice = sl /\ view'[v].hole = h /\ view'[v].tmp = y
    BY <1>7 DEF MemInv, sl
  <1>9. HoleIn(view'[v])
    BY <1>2, <1>8 DEF HoleIn
  <1>10. ASSUME NEW w \in Views
         PROVE  /\ {"slice", "hole", "tmp"} \subseteq DOMAIN view'[w]
                /\ view'[w].slice.arr \in DOMAIN heap'
                /\ vpc'[w] = "sort" => view'[w].hole = 0
                /\ vpc'[w] = "sorting" => /\ vpc[w] = "sorting"
                                          /\ view'[w].slice = view[w].slice
                                          /\ HoleIn(view'[w])
    <2>1. CASE w = v
      BY <1>1, <1>5, <1>8, <1>9, <2>1 DEF MemInv, sl
    <2>2. CASE w # v
      BY <1>1, <1>5, <1>6, <1>7, <2>2 DEF MemInv, HoleIn
    <2>3. QED
      BY <2>1, <2>2
  <1>11. QED
    BY <1>3, <1>4, <1>7, <1>10, MemFrame

LEMMA MemEnd ==
    ASSUME MemInv, CtlInv, NEW v \in Views, EndSort(v) \/ SortPanic(v)
    PROVE  MemInv'
  <1>1. UNCHANGED <<heap, queue, view>>
    BY DEF EndSort, SortPanic
  <1>2. vpc'[v] \in {"cut", "panic"} /\ \A w \in Views \ {v} : vpc'[w] = vpc[w]
    BY DEF CtlInv, EndSort, SortPanic
  <1>3. \A w \in Views : vpc'[w] \in {"sort", "sorting"} => vpc[w] = vpc'[w]
    BY <1>2
  <1>4. heap' \in Arrays /\ Keeps(heap, heap') /\ FilledIn(heap', queue')
    BY <1>1, SameHeap DEF MemInv
  <1>5. QED
    BY <1>1, <1>3, <1>4, MemFrame DEF MemInv

LEMMA MemCutPage ==
    ASSUME MemInv, CtlInv, NEW v \in Views, CutPage(v)
    PROVE  MemInv'
  <1>1. heap' = heap /\ queue' = queue /\ queue \in Slices
    BY DEF CutPage, MemInv, FilledIn
  <1>2. heap' \in Arrays /\ Keeps(heap, heap') /\ FilledIn(heap', queue')
    BY <1>1, SameHeap DEF MemInv
  <1>3. vpc'[v] \notin {"sort", "sorting"} /\ \A w \in Views \ {v} : vpc'[w] = vpc[w]
    BY DEF CtlInv, CutPage
  <1>4. \/ view' = view
        \/ \E s : s.arr = queue.arr /\ view' = [view EXCEPT ![v].slice = s]
    <2>1. [queue EXCEPT !.hi = queue.lo].arr = queue.arr
      BY <1>1 DEF Slices
    <2>2. QED
      BY <2>1 DEF CutPage
  <1>5. CASE view' = view
    BY <1>1, <1>2, <1>3, <1>5, MemFrame DEF MemInv
  <1>6. ASSUME NEW s, s.arr = queue.arr, view' = [view EXCEPT ![v].slice = s]
        PROVE  MemInv'
    <2>1. /\ view' = [w \in Views |-> view'[w]]
          /\ \A w \in Views \ {v} : view'[w] = view[w]
          /\ {"slice", "hole", "tmp"} \subseteq DOMAIN view'[v]
          /\ view'[v].slice = s
      BY <1>6 DEF MemInv
    <2>2. queue.arr \in DOMAIN heap
      BY DEF MemInv, FilledIn
    <2>3. QED
      BY <1>1, <1>2, <1>3, <1>6, <2>1, <2>2, MemFrame DEF MemInv
  <1>7. QED
    BY <1>4, <1>5, <1>6

LEMMA MemMarshal ==
    ASSUME MemInv, CtlInv, NEW v \in Views, Marshal(v)
    PROVE  MemInv'
  <1>1. heap' = heap /\ queue' = queue
    BY DEF Marshal
  <1>2. heap' \in Arrays /\ Keeps(heap, heap') /\ FilledIn(heap', queue')
    BY <1>1, SameHeap DEF MemInv
  <1>3. /\ view' = [w \in Views |-> view'[w]]
        /\ \A w \in Views \ {v} : view'[w] = view[w]
        /\ {"slice", "hole", "tmp"} \subseteq DOMAIN view'[v]
        /\ view'[v].slice.arr = 1
    BY DEF MemInv, Marshal, NoView
  <1>4. 1 \in DOMAIN heap
    BY DEF MemInv, FilledIn, Arrays
  <1>5. vpc'[v] \notin {"sort", "sorting"} /\ \A w \in Views \ {v} : vpc'[w] = vpc[w]
    BY DEF CtlInv, Marshal
  <1>6. QED
    BY <1>1, <1>2, <1>3, <1>4, <1>5, MemFrame DEF MemInv

-----------------------------------------------------------------------------
(* The other conjuncts are preserved.                                      *)

LEMMA CtlNext == CtlInv /\ [Next]_vars => CtlInv'
  <1> SUFFICES ASSUME CtlInv, [Next]_vars PROVE CtlInv'
    OBVIOUS
  <1>1. CASE UNCHANGED vars
    BY <1>1 DEF vars, CtlInv
  <1>2. ASSUME NEW e \in Events, Stamp(e) PROVE CtlInv'
    BY <1>2 DEF CtlInv, Stamp
  <1>3. ASSUME NEW e \in Events, Shift(e) \/ AppendItem(e) PROVE CtlInv'
    BY <1>3 DEF CtlInv, Shift, AppendItem
  <1>4. ASSUME NEW v \in Views, \/ \E ask \in Asks : Find(v, ask[1], ask[2])
                                \/ Handler(v)
        PROVE  CtlInv'
    <2>1. \/ vpc' = vpc
          \/ \E l \in {"sort", "sorting", "cut", "marshal", "done", "panic"} :
                vpc' = [vpc EXCEPT ![v] = l]
      BY <1>4 DEF Handler, Find, BeginSort, SwapFirst, SwapSecond, EndSort, SortPanic,
                  CutPage, Marshal
    <2>2. UNCHANGED <<now, ts, epc, lock>>
      BY <1>4 DEF Handler, Find, BeginSort, SwapFirst, SwapSecond, EndSort, SortPanic,
                  CutPage, Marshal
    <2>3. QED
      BY <2>1, <2>2 DEF CtlInv
  <1>5. QED
    BY <1>1, <1>2, <1>3, <1>4 DEF Next, Callback

LEMMA ViewLeaves ==
    ASSUME NEW v \in Views, \/ \E ask \in Asks : Find(v, ask[1], ask[2])
                            \/ Handler(v)
    PROVE  UNCHANGED <<epc, lock, queue, pushed>> /\ (sorted' \/ UNCHANGED <<heap, sorted>>)
  BY DEF Handler, Find, BeginSort, SwapFirst, SwapSecond, EndSort, SortPanic, CutPage,
         Marshal

(* The first half of Push: the lock was free, and the queue was within its *)
(* bound.                                                                  *)
LEMMA ShiftMakesRoom ==
    ASSUME MemInv, LockInv, NEW e \in Events, Shift(e)
    PROVE  /\ queue'.arr = queue.arr /\ queue' \in Slices
           /\ \/ Size(queue) = MaxSize /\ queue'.lo = queue.lo + 1
              \/ Size(queue) # MaxSize /\ queue'.lo = queue.lo
           /\ queue'.hi = queue.hi
           /\ Size(queue') < MaxSize
  <1>1. queue \in Slices /\ Size(queue) \in Nat /\ Size(queue) <= MaxSize
    BY FilledSlots DEF MemInv, FilledIn, LockInv
  <1>2. CASE Size(queue) = MaxSize
    <2>1. queue' = [queue EXCEPT !.lo = queue.lo + 1]
      BY <1>2 DEF Shift
    <2>2. /\ queue'.arr = queue.arr /\ queue'.hi = queue.hi
          /\ queue'.lo = queue.lo + 1 /\ queue' \in Slices
      BY <1>1, <2>1 DEF Slices
    <2>3. QED
      BY <1>1, <1>2, <2>2, SizePositive DEF Size, Slices
  <1>3. CASE Size(queue) # MaxSize
    <2>1. queue' = queue
      BY <1>3 DEF Shift
    <2>2. QED
      BY <1>1, <1>3, <2>1, SizePositive
  <1>4. QED
    BY <1>2, <1>3

LEMMA LockNext == MemInv /\ CtlInv /\ LockInv /\ [Next]_vars => LockInv'
  <1> SUFFICES ASSUME MemInv, CtlInv, LockInv, [Next]_vars PROVE LockInv'
    OBVIOUS
  <1>1. CASE UNCHANGED vars
    BY <1>1 DEF vars, LockInv
  <1>2. ASSUME NEW e \in Events, Stamp(e) PROVE LockInv'
    BY <1>2 DEF CtlInv, LockInv, Stamp
  <1>3. ASSUME NEW e \in Events, Shift(e) PROVE LockInv'
    <2>1. \A f \in Events : epc'[f] = "append" <=> lock' = f
      BY <1>3, DebugDataAssumption DEF CtlInv, LockInv, Shift
    <2>2. Size(queue') < MaxSize /\ Size(queue') \in Int
      BY <1>3, ShiftMakesRoom DEF Size, Slices
    <2>3. QED
      BY <2>1, <2>2, SizePositive DEF LockInv
  <1>4. ASSUME NEW e \in Events, AppendItem(e) PROVE LockInv'
    <2>1. epc[e] = "append" /\ epc' = [epc EXCEPT ![e] = "done"] /\ lock' = None
      BY <1>4 DEF AppendItem
    <2>2. lock = e /\ None \notin Events
      BY <2>1, DebugDataAssumption DEF LockInv
    <2>3. \A f \in Events : epc'[f] = "append" <=> lock' = f
      BY <2>1, <2>2 DEF CtlInv, LockInv
    <2>4. Size(queue) < MaxSize /\ Size(queue) \in Nat
      BY <2>2, FilledSlots DEF LockInv, MemInv
    <2>5. Size(queue') = Size(queue) + 1
      BY <1>4, AppendAdds DEF MemInv
    <2>6. QED
      BY <2>1, <2>3, <2>4, <2>5, SizePositive DEF LockInv
  <1>5. ASSUME NEW v \in Views, \/ \E ask \in Asks : Find(v, ask[1], ask[2])
                                \/ Handler(v)
        PROVE  LockInv'
    BY <1>5, ViewLeaves DEF LockInv
  <1>6. QED
    BY <1>1, <1>2, <1>3, <1>4, <1>5 DEF Next, Callback

LEMMA LatestShift ==
    ASSUME MemInv, LockInv, LatestInv, NEW e \in Events, Shift(e)
    PROVE  LatestInv'
  <1> SUFFICES ASSUME ~sorted
               PROVE  /\ Size(queue') = IF Len(pushed) <= Held' THEN Len(pushed) ELSE Held'
                      /\ \A i \in 1..Size(queue') :
                            heap[queue'.arr][queue'.lo + i]
                                = pushed[Len(pushed) - Size(queue') + i]
    BY DEF LatestInv, Shift
  <1>1. lock = None /\ lock' # None
    BY DebugDataAssumption DEF Shift
  <1>2. Held = MaxSize /\ Held' = MaxSize - 1
    BY <1>1 DEF Held
  <1>3. queue \in Slices /\ Size(queue) \in Nat /\ Len(pushed) \in Nat
    BY FilledSlots DEF MemInv, FilledIn, LatestInv
  <1>4. /\ Size(queue) = IF Len(pushed) <= MaxSize THEN Len(pushed) ELSE MaxSize
        /\ \A i \in 1..Size(queue) :
              heap[queue.arr][queue.lo + i] = pushed[Len(pushed) - Size(queue) + i]
    BY <1>2 DEF LatestInv
  <1>5. CASE Size(queue) = MaxSize
    <2>1. queue'.arr = queue.arr /\ queue'.lo = queue.lo + 1 /\ queue'.hi = queue.hi
      BY <1>5, ShiftMakesRoom
    <2>2. Size(queue') = MaxSize - 1
      BY <1>3, <1>5, <2>1, SizePositive DEF Size, Slices
    <2>3. ASSUME NEW i \in 1..Size(queue')
          PROVE  heap[queue'.arr][queue'.lo + i] = pushed[Len(pushed) - Size(queue') + i]
      <3>1. i + 1 \in 1..Size(queue) /\ i \in Int
        BY <1>5, <2>2, SizePositive
      <3>2. heap[queue.arr][queue.lo + (i + 1)] = pushed[Len(pushed) - Size(queue) + (i + 1)]
        BY <1>4, <3>1
      <3>3. /\ queue'.lo + i = queue.lo + (i + 1)
            /\ Len(pushed) - Size(queue') + i = Len(pushed) - Size(queue) + (i + 1)
        BY <1>3, <1>5, <2>1, <2>2, <3>1, SizePositive DEF Slices
      <3>4. QED
        BY <2>1, <3>2, <3>3
    <2>4. QED
      BY <1>2, <1>3, <1>4, <1>5, <2>2, <2>3, SizePositive
  <1>6. CASE Size(queue) # MaxSize
    <2>1. queue' = queue
      BY <1>6 DEF Shift
    <2>2. Size(queue) = Len(pushed) /\ Len(pushed) <= MaxSize - 1
      BY <1>3, <1>4, <1>6, SizePositive
    <2>3. QED
      BY <1>2, <1>4, <2>1, <2>2
  <1>7. QED
    BY <1>5, <1>6

LEMMA LatestAppend ==
    ASSUME MemInv, LockInv, LatestInv, NEW e \in Events, AppendItem(e)
    PROVE  LatestInv'
  <1>1. lock # None /\ lock' = None /\ sorted' = sorted /\ pushed' = Append(pushed, e)
    BY DebugDataAssumption DEF AppendItem, LockInv
  <1>2. Held = MaxSize - 1 /\ Held' = MaxSize
    BY <1>1 DEF Held
  <1>3. /\ pushed' \in Seq(Events) /\ Len(pushed') = Len(pushed) + 1
        /\ Len(pushed) \in Nat /\ pushed'[Len(pushed) + 1] = e
        /\ \A i \in 1..Len(pushed) : pushed'[i] = pushed[i]
    BY <1>1 DEF LatestInv
  <1>4. /\ Size(queue) \in Nat /\ Size(queue') = Size(queue) + 1
        /\ \A i \in 1..Size(queue) :
              heap'[queue'.arr][queue'.lo + i] = heap[queue.arr][queue.lo + i]
        /\ heap'[queue'.arr][queue'.lo + Size(queue) + 1] = e
    BY AppendAdds, FilledSlots DEF MemInv
  <1>5. queue' \in Slices
    BY AppendAdds DEF MemInv, FilledIn
  <1>6. ASSUME ~sorted
        PROVE  /\ Size(queue') = IF Len(pushed') <= Held' THEN Len(pushed') ELSE Held'
               /\ \A i \in 1..Size(queue') :
                     heap'[queue'.arr][queue'.lo + i]
                         = pushed'[Len(pushed') - Size(queue') + i]
    <2>1. /\ Size(queue) = IF Len(pushed) <= MaxSize - 1 THEN Len(pushed) ELSE MaxSize - 1
          /\ \A i \in 1..Size(queue) :
                heap[queue.arr][queue.lo + i] = pushed[Len(pushed) - Size(queue) + i]
      BY <1>2, <1>6 DEF LatestInv
    <2>2. Len(pushed') - Size(queue') = Len(pushed) - Size(queue)
          /\ Size(queue) <= Len(pushed)
      BY <1>3, <1>4, <2>1, SizePositive
    <2>3. ASSUME NEW i \in 1..Size(queue')
          PROVE  heap'[queue'.arr][queue'.lo + i] = pushed'[Len(pushed') - Size(queue') + i]
      <3>1. CASE i \in 1..Size(queue)
        <4>1. Len(pushed) - Size(queue) + i \in 1..Len(pushed)
          BY <1>3, <1>4, <2>2, <3>1
        <4>2. QED
          BY <1>3, <1>4, <2>1, <2>2, <3>1, <4>1
      <3>2. CASE i = Size(queue) + 1
        <4>1. Len(pushed) - Size(queue) + i = Len(pushed) + 1
          BY <1>3, <1>4, <3>2
        <4>2. queue'.lo + i = queue'.lo + Size(queue) + 1
          BY <1>4, <1>5, <3>2 DEF Slices
        <4>3. QED
          BY <1>3, <1>4, <2>2, <4>1, <4>2
      <3>3. QED
        BY <1>4, <3>1, <3>2
    <2>4. Size(queue') = IF Len(pushed') <= Held' THEN Len(pushed') ELSE Held'
      <3>1. CASE Len(pushed) <= MaxSize - 1
        BY <1>2, <1>3, <1>4, <2>1, <3>1, SizePositive
      <3>2. CASE ~(Len(pushed) <= MaxSize - 1)
        BY <1>2, <1>3, <1>4, <2>1, <3>2, SizePositive
      <3>3. QED
        BY <3>1, <3>2
    <2>5. QED
      BY <2>3, <2>4
  <1>7. QED
    BY <1>1, <1>3, <1>6 DEF LatestInv

LEMMA LatestNext == MemInv /\ LockInv /\ LatestInv /\ [Next]_vars => LatestInv'
  <1> SUFFICES ASSUME MemInv, LockInv, LatestInv, [Next]_vars PROVE LatestInv'
    OBVIOUS
  <1>1. CASE UNCHANGED vars
    BY <1>1 DEF vars, LatestInv, Held
  <1>2. ASSUME NEW e \in Events, Stamp(e) PROVE LatestInv'
    BY <1>2 DEF LatestInv, Held, Stamp
  <1>3. ASSUME NEW v \in Views, \/ \E ask \in Asks : Find(v, ask[1], ask[2])
                                \/ Handler(v)
        PROVE  LatestInv'
    BY <1>3, ViewLeaves DEF LatestInv, Held
  <1>4. QED
    BY <1>1, <1>2, <1>3, LatestShift, LatestAppend DEF Next, Callback

LEMMA MemNext == MemInv /\ CtlInv /\ [Next]_vars => MemInv'
  <1> SUFFICES ASSUME MemInv, CtlInv, [Next]_vars PROVE MemInv'
    OBVIOUS
  <1>1. CASE UNCHANGED vars
    BY <1>1 DEF vars, MemInv
  <1>2. ASSUME NEW e \in Events, Stamp(e) PROVE MemInv'
    BY <1>2 DEF MemInv, Stamp
  <1>3. QED
    BY <1>1, <1>2, MemShift, MemAppend, MemFind, MemBeginSort, MemSwap, MemEnd,
       MemCutPage, MemMarshal DEF Next, Callback, Handler

-----------------------------------------------------------------------------
(* The theorems.                                                           *)

LEMMA InitData == Init => DataInv
  <1> SUFFICES ASSUME Init PROVE DataInv
    OBVIOUS
  <1> DEFINE a == [i \in 1..MaxSize |-> None]
  <1>1. a \in Seq(Events \cup {None}) /\ Len(a) = MaxSize
    BY SizePositive
  <1>2. heap = <<a>>
    BY DEF Init
  <1> HIDE DEF a
  <1>3. heap \in Arrays /\ DOMAIN heap = {1} /\ heap[1] = a
    BY <1>1, <1>2 DEF Arrays
  <1>4. FilledIn(heap, queue) /\ Size(queue) = 0
    BY <1>1, <1>3, SizePositive DEF Init, FilledIn, Slices, Size
  <1>5. \A v \in Views : /\ {"slice", "hole", "tmp"} \subseteq DOMAIN view[v]
                         /\ view[v].slice.arr = 1 /\ vpc[v] = "idle"
    BY DEF Init, NoView
  <1>6. MemInv
    BY <1>3, <1>4, <1>5 DEF MemInv, Init
  <1>7. CtlInv
    BY DEF Init, CtlInv
  <1>8. LockInv
    BY <1>4, SizePositive, DebugDataAssumption DEF Init, LockInv
  <1>9. LatestInv
    BY <1>4, SizePositive DEF Init, LatestInv, Held
  <1>10. QED
    BY <1>6, <1>7, <1>8, <1>9 DEF DataInv

LEMMA DataNext == DataInv /\ [Next]_vars => DataInv'
  BY MemNext, CtlNext, LockNext, LatestNext DEF DataInv

LEMMA DataCorrect == Spec => []DataInv
  BY InitData, DataNext, PTL DEF Spec

(* Values have their types, and neither a push nor a reallocation nor a    *)
(* sort, not even two sorts of one array that overlap, leaves the queue an *)
(* empty slot or moves it out of its array.                                *)
THEOREM TypeCorrect == Spec => []TypeOK
  <1>1. DataInv => TypeOK
    <2> SUFFICES ASSUME DataInv PROVE TypeOK
      OBVIOUS
    <2>1. MemInv /\ CtlInv
      BY DEF DataInv
    <2>2. \A a \in DOMAIN heap : heap[a] \in Seq(Events \cup {None})
      BY <2>1 DEF MemInv, Arrays
    <2>3. ASSUME NEW a \in DOMAIN heap PROVE Range(heap[a]) \subseteq Events \cup {None}
      <3>1. heap[a] \in Seq(Events \cup {None})
        BY <2>2
      <3>2. \A i \in DOMAIN heap[a] : heap[a][i] \in Events \cup {None}
        BY <3>1
      <3>3. QED
        BY <3>2 DEF Range
    <2>4. None \notin Range(Items)
      <3>1. \A i \in 1..Size(queue) : heap[queue.arr][queue.lo + i] \in Events
        BY <2>1, FilledSlots DEF MemInv
      <3>2. \A i \in DOMAIN Items : Items[i] \in Events
        BY <3>1 DEF Items, At
      <3>3. QED
        BY <3>2, DebugDataAssumption DEF Range
    <2>5. queue.arr \in DOMAIN heap /\ queue.lo >= 0 /\ queue.hi <= Len(heap[queue.arr])
      BY <2>1 DEF MemInv, FilledIn, Slices
    <2>6. QED
      BY <2>1, <2>3, <2>4, <2>5 DEF TypeOK, MemInv, CtlInv
  <1>2. QED
    BY <1>1, DataCorrect, PTL

(* The queue never outgrows its bound, whatever executions log at once: the*)
(* room that the first half of Push finds or makes is there for its second *)
(* half, for the lock lets no other Push in between.                       *)
THEOREM BoundCorrect == Spec => []QueueBounded
  <1>1. DataInv => QueueBounded
    BY FilledSlots, SizePositive DEF DataInv, MemInv, LockInv, QueueBounded
  <1>2. QED
    BY <1>1, DataCorrect, PTL

(* Until somebody looks at the log, it holds the latest MaxSize items in   *)
(* the order they were appended, however often append has moved them.      *)
THEOREM LatestCorrect == Spec => []UnviewedKeepsLatest
  <1>1. DataInv => UnviewedKeepsLatest
    <2> SUFFICES ASSUME DataInv, ~sorted, lock = None PROVE Items = Latest(MaxSize)
      BY DEF UnviewedKeepsLatest
    <2> DEFINE from == IF Len(pushed) > MaxSize THEN Len(pushed) - MaxSize + 1 ELSE 1
    <2>1. pushed \in Seq(Events) /\ Len(pushed) \in Nat /\ from \in 1..Len(pushed) + 1
      BY SizePositive DEF DataInv, LatestInv
    <2>2. Size(queue) = Len(pushed) - from + 1 /\ Size(queue) \in Nat
      <3>1. Size(queue) = IF Len(pushed) <= MaxSize THEN Len(pushed) ELSE MaxSize
        BY DEF DataInv, LatestInv, Held
      <3>2. CASE Len(pushed) <= MaxSize
        BY <2>1, <3>1, <3>2, SizePositive
      <3>3. CASE ~(Len(pushed) <= MaxSize)
        BY <2>1, <3>1, <3>3, SizePositive
      <3>4. QED
        BY <3>2, <3>3
    <2>3. \A i \in 1..Size(queue) : heap[queue.arr][queue.lo + i] = pushed[from + i - 1]
      <3>1. \A i \in 1..Size(queue) : Len(pushed) - Size(queue) + i = from + i - 1
        BY <2>1, <2>2
      <3>2. QED
        BY <3>1 DEF DataInv, LatestInv
    <2>4. Latest(MaxSize) = SubSeq(pushed, from, Len(pushed))
      BY DEF Latest
    <2> HIDE DEF from
    <2>5. Latest(MaxSize) = [i \in 1..Size(queue) |-> pushed[from + i - 1]]
      BY <2>1, <2>2, <2>4
    <2>6. QED
      BY <2>3, <2>5 DEF Items, At
  <1>2. QED
    BY <1>1, DataCorrect, PTL

-----------------------------------------------------------------------------
(* The page of a view that nothing raced with.                             *)

ViewRecs == [pageSize: Int, current: Int, total: Nat, slice: Slices,
             hole: Nat, tmp: Events \cup {None},
             found: SUBSET Events, raced: BOOLEAN, clash: BOOLEAN]

(* What is in an array, or held aside, has been stamped.                   *)
StampInv ==
    /\ \A a \in DOMAIN heap : \A i \in DOMAIN heap[a] :
          heap[a][i] \in Events => epc[heap[a][i]] # "idle"
    /\ \A v \in Views : view[v].tmp \in Events => epc[view[v].tmp] # "idle"

(* The queue with the item that a sort of it holds aside where it belongs. *)
Whole(v) == [i \in 1..Size(queue) |-> IF i = view[v].hole THEN view[v].tmp
                                      ELSE Items[i]]

(* The page asked for is one the arithmetic can tell.                      *)
Sound(v) == PageSize(v) >= 0 /\ Fits(Current(v) * PageSize(v), Bits)

Skipped(v) == (Current(v) - 1) * PageSize(v)

(* The slice of the page.                                                  *)
CutAt(v) ==
    LET from == queue.lo + Skipped(v)
        to == from + PageSize(v)
        s == view[v].slice
    IN  IF Skipped(v) >= view[v].total
        THEN Size(s) = 0
        ELSE /\ s.arr = queue.arr /\ s.lo = from
             /\ s.hi = IF to > queue.hi THEN queue.hi ELSE to

(* The queue is as the view found it, then rearranged swap by swap, sorted *)
(* and cut; who panics has asked for a page that is none.                  *)
QuietAt(v) ==
    ~view[v].raced /\ ~view[v].clash =>
        /\ vpc[v] \in {"sort", "sorting", "cut", "marshal"} =>
              lock = None /\ view[v].total = Size(queue)
        /\ vpc[v] \in {"sort", "cut", "marshal"} => view[v].found = Range(Items)
        /\ vpc[v] = "sorting" =>
              view[v].slice = queue /\ view[v].found = Range(Whole(v))
        /\ vpc[v] \in {"cut", "marshal"} => LatestFirst(Items)
        /\ vpc[v] = "marshal" /\ Sound(v) => CutAt(v)
        /\ vpc[v] = "panic" => ~Sound(v)

QuietInv ==
    /\ view \in [Views -> ViewRecs]
    /\ \A v \in Views : vpc[v] \in {"sort", "sorting", "cut"} =>
                            view[v].pageSize \in GoInts(Bits)
    /\ \A v \in Views : vpc[v] = "sort" => ~view[v].clash
    /\ StampInv
    /\ \A v \in Views : QuietAt(v)

LEMMA PageInts ==
    ASSUME NEW v \in Views, view[v] \in ViewRecs
    PROVE  /\ PageSize(v) \in Int /\ Current(v) \in Nat \ {0}
           /\ view[v].pageSize \in GoInts(Bits) =>
                 /\ PageStart(v) \in Int /\ PageEnd(v) \in Int
                 /\ PageEnd(v) <= view[v].total
  <1>1. view[v].pageSize \in GoInts(Bits) => \A n \in Int : Wrap(n, Bits) \in Int
    BY WrapInt, DebugDataAssumption
  <1>2. PageSize(v) \in Int /\ Current(v) \in Nat \ {0} /\ view[v].total \in Nat
    BY DEF PageSize, Current, ViewRecs
  <1>3. (Current(v) - 1) * PageSize(v) \in Int
    BY <1>2
  <1>4. view[v].pageSize \in GoInts(Bits) => PageStart(v) \in Int
    BY <1>1, <1>3 DEF PageStart
  <1>5. view[v].pageSize \in GoInts(Bits) =>
           PageEnd(v) \in Int /\ PageEnd(v) <= view[v].total
    BY <1>1, <1>2, <1>4 DEF PageEnd
  <1>6. QED
    BY <1>2, <1>4, <1>5

(* A page the arithmetic can tell begins and ends where it should.         *)
LEMMA SoundPage ==
    ASSUME NEW v \in Views, view[v] \in ViewRecs, Sound(v)
    PROVE  /\ Skipped(v) \in Nat /\ PageSize(v) \in Nat
           /\ PageStart(v) = Skipped(v)
           /\ PageEnd(v) = IF Skipped(v) + PageSize(v) > view[v].total
                           THEN view[v].total ELSE Skipped(v) + PageSize(v)
  <1> DEFINE size == PageSize(v)
             current == Current(v)
  <1>1. size \in Nat /\ current \in Nat \ {0} /\ Bits \in Nat \ {0}
    BY PageInts, DebugDataAssumption DEF Sound
  <1>2. Fits(current * size, Bits)
    BY DEF Sound
  <1>3. Skipped(v) = (current - 1) * size /\ PageStart(v) = Wrap((current - 1) * size, Bits)
    BY DEF Skipped, PageStart
  <1> HIDE DEF size, current
  <1>4. /\ (current - 1) * size \in Nat /\ current * size \in Nat
        /\ (current - 1) * size + size = current * size
    BY <1>1, PageNat, PageProduct
  <1>5. Fits((current - 1) * size, Bits)
    BY <1>1, <1>2, <1>4, FitsBelow
  <1>6. /\ Wrap((current - 1) * size, Bits) = (current - 1) * size
        /\ Wrap(current * size, Bits) = current * size
    BY <1>1, <1>2, <1>4, <1>5, WrapFits
  <1>7. PageStart(v) + size = current * size
    BY <1>3, <1>4, <1>6
  <1>8. QED
    BY <1>1, <1>3, <1>4, <1>6, <1>7 DEF PageEnd, size

(* A push or a sort by somebody else: views it races with are raced.       *)
LEMMA RaceFields ==
    ASSUME view \in [Views -> ViewRecs], NEW S
    PROVE  /\ Race(S) \in [Views -> ViewRecs]
           /\ \A v \in Views : /\ Race(S)[v].pageSize = view[v].pageSize
                               /\ Race(S)[v].current = view[v].current
                               /\ Race(S)[v].total = view[v].total
                               /\ Race(S)[v].clash = view[v].clash
                               /\ Race(S)[v].raced <=> view[v].raced \/ v \in Open \cap S
  <1>1. ASSUME NEW v \in Views
        PROVE  /\ Race(S)[v] \in ViewRecs
               /\ Race(S)[v].pageSize = view[v].pageSize
               /\ Race(S)[v].current = view[v].current
               /\ Race(S)[v].total = view[v].total
               /\ Race(S)[v].clash = view[v].clash
               /\ Race(S)[v].raced <=> view[v].raced \/ v \in Open \cap S
    <2>1. view[v] \in ViewRecs
      OBVIOUS
    <2>2. CASE v \in Open \cap S
      <3>1. Race(S)[v] = [view[v] EXCEPT !.raced = TRUE, !.found = {}]
        BY <2>2 DEF Race
      <3>2. Race(S)[v] \in ViewRecs
        BY <2>1, <3>1 DEF ViewRecs
      <3>3. /\ Race(S)[v].pageSize = view[v].pageSize
            /\ Race(S)[v].current = view[v].current
            /\ Race(S)[v].total = view[v].total
            /\ Race(S)[v].clash = view[v].clash
            /\ Race(S)[v].raced
        BY <2>1, <3>1 DEF ViewRecs
      <3>4. QED
        BY <2>2, <3>2, <3>3
    <2>3. CASE v \notin Open \cap S
      <3>1. Race(S)[v] = view[v]
        BY <2>3 DEF Race
      <3>2. QED
        BY <2>1, <2>3, <3>1
    <2>4. QED
      BY <2>2, <2>3
  <1>2. DOMAIN Race(S) = Views /\ Race(S) = [v \in Views |-> Race(S)[v]]
    BY DEF Race
  <1>3. QED
    BY <1>1, <1>2

(* What a step leaves alone that a quiet view depends on.                  *)
SameAsk(v) ==
    /\ view'[v].pageSize = view[v].pageSize
    /\ view'[v].current = view[v].current
    /\ view'[v].total = view[v].total

LEMMA SameSound ==
    ASSUME NEW v \in Views, SameAsk(v)
    PROVE  /\ PageSize(v)' = PageSize(v) /\ Skipped(v)' = Skipped(v)
           /\ Sound(v)' <=> Sound(v)
  <1>1. PageSize(v)' = PageSize(v) /\ Current(v)' = Current(v)
    BY DEF SameAsk, PageSize, Current
  <1>2. QED
    BY <1>1 DEF Skipped, Sound

LEMMA QuietRaced ==
    ASSUME NEW v \in Views, view[v] \in ViewRecs, QuietAt(v), vpc'[v] = vpc[v],
           SameAsk(v), view'[v].clash = view[v].clash,
           view'[v].raced <=> view[v].raced \/ v \in Open
    PROVE  QuietAt(v)'
  <1>1. CASE v \in Open
    BY <1>1 DEF QuietAt
  <1>2. CASE v \notin Open
    <2>1. vpc'[v] \notin {"sort", "sorting", "cut", "marshal"}
      BY <1>2 DEF Open
    <2>2. vpc'[v] = "panic" /\ ~view'[v].raced /\ ~view'[v].clash => ~Sound(v)'
      BY <1>2, SameSound DEF QuietAt
    <2>3. QED
      BY <2>1, <2>2 DEF QuietAt
  <1>3. QED
    BY <1>1, <1>2

LEMMA QuietSame ==
    ASSUME NEW v \in Views, QuietAt(v), vpc'[v] = vpc[v], SameAsk(v),
           view'[v].slice = view[v].slice, view'[v].found = view[v].found,
           view'[v].hole = view[v].hole, view'[v].tmp = view[v].tmp,
           view[v].clash => view'[v].clash, view[v].raced => view'[v].raced,
           UNCHANGED <<lock, queue>>, Items' = Items,
           LatestFirst(Items) => LatestFirst(Items)'
    PROVE  QuietAt(v)'
  <1>1. Size(queue)' = Size(queue) /\ Range(Items)' = Range(Items)
    BY DEF Size
  <1>2. CutAt(v)' <=> CutAt(v)
    BY SameSound DEF CutAt, SameAsk, Size
  <1>3. Whole(v)' = Whole(v)
    BY <1>1 DEF Whole
  <1>4. Range(Whole(v))' = Range(Whole(v))
    BY <1>3
  <1>5. QED
    BY <1>1, <1>2, <1>4, SameSound DEF QuietAt, SameAsk

(* What is in the arrays or held aside was so before, or is new.           *)
LEMMA StampFrame ==
    ASSUME StampInv, NEW x, x \in Events => epc'[x] # "idle",
           \A e \in Events : epc[e] # "idle" => epc'[e] # "idle",
           \A a \in DOMAIN heap' : \A i \in DOMAIN heap'[a] :
              \/ heap'[a][i] = x
              \/ heap'[a][i] \notin Events
              \/ \E b \in DOMAIN heap : \E j \in DOMAIN heap[b] : heap'[a][i] = heap[b][j],
           \A v \in Views :
              \/ view'[v].tmp = view[v].tmp
              \/ view'[v].tmp \notin Events
              \/ \E b \in DOMAIN heap : \E j \in DOMAIN heap[b] : view'[v].tmp = heap[b][j]
    PROVE  StampInv'
  BY DEF StampInv

LEMMA AppendStamped ==
    ASSUME MemInv, CtlInv, StampInv, NEW e \in Events, AppendItem(e)
    PROVE  StampInv'
  <1> DEFINE a == heap[queue.arr]
  <1>1. /\ queue \in Slices /\ queue.arr \in DOMAIN heap
        /\ a \in Seq(Events \cup {None}) /\ heap \in Arrays
        /\ \A i \in 1..Size(queue) : queue.lo + i \in DOMAIN a
        /\ Size(queue) \in Nat
    <2>1. /\ queue \in Slices /\ queue.arr \in DOMAIN heap /\ queue.lo <= queue.hi
          /\ a \in Seq(Events \cup {None}) /\ heap \in Arrays /\ queue.hi <= Len(a)
      BY DEF MemInv, FilledIn, Arrays
    <2>2. DOMAIN a = 1..Len(a) /\ Len(a) \in Nat
      BY <2>1
    <2>3. \A i \in 1..Size(queue) : queue.lo + i \in 1..Len(a)
      BY <2>1, <2>2 DEF Slices, Size
    <2>4. QED
      BY <2>1, <2>2, <2>3 DEF Slices, Size
  <1>2. /\ epc'[e] # "idle"
        /\ \A f \in Events : epc[f] # "idle" => epc'[f] # "idle"
    BY DEF CtlInv, AppendItem
  <1>3. ASSUME NEW n \in DOMAIN heap', NEW i \in DOMAIN heap'[n]
        PROVE  \/ heap'[n][i] = e
               \/ heap'[n][i] \notin Events
               \/ \E b \in DOMAIN heap : \E j \in DOMAIN heap[b] : heap'[n][i] = heap[b][j]
    <2>1. CASE queue.hi < Len(a)
      <3> DEFINE b == [a EXCEPT ![queue.hi + 1] = e]
      <3>1. heap' = [heap EXCEPT ![queue.arr] = b]
        BY <2>1 DEF AppendItem
      <3>2. DOMAIN heap' = DOMAIN heap /\ (n # queue.arr => heap'[n] = heap[n])
            /\ heap'[queue.arr] = b
        BY <1>1, <3>1
      <3>3. DOMAIN b = DOMAIN a /\ \A j \in DOMAIN a : b[j] = e \/ b[j] = a[j]
        OBVIOUS
      <3> HIDE DEF b
      <3>4. CASE n = queue.arr
        BY <1>1, <3>2, <3>3, <3>4
      <3>5. CASE n # queue.arr
        BY <3>2, <3>5
      <3>6. QED
        BY <3>4, <3>5
    <2>2. CASE ~(queue.hi < Len(a))
      <3>1. PICK room \in 0..Spare :
               heap' = Append(heap, Append(Items, e) \o [j \in 1..room |-> None])
        BY <2>2 DEF AppendItem
      <3> DEFINE t == [j \in 1..room |-> None]
                 c == Append(Items, e)
                 b == c \o t
      <3>2. heap' = Append(heap, b)
        BY <3>1
      <3>3. /\ Items \in Seq(Events \cup {None}) /\ Len(Items) = Size(queue)
            /\ \A j \in 1..Size(queue) : Items[j] = a[queue.lo + j]
        BY <1>1 DEF Items, At
      <3>4. /\ c \in Seq(Events \cup {None}) /\ Len(c) \in Nat
            /\ \A j \in 1..Len(c) : c[j] = e \/ \E k \in DOMAIN a : c[j] = a[k]
        <4>1. /\ c \in Seq(Events \cup {None}) /\ Len(c) = Size(queue) + 1
              /\ \A j \in 1..Size(queue) : c[j] = a[queue.lo + j]
              /\ c[Size(queue) + 1] = e
          BY <1>1, <3>3
        <4>2. ASSUME NEW j \in 1..Len(c)
              PROVE  c[j] = e \/ \E k \in DOMAIN a : c[j] = a[k]
          <5>1. j = Size(queue) + 1 \/ j \in 1..Size(queue)
            BY <1>1, <4>1
          <5>2. QED
            BY <1>1, <4>1, <5>1
        <4>3. QED
          BY <1>1, <4>1, <4>2
      <3>5. t \in Seq(Events \cup {None}) /\ Len(t) \in Nat /\ \A j \in 1..Len(t) : t[j] = None
        BY <3>1, DebugDataAssumption
      <3> HIDE DEF c, t
      <3>6. /\ b \in Seq(Events \cup {None}) /\ DOMAIN b = 1..Len(c) + Len(t)
            /\ \A j \in 1..Len(c) + Len(t) : b[j] = IF j <= Len(c) THEN c[j] ELSE t[j - Len(c)]
        BY <3>4, <3>5, ConcatProperties
      <3>7. \A j \in DOMAIN b : b[j] = e \/ b[j] = None \/ \E k \in DOMAIN a : b[j] = a[k]
        BY <3>4, <3>5, <3>6
      <3> HIDE DEF b
      <3>8. DOMAIN heap' = 1..Len(heap) + 1 /\ heap'[Len(heap) + 1] = b /\ Len(heap) \in Nat
            /\ \A m \in 1..Len(heap) : m \in DOMAIN heap /\ heap'[m] = heap[m]
        BY <1>1, <3>2, <3>6 DEF Arrays
      <3>9. CASE n = Len(heap) + 1
        BY <1>1, <3>7, <3>8, <3>9, DebugDataAssumption
      <3>10. CASE n \in 1..Len(heap)
        BY <3>8, <3>10
      <3>11. QED
        BY <3>8, <3>9, <3>10
    <2>3. QED
      BY <2>1, <2>2
  <1>4. \A v \in Views : view'[v].tmp = view[v].tmp
    BY RaceKeeps DEF AppendItem
  <1>5. QED
    BY <1>2, <1>3, <1>4, StampFrame

(* A swap writes, and holds aside, what was there.                         *)
LEMMA SwapStamped ==
    ASSUME MemInv, StampInv, NEW v \in Views, SwapFirst(v) \/ SwapSecond(v)
    PROVE  StampInv'
  <1> DEFINE sl == view[v].slice
             R == Race(Views \ {v})
  <1>1. FilledIn(heap, sl) /\ heap \in Arrays
    BY DEF MemInv, SwapFirst, SwapSecond
  <1>2. epc' = epc
    BY DEF SwapFirst, SwapSecond
  <1>3. PICK i \in 1..Size(sl), x \in Events, h \in 0..Size(sl), y \in Events \cup {None} :
           /\ heap' = Write(sl, i, x)
           /\ view' = [R EXCEPT ![v].hole = h, ![v].tmp = y]
           /\ h # 0 => y \in Events
           /\ \/ x = view[v].tmp
              \/ \E j \in 1..Size(sl) : x = heap[sl.arr][sl.lo + j]
           /\ \/ y = None
              \/ \E j \in 1..Size(sl) : y = heap[sl.arr][sl.lo + j]
    BY SwapStep
  <1> HIDE DEF sl
  <1>4. /\ sl \in Slices /\ sl.arr \in DOMAIN heap
        /\ \A j \in 1..Size(sl) : sl.lo + j \in DOMAIN heap[sl.arr]
    <2>1. heap[sl.arr] \in Seq(Events \cup {None}) /\ sl.arr \in DOMAIN heap
          /\ sl \in Slices /\ sl.hi <= Len(heap[sl.arr])
      BY <1>1 DEF FilledIn, Arrays
    <2>2. DOMAIN heap[sl.arr] = 1..Len(heap[sl.arr]) /\ Len(heap[sl.arr]) \in Nat
      BY <2>1
    <2>3. \A j \in 1..Size(sl) : sl.lo + j \in 1..Len(heap[sl.arr])
      BY <2>1, <2>2 DEF Slices, Size
    <2>4. QED
      BY <2>1, <2>2, <2>3
  <1>5. /\ DOMAIN heap' = DOMAIN heap
        /\ \A n \in DOMAIN heap : /\ DOMAIN heap'[n] = DOMAIN heap[n]
                                  /\ \A k \in DOMAIN heap[n] : heap'[n][k] = x \/ heap'[n][k] = heap[n][k]
    BY <1>1, <1>3, WriteKeeps
  <1>6. x \in Events => epc'[x] # "idle"
    BY <1>2, <1>3, <1>4 DEF StampInv
  <1>7. R = [w \in Views |-> R[w]] /\ R[v] = view[v] /\ "tmp" \in DOMAIN view[v]
        /\ \A w \in Views : R[w].tmp = view[w].tmp
    BY RaceKeeps DEF MemInv
  <1> HIDE DEF R
  <1>8. view'[v].tmp = y /\ \A w \in Views \ {v} : view'[w].tmp = view[w].tmp
    BY <1>3, <1>7
  <1>9. \A w \in Views :
           \/ view'[w].tmp = view[w].tmp
           \/ view'[w].tmp \notin Events
           \/ \E b \in DOMAIN heap : \E j \in DOMAIN heap[b] : view'[w].tmp = heap[b][j]
    BY <1>3, <1>4, <1>8, DebugDataAssumption
  <1>10. QED
    BY <1>2, <1>5, <1>6, <1>9, StampFrame

(* What a step of a view that moves no item does to what is held aside.    *)
LEMMA TmpKept ==
    ASSUME MemInv, NEW v \in Views,
           \/ \E ask \in Asks : Find(v, ask[1], ask[2])
           \/ BeginSort(v) \/ EndSort(v) \/ SortPanic(v) \/ CutPage(v) \/ Marshal(v)
    PROVE  \A w \in Views : view'[w].tmp = view[w].tmp \/ view'[w].tmp = None
  <1>1. CASE \E ask \in Asks : Find(v, ask[1], ask[2])
    BY <1>1 DEF Find, MemInv, NoView
  <1>2. CASE EndSort(v) \/ SortPanic(v)
    BY <1>2 DEF EndSort, SortPanic
  <1>3. CASE CutPage(v)
    <2>1. view' = view \/ \E s : view' = [view EXCEPT ![v].slice = s]
      BY <1>3 DEF CutPage
    <2>2. QED
      BY <2>1 DEF MemInv
  <1>4. CASE Marshal(v)
    BY <1>4 DEF Marshal, MemInv, NoView
  <1>5. CASE BeginSort(v)
    <2> DEFINE S == {w \in Sorting : view[w].slice.arr = queue.arr}
    <2>1. view' = [w \in Views |->
                     IF w = v THEN [view[v] EXCEPT !.slice = queue, !.clash = S # {}]
                     ELSE IF w \in S THEN [view[w] EXCEPT !.clash = TRUE]
                     ELSE view[w]]
      BY <1>5 DEF BeginSort
    <2> HIDE DEF S
    <2>2. ASSUME NEW w \in Views PROVE view'[w].tmp = view[w].tmp
      <3>1. CASE w = v
        BY <2>1, <3>1 DEF MemInv
      <3>2. CASE w # v /\ w \in S
        <4>1. view'[w] = [view[w] EXCEPT !.clash = TRUE]
          BY <2>1, <3>2
        <4>2. QED
          BY <4>1 DEF MemInv
      <3>3. CASE w # v /\ w \notin S
        BY <2>1, <3>3
      <3>4. QED
        BY <3>1, <3>2, <3>3
    <2>3. QED
      BY <2>2
  <1>6. QED
    BY <1>1, <1>2, <1>3, <1>4, <1>5

LEMMA StampNext == MemInv /\ CtlInv /\ StampInv /\ [Next]_vars => StampInv'
  <1> SUFFICES ASSUME MemInv, CtlInv, StampInv, [Next]_vars PROVE StampInv'
    OBVIOUS
  <1>1. CASE UNCHANGED vars
    BY <1>1 DEF vars, StampInv
  <1>2. ASSUME NEW e \in Events, Stamp(e) \/ Shift(e) PROVE StampInv'
    <2>1. heap' = heap /\ \A f \in Events : epc[f] # "idle" => epc'[f] # "idle"
      BY <1>2 DEF CtlInv, Stamp, Shift
    <2>2. \A v \in Views : view'[v].tmp = view[v].tmp
      BY <1>2, RaceKeeps DEF Stamp, Shift
    <2>3. QED
      BY <2>1, <2>2 DEF StampInv
  <1>3. ASSUME NEW v \in Views,
               \/ \E ask \in Asks : Find(v, ask[1], ask[2])
               \/ BeginSort(v) \/ EndSort(v) \/ SortPanic(v) \/ CutPage(v) \/ Marshal(v)
        PROVE  StampInv'
    <2>1. heap' = heap /\ epc' = epc
      BY <1>3 DEF Find, BeginSort, EndSort, SortPanic, CutPage, Marshal
    <2>2. \A w \in Views : view'[w].tmp = view[w].tmp \/ view'[w].tmp = None
      BY <1>3, TmpKept
    <2>3. QED
      BY <2>1, <2>2, DebugDataAssumption DEF StampInv
  <1>4. QED
    BY <1>1, <1>2, <1>3, AppendStamped, SwapStamped DEF Next, Callback, Handler

-----------------------------------------------------------------------------
(* QuietInv is preserved.                                                  *)

LEMMA QueueItems ==
    ASSUME MemInv
    PROVE  /\ queue \in Slices /\ Size(queue) \in Nat
           /\ DOMAIN Items = 1..Size(queue)
           /\ \A i \in 1..Size(queue) : /\ Items[i] = heap[queue.arr][queue.lo + i]
                                        /\ Items[i] \in Events
                                        /\ queue.lo + i \in DOMAIN heap[queue.arr]
           /\ Range(Items) \subseteq Events
  <1>1. /\ queue \in Slices /\ queue.arr \in DOMAIN heap /\ queue.lo <= queue.hi
        /\ queue.hi <= Len(heap[queue.arr])
        /\ heap[queue.arr] \in Seq(Events \cup {None})
    BY DEF MemInv, FilledIn, Arrays
  <1>2. Size(queue) \in Nat /\ \A i \in 1..Size(queue) : heap[queue.arr][queue.lo + i] \in Events
    BY FilledSlots DEF MemInv
  <1>3. DOMAIN Items = 1..Size(queue)
        /\ \A i \in 1..Size(queue) : Items[i] = heap[queue.arr][queue.lo + i]
    BY DEF Items, At
  <1>4. \A i \in 1..Size(queue) : queue.lo + i \in 1..Len(heap[queue.arr])
    BY <1>1 DEF Slices, Size
  <1>5. DOMAIN heap[queue.arr] = 1..Len(heap[queue.arr])
    BY <1>1
  <1>6. Range(Items) \subseteq Events
    BY <1>2, <1>3 DEF Range
  <1>7. QED
    BY <1>1, <1>2, <1>3, <1>4, <1>5, <1>6

(* A stamp reaches no item that is already in the queue.                   *)
LEMMA StampQuiet ==
    ASSUME MemInv, CtlInv, QuietInv, NEW e \in Events, Stamp(e)
    PROVE  \A v \in Views : QuietAt(v)'
  <1>1. /\ UNCHANGED <<lock, heap, queue, vpc, view>>
        /\ ts' = [ts EXCEPT ![e] = now'] /\ epc[e] = "idle"
    BY DEF Stamp
  <1>2. \A i \in DOMAIN Items : Items[i] # e /\ Items[i] \in Events
    BY <1>1, QueueItems DEF QuietInv, StampInv, MemInv, FilledIn
  <1>3. Items' = Items
    BY <1>1 DEF Items, At, Size
  <1>4. \A i \in DOMAIN Items : ts'[Items[i]] = ts[Items[i]]
    BY <1>1, <1>2 DEF CtlInv
  <1>5. LatestFirst(Items) => LatestFirst(Items)'
    BY <1>3, <1>4 DEF LatestFirst
  <1>6. QED
    BY <1>1, <1>3, <1>5, QuietSame DEF QuietInv, SameAsk

(* A view other than the one that takes a step.                            *)
LEMMA OthersQuiet ==
    ASSUME QuietInv, NEW v \in Views, UNCHANGED <<ts, lock, heap, queue>>,
           \A w \in Views \ {v} : vpc'[w] = vpc[w] /\ view'[w] = view[w]
    PROVE  \A w \in Views \ {v} : QuietAt(w)'
  <1>1. Items' = Items /\ (LatestFirst(Items) => LatestFirst(Items)')
    BY DEF Items, At, Size, LatestFirst
  <1>2. QED
    BY <1>1, QuietSame DEF QuietInv, SameAsk

(* Every push races with every open view.                                  *)
LEMMA PushQuiet ==
    ASSUME QuietInv, NEW e \in Events, Shift(e) \/ AppendItem(e)
    PROVE  /\ view' \in [Views -> ViewRecs] /\ \A v \in Views : QuietAt(v)'
           /\ vpc' = vpc
           /\ \A v \in Views : /\ view'[v].pageSize = view[v].pageSize
                               /\ view'[v].clash = view[v].clash
  <1>1. vpc' = vpc /\ view' = Race(Views) /\ view \in [Views -> ViewRecs]
    BY DEF Shift, AppendItem, QuietInv
  <1>2. ASSUME NEW v \in Views PROVE QuietAt(v)'
    BY <1>1, RaceFields, QuietRaced DEF QuietInv, SameAsk
  <1>3. QED
    BY <1>1, <1>2, RaceFields

(* Half a swap races with every other open view.                           *)
LEMMA SwapView ==
    ASSUME view \in [Views -> ViewRecs], NEW v \in Views, NEW h \in Nat,
           NEW y \in Events \cup {None},
           view' = [Race(Views \ {v}) EXCEPT ![v].hole = h, ![v].tmp = y]
    PROVE  /\ view' \in [Views -> ViewRecs]
           /\ view'[v].hole = h /\ view'[v].tmp = y
           /\ view'[v].slice = view[v].slice /\ view'[v].found = view[v].found
           /\ view'[v].raced = view[v].raced
           /\ \A w \in Views : SameAsk(w) /\ view'[w].clash = view[w].clash
           /\ \A w \in Views \ {v} : view'[w].raced <=> view[w].raced \/ w \in Open
  <1> DEFINE R == Race(Views \ {v})
  <1>1. /\ R \in [Views -> ViewRecs] /\ R[v] = view[v]
        /\ \A w \in Views : /\ R[w].pageSize = view[w].pageSize
                            /\ R[w].current = view[w].current
                            /\ R[w].total = view[w].total
                            /\ R[w].clash = view[w].clash
                            /\ R[w].raced <=> view[w].raced \/ w \in Open \cap (Views \ {v})
    <2>1. R[v] = view[v]
      BY DEF Race
    <2>2. QED
      BY <2>1, RaceFields
  <1> HIDE DEF R
  <1>2. /\ view'[v] = [view[v] EXCEPT !.hole = h, !.tmp = y]
        /\ \A w \in Views \ {v} : view'[w] = R[w]
        /\ view' = [w \in Views |-> view'[w]]
    BY <1>1 DEF R
  <1>3. view[v] \in ViewRecs
    OBVIOUS
  <1>4. /\ view'[v] \in ViewRecs /\ SameAsk(v) /\ view'[v].clash = view[v].clash
        /\ view'[v].hole = h /\ view'[v].tmp = y
        /\ view'[v].slice = view[v].slice /\ view'[v].found = view[v].found
        /\ view'[v].raced = view[v].raced
    BY <1>2, <1>3 DEF ViewRecs, SameAsk
  <1>5. ASSUME NEW w \in Views \ {v}
        PROVE  /\ view'[w] \in ViewRecs /\ SameAsk(w) /\ view'[w].clash = view[w].clash
               /\ view'[w].raced <=> view[w].raced \/ w \in Open
    <2>1. w \in Open \cap (Views \ {v}) <=> w \in Open
      OBVIOUS
    <2>2. view'[w] = R[w]
      BY <1>2
    <2>3. view'[w].raced <=> view[w].raced \/ w \in Open
      BY <1>1, <2>1, <2>2
    <2>4. QED
      BY <1>1, <2>2, <2>3 DEF SameAsk
  <1>6. QED
    BY <1>2, <1>4, <1>5

(* A swap exchanges two items of the whole; between its halves one of them *)
(* is held aside.                                                          *)
LEMMA SwapQuiet ==
    ASSUME MemInv, CtlInv, QuietInv, NEW v \in Views, SwapFirst(v) \/ SwapSecond(v)
    PROVE  /\ view' \in [Views -> ViewRecs] /\ \A w \in Views : QuietAt(w)'
           /\ \A w \in Views : SameAsk(w) /\ view'[w].clash = view[w].clash
  <1> DEFINE s == view[v].slice
  <1>1. /\ view \in [Views -> ViewRecs] /\ vpc[v] = "sorting"
        /\ UNCHANGED <<ts, lock, queue, vpc>>
        /\ FilledIn(heap, s) /\ HoleIn(view[v]) /\ heap \in Arrays
    BY DEF SwapFirst, SwapSecond, QuietInv, MemInv
  <1>2. \E h \in Nat, y \in Events \cup {None} :
           view' = [Race(Views \ {v}) EXCEPT ![v].hole = h, ![v].tmp = y]
    <2>1. \E h \in 0..Size(s), y \in Events \cup {None} :
             view' = [Race(Views \ {v}) EXCEPT ![v].hole = h, ![v].tmp = y]
      BY SwapStep
    <2>2. Size(s) \in Nat
      BY <1>1, FilledSlots
    <2>3. \A h \in 0..Size(s) : h \in Nat
      BY <2>2
    <2>4. QED
      BY <2>1, <2>3
  <1>3. /\ view' \in [Views -> ViewRecs]
        /\ view'[v].slice = s /\ view'[v].found = view[v].found
        /\ view'[v].raced = view[v].raced
        /\ \A w \in Views : SameAsk(w) /\ view'[w].clash = view[w].clash
        /\ \A w \in Views \ {v} : view'[w].raced <=> view[w].raced \/ w \in Open
    BY <1>1, <1>2, SwapView
  <1>4. ASSUME NEW w \in Views \ {v} PROVE QuietAt(w)'
    BY <1>1, <1>3, QuietRaced DEF QuietInv
  <1>5. ASSUME ~view[v].raced, ~view[v].clash
        PROVE  Range(Whole(v)') = Range(Whole(v))
    <2>1. s = queue
      BY <1>1, <1>5 DEF QuietInv, QuietAt
    <2>2. /\ queue \in Slices /\ Size(queue) \in Nat /\ queue.arr \in DOMAIN heap
          /\ \A k \in 1..Size(queue) : /\ Items[k] = heap[queue.arr][queue.lo + k]
                                       /\ Items[k] \in Events
                                       /\ queue.lo + k \in DOMAIN heap[queue.arr]
      BY QueueItems DEF MemInv, FilledIn
    <2>3. Items' = [k \in 1..Size(queue) |-> heap'[queue.arr][queue.lo + k]]
          /\ Size(queue') = Size(queue)
      BY <1>1 DEF Items, At, Size
    <2>4. ASSUME NEW i \in 1..Size(queue), NEW x \in Events, heap' = Write(queue, i, x)
          PROVE  \A k \in 1..Size(queue) : Items'[k] = IF k = i THEN x ELSE Items[k]
      <3>1. \A k \in 1..Size(queue) :
               heap'[queue.arr][queue.lo + k] = IF queue.lo + k = queue.lo + i THEN x
                                                ELSE heap[queue.arr][queue.lo + k]
        BY <1>1, <2>1, <2>2, <2>4, WriteKeeps
      <3>2. \A k \in 1..Size(queue) : queue.lo + k = queue.lo + i <=> k = i
        BY <2>2 DEF Slices
      <3>3. QED
        BY <2>2, <2>3, <3>1, <3>2
    <2>5. Whole(v)' = [k \in 1..Size(queue) |-> IF k = view'[v].hole THEN view'[v].tmp
                                                ELSE Items'[k]]
      BY <2>3 DEF Whole
    <2>6. CASE SwapFirst(v)
      <3>1. PICK i \in 1..Size(queue), j \in 1..Size(queue) :
               /\ i # j /\ heap' = Write(queue, i, At(queue)[j])
               /\ view' = [Race(Views \ {v}) EXCEPT ![v].hole = j, ![v].tmp = At(queue)[i]]
        BY <2>1, <2>6 DEF SwapFirst
      <3>2. At(queue)[i] = Items[i] /\ At(queue)[j] = Items[j]
            /\ Items[i] \in Events /\ Items[j] \in Events
        BY <2>2 DEF Items
      <3>3. view'[v].hole = j /\ view'[v].tmp = Items[i]
        <4>1. PICK y \in Events : y = Items[i]
          BY <3>2
        <4>2. view' = [Race(Views \ {v}) EXCEPT ![v].hole = j, ![v].tmp = y]
          BY <3>1, <3>2, <4>1
        <4>3. Race(Views \ {v}) \in [Views -> ViewRecs]
          BY <1>1, RaceFields
        <4>4. view'[v].hole = j /\ view'[v].tmp = y
          BY <4>2, <4>3 DEF ViewRecs
        <4>5. QED
          BY <4>1, <4>4
      <3>4. \A k \in 1..Size(queue) : Items'[k] = IF k = i THEN Items[j] ELSE Items[k]
        BY <2>4, <3>1, <3>2
      <3>5. view[v].hole = 0
        BY <2>6 DEF SwapFirst
      <3> DEFINE q == Items
                 n == Size(queue)
      <3>6. /\ DOMAIN Whole(v) = 1..n /\ DOMAIN Whole(v)' = 1..n
            /\ \A k \in 1..n : Whole(v)[k] = q[k]
            /\ \A k \in 1..n : Whole(v)'[k] = IF k = j THEN q[i] ELSE IF k = i THEN q[j] ELSE q[k]
        <4>1. DOMAIN Whole(v) = 1..n /\ \A k \in 1..n : Whole(v)[k] = q[k]
          BY <3>5 DEF Whole
        <4>2. DOMAIN Whole(v)' = 1..n
              /\ \A k \in 1..n : Whole(v)'[k] = IF k = j THEN q[i] ELSE Items'[k]
          BY <2>5, <3>3
        <4>3. QED
          BY <3>4, <4>1, <4>2
      <3>7. ASSUME NEW z
            PROVE  (\E k \in 1..n : z = Whole(v)'[k]) <=> (\E k \in 1..n : z = Whole(v)[k])
        <4> HIDE DEF q, n
        <4>1. i \in 1..n /\ j \in 1..n /\ i # j
          BY <3>1 DEF n
        <4>2. QED
          BY <3>6, <4>1
      <3>8. QED
        BY <3>6, <3>7 DEF Range
    <2>7. CASE SwapSecond(v)
      <3>1. /\ heap' = Write(queue, view[v].hole, view[v].tmp) /\ view[v].hole # 0
            /\ view' = [Race(Views \ {v}) EXCEPT ![v].hole = 0, ![v].tmp = None]
        BY <2>1, <2>7 DEF SwapSecond
      <3>2. view[v].hole \in 1..Size(queue) /\ view[v].tmp \in Events
        BY <1>1, <2>1, <2>2, <3>1 DEF HoleIn
      <3>3. view'[v].hole = 0
        BY <1>1, <3>1, SwapView
      <3>4. \A k \in 1..Size(queue) :
               Items'[k] = IF k = view[v].hole THEN view[v].tmp ELSE Items[k]
        BY <2>4, <3>1, <3>2
      <3>5. Whole(v)' = [k \in 1..Size(queue) |-> Items'[k]]
        <4>1. \A k \in 1..Size(queue) : k # view'[v].hole
          BY <3>3
        <4>2. QED
          BY <2>5, <4>1
      <3>6. [k \in 1..Size(queue) |-> Items'[k]] = Whole(v)
        BY <3>4 DEF Whole
      <3>7. QED
        BY <3>5, <3>6
    <2>8. QED
      BY <2>6, <2>7
  <1>6. QuietAt(v)'
    <2>1. SUFFICES ASSUME ~view[v].raced, ~view[v].clash
                   PROVE  /\ lock' = None /\ view'[v].total = Size(queue')
                          /\ view'[v].slice = queue' /\ view'[v].found = Range(Whole(v)')
      BY <1>1, <1>3 DEF QuietAt
    <2>2. /\ lock = None /\ view[v].total = Size(queue)
          /\ s = queue /\ view[v].found = Range(Whole(v))
      BY <1>1, <2>1 DEF QuietInv, QuietAt
    <2>3. QED
      BY <1>1, <1>3, <1>5, <2>1, <2>2 DEF SameAsk, Size
  <1>7. QED
    BY <1>3, <1>4, <1>6

(* A sort that nothing disturbed ends with the latest first; one that      *)
(* panics was disturbed by a push, which raced with its view.              *)
LEMMA EndQuiet ==
    ASSUME MemInv, CtlInv, QuietInv, NEW v \in Views, EndSort(v) \/ SortPanic(v)
    PROVE  view' = view /\ \A w \in Views : QuietAt(w)'
  <1>1. UNCHANGED <<ts, lock, heap, queue, view>> /\ vpc[v] = "sorting"
    BY DEF EndSort, SortPanic
  <1>2. vpc'[v] \in {"cut", "panic"} /\ \A w \in Views \ {v} : vpc'[w] = vpc[w]
    BY DEF EndSort, SortPanic, CtlInv
  <1>3. \A w \in Views \ {v} : QuietAt(w)'
    BY <1>1, <1>2, OthersQuiet
  <1>4. QuietAt(v)'
    <2>1. SUFFICES ASSUME ~view[v].raced, ~view[v].clash PROVE QuietAt(v)'
      BY <1>1 DEF QuietAt
    <2>2. /\ lock = None /\ view[v].total = Size(queue)
          /\ view[v].slice = queue /\ view[v].found = Range(Whole(v))
      BY <1>1, <2>1 DEF QuietInv, QuietAt
    <2>3. EndSort(v)
      BY <2>2 DEF SortPanic
    <2>4. vpc'[v] = "cut" /\ view[v].hole = 0 /\ LatestFirst(Items)
      BY <2>1, <2>2, <2>3 DEF EndSort, CtlInv
    <2>5. Whole(v) = Items
      <3>1. \A k \in 1..Size(queue) : k # view[v].hole
        BY <2>4
      <3>2. Items = [k \in 1..Size(queue) |-> Items[k]]
        BY DEF Items, At
      <3>3. QED
        BY <3>1, <3>2 DEF Whole
    <2>6. Items' = Items /\ Size(queue') = Size(queue)
          /\ (LatestFirst(Items) => LatestFirst(Items)')
      BY <1>1 DEF Items, At, Size, LatestFirst
    <2>7. QED
      BY <1>1, <2>2, <2>4, <2>5, <2>6 DEF QuietAt
  <1>5. QED
    BY <1>1, <1>3, <1>4

(* A view that finds the queue has not raced yet.                          *)
LEMMA FindQuiet ==
    ASSUME MemInv, CtlInv, QuietInv, NEW v \in Views, NEW ask \in Asks, Find(v, ask[1], ask[2])
    PROVE  /\ view' \in [Views -> ViewRecs] /\ \A w \in Views : QuietAt(w)'
           /\ view'[v].pageSize \in GoInts(Bits) /\ ~view'[v].clash
  <1> DEFINE rec == [NoView EXCEPT !.pageSize = ask[1], !.current = ask[2],
                                   !.total = Size(queue), !.found = Range(Items)]
  <1>1. /\ view' = [view EXCEPT ![v] = rec] /\ lock = None
        /\ UNCHANGED <<ts, lock, heap, queue>>
        /\ vpc' = [vpc EXCEPT ![v] = IF pushed = <<>> THEN "done" ELSE "sort"]
    BY DEF Find
  <1>2. ask[1] \in GoInts(Bits) /\ ask[1] \in Int /\ ask[2] \in Int
    BY DebugDataAssumption DEF GoInts
  <1>3. /\ rec \in ViewRecs /\ rec.pageSize = ask[1] /\ ~rec.raced /\ ~rec.clash
        /\ rec.total = Size(queue) /\ rec.found = Range(Items)
    BY <1>2, QueueItems DEF NoView, ViewRecs, Slices
  <1> HIDE DEF rec
  <1>4. view' \in [Views -> ViewRecs] /\ view'[v] = rec
        /\ \A w \in Views \ {v} : view'[w] = view[w]
    BY <1>1, <1>3 DEF QuietInv
  <1>5. vpc'[v] \in {"done", "sort"} /\ \A w \in Views \ {v} : vpc'[w] = vpc[w]
    BY <1>1 DEF CtlInv
  <1>6. \A w \in Views \ {v} : QuietAt(w)'
    BY <1>1, <1>4, <1>5, OthersQuiet
  <1>7. Size(queue)' = Size(queue) /\ Items' = Items
    BY <1>1 DEF Items, At, Size
  <1>8. QuietAt(v)'
    BY <1>1, <1>3, <1>4, <1>5, <1>7 DEF QuietAt
  <1>9. QED
    BY <1>2, <1>3, <1>4, <1>6, <1>8

(* A sort that begins clashes with those that sort the same array.         *)
LEMMA BeginSortQuiet ==
    ASSUME MemInv, CtlInv, QuietInv, NEW v \in Views, BeginSort(v)
    PROVE  /\ view' \in [Views -> ViewRecs] /\ \A w \in Views : QuietAt(w)'
           /\ \A w \in Views : view'[w].pageSize = view[w].pageSize
           /\ \A w \in Views : vpc'[w] = "sort" => vpc[w] = "sort" /\ ~view'[w].clash
  <1> DEFINE S == {w \in Sorting : view[w].slice.arr = queue.arr}
             c == S # {}
  <1>1. /\ view' = [w \in Views |->
                      IF w = v THEN [view[v] EXCEPT !.slice = queue, !.clash = c]
                      ELSE IF w \in S THEN [view[w] EXCEPT !.clash = TRUE]
                      ELSE view[w]]
        /\ vpc[v] = "sort" /\ vpc' = [vpc EXCEPT ![v] = "sorting"]
        /\ UNCHANGED <<ts, lock, heap, queue>>
    BY DEF BeginSort
  <1>2. c \in BOOLEAN /\ queue \in Slices /\ \A w \in S : vpc[w] = "sorting"
    BY QueueItems DEF Sorting
  <1> HIDE DEF S, c
  <1>3. \A w \in Views : view[w] \in ViewRecs
    BY DEF QuietInv
  <1>4. /\ view'[v] \in ViewRecs /\ SameAsk(v) /\ view'[v].slice = queue
        /\ view'[v].pageSize = view[v].pageSize
        /\ view'[v].found = view[v].found
        /\ view'[v].hole = view[v].hole
        /\ view'[v].raced = view[v].raced
    BY <1>1, <1>2, <1>3 DEF ViewRecs, SameAsk
  <1>5. ASSUME NEW w \in Views \ {v}
        PROVE  /\ view'[w] \in ViewRecs /\ SameAsk(w) /\ view'[w].slice = view[w].slice
               /\ view'[w].pageSize = view[w].pageSize
               /\ view'[w].found = view[w].found
               /\ view'[w].hole = view[w].hole /\ view'[w].tmp = view[w].tmp
               /\ view'[w].raced = view[w].raced
               /\ view[w].clash => view'[w].clash
               /\ w \notin S => view'[w].clash = view[w].clash
    <2>1. CASE w \in S
      <3>1. view'[w] = [view[w] EXCEPT !.clash = TRUE]
        BY <1>1, <2>1
      <3>2. QED
        BY <1>3, <2>1, <3>1 DEF ViewRecs, SameAsk
    <2>2. CASE w \notin S
      <3>1. view'[w] = view[w]
        BY <1>1, <2>2
      <3>2. QED
        BY <1>3, <3>1 DEF SameAsk
    <2>3. QED
      BY <2>1, <2>2
  <1>6. view' \in [Views -> ViewRecs]
    BY <1>1, <1>4, <1>5
  <1>7. vpc'[v] = "sorting" /\ \A w \in Views \ {v} : vpc'[w] = vpc[w]
    BY <1>1 DEF CtlInv
  <1>8. Size(queue)' = Size(queue) /\ Items' = Items
        /\ (LatestFirst(Items) => LatestFirst(Items)')
    BY <1>1 DEF Items, At, Size, LatestFirst
  <1>9. ASSUME NEW w \in Views \ {v} PROVE QuietAt(w)'
    <2>1. QuietAt(w) /\ UNCHANGED <<lock, queue>>
      BY <1>1 DEF QuietInv
    <2>2. view[w].raced => view'[w].raced
      BY <1>5
    <2>3. QED
      BY <1>5, <1>7, <1>8, <2>1, <2>2, QuietSame
  <1>10. QuietAt(v)'
    <2>1. ~view[v].clash /\ QuietAt(v)
      BY <1>1 DEF QuietInv
    <2>2. ~view[v].raced => /\ lock = None /\ view[v].total = Size(queue)
                            /\ view[v].found = Range(Items)
      BY <1>1, <2>1 DEF QuietAt
    <2>3. Whole(v)' = Items
      <3>1. view'[v].hole = 0
        BY <1>1, <1>4 DEF MemInv
      <3>2. \A k \in 1..Size(queue) : k # view'[v].hole
        BY <3>1
      <3>3. Whole(v)' = [k \in 1..Size(queue) |-> Items[k]]
        BY <1>8, <3>2 DEF Whole
      <3>4. QED
        BY <3>3 DEF Items, At
    <2>4. Range(Whole(v))' = Range(Items)
      BY <2>3
    <2>5. QED
      BY <1>1, <1>4, <1>7, <1>8, <2>2, <2>4 DEF QuietAt, SameAsk
  <1>11. \A w \in Views : vpc'[w] = "sort" => vpc[w] = "sort" /\ ~view'[w].clash
    BY <1>2, <1>5, <1>7 DEF QuietInv
  <1>12. QED
    BY <1>4, <1>5, <1>6, <1>9, <1>10, <1>11

(* The page is cut where it should, and whoever panics has asked for none. *)
LEMMA CutQuiet ==
    ASSUME MemInv, CtlInv, QuietInv, NEW v \in Views, CutPage(v)
    PROVE  view' \in [Views -> ViewRecs] /\ \A w \in Views : QuietAt(w)'
  <1> DEFINE start == PageStart(v)
             end == PageEnd(v)
  <1>1. /\ vpc[v] = "cut" /\ UNCHANGED <<ts, lock, heap, queue>>
        /\ view[v] \in ViewRecs /\ view \in [Views -> ViewRecs] /\ QuietAt(v)
    BY DEF CutPage, QuietInv
  <1>2. start \in Int /\ end \in Int /\ end <= view[v].total /\ view[v].total \in Nat
        /\ PageSize(v) \in Int /\ Current(v) \in Nat \ {0}
    BY <1>1, PageInts DEF QuietInv, ViewRecs
  <1>3. /\ queue \in Slices /\ queue.lo \in Nat /\ queue.hi \in Nat
        /\ queue.lo <= queue.hi /\ queue.hi <= Len(heap[queue.arr])
        /\ Len(heap[queue.arr]) \in Nat /\ Size(queue) = queue.hi - queue.lo
    <2>1. heap[queue.arr] \in Seq(Events \cup {None})
      BY DEF MemInv, FilledIn, Arrays
    <2>2. Len(heap[queue.arr]) \in Nat
      BY <2>1
    <2>3. QED
      BY <2>2 DEF MemInv, FilledIn, Slices, Size
  <1>4. Items' = Items /\ (LatestFirst(Items) => LatestFirst(Items)')
        /\ Size(queue)' = Size(queue)
    BY <1>1 DEF Items, At, Size, LatestFirst
  <1>5. ~view[v].raced /\ ~view[v].clash =>
           /\ lock = None /\ view[v].total = Size(queue)
           /\ view[v].found = Range(Items) /\ LatestFirst(Items)
    BY <1>1 DEF QuietAt
  <1>6. Sound(v) => /\ start = Skipped(v) /\ start >= 0
                    /\ end = IF start + PageSize(v) > view[v].total
                             THEN view[v].total ELSE start + PageSize(v)
                    /\ PageSize(v) >= 0
    BY <1>1, SoundPage
  <1>7. CASE start >= view[v].total
    <2> DEFINE sl == [queue EXCEPT !.hi = queue.lo]
    <2>1. view' = [view EXCEPT ![v].slice = sl] /\ vpc' = [vpc EXCEPT ![v] = "marshal"]
      BY <1>7 DEF CutPage
    <2>2. sl \in Slices /\ Size(sl) = 0
      BY <1>3 DEF Slices, Size
    <2> HIDE DEF sl
    <2>3. /\ view' \in [Views -> ViewRecs] /\ SameAsk(v) /\ view'[v].slice = sl
          /\ view'[v].found = view[v].found /\ view'[v].raced = view[v].raced
          /\ view'[v].clash = view[v].clash
          /\ \A w \in Views \ {v} : view'[w] = view[w]
      BY <1>1, <2>1, <2>2 DEF ViewRecs, SameAsk
    <2>4. vpc'[v] = "marshal" /\ \A w \in Views \ {v} : vpc'[w] = vpc[w]
      BY <2>1 DEF CtlInv
    <2>5. Sound(v)' => CutAt(v)'
      <3>1. SUFFICES ASSUME Sound(v) PROVE CutAt(v)'
        BY <2>3, SameSound
      <3>2. Skipped(v)' >= view'[v].total
        BY <1>6, <1>7, <2>3, <3>1, SameSound DEF SameAsk
      <3>3. Size(view[v].slice)' = 0
        BY <2>2, <2>3 DEF Size
      <3>4. QED
        BY <3>2, <3>3 DEF CutAt
    <2>6. QuietAt(v)'
      BY <1>1, <1>4, <1>5, <2>3, <2>4, <2>5 DEF QuietAt, SameAsk
    <2>7. QED
      BY <1>1, <2>3, <2>4, <2>6, OthersQuiet
  <1>8. CASE /\ ~(start >= view[v].total)
             /\ start < 0 \/ end < start \/ queue.lo + end > Len(heap[queue.arr])
    <2>1. view' = view /\ vpc' = [vpc EXCEPT ![v] = "panic"]
      BY <1>8 DEF CutPage
    <2>2. vpc'[v] = "panic" /\ \A w \in Views \ {v} : vpc'[w] = vpc[w]
      BY <2>1 DEF CtlInv
    <2>3. ASSUME ~view[v].raced, ~view[v].clash, Sound(v) PROVE FALSE
      <3>1. view[v].total = queue.hi - queue.lo
        BY <1>3, <1>5, <2>3
      <3>2. start >= 0 /\ ~(end < start)
        BY <1>2, <1>6, <1>8, <2>3
      <3>3. queue.lo + end <= Len(heap[queue.arr])
        BY <1>2, <1>3, <3>1
      <3>4. QED
        BY <1>2, <1>3, <1>8, <3>2, <3>3
    <2>4. SameAsk(v)
      BY <2>1 DEF SameAsk
    <2>5. QuietAt(v)'
      BY <2>1, <2>2, <2>3, <2>4, SameSound DEF QuietAt
    <2>6. QED
      BY <1>1, <2>1, <2>2, <2>5, OthersQuiet
  <1>9. CASE /\ ~(start >= view[v].total)
             /\ ~(start < 0 \/ end < start \/ queue.lo + end > Len(heap[queue.arr]))
    <2> DEFINE sl == [arr |-> queue.arr, lo |-> queue.lo + start, hi |-> queue.lo + end]
    <2>1. view' = [view EXCEPT ![v].slice = sl] /\ vpc' = [vpc EXCEPT ![v] = "marshal"]
      BY <1>9 DEF CutPage
    <2>2. /\ sl \in Slices /\ sl.arr = queue.arr
          /\ sl.lo = queue.lo + start /\ sl.hi = queue.lo + end
      BY <1>2, <1>3, <1>9 DEF Slices
    <2> HIDE DEF sl
    <2>3. /\ view' \in [Views -> ViewRecs] /\ SameAsk(v) /\ view'[v].slice = sl
          /\ view'[v].found = view[v].found /\ view'[v].raced = view[v].raced
          /\ view'[v].clash = view[v].clash
          /\ \A w \in Views \ {v} : view'[w] = view[w]
      BY <1>1, <2>1, <2>2 DEF ViewRecs, SameAsk
    <2>4. vpc'[v] = "marshal" /\ \A w \in Views \ {v} : vpc'[w] = vpc[w]
      BY <2>1 DEF CtlInv
    <2>5. ASSUME ~view[v].raced, ~view[v].clash, Sound(v)'
          PROVE  CutAt(v)'
      <3>1. Sound(v)
        BY <2>3, <2>5, SameSound
      <3>2. /\ Skipped(v)' = start /\ PageSize(v)' = PageSize(v)
            /\ view'[v].total = view[v].total /\ queue' = queue
        BY <1>1, <1>6, <2>3, <3>1, SameSound DEF SameAsk
      <3>3. view[v].total = queue.hi - queue.lo
        BY <1>3, <1>5, <2>5
      <3>4. ~(Skipped(v)' >= view'[v].total)
        BY <1>9, <3>2
      <3>5. sl.hi = IF queue.lo + start + PageSize(v) > queue.hi THEN queue.hi
                    ELSE queue.lo + start + PageSize(v)
        BY <1>2, <1>3, <1>6, <2>2, <3>1, <3>3
      <3>6. QED
        BY <2>2, <2>3, <3>2, <3>4, <3>5 DEF CutAt
    <2>6. QuietAt(v)'
      BY <1>1, <1>4, <1>5, <2>3, <2>4, <2>5 DEF QuietAt, SameAsk
    <2>7. QED
      BY <1>1, <2>3, <2>4, <2>6, OthersQuiet
  <1>10. QED
    BY <1>7, <1>8, <1>9

LEMMA MarshalQuiet ==
    ASSUME CtlInv, QuietInv, NEW v \in Views, Marshal(v)
    PROVE  view' \in [Views -> ViewRecs] /\ \A w \in Views : QuietAt(w)'
  <1>1. /\ UNCHANGED <<ts, lock, heap, queue>>
        /\ view' = [view EXCEPT ![v] = NoView] /\ vpc' = [vpc EXCEPT ![v] = "done"]
    BY DEF Marshal
  <1>2. NoView \in ViewRecs
    BY DEF NoView, ViewRecs, Slices
  <1>3. view' \in [Views -> ViewRecs] /\ \A w \in Views \ {v} : view'[w] = view[w]
    BY <1>1, <1>2 DEF QuietInv
  <1>4. vpc'[v] = "done" /\ \A w \in Views \ {v} : vpc'[w] = vpc[w]
    BY <1>1 DEF CtlInv
  <1>5. QuietAt(v)'
    BY <1>4 DEF QuietAt
  <1>6. QED
    BY <1>1, <1>3, <1>4, <1>5, OthersQuiet

LEMMA QuietNext == DataInv /\ QuietInv /\ [Next]_vars => QuietInv'
  <1> SUFFICES ASSUME DataInv, QuietInv, [Next]_vars PROVE QuietInv'
    OBVIOUS
  <1> USE DEF DataInv
  <1>1. StampInv'
    BY StampNext DEF QuietInv
  <1> DEFINE ViewsKept ==
               /\ view' \in [Views -> ViewRecs] /\ \A v \in Views : QuietAt(v)'
               /\ \A v \in Views : /\ vpc'[v] \in {"sort", "sorting", "cut"} =>
                                          view'[v].pageSize \in GoInts(Bits)
                                   /\ vpc'[v] = "sort" => ~view'[v].clash
  <1>2. SUFFICES ViewsKept
    BY <1>1 DEF QuietInv
  <1>3. CASE UNCHANGED vars
    <2>1. Items' = Items /\ (LatestFirst(Items) => LatestFirst(Items)')
      BY <1>3 DEF vars, Items, At, Size, LatestFirst
    <2>2. QED
      BY <1>3, <2>1, QuietSame DEF vars, QuietInv, SameAsk
  <1>4. ASSUME NEW e \in Events, Stamp(e) PROVE ViewsKept
    <2>1. view' = view /\ vpc' = vpc
      BY <1>4 DEF Stamp
    <2>2. QED
      BY <1>4, <2>1, StampQuiet DEF QuietInv
  <1>5. ASSUME NEW e \in Events, Shift(e) \/ AppendItem(e) PROVE ViewsKept
    BY <1>5, PushQuiet DEF QuietInv
  <1>6. ASSUME NEW v \in Views, EndSort(v) \/ SortPanic(v) PROVE ViewsKept
    <2>1. \E l \in {"cut", "panic"} : vpc' = [vpc EXCEPT ![v] = l]
      BY <1>6 DEF EndSort, SortPanic
    <2>2. \A w \in Views : /\ vpc'[w] \in {"sort", "sorting", "cut"} =>
                                 vpc[w] \in {"sort", "sorting", "cut"}
                           /\ vpc'[w] = "sort" => vpc[w] = "sort"
      <3>1. vpc[v] = "sorting"
        BY <1>6 DEF EndSort, SortPanic
      <3>2. QED
        BY <2>1, <3>1 DEF CtlInv
    <2>3. QED
      BY <1>6, <2>2, EndQuiet DEF QuietInv
  <1>7. ASSUME NEW v \in Views, SwapFirst(v) \/ SwapSecond(v) PROVE ViewsKept
    <2>1. vpc' = vpc
      BY <1>7 DEF SwapFirst, SwapSecond
    <2>2. QED
      BY <1>7, <2>1, SwapQuiet DEF QuietInv, SameAsk
  <1>8. ASSUME NEW v \in Views, NEW ask \in Asks, Find(v, ask[1], ask[2]) PROVE ViewsKept
    <2>1. \A w \in Views \ {v} : view'[w] = view[w] /\ vpc'[w] = vpc[w]
      BY <1>8 DEF Find, QuietInv, CtlInv
    <2>2. QED
      BY <1>8, <2>1, FindQuiet DEF QuietInv
  <1>9. ASSUME NEW v \in Views, BeginSort(v) PROVE ViewsKept
    <2>1. \A w \in Views : vpc'[w] \in {"sort", "sorting", "cut"} =>
                               vpc[w] \in {"sort", "sorting", "cut"}
      BY <1>9 DEF BeginSort, CtlInv
    <2>2. QED
      BY <1>9, <2>1, BeginSortQuiet DEF QuietInv
  <1>10. ASSUME NEW v \in Views, CutPage(v) \/ Marshal(v) PROVE ViewsKept
    <2>1. vpc'[v] \notin {"sort", "sorting", "cut"}
      BY <1>10 DEF CutPage, Marshal, CtlInv
    <2>2. \A w \in Views \ {v} : view'[w] = view[w] /\ vpc'[w] = vpc[w]
      BY <1>10 DEF CutPage, Marshal, CtlInv, QuietInv
    <2>3. QED
      BY <1>10, <2>1, <2>2, CutQuiet, MarshalQuiet DEF QuietInv
  <1>11. QED
    BY <1>3, <1>4, <1>5, <1>6, <1>8, <1>9, <1>10, <1>7 DEF Next, Callback, Handler

LEMMA InitQuiet == Init => QuietInv
  <1> SUFFICES ASSUME Init PROVE QuietInv
    OBVIOUS
  <1>1. NoView \in ViewRecs
    BY DEF NoView, ViewRecs, Slices
  <1>2. view \in [Views -> ViewRecs] /\ \A v \in Views : vpc[v] = "idle"
    BY <1>1 DEF Init
  <1>3. \A n \in DOMAIN heap : \A i \in DOMAIN heap[n] : heap[n][i] = None
    <2> DEFINE a == [i \in 1..MaxSize |-> None]
    <2>1. heap = <<a>> /\ \A i \in DOMAIN a : a[i] = None
      BY DEF Init
    <2> HIDE DEF a
    <2>2. QED
      BY <2>1
  <1>4. \A v \in Views : view[v].tmp = None /\ ~view[v].clash
    BY DEF Init, NoView
  <1>5. QED
    BY <1>2, <1>3, <1>4, DebugDataAssumption DEF QuietInv, QuietAt, StampInv

LEMMA LeastOfTwo ==
    ASSUME NEW a \in Int, NEW b \in Int
    PROVE  Least({a, b}) = IF a <= b THEN a ELSE b
  <1> DEFINE m == IF a <= b THEN a ELSE b
  <1>1. m \in {a, b} /\ \A n \in {a, b} : m <= n
    OBVIOUS
  <1>2. \A k \in {a, b} : (\A n \in {a, b} : k <= n) => k = m
    OBVIOUS
  <1>3. QED
    BY <1>1, <1>2 DEF Least

(* A page that no push and no other sort raced with holds the items at its *)
(* positions in the order latest first, whatever else the log has been     *)
(* through, and has the length that the total and the page size allow; only*)
(* a page whose bounds do not fit Go's int can panic.                      *)
THEOREM QuietPageCorrect == Spec => []QuietPageIsExact
  <1>1. DataInv /\ QuietInv => QuietPageIsExact
    <2> SUFFICES ASSUME DataInv, QuietInv, NEW v \in Views,
                        vpc[v] \in {"marshal", "panic"}, ~view[v].raced, ~view[v].clash,
                        Cardinality(view[v].found) = view[v].total, Sound(v)
                 PROVE  LET left == view[v].total - Skipped(v)
                            later(e) == {f \in view[v].found : ts[f] > ts[e]}
                            notEarlier(e) == {f \in view[v].found : ts[f] >= ts[e]}
                        IN  /\ vpc[v] = "marshal"
                            /\ Len(Answer(v)) = IF left <= 0 THEN 0
                                                ELSE Least({left, PageSize(v)})
                            /\ \A i \in DOMAIN Answer(v) :
                                  /\ Answer(v)[i] \in view[v].found
                                  /\ Cardinality(later(Answer(v)[i])) < Skipped(v) + i
                                  /\ Cardinality(notEarlier(Answer(v)[i])) >= Skipped(v) + i
      BY DEF QuietPageIsExact, Sound, Skipped
    <2> DEFINE S == view[v].found
               before == Skipped(v)
               size == PageSize(v)
               sl == view[v].slice
               n == Size(queue)
    <2>1. /\ vpc[v] = "marshal" /\ view[v].total = n /\ S = Range(Items)
          /\ LatestFirst(Items) /\ CutAt(v)
      BY DEF QuietInv, QuietAt
    <2>2. /\ queue \in Slices /\ n \in Nat /\ DOMAIN Items = 1..n
          /\ \A i \in 1..n : Items[i] = heap[queue.arr][queue.lo + i]
          /\ Range(Items) \subseteq Events /\ sl \in Slices
      BY QueueItems DEF DataInv, QuietInv, ViewRecs
    <2>3. before \in Nat /\ size \in Nat
      BY SoundPage DEF QuietInv
    <2>4. Answer(v) = [i \in 1..Size(sl) |-> heap[sl.arr][sl.lo + i]]
          /\ Size(sl) = sl.hi - sl.lo
      BY DEF Answer, At, Size
    <2>5. CASE before >= n
      <3>1. Size(sl) = 0
        BY <2>1, <2>5 DEF CutAt
      <3>2. DOMAIN Answer(v) = {} /\ Len(Answer(v)) = 0
        BY <2>4, <3>1
      <3>3. n - before <= 0
        BY <2>2, <2>3, <2>5
      <3>4. QED
        BY <2>1, <3>2, <3>3
    <2>6. CASE ~(before >= n)
      <3> DEFINE m == IF n - before <= size THEN n - before ELSE size
      <3>1. /\ sl.arr = queue.arr /\ sl.lo = queue.lo + before
            /\ sl.hi = IF queue.lo + before + size > queue.hi THEN queue.hi
                       ELSE queue.lo + before + size
        BY <2>1, <2>6 DEF CutAt
      <3>2. Size(sl) = m /\ m \in Nat /\ before + m <= n
        BY <2>2, <2>3, <2>4, <2>6, <3>1 DEF Size, Slices
      <3>3. Len(Answer(v)) = Least({n - before, size}) /\ ~(n - before <= 0)
        BY <2>2, <2>3, <2>4, <2>6, <3>2, LeastOfTwo
      <3>4. \A i \in 1..m : /\ before + i \in 1..n
                            /\ sl.lo + i = queue.lo + (before + i)
        BY <2>2, <2>3, <3>1, <3>2 DEF Slices
      <3> HIDE DEF m, before, size, n
      <3>5. DOMAIN Answer(v) = 1..m
            /\ \A i \in 1..m : before + i \in 1..n /\ Answer(v)[i] = Items[before + i]
        BY <2>2, <2>4, <3>1, <3>2, <3>4
      <3> DEFINE s == [i \in 1..n |-> Items[i]]
                 time == [f \in S |-> ts[f]]
      <3>6. s \in [1..n -> S] /\ \A f \in S : \E i \in 1..n : s[i] = f
        BY <2>1, <2>2 DEF Range
      <3>7. time \in [S -> Int]
        BY <2>1, <2>2 DEF DataInv, CtlInv
      <3>8. \A i, j \in 1..n : s[i] = s[j] => i = j
        <4>1. s \in Surjection(1..n, S)
          BY <3>6 DEF Surjection
        <4>2. IsFiniteSet(1..n) /\ Cardinality(1..n) = n
          BY <2>2, FS_Interval
        <4>3. IsFiniteSet(S)
          BY <4>1, <4>2, FS_Surjection
        <4>4. s \in Injection(1..n, S)
          BY <2>1, <4>1, <4>2, <4>3, FS_SurjSameCardinalityImpliesInj DEF n
        <4>5. QED
          BY <4>4 DEF Injection, IsInjective
      <3>9. \A i, j \in 1..n : i < j => time[s[i]] >= time[s[j]]
        BY <2>1, <2>2, <3>6 DEF LatestFirst
      <3>10. LatestFirstList(n, S, s, time)
        BY <2>2, <3>6, <3>7, <3>8, <3>9 DEF LatestFirstList
      <3>11. ASSUME NEW i \in 1..m
             PROVE  /\ Answer(v)[i] \in S
                    /\ Cardinality({f \in S : ts[f] > ts[Answer(v)[i]]}) < before + i
                    /\ Cardinality({f \in S : ts[f] >= ts[Answer(v)[i]]}) >= before + i
        <4>1. before + i \in 1..n /\ Answer(v)[i] = s[before + i]
          BY <3>5
        <4>2. Answer(v)[i] \in S
          BY <3>6, <4>1
        <4>3. BelongsAt(S, time, Answer(v)[i], before + i)
          <5> HIDE DEF s, time, S
          <5>1. QED
            BY <3>10, <4>1, Position
        <4>4. /\ {f \in S : time[f] > time[Answer(v)[i]]} = {f \in S : ts[f] > ts[Answer(v)[i]]}
              /\ {f \in S : time[f] >= time[Answer(v)[i]]} = {f \in S : ts[f] >= ts[Answer(v)[i]]}
          BY <4>2
        <4> HIDE DEF time
        <4>5. QED
          BY <4>2, <4>3, <4>4 DEF BelongsAt
      <3>12. QED
        BY <2>1, <3>3, <3>5, <3>11 DEF before, size, n
    <2>7. QED
      BY <2>5, <2>6
  <1>2. QED
    BY <1>1, InitData, DataNext, InitQuiet, QuietNext, PTL DEF Spec
=============================================================================
