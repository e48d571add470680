----------------------------- MODULE PageProofs -----------------------------
(***************************************************************************)
(* Lemmas about pages, for the node data log (DebugDataProofs) and the run *)
(* logs (RunLogsProofs): the arithmetic of GoInt where nothing overflows,  *)
(* and the positions in a list sorted latest first.                        *)
(***************************************************************************)
EXTENDS GoInt, FiniteSetTheorems, TLAPS

(* A result that fits is what Go computes.                                 *)
LEMMA WrapFits ==
    ASSUME NEW n \in Int, NEW bits \in Nat \ {0}, Fits(n, bits)
    PROVE  Wrap(n, bits) = n
  <1>1. Half(bits) \in Int
    BY DEF Half
  <1>2. QED
    BY <1>1 DEF Wrap, Fits, GoInts

LEMMA WrapInt ==
    ASSUME NEW n \in Int, NEW bits \in Nat \ {0}, GoInts(bits) # {}
    PROVE  Wrap(n, bits) \in Int
  <1>1. Half(bits) \in Int
    BY DEF Half
  <1>2. Half(bits) > 0
    BY <1>1 DEF GoInts
  <1>3. QED
    BY <1>1, <1>2 DEF Wrap

LEMMA FitsBelow ==
    ASSUME NEW m \in Nat, NEW n \in Nat, NEW bits \in Nat \ {0}, m <= n, Fits(n, bits)
    PROVE  Fits(m, bits)
  <1>1. Half(bits) \in Int
    BY DEF Half
  <1>2. QED
    BY <1>1 DEF Fits, GoInts

(* The page before page current, of size items, ends where that one begins.*)
LEMMA PageProduct ==
    ASSUME NEW current \in Int, NEW size \in Int
    PROVE  /\ (current - 1) * size \in Int /\ current * size \in Int
           /\ (current - 1) * size + size = current * size
  OBVIOUS

LEMMA PageNat ==
    ASSUME NEW current \in Nat \ {0}, NEW size \in Nat
    PROVE  (current - 1) * size \in Nat /\ current * size \in Nat
  <1>1. current - 1 \in Nat
    OBVIOUS
  <1>2. QED
    BY <1>1

(* s lists the n items of S, each once, the latest first.                  *)
LatestFirstList(n, S, s, time) ==
    /\ n \in Nat /\ s \in [1..n -> S] /\ time \in [S -> Int]
    /\ \A i, j \in 1..n : s[i] = s[j] => i = j
    /\ \A f \in S : \E i \in 1..n : s[i] = f
    /\ \A i, j \in 1..n : i < j => time[s[i]] >= time[s[j]]

(* An item may stand at p: those later than it fit before p, and those no  *)
(* earlier reach to p.                                                     *)
BelongsAt(S, time, e, p) ==
    /\ Cardinality({f \in S : time[f] > time[e]}) < p
    /\ Cardinality({f \in S : time[f] >= time[e]}) >= p

LEMMA Position ==
    ASSUME NEW n, NEW S, NEW s, NEW time, LatestFirstList(n, S, s, time), NEW p \in 1..n
    PROVE  BelongsAt(S, time, s[p], p)
  <1> USE DEF LatestFirstList
  <1> DEFINE later == {f \in S : time[f] > time[s[p]]}
             notEarlier == {f \in S : time[f] >= time[s[p]]}
             head == [i \in 1..p-1 |-> s[i]]
             upto == [i \in 1..p |-> s[i]]
  <1>1. IsFiniteSet(1..n) /\ IsFiniteSet(1..p-1) /\ IsFiniteSet(1..p)
        /\ Cardinality(1..p-1) = p - 1 /\ Cardinality(1..p) = p
    <2>1. \A m \in Nat : IsFiniteSet(1..m) /\ Cardinality(1..m) = m
      BY FS_Interval
    <2>2. n \in Nat /\ p \in Nat /\ p - 1 \in Nat
      OBVIOUS
    <2>3. QED
      BY <2>1, <2>2
  <1>2. IsFiniteSet(S)
    <2>1. s \in Surjection(1..n, S)
      BY DEF Surjection
    <2>2. QED
      BY <1>1, <2>1, FS_Surjection
  <1>3. Cardinality(later) <= p - 1
    <2>1. Range(head) = {s[i] : i \in 1..p-1}
      BY DEF Range
    <2>2. later \subseteq Range(head)
      <3>1. SUFFICES ASSUME NEW f \in later PROVE f \in Range(head)
        OBVIOUS
      <3>2. PICK i \in 1..n : s[i] = f
        OBVIOUS
      <3>3. time[s[i]] > time[s[p]]
        BY <3>2
      <3>4. i < p
        <4>1. time[s[i]] \in Int /\ time[s[p]] \in Int /\ p \in 1..n
          OBVIOUS
        <4>2. ~(p < i) /\ p # i
          BY <3>3, <4>1
        <4>3. QED
          BY <4>2
      <3>5. QED
        BY <2>1, <3>2, <3>4
    <2>3. head \in Surjection(1..p-1, Range(head))
      BY DEF Surjection, Range
    <2>4. IsFiniteSet(Range(head)) /\ Cardinality(Range(head)) <= p - 1
      BY <1>1, <2>3, FS_Surjection
    <2>5. Cardinality(Range(head)) \in Nat /\ Cardinality(later) \in Nat
          /\ Cardinality(later) <= Cardinality(Range(head))
      BY <2>2, <2>4, FS_Subset, FS_CardinalityType
    <2>6. QED
      BY <2>4, <2>5
  <1>4. Cardinality(notEarlier) >= p
    <2>1. upto \in [1..p -> notEarlier]
      <3>1. SUFFICES ASSUME NEW i \in 1..p PROVE s[i] \in notEarlier
        OBVIOUS
      <3>2. i = p \/ i < p
        OBVIOUS
      <3>3. time[s[i]] \in Int /\ time[s[p]] \in Int /\ s[i] \in S
        OBVIOUS
      <3>4. QED
        BY <3>2, <3>3
    <2>2. upto \in Injection(1..p, notEarlier)
      BY <2>1 DEF Injection, IsInjective
    <2>3. IsFiniteSet(notEarlier) /\ Cardinality(notEarlier) \in Nat
      BY <1>2, FS_Subset, FS_CardinalityType
    <2>4. Cardinality(1..p) <= Cardinality(notEarlier)
      BY <2>2, <2>3, FS_Injection
    <2>5. QED
      BY <1>1, <2>3, <2>4
  <1>5. Cardinality(later) \in Nat
    BY <1>2, FS_Subset, FS_CardinalityType
  <1>6. QED
    BY <1>3, <1>4, <1>5 DEF BelongsAt
=============================================================================
