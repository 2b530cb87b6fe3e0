---------------------------- MODULE HashMapProofs ----------------------------
(***************************************************************************)
(* Proofs about HashMap for every set of words, every hash function and    *)
(* every capacity.  TypeOK and SizesOK, which counts the nodes, hold       *)
(* whatever malloc does, and so does SumBounded, which bounds the values.  *)
(* Where each key lies (HMInv: types, Findable and RehashCopies) and the   *)
(* exact sum of the values (SumExact) hold while the retries of an insert  *)
(* leave out no attempt (FreshAttempts), which is so if malloc does not    *)
(* fail.  The argument rests on three facts about one map: a probe stays   *)
(* inside it (SlotInRange), a key put where its probe stopped keeps every  *)
(* key reachable (PutKeepsReached), and reachable keys are stored once     *)
(* (ReachedOnce).                                                          *)
(***************************************************************************)
EXTENDS HashMap, SumTheorems, SequenceTheorems, TLAPS

----------------------------------------------------------------------------
(* One map.                                                                *)

\* A probe meets a node of the map, and never its last one: hash_map_insert
\* passes capacity - 1 as the number of nodes (hash_map.h:132).
LEMMA SlotInRange ==
  ASSUME NEW k \in Key, NEW cap \in Nat, cap >= 3, NEW a \in Nat
  PROVE  Slot(k, cap, a) \in Slots(cap)
<1> DEFINE h == Hash[k]
<1>1. h \in Nat
  BY HashAssumption
<1>2. cap - 1 \in Nat /\ cap - 1 > 0 /\ cap - 2 \in Nat /\ cap - 2 > 0
  OBVIOUS
<1>3. h % (cap - 1) \in Nat /\ h % (cap - 2) \in Nat
  BY <1>1, <1>2
<1> DEFINE p == h % (cap - 1)
           q == (h % (cap - 2)) + 1
<1>4. p + a * q \in Nat
  <2>1. q \in Nat
    BY <1>3
  <2>2. a * q \in Nat
    <3> HIDE DEF q
    <3> QED BY <2>1
  <2> HIDE DEF p, q
  <2>3. p \in Nat
    BY <1>3 DEF p
  <2> QED BY <2>2, <2>3
<1>5. (p + a * q) % (cap - 1) \in 0..cap - 2
  <2> DEFINE x == p + a * q
  <2>1. x \in Nat
    BY <1>4
  <2>2. x % (cap - 1) \in 0..cap - 2
    <3> HIDE DEF x
    <3> QED BY <2>1, <1>2
  <2> QED BY <2>2
<1>6. Slot(k, cap, a) = (p + a * q) % (cap - 1)
  BY <1>2 DEF Slot
<1> QED BY <1>5, <1>6, <1>2 DEF Slots

\* An empty map is well-formed, and holds no key that could be missed.
LEMMA EmptyMapOK ==
  ASSUME NEW cap \in Nat, cap >= 3
  PROVE  MapOK(EmptyMap(cap)) /\ Reached(EmptyMap(cap)) /\ Used(EmptyMap(cap)) = {}
  BY DEF MapOK, EmptyMap, Reached, Used, Slots

\* The map after Put, field by field.
LEMMA PutFields ==
  ASSUME NEW mp, MapOK(mp), NEW s \in Slots(mp.cap), NEW k \in Key, NEW v \in Nat
  PROVE  /\ Put(mp, s, k, v).cap = mp.cap
         /\ Put(mp, s, k, v).size = IF mp.key[s] = NoKey THEN mp.size + 1 ELSE mp.size
         /\ Put(mp, s, k, v).key = [mp.key EXCEPT ![s] = k]
         /\ Put(mp, s, k, v).val = [mp.val EXCEPT ![s] = v]
         /\ MapOK(Put(mp, s, k, v))
  BY DEF Put, MapOK

\* A slot a probe of k stopped at, given to k, hides no other key: it was
\* free or k's own already, so no probe of another key ended there.
LEMMA PutKeepsReached ==
  ASSUME NEW mp, MapOK(mp), Reached(mp), NEW k \in Key, NEW v \in Nat,
         NEW a \in 0..mp.cap, Stops(mp, k, a)
  PROVE  /\ MapOK(Put(mp, Slot(k, mp.cap, a), k, v))
         /\ Reached(Put(mp, Slot(k, mp.cap, a), k, v))
         /\ Used(Put(mp, Slot(k, mp.cap, a), k, v)) = Used(mp) \cup {Slot(k, mp.cap, a)}
<1> DEFINE s == Slot(k, mp.cap, a)
           n == Put(mp, s, k, v)
<1>1. s \in Slots(mp.cap)
  BY SlotInRange DEF MapOK
<1>2. /\ n.cap = mp.cap
      /\ n.key = [mp.key EXCEPT ![s] = k]
      /\ MapOK(n)
  <2> HIDE DEF s
  <2>1. MapOK(mp) /\ s \in Slots(mp.cap)
    BY <1>1
  <2>2. n.cap = mp.cap /\ n.key = [mp.key EXCEPT ![s] = k]
    BY DEF Put
  <2>3. MapOK(n)
    BY <2>1, PutFields, Zenon
  <2> QED BY <2>2, <2>3
<1>3. mp.key[s] \in {NoKey, k} /\ \A b \in 0..a - 1 : Passes(mp, k, b)
  BY DEF Stops, StopsFrom, Passes
<1>4. \A t \in Slots(mp.cap) : n.key[t] = IF t = s THEN k ELSE mp.key[t]
  <2> HIDE DEF s, n
  <2> QED BY <1>2 DEF MapOK
<1>5. Used(n) = Used(mp) \cup {s}
  <2> HIDE DEF s, n
  <2> QED BY <1>1, <1>2, <1>4, NoKeyAssumption DEF Used
<1>6. ASSUME NEW j \in Key, NEW b \in Nat, Passes(mp, j, b), j # k
      PROVE  Passes(n, j, b)
  <2>1. Slot(j, mp.cap, b) \in Slots(mp.cap)
    BY SlotInRange DEF MapOK
  <2> HIDE DEF s, n
  <2> QED BY <1>6, <2>1, <1>2, <1>4, NoKeyAssumption DEF Passes
<1>7. ASSUME NEW b \in 0..a - 1
      PROVE  Passes(n, k, b)
  <2>1. Passes(mp, k, b) /\ b \in Nat
    BY <1>3
  <2>2. Slot(k, mp.cap, b) \in Slots(mp.cap)
    BY <2>1, SlotInRange DEF MapOK
  <2>3. Slot(k, mp.cap, b) # s
    BY <2>1, <1>3 DEF Passes
  <2> HIDE DEF s, n
  <2> QED BY <2>1, <2>2, <2>3, <1>2, <1>4 DEF Passes
<1>8. ASSUME NEW t \in Used(n)
      PROVE  \E b \in 0..n.cap : /\ Slot(n.key[t], n.cap, b) = t
                                 /\ \A c \in 0..b - 1 : Passes(n, n.key[t], c)
  <2>1. CASE t = s
    <3>1. n.key[t] = k
      BY <2>1, <1>1, <1>4
    <3> QED BY <3>1, <2>1, <1>2, <1>7
  <2>2. CASE t # s
    <3>1. t \in Used(mp) /\ n.key[t] = mp.key[t]
      BY <2>2, <1>2, <1>4, <1>5 DEF Used
    <3>2. PICK b \in 0..mp.cap : /\ Slot(mp.key[t], mp.cap, b) = t
                                 /\ \A c \in 0..b - 1 : Passes(mp, mp.key[t], c)
      BY <3>1 DEF Reached
    <3>3. mp.key[t] \in Key
      BY <3>1 DEF Used, MapOK
    <3>4. ASSUME NEW c \in 0..b - 1
          PROVE  Passes(n, mp.key[t], c)
      <4>1. CASE mp.key[t] # k
        BY <3>2, <3>3, <4>1, <1>6
      <4>2. CASE mp.key[t] = k
        <5>1. b <= a
          <6>1. SUFFICES ASSUME a < b PROVE FALSE
            BY <3>2
          <6>2. Passes(mp, k, a)
            BY <6>1, <3>2, <4>2
          <6> QED BY <6>2 DEF Stops, StopsFrom
        <5> QED BY <5>1, <4>2, <3>2, <1>7
      <4> QED BY <4>1, <4>2
    <3> QED BY <3>1, <3>2, <3>4, <1>2
  <2> QED BY <2>1, <2>2
<1>9. Reached(n)
  <2> HIDE DEF n
  <2> QED BY <1>8 DEF Reached
<1> QED BY <1>2, <1>5, <1>9

\* A reachable key is stored once: the probes of two copies would have to
\* stop at both.
LEMMA ReachedOnce ==
  ASSUME NEW mp, MapOK(mp), Reached(mp), NEW s \in Used(mp), NEW t \in Used(mp),
         mp.key[s] = mp.key[t]
  PROVE  s = t
<1> DEFINE k == mp.key[s]
<1>1. PICK a \in 0..mp.cap : /\ Slot(k, mp.cap, a) = s
                             /\ \A c \in 0..a - 1 : Passes(mp, k, c)
  BY DEF Reached
<1>2. PICK b \in 0..mp.cap : /\ Slot(k, mp.cap, b) = t
                             /\ \A c \in 0..b - 1 : Passes(mp, k, c)
  BY DEF Reached
<1>3. ~Passes(mp, k, a) /\ ~Passes(mp, k, b)
  BY <1>1, <1>2 DEF Passes
<1>4. a = b
  BY <1>1, <1>2, <1>3
<1> QED BY <1>1, <1>2, <1>4

----------------------------------------------------------------------------
(* Types.                                                                  *)

LEMMA TypeInit == Init => TypeOK
<1> SUFFICES ASSUME Init PROVE TypeOK
  OBVIOUS
<1>1. MapOK(EmptyMap(InitCapacity)) /\ EmptyMap(InitCapacity).cap = InitCapacity
  BY EmptyMapOK, CapacityAssumption DEF EmptyMap
<1>2. <<>> \in Seq(Nat)
  BY EmptySeq
<1> QED BY <1>1, <1>2, CapacityAssumption DEF Init, TypeOK

\* The calls that wait keep an attempt to go on at.
LEMMA ReturnNullType ==
  ASSUME TypeOK, ReturnNull
  PROVE  attempt' \in Nat /\ outer' \in Seq(Nat) /\ lost' \in Nat
<1>1. CASE outer = <<>> /\ lost' = lost + 1 /\ Back
  BY <1>1, EmptySeq DEF Back, TypeOK
<1>2. CASE outer # <<>> /\ attempt' = Head(outer) /\ outer' = Tail(outer) /\ lost' = lost
  <2>1. outer \in Seq(Nat) /\ outer # <<>>
    BY <1>2 DEF TypeOK
  <2>2. Head(outer) \in Nat /\ Tail(outer) \in Seq(Nat)
    BY <2>1, HeadTailProperties
  <2> QED BY <1>2, <2>2 DEF TypeOK
<1> QED BY <1>1, <1>2 DEF ReturnNull

LEMMA TypeInsert ==
  ASSUME TypeOK, Insert
  PROVE  TypeOK'
<1> USE DEF TypeOK
<1>1. PICK a \in attempt..m.cap : \/ InsertExisting(a) \/ InsertFree(a)
                                  \/ InsertNoMemory(a) \/ InsertGrow(a)
                                  \/ GrowNoMemory(a)
  BY DEF Insert
<1> DEFINE s == Slot(arg, m.cap, a)
<1>2. pc = "insert" /\ arg \in Key /\ a \in Nat /\ s \in Slots(m.cap)
  <2>1. a \in Nat
    BY DEF MapOK
  <2> QED BY <2>1, SlotInRange DEF MapOK, Insert
<1>3. CASE InsertExisting(a)
  <2>1. m' = [m EXCEPT !.val = [m.val EXCEPT ![s] = m.val[s] + 1]]
    BY <1>3 DEF InsertExisting
  <2> HIDE DEF s
  <2>2. [m.val EXCEPT ![s] = m.val[s] + 1] \in [Slots(m.cap) -> Nat]
    BY <1>2 DEF MapOK
  <2>3. MapOK(m') /\ m'.cap = m.cap
    BY <2>1, <2>2 DEF MapOK
  <2>4. <<>> \in Seq(Nat)
    BY EmptySeq
  <2> QED BY <1>3, <2>3, <2>4 DEF InsertExisting, Back
<1>4. CASE InsertFree(a)
  <2>1. MapOK(Put(m, s, arg, 1)) /\ Put(m, s, arg, 1).cap = m.cap
    <3>1. MapOK(m) /\ s \in Slots(m.cap) /\ arg \in Key /\ 1 \in Nat
      BY <1>2
    <3> HIDE DEF s, TypeOK
    <3>2. MapOK(Put(m, s, arg, 1))
      BY <3>1, PutFields, Zenon
    <3>3. Put(m, s, arg, 1).cap = m.cap
      BY DEF Put
    <3> QED BY <3>2, <3>3
  <2>2. m' = Put(m, s, arg, 1)
    BY <1>4 DEF InsertFree
  <2>3. <<>> \in Seq(Nat)
    BY EmptySeq
  <2> HIDE DEF s
  <2> QED BY <1>4, <2>1, <2>2, <2>3 DEF InsertFree, Back
<1>5. CASE InsertNoMemory(a)
  BY <1>2, <1>5, ReturnNullType DEF InsertNoMemory, ReturnNull, Back
<1>6. CASE InsertGrow(a)
  <2>1. 2 * m.cap \in Nat /\ 2 * m.cap >= 3 /\ 0 \in 0..m.cap
    BY DEF MapOK
  <2>2. MapOK(new_map')
    BY <1>6, <2>1, EmptyMapOK DEF InsertGrow
  <2>3. <<a>> \in Seq(Nat)
    BY <1>2
  <2>4. <<a>> \o outer \in Seq(Nat)
    BY <2>3, ConcatProperties
  <2> QED BY <1>2, <1>6, <2>1, <2>2, <2>4 DEF InsertGrow
<1>7. CASE GrowNoMemory(a)
  BY <1>7 DEF GrowNoMemory
<1> QED BY <1>1, <1>3, <1>4, <1>5, <1>6, <1>7

LEMMA TypeRehash ==
  ASSUME TypeOK, RehashSkip \/ RehashCopy \/ RehashAbort \/ RehashDone
  PROVE  TypeOK'
<1> USE DEF TypeOK
<1>1. CASE RehashSkip
  <2>1. i + 1 \in 0..m.cap
    BY <1>1 DEF RehashSkip, MapOK
  <2> QED BY <1>1, <2>1 DEF RehashSkip
<1>2. CASE RehashCopy
  <2>0. i \in Slots(m.cap) /\ i + 1 \in 0..m.cap /\ m.key[i] # NoKey
    <3>1. i < m.cap /\ m.key[i] # NoKey
      BY <1>2 DEF RehashCopy
    <3> QED BY <3>1 DEF MapOK, Slots
  <2>1. i + 1 \in 0..m.cap /\ m.key[i] \in Key /\ m.val[i] \in Nat
    BY <2>0 DEF MapOK
  <2>2. PICK a \in 0..new_map.cap :
           new_map' = Put(new_map, Slot(m.key[i], new_map.cap, a), m.key[i], m.val[i])
    BY <1>2 DEF RehashCopy
  <2>3. Slot(m.key[i], new_map.cap, a) \in Slots(new_map.cap)
    BY <2>1, SlotInRange DEF MapOK
  <2>4. MapOK(new_map')
    BY <2>1, <2>2, <2>3, PutFields
  <2> QED BY <1>2, <2>1, <2>4 DEF RehashCopy
<1>3. CASE RehashAbort
  BY <1>3 DEF RehashAbort
<1>4. CASE RehashDone
  <2>1. MapOK(EmptyMap(InitCapacity))
    BY EmptyMapOK, CapacityAssumption
  <2>2. 0 \in 0..new_map.cap
    BY DEF MapOK
  <2> QED BY <1>4, <2>1, <2>2 DEF RehashDone
<1> QED BY <1>1, <1>2, <1>3, <1>4

\* The map's nodes, counters and control stay in their types: in particular
\* no probe of hash_map_insert writes outside the array of nodes.
THEOREM TypeCorrect == Spec => []TypeOK
<1>1. TypeOK /\ [Next]_vars => TypeOK'
  <2> SUFFICES ASSUME TypeOK, [Next]_vars PROVE TypeOK'
    OBVIOUS
  <2> USE DEF TypeOK
  <2>1. <<>> \in Seq(Nat)
    BY EmptySeq
  <2>2. ASSUME NEW k \in Key, TakeWord(k) \/ Look(k) PROVE TypeOK'
    BY <2>2 DEF TakeWord, Look
  <2>3. CASE InsertExhausted
    BY <2>3, ReturnNullType DEF InsertExhausted, ReturnNull, Back
  <2>4. CASE GetMiss
    <3>1. (attempt + 1) % (m.cap - 1) \in Nat
      BY DEF MapOK
    <3> QED BY <2>4, <3>1 DEF GetMiss
  <2>5. CASE GetReturn
    BY <2>1, <2>5 DEF GetReturn, Back
  <2>6. CASE UNCHANGED vars
    BY <2>6 DEF vars
  <2> QED BY <2>2, <2>3, <2>4, <2>5, <2>6, TypeInsert, TypeRehash DEF Next, Running
<1> QED BY <1>1, TypeInit, PTL DEF Spec

----------------------------------------------------------------------------
(* The sizes.  The counter of a map is the number of its used nodes, which *)
(* the load factor bounds; while a map grows, the larger one has at most   *)
(* as many used nodes as have been visited.                                *)

Visited == {s \in Used(m) : s < i}

SizesOK ==
  /\ m.size = Cardinality(Used(m)) /\ m.size <= Threshold(m.cap)
  /\ pc = "rehash" => /\ new_map.cap = 2 * m.cap
                      /\ new_map.size = Cardinality(Used(new_map))
                      /\ new_map.size <= Cardinality(Visited)

LEMMA UsedFinite ==
  ASSUME NEW mp, MapOK(mp)
  PROVE  IsFiniteSet(Slots(mp.cap)) /\ IsFiniteSet(Used(mp)) /\ Cardinality(Used(mp)) \in Nat
<1>1. IsFiniteSet(Slots(mp.cap))
  <2>1. 0 \in Int /\ mp.cap - 1 \in Int
    BY DEF MapOK
  <2> QED BY <2>1, FS_Interval DEF Slots
<1>2. Used(mp) \in SUBSET Slots(mp.cap)
  BY DEF Used
<1>3. IsFiniteSet(Used(mp))
  BY <1>1, <1>2, FS_Subset
<1> QED BY <1>1, <1>3, FS_CardinalityType

LEMMA ThresholdGrows ==
  ASSUME NEW cap \in Nat
  PROVE  Threshold(cap) \in Nat /\ Threshold(cap) <= Threshold(2 * cap)
BY DEF Threshold

\* A key put in a free node makes the map larger by one, put over a used one it
\* leaves the map as large as it was.
LEMMA PutSize ==
  ASSUME NEW mp, MapOK(mp), NEW s \in Slots(mp.cap), NEW k \in Key, NEW v \in Nat,
         mp.size = Cardinality(Used(mp))
  PROVE  /\ Put(mp, s, k, v).size = Cardinality(Used(Put(mp, s, k, v)))
         /\ Put(mp, s, k, v).size = IF mp.key[s] = NoKey THEN mp.size + 1 ELSE mp.size
<1> DEFINE n == Put(mp, s, k, v)
<1>1. /\ n.cap = mp.cap /\ n.key = [mp.key EXCEPT ![s] = k]
      /\ n.size = IF mp.key[s] = NoKey THEN mp.size + 1 ELSE mp.size
  BY DEF Put
<1>2. IsFiniteSet(Used(mp)) /\ Cardinality(Used(mp)) \in Nat
  BY UsedFinite
<1> HIDE DEF n
<1>3. Used(n) = Used(mp) \cup {s}
  BY <1>1, NoKeyAssumption DEF Used, MapOK
<1>4. CASE mp.key[s] = NoKey
  <2>1. s \notin Used(mp)
    BY <1>4 DEF Used
  <2>2. Cardinality(Used(mp) \cup {s}) = Cardinality(Used(mp)) + 1
    BY <1>2, <2>1, FS_AddElement
  <2> QED BY <1>1, <1>3, <1>4, <2>2 DEF n
<1>5. CASE mp.key[s] # NoKey
  <2>1. Used(n) = Used(mp)
    BY <1>3, <1>5 DEF Used
  <2> QED BY <1>1, <1>5, <2>1 DEF n
<1> QED BY <1>4, <1>5

LEMMA SizesInit == Init => SizesOK
<1> SUFFICES ASSUME Init PROVE SizesOK
  OBVIOUS
<1>1. m.size = 0 /\ m.cap = InitCapacity /\ Used(m) = {} /\ pc = "idle"
  BY EmptyMapOK, CapacityAssumption DEF Init, EmptyMap
<1>2. Cardinality({}) = 0
  BY FS_EmptySet
<1>3. Threshold(InitCapacity) \in Nat
  BY ThresholdGrows, CapacityAssumption
<1> QED BY <1>1, <1>2, <1>3 DEF SizesOK

LEMMA SizesInsert ==
  ASSUME TypeOK, SizesOK, Insert
  PROVE  SizesOK'
<1> USE DEF TypeOK
<1>0. pc = "insert" /\ arg \in Key
  BY DEF Insert
<1>1. PICK a \in attempt..m.cap : \/ InsertExisting(a) \/ InsertFree(a)
                                  \/ InsertNoMemory(a) \/ InsertGrow(a)
                                  \/ GrowNoMemory(a)
  BY DEF Insert
<1>2. CASE InsertExisting(a)
  <2>1. m' = [m EXCEPT !.val[Slot(arg, m.cap, a)] = @ + 1] /\ pc' = "idle"
    BY <1>2 DEF InsertExisting, Back
  <2>2. m'.cap = m.cap /\ m'.key = m.key /\ m'.size = m.size
    BY <2>1 DEF MapOK
  <2>3. Used(m)' = Used(m)
    BY <2>2 DEF Used
  <2> QED BY <2>1, <2>2, <2>3 DEF SizesOK
<1>3. CASE InsertFree(a)
  <2> DEFINE s == Slot(arg, m.cap, a)
  <2>1. /\ m' = Put(m, s, arg, 1) /\ pc' = "idle"
        /\ m.size < Threshold(m.cap) /\ m.key[s] = NoKey
    BY <1>3 DEF InsertFree, Back
  <2>2. s \in Slots(m.cap) /\ 1 \in Nat
    BY <1>0, SlotInRange DEF MapOK
  <2>3. m.size = Cardinality(Used(m))
    BY DEF SizesOK
  <2>4. m'.cap = m.cap /\ m'.size = m.size + 1 /\ m'.size = Cardinality(Used(m'))
    <3> HIDE DEF s
    <3>1. m'.cap = m.cap
      BY <2>1 DEF Put
    <3> QED BY <1>0, <2>1, <2>2, <2>3, <3>1, PutSize
  <2>5. m.size \in Nat /\ Threshold(m.cap) \in Nat
    BY ThresholdGrows DEF MapOK
  <2>6. Used(m)' = Used(m')
    BY DEF Used
  <2> QED BY <2>1, <2>4, <2>5, <2>6 DEF SizesOK
<1>4. CASE InsertGrow(a)
  <2>1. m' = m /\ new_map' = EmptyMap(2 * m.cap) /\ i' = 0 /\ pc' = "rehash"
    BY <1>4 DEF InsertGrow
  <2>2. 2 * m.cap \in Nat /\ 2 * m.cap >= 3
    BY DEF MapOK
  <2>3. Used(new_map)' = {}
    BY <2>1, <2>2, EmptyMapOK DEF Used
  <2>4. new_map'.cap = 2 * m.cap /\ new_map'.size = 0
    BY <2>1 DEF EmptyMap
  <2>5. Visited' = {} /\ Used(m)' = Used(m)
    BY <2>1 DEF Visited, Used, Slots, MapOK
  <2>6. Cardinality({}) = 0
    BY FS_EmptySet
  <2>7. new_map'.size = Cardinality(Used(new_map)')
    BY <2>3, <2>4, <2>6
  <2>8. new_map'.size <= Cardinality(Visited')
    BY <2>4, <2>5, <2>6
  <2>9. m'.size = Cardinality(Used(m)') /\ m'.size <= Threshold(m'.cap) /\ new_map'.cap = 2 * m'.cap
    BY <2>1, <2>4, <2>5 DEF SizesOK
  <2> QED BY <2>7, <2>8, <2>9 DEF SizesOK
<1>5. CASE InsertNoMemory(a) \/ GrowNoMemory(a)
  <2>1. m' = m /\ pc' # "rehash"
    BY <1>0, <1>5 DEF InsertNoMemory, GrowNoMemory, ReturnNull, Back
  <2> QED BY <2>1 DEF SizesOK, Used
<1> QED BY <1>1, <1>2, <1>3, <1>4, <1>5

LEMMA VisitedFinite ==
  ASSUME TypeOK
  PROVE  IsFiniteSet(Visited) /\ Cardinality(Visited) \in Nat
<1>1. Visited \in SUBSET Used(m) /\ IsFiniteSet(Used(m))
  BY UsedFinite DEF Visited, TypeOK
<1>2. IsFiniteSet(Visited)
  BY <1>1, FS_Subset
<1> QED BY <1>2, FS_CardinalityType

\* What a step of the copying loop copies, and where to.
LEMMA CopyPlace ==
  ASSUME TypeOK, RehashCopy, NEW a \in 0..new_map.cap
  PROVE  /\ i \in Used(m) /\ i \in Slots(m.cap) /\ m.key[i] \in Key /\ m.val[i] \in Nat
         /\ Slot(m.key[i], new_map.cap, a) \in Slots(new_map.cap)
<1>1. i \in Slots(m.cap) /\ m.key[i] # NoKey
  BY DEF TypeOK, MapOK, RehashCopy, Slots
<1>2. m.key[i] \in Key /\ m.val[i] \in Nat
  BY <1>1 DEF TypeOK, MapOK
<1>3. Slot(m.key[i], new_map.cap, a) \in Slots(new_map.cap)
  BY <1>2, SlotInRange DEF TypeOK, MapOK
<1> QED BY <1>1, <1>2, <1>3 DEF Used

\* A key that is copied takes at most one more node of the larger map.
LEMMA SizesCopy ==
  ASSUME TypeOK, SizesOK, RehashCopy
  PROVE  SizesOK'
<1> USE DEF TypeOK
<1> DEFINE k == m.key[i]
           v == m.val[i]
<1>1. PICK a \in 0..new_map.cap : new_map' = Put(new_map, Slot(k, new_map.cap, a), k, v)
  BY DEF RehashCopy
<1> DEFINE s == Slot(k, new_map.cap, a)
<1>2. i \in Used(m) /\ k \in Key /\ v \in Nat /\ s \in Slots(new_map.cap)
  BY CopyPlace
<1>3. /\ new_map'.cap = new_map.cap /\ new_map'.size <= new_map.size + 1
      /\ new_map'.size \in Nat /\ new_map'.size = Cardinality(Used(new_map'))
  <2>1. new_map.size = Cardinality(Used(new_map)) /\ new_map.size \in Nat
    BY DEF SizesOK, RehashCopy, MapOK
  <2> HIDE DEF k, v, s
  <2>2. new_map' = Put(new_map, s, k, v)
    BY <1>1 DEF s
  <2>3. new_map'.cap = new_map.cap
    BY <2>2 DEF Put
  <2>4. /\ new_map'.size = Cardinality(Used(new_map'))
        /\ new_map'.size = IF new_map.key[s] = NoKey THEN new_map.size + 1 ELSE new_map.size
    BY <1>2, <2>1, <2>2, PutSize
  <2> QED BY <2>1, <2>3, <2>4
<1>5. Visited' = Visited \cup {i} /\ i \notin Visited
  <2>1. m' = m /\ i' = i + 1 /\ i \in Nat
    BY DEF RehashCopy, MapOK
  <2>2. \A t \in Used(m) : t \in Nat
    BY DEF Used, Slots
  <2>3. \A t \in Used(m) : t < i + 1 <=> t < i \/ t = i
    BY <2>1, <2>2
  <2>4. Visited' = {t \in Used(m) : t < i + 1}
    BY <2>1 DEF Visited, Used
  <2>5. ~(i < i)
    BY <2>1
  <2> QED BY <1>2, <2>3, <2>4, <2>5 DEF Visited
<1>6. Cardinality(Visited') = Cardinality(Visited) + 1 /\ Cardinality(Visited) \in Nat
  BY <1>5, VisitedFinite, FS_AddElement
<1>7. /\ m' = m /\ pc' = "rehash" /\ Used(m)' = Used(m) /\ pc = "rehash"
      /\ Used(new_map)' = Used(new_map')
  BY DEF RehashCopy, Used
<1>8. new_map.size <= Cardinality(Visited) /\ new_map.size \in Nat
  BY <1>7 DEF SizesOK, MapOK
<1>9. new_map'.size <= Cardinality(Visited')
  BY <1>3, <1>6, <1>8
<1> QED BY <1>3, <1>7, <1>9 DEF SizesOK

LEMMA SizesOther ==
  ASSUME TypeOK, SizesOK,
         \/ \E k \in Key : TakeWord(k) \/ Look(k)
         \/ InsertExhausted \/ RehashSkip \/ RehashAbort \/ RehashDone
         \/ GetMiss \/ GetReturn \/ UNCHANGED vars
  PROVE  SizesOK'
<1> USE DEF TypeOK
<1>1. CASE RehashSkip
  <2>1. /\ i' = i + 1 /\ i \in Nat /\ m' = m /\ new_map' = new_map /\ pc' = pc
        /\ i \notin Used(m)
    BY <1>1 DEF RehashSkip, MapOK, Used
  <2>2. \A s \in Used(m) : s < i + 1 <=> s < i
    BY <2>1 DEF Used, Slots
  <2>3. Visited' = Visited
    BY <2>1, <2>2 DEF Visited, Used
  <2> QED BY <2>1, <2>3 DEF SizesOK, Used
<1>2. CASE RehashDone
  <2>1. m' = new_map /\ pc' = "insert" /\ i = m.cap /\ pc = "rehash"
    BY <1>2 DEF RehashDone
  <2>2. Visited = Used(m)
    BY <2>1 DEF Visited, Used, Slots, MapOK
  <2>3. /\ m'.cap = 2 * m.cap /\ m'.size <= Cardinality(Used(m)) /\ m'.size = Cardinality(Used(m)')
    BY <2>1, <2>2 DEF SizesOK, Used
  <2>4. /\ Cardinality(Used(m)) <= Threshold(m.cap) /\ Cardinality(Used(m)) \in Nat
        /\ m'.size \in Nat /\ m.cap \in Nat
    BY <2>1, <2>3 DEF SizesOK, MapOK
  <2>5. m'.size <= Threshold(m'.cap)
    <3>1. /\ Threshold(m.cap) \in Nat /\ Threshold(2 * m.cap) \in Nat
          /\ Threshold(m.cap) <= Threshold(2 * m.cap)
      <4>1. m.cap \in Nat /\ 2 * m.cap \in Nat
        BY <2>4
      <4> QED BY <4>1, ThresholdGrows
    <3> QED BY <2>3, <2>4, <3>1
  <2> QED BY <2>1, <2>3, <2>5 DEF SizesOK
<1>3. CASE RehashAbort
  BY <1>3 DEF RehashAbort, SizesOK, Used
<1>4. CASE \/ \E k \in Key : TakeWord(k) \/ Look(k)
           \/ InsertExhausted \/ GetMiss \/ GetReturn \/ UNCHANGED vars
  <2>1. /\ m' = m
        /\ pc' = "rehash" => pc = "rehash" /\ new_map' = new_map /\ i' = i
    BY <1>4 DEF TakeWord, Look, InsertExhausted, ReturnNull, GetMiss, GetReturn, Back, vars
  <2> QED BY <2>1 DEF SizesOK, Used, Visited
<1> QED BY <1>1, <1>2, <1>3, <1>4

LEMMA SizesInv == Spec => [](TypeOK /\ SizesOK)
<1>1. TypeOK /\ SizesOK /\ [Next]_vars => SizesOK'
  BY SizesInsert, SizesCopy, SizesOther DEF Next, Running
<1> QED BY <1>1, SizesInit, TypeCorrect, PTL DEF Spec

\* The larger map always has room for the next key of hash_map_rehash below its
\* own load factor: growing a map never makes it grow again, whatever the
\* capacity it was created with and whether or not malloc fails.
THEOREM RehashFitsCorrect == Spec => []RehashFits
<1>1. TypeOK /\ SizesOK => RehashFits
  <2> SUFFICES ASSUME TypeOK, SizesOK, pc = "rehash", i < m.cap, m.key[i] # NoKey
               PROVE  new_map.size < Threshold(new_map.cap)
    BY DEF RehashFits
  <2> USE DEF TypeOK
  <2>1. i \in Used(m) /\ i \notin Visited /\ Visited \subseteq Used(m)
    BY DEF Used, Slots, Visited, MapOK
  <2>2. IsFiniteSet(Used(m)) /\ Cardinality(Used(m)) \in Nat
    BY UsedFinite
  <2>3. Cardinality(Visited) <= Cardinality(Used(m)) /\ Cardinality(Visited) # Cardinality(Used(m))
    BY <2>1, <2>2, FS_Subset
  <2>4. Cardinality(Visited) \in Nat
    BY VisitedFinite
  <2>5. Cardinality(Visited) < Cardinality(Used(m))
    BY <2>2, <2>3, <2>4
  <2>6. m.cap \in Nat /\ new_map.size \in Nat
    BY DEF MapOK
  <2>7. /\ Threshold(m.cap) <= Threshold(2 * m.cap)
        /\ Threshold(m.cap) \in Nat /\ Threshold(2 * m.cap) \in Nat
    <3>1. m.cap \in Nat /\ 2 * m.cap \in Nat
      BY <2>6
    <3> QED BY <3>1, ThresholdGrows
  <2> QED BY <2>2, <2>4, <2>5, <2>6, <2>7 DEF SizesOK
<1> QED BY <1>1, SizesInv, PTL

----------------------------------------------------------------------------
(* The attempts.  A call that returns NULL for want of a free node has met *)
(* other keys at every attempt, so the retry of its caller does as well.   *)

\* The calls that wait have stopped at an attempt the map still has.
OuterOK == \A j \in 1..Len(outer) : outer[j] <= m.cap

\* An insert that goes on where nothing was left out stops where a fresh one would.
LEMMA FreshStops ==
  ASSUME TypeOK, pc = "insert", FreshAttempts
  PROVE  /\ \A a \in attempt..m.cap : StopsFrom(m, arg, attempt, a)
                                        => a \in 0..m.cap /\ Stops(m, arg, a)
         /\ ExhaustedFrom(m, arg, attempt) => Exhausted(m, arg)
<1>1. attempt \in Nat /\ m.cap \in Nat
  BY DEF TypeOK, MapOK
<1>2. \A b \in 0..attempt - 1 : Passes(m, arg, b)
  BY DEF FreshAttempts
<1>3. ASSUME NEW a \in attempt..m.cap, StopsFrom(m, arg, attempt, a)
      PROVE  a \in 0..m.cap /\ Stops(m, arg, a)
  <2>1. \A b \in attempt..a - 1 : Passes(m, arg, b)
    BY <1>3 DEF StopsFrom
  <2>2. \A b \in 0..a - 1 : b \in 0..attempt - 1 \/ b \in attempt..a - 1
    BY <1>1
  <2>3. \A b \in 0..a - 1 : Passes(m, arg, b)
    BY <1>2, <2>1, <2>2
  <2>4. a \in 0..m.cap
    BY <1>1
  <2> QED BY <1>3, <2>3, <2>4 DEF Stops, StopsFrom
<1>4. ASSUME ExhaustedFrom(m, arg, attempt) PROVE Exhausted(m, arg)
  <2>1. \A b \in 0..m.cap : b \in 0..attempt - 1 \/ b \in attempt..m.cap
    BY <1>1
  <2> QED BY <1>2, <1>4, <2>1 DEF Exhausted, ExhaustedFrom
<1> QED BY <1>3, <1>4

LEMMA OuterInv == Spec => []OuterOK
<1>1. Init => OuterOK
  <2> SUFFICES ASSUME Init PROVE OuterOK
    OBVIOUS
  <2>1. Len(outer) = 0
    BY DEF Init
  <2> QED BY <2>1 DEF OuterOK
<1>2. TypeOK /\ SizesOK /\ OuterOK /\ [Next]_vars => OuterOK'
  <2> SUFFICES ASSUME TypeOK, SizesOK, OuterOK, [Next]_vars PROVE OuterOK'
    OBVIOUS
  <2>1. m.cap \in Nat /\ outer \in Seq(Nat)
    BY DEF TypeOK, MapOK
  <2>2. ASSUME outer' = <<>> PROVE OuterOK'
    BY <2>2 DEF OuterOK
  <2>3. ASSUME outer' = outer, m' = m \/ m'.cap = m.cap PROVE OuterOK'
    BY <2>3 DEF OuterOK
  <2>4. ASSUME ReturnNull, m' = m PROVE OuterOK'
    <3>1. CASE Back
      BY <2>2, <3>1 DEF Back
    <3>2. CASE outer # <<>> /\ outer' = Tail(outer)
      <4>1. /\ Tail(outer) \in Seq(Nat) /\ Len(Tail(outer)) = Len(outer) - 1 /\ Len(outer) \in Nat
            /\ \A j \in 1..Len(Tail(outer)) : Tail(outer)[j] = outer[j + 1]
        BY <2>1, <3>2, HeadTailProperties, LenProperties
      <4>2. \A j \in 1..Len(Tail(outer)) : j + 1 \in 1..Len(outer)
        BY <4>1
      <4> QED BY <2>4, <3>2, <4>1, <4>2 DEF OuterOK
    <3> QED BY <2>4, <3>1, <3>2 DEF ReturnNull
  <2>5. CASE Insert
    <3>1. PICK a \in attempt..m.cap : \/ InsertExisting(a) \/ InsertFree(a)
                                      \/ InsertNoMemory(a) \/ InsertGrow(a)
                                      \/ GrowNoMemory(a)
      BY <2>5 DEF Insert
    <3>2. CASE InsertExisting(a) \/ InsertFree(a)
      BY <2>2, <3>2 DEF InsertExisting, InsertFree, Back
    <3>3. CASE InsertNoMemory(a)
      BY <2>4, <3>3 DEF InsertNoMemory
    <3>4. CASE InsertGrow(a)
      <4>1. outer' = <<a>> \o outer /\ m' = m
        BY <3>4 DEF InsertGrow
      <4>2. a \in Nat /\ a <= m.cap
        BY <2>1 DEF TypeOK
      <4>3. <<a>> \in Seq(Nat) /\ Len(<<a>>) = 1 /\ <<a>>[1] = a
        BY <4>2
      <4>4. /\ Len(outer') = 1 + Len(outer) /\ Len(outer) \in Nat
            /\ \A j \in 1..1 + Len(outer) : outer'[j] = IF j <= 1 THEN <<a>>[j] ELSE outer[j - 1]
        BY <2>1, <4>1, <4>3, ConcatProperties, LenProperties
      <4>5. ASSUME NEW j \in 1..Len(outer') PROVE outer'[j] <= m.cap
        <5>1. CASE j = 1
          BY <4>2, <4>3, <4>4, <5>1
        <5>2. CASE j # 1
          <6>1. j - 1 \in 1..Len(outer) /\ outer'[j] = outer[j - 1]
            BY <4>4, <5>2
          <6> QED BY <6>1 DEF OuterOK
        <5> QED BY <5>1, <5>2
      <4> QED BY <4>1, <4>5 DEF OuterOK
    <3>5. CASE GrowNoMemory(a)
      BY <2>3, <3>5 DEF GrowNoMemory
    <3> QED BY <3>1, <3>2, <3>3, <3>4, <3>5
  <2>6. CASE RehashDone
    <3>1. outer' = outer /\ m' = new_map /\ new_map.cap = 2 * m.cap
      BY <2>6 DEF RehashDone, SizesOK
    <3>2. \A j \in 1..Len(outer) : outer[j] \in Nat
      BY <2>1, ElementOfSeq
    <3>3. \A j \in 1..Len(outer) : outer[j] <= 2 * m.cap
      BY <2>1, <3>2 DEF OuterOK
    <3> QED BY <3>1, <3>3 DEF OuterOK
  <2>7. CASE InsertExhausted
    BY <2>4, <2>7 DEF InsertExhausted
  <2>8. CASE GetReturn
    BY <2>2, <2>8 DEF GetReturn, Back
  <2>9. CASE \/ \E k \in Key : TakeWord(k) \/ Look(k)
             \/ RehashSkip \/ RehashCopy \/ RehashAbort \/ GetMiss \/ UNCHANGED vars
    BY <2>3, <2>9 DEF TakeWord, Look, RehashSkip, RehashCopy, RehashAbort, GetMiss, vars
  <2> QED BY <2>5, <2>6, <2>7, <2>8, <2>9 DEF Next, Running
<1> QED BY <1>1, <1>2, SizesInv, PTL DEF Spec

\* A retry leaves out no attempt that could stop, as long as malloc does not fail:
\* the call it waited for has then met another key at every attempt of the same map.
THEOREM FreshAttemptsCorrect == ~MallocMayFail => (Spec => []FreshAttempts)
<1>1. CASE ~MallocMayFail
  <2>1. Init => FreshAttempts
    BY DEF Init, FreshAttempts
  <2>2. TypeOK /\ OuterOK /\ FreshAttempts /\ [Next]_vars => FreshAttempts'
    <3> SUFFICES ASSUME TypeOK, OuterOK, FreshAttempts, [Next]_vars PROVE FreshAttempts'
      OBVIOUS
    <3>1. CASE InsertExhausted
      <4>1. pc = "insert" /\ m' = m /\ Exhausted(m, arg)
        BY <3>1, FreshStops DEF InsertExhausted
      <4>2. CASE Back
        BY <4>2 DEF Back, FreshAttempts
      <4>3. CASE outer # <<>> /\ attempt' = Head(outer) /\ arg' = arg
        <5>1. outer \in Seq(Nat) /\ outer # <<>> /\ m.cap \in Nat
          BY <4>3 DEF TypeOK, MapOK
        <5>2. Head(outer) \in Nat /\ Head(outer) = outer[1] /\ 1 \in 1..Len(outer)
          BY <5>1
        <5>3. Head(outer) <= m.cap
          BY <5>2 DEF OuterOK
        <5>4. \A b \in 0..attempt' - 1 : b \in 0..m.cap
          BY <4>3, <5>1, <5>2, <5>3
        <5>5. \A b \in 0..attempt' - 1 : Passes(m, arg, b)
          BY <4>1, <5>4 DEF Exhausted, ExhaustedFrom
        <5> QED BY <4>1, <4>3, <5>5 DEF FreshAttempts, Passes
      <4> QED BY <3>1, <4>2, <4>3 DEF InsertExhausted, ReturnNull
    <3>2. CASE \E k \in Key : TakeWord(k)
      BY <3>2 DEF TakeWord, FreshAttempts
    <3>3. CASE RehashDone
      BY <3>3 DEF RehashDone, FreshAttempts
    <3>4. CASE UNCHANGED vars
      BY <3>4 DEF vars, FreshAttempts, Passes
    <3>5. CASE \/ \E k \in Key : Look(k)
               \/ Insert \/ RehashSkip \/ RehashCopy \/ RehashAbort \/ GetMiss \/ GetReturn
      <4>1. pc' # "insert"
        BY <1>1, <3>5 DEF Look, Insert, InsertExisting, InsertFree, InsertNoMemory, InsertGrow,
           GrowNoMemory, RehashSkip, RehashCopy, RehashAbort, GetMiss, GetReturn, Back
      <4> QED BY <4>1 DEF FreshAttempts
    <3> QED BY <3>1, <3>2, <3>3, <3>4, <3>5 DEF Next, Running
  <2> QED BY <2>1, <2>2, TypeCorrect, OuterInv, PTL DEF Spec
<1> QED BY <1>1

----------------------------------------------------------------------------
(* Where the keys lie, while no retry leaves out an attempt.               *)

HMInv == TypeOK /\ Findable /\ RehashCopies

LEMMA InitInv == Init => HMInv
<1> SUFFICES ASSUME Init PROVE HMInv
  OBVIOUS
<1>1. MapOK(EmptyMap(InitCapacity)) /\ Reached(EmptyMap(InitCapacity))
  BY EmptyMapOK, CapacityAssumption
<1>2. m.cap = InitCapacity
  BY DEF Init, EmptyMap
<1> QED BY <1>1, <1>2, TypeInit DEF Init, HMInv, Findable, RehashCopies

\* A count added to the node a probe found moves no key.
LEMMA ExistingInv ==
  ASSUME HMInv, pc = "insert", NEW a \in 0..m.cap, InsertExisting(a)
  PROVE  Findable' /\ RehashCopies'
<1> USE DEF HMInv, TypeOK, Findable
<1>1. m'.cap = m.cap /\ m'.key = m.key /\ new_map' = new_map /\ pc' = "idle"
  BY DEF InsertExisting, Back, MapOK
<1>2. Reached(m')
  BY <1>1 DEF Reached, Used, Passes
<1> QED BY <1>1, <1>2 DEF RehashCopies

\* The new key lies where its probe stopped.
LEMMA FreeInv ==
  ASSUME HMInv, pc = "insert", NEW a \in 0..m.cap, Stops(m, arg, a), InsertFree(a)
  PROVE  Findable' /\ RehashCopies'
<1> USE DEF HMInv, TypeOK, Findable
<1>1. m' = Put(m, Slot(arg, m.cap, a), arg, 1) /\ new_map' = new_map /\ pc' = "idle"
  BY DEF InsertFree, Back
<1>2. Reached(m')
  BY <1>1, PutKeepsReached
<1> QED BY <1>1, <1>2 DEF RehashCopies

\* The larger map starts empty.
LEMMA GrowInv ==
  ASSUME HMInv, NEW a \in 0..m.cap, InsertGrow(a)
  PROVE  Findable' /\ RehashCopies'
<1> USE DEF HMInv, TypeOK, Findable
<1>1. 2 * m.cap \in Nat /\ 2 * m.cap >= 3
  BY DEF MapOK
<1>2. Reached(new_map') /\ Used(new_map') = {} /\ m' = m /\ i' = 0
  BY <1>1, EmptyMapOK DEF InsertGrow
<1>3. \A s \in Used(m) : ~(s < 0)
  BY DEF Used, MapOK, Slots
<1>4. RehashCopies'
  BY <1>2, <1>3 DEF RehashCopies
<1> QED BY <1>2, <1>4

\* The keys of the larger map are those of the nodes visited, and the next key
\* to be copied is not among them, for the old map holds it once: its probe
\* stops at a free node.
LEMMA CopyFresh ==
  ASSUME HMInv, RehashCopy, NEW a \in 0..new_map.cap, Stops(new_map, m.key[i], a)
  PROVE  /\ \A t \in Used(new_map) :
              /\ new_map.key[t] # m.key[i]
              /\ \E r \in Used(m) : r < i /\ m.key[r] = new_map.key[t]
         /\ Slot(m.key[i], new_map.cap, a) \notin Used(new_map)
<1> USE DEF HMInv, TypeOK, Findable
<1> DEFINE k == m.key[i]
           s == Slot(k, new_map.cap, a)
<1>2. i \in Used(m) /\ k \in Key
  BY DEF RehashCopy, MapOK, Used, Slots
<1>6. ASSUME NEW t \in Used(new_map)
      PROVE  new_map.key[t] # k /\ \E r \in Used(m) : r < i /\ m.key[r] = new_map.key[t]
  <2>1. PICK r \in Used(m) : r < i /\ m.key[r] = new_map.key[t]
    BY DEF RehashCopy, RehashCopies
  <2>2. r # i
    BY <2>1, <1>2 DEF Used, Slots
  <2>3. m.key[r] # k
    BY <2>2, <1>2, ReachedOnce
  <2> QED BY <2>1, <2>3
<1>7. s \notin Used(new_map)
  <2>1. new_map.key[s] \in {NoKey, k}
    BY DEF Stops, StopsFrom, Passes
  <2> QED BY <2>1, <1>6 DEF Used
<1> QED BY <1>6, <1>7

\* A copied key joins those of the nodes visited.
LEMMA CopyInv ==
  ASSUME HMInv, RehashCopy
  PROVE  Findable' /\ RehashCopies'
<1> USE DEF HMInv, TypeOK, Findable
<1> DEFINE k == m.key[i]
<1>1. PICK a \in 0..new_map.cap :
         /\ Stops(new_map, k, a)
         /\ new_map' = Put(new_map, Slot(k, new_map.cap, a), k, m.val[i])
  BY DEF RehashCopy
<1> DEFINE s == Slot(k, new_map.cap, a)
<1>2. i \in Used(m) /\ k \in Key /\ m.val[i] \in Nat
  BY DEF RehashCopy, MapOK, Used, Slots
<1>3. s \in Slots(new_map.cap)
  BY <1>2, SlotInRange DEF MapOK
<1>4. MapOK(new_map') /\ Reached(new_map') /\ Used(new_map') = Used(new_map) \cup {s}
  <2>1. MapOK(new_map) /\ Reached(new_map)
    OBVIOUS
  <2>2. Stops(new_map, k, a)
    BY <1>1
  <2> DEFINE v == m.val[i]
  <2>4. k \in Key /\ v \in Nat
    BY <1>2
  <2> HIDE DEF HMInv, TypeOK, Findable, k, v
  <2>3. /\ MapOK(Put(new_map, s, k, v))
        /\ Reached(Put(new_map, s, k, v))
        /\ Used(Put(new_map, s, k, v)) = Used(new_map) \cup {s}
    BY <2>1, <2>2, <2>4, PutKeepsReached
  <2> QED BY <2>3, <1>1 DEF v
<1>5. /\ new_map'.cap = new_map.cap
      /\ new_map'.key = [new_map.key EXCEPT ![s] = k]
      /\ new_map'.val = [new_map.val EXCEPT ![s] = m.val[i]]
  BY <1>1 DEF Put
<1>6. \A t \in Used(new_map) : \E r \in Used(m) : r < i /\ m.key[r] = new_map.key[t]
  BY <1>1, CopyFresh
<1>7. s \notin Used(new_map)
  BY <1>1, CopyFresh
<1>8. \A t \in Used(new_map) : /\ new_map'.key[t] = new_map.key[t]
                               /\ new_map'.val[t] = new_map.val[t]
  <2> HIDE DEF s
  <2> QED BY <1>5, <1>7 DEF Used, MapOK
<1>9. new_map'.key[s] = k /\ new_map'.val[s] = m.val[i]
  <2> HIDE DEF s
  <2> QED BY <1>3, <1>5 DEF MapOK
<1>10. i' = i + 1 /\ UNCHANGED <<m, pc>> /\ pc = "rehash"
       /\ i \in Nat /\ i < m.cap
  BY DEF RehashCopy, MapOK
<1>11. RehashCopies'
  <2>1. ASSUME NEW r \in Used(m), r < i + 1
        PROVE  \E t \in Used(new_map') : /\ new_map'.key[t] = m.key[r]
                                         /\ new_map'.val[t] = m.val[r]
    <3>1. CASE r = i
      BY <3>1, <1>4, <1>9
    <3>2. CASE r # i
      <4>1. r < i
        <5>1. r \in Int /\ i \in Int /\ r < i + 1 /\ r # i
          <6>1. r \in 0..m.cap - 1
            BY <2>1 DEF Used, Slots
          <6> QED BY <6>1, <3>2, <2>1, <1>10
        <5> QED BY ONLY <5>1
      <4>2. PICK t \in Used(new_map) : /\ new_map.key[t] = m.key[r]
                                       /\ new_map.val[t] = m.val[r]
        BY <4>1, <1>10 DEF RehashCopies
      <4> QED BY <4>2, <1>4, <1>8
    <3> QED BY <3>1, <3>2
  <2>2. ASSUME NEW t \in Used(new_map')
        PROVE  \E r \in Used(m) : r < i + 1 /\ m.key[r] = new_map'.key[t]
    <3>1. CASE t = s
      BY <3>1, <1>2, <1>9, <1>10
    <3>2. CASE t # s
      <4>1. t \in Used(new_map)
        BY <3>2, <1>4
      <4>2. PICK r \in Used(m) : r < i /\ m.key[r] = new_map.key[t]
        BY <4>1, <1>6
      <4>3. r < i + 1
        BY <4>2, <1>10 DEF Used, Slots, MapOK
      <4> QED BY <4>1, <4>2, <4>3, <1>8
    <3> QED BY <3>1, <3>2
  <2>3. Used(m)' = Used(m) /\ Used(new_map)' = Used(new_map')
    BY <1>10 DEF Used
  <2> QED BY <2>1, <2>2, <2>3, <1>10 DEF RehashCopies
<1>12. Reached(m')
  BY <1>10 DEF Reached, Used, Passes
<1> QED BY <1>4, <1>11, <1>12

\* An unused node adds no key to copy.
LEMMA SkipInv ==
  ASSUME HMInv, RehashSkip
  PROVE  Findable' /\ RehashCopies'
<1> USE DEF HMInv, TypeOK, Findable
<1>1. i' = i + 1 /\ i \in Nat /\ UNCHANGED <<m, new_map, pc>> /\ i \notin Used(m)
  BY DEF RehashSkip, MapOK, Used
<1>2. \A s \in Used(m) : s < i + 1 <=> s < i
  BY <1>1 DEF Used, Slots
<1> QED BY <1>1, <1>2 DEF RehashCopies, Used, Slots

\* The larger map replaces the old one.
LEMMA DoneInv ==
  ASSUME HMInv, RehashDone
  PROVE  Findable' /\ RehashCopies'
<1>1. Reached(EmptyMap(InitCapacity))
  BY EmptyMapOK, CapacityAssumption
<1> QED BY <1>1 DEF RehashDone, HMInv, Findable, RehashCopies

\* The steps that leave both maps alone.
LEMMA OtherInv ==
  ASSUME HMInv, \/ \E k \in Key : TakeWord(k) \/ Look(k)
                \/ InsertExhausted \/ RehashAbort
                \/ GetMiss \/ GetReturn \/ UNCHANGED vars
  PROVE  Findable' /\ RehashCopies'
<1>1. m' = m /\ new_map' = new_map /\ i' = i /\ (pc' = "rehash" => pc = "rehash")
  BY DEF TakeWord, Look, InsertExhausted, ReturnNull, RehashAbort, GetMiss, GetReturn, Back, vars
<1> QED BY <1>1 DEF HMInv, Findable, RehashCopies

LEMMA InductiveInv == Spec /\ []FreshAttempts => []HMInv
<1>1. HMInv /\ TypeOK' /\ FreshAttempts /\ [Next]_vars => HMInv'
  <2> SUFFICES ASSUME HMInv, TypeOK', FreshAttempts, [Next]_vars PROVE Findable' /\ RehashCopies'
    BY DEF HMInv
  <2>1. CASE Insert
    <3>1. pc = "insert" /\ TypeOK
      BY <2>1 DEF Insert, HMInv
    <3>2. PICK a \in attempt..m.cap : /\ StopsFrom(m, arg, attempt, a)
                                      /\ \/ InsertExisting(a) \/ InsertFree(a)
                                         \/ InsertNoMemory(a) \/ InsertGrow(a)
                                         \/ GrowNoMemory(a)
      BY <2>1 DEF Insert
    <3>3. a \in 0..m.cap /\ Stops(m, arg, a)
      BY <3>1, <3>2, FreshStops
    <3>4. CASE InsertExisting(a)
      BY <3>1, <3>3, <3>4, ExistingInv
    <3>5. CASE InsertFree(a)
      BY <3>1, <3>3, <3>5, FreeInv
    <3>6. CASE InsertGrow(a)
      BY <3>3, <3>6, GrowInv
    <3>7. CASE InsertNoMemory(a) \/ GrowNoMemory(a)
      <4>1. m' = m /\ new_map' = new_map /\ pc' # "rehash"
        BY <3>1, <3>7 DEF InsertNoMemory, GrowNoMemory, ReturnNull, Back
      <4> QED BY <4>1 DEF HMInv, Findable, RehashCopies
    <3> QED BY <3>2, <3>4, <3>5, <3>6, <3>7
  <2> QED BY <2>1, SkipInv, CopyInv, DoneInv, OtherInv DEF Next, Running
<1> QED BY <1>1, InitInv, TypeCorrect, PTL DEF Spec

\* Every key hash_map_insert ever stored is found by the look-up of
\* hash_map_get_node, through any number of rehashes: as long as no retry leaves
\* out an attempt, and always if malloc does not fail.
THEOREM FindableCorrect == /\ Spec /\ []FreshAttempts => []Findable
                           /\ ~MallocMayFail => (Spec => []Findable)
<1>1. Spec /\ []FreshAttempts => []Findable
  BY InductiveInv, PTL DEF HMInv
<1>2. CASE ~MallocMayFail
  <2>1. Spec => []FreshAttempts
    BY <1>2, FreshAttemptsCorrect
  <2> QED BY <1>1, <2>1, PTL
<1> QED BY <1>1, <1>2

\* hash_map_rehash copies every key with its value and invents none, under the
\* same condition: of a key stored twice only one value would be copied.
THEOREM RehashCopiesCorrect == /\ Spec /\ []FreshAttempts => []RehashCopies
                               /\ ~MallocMayFail => (Spec => []RehashCopies)
<1>1. Spec /\ []FreshAttempts => []RehashCopies
  BY InductiveInv, PTL DEF HMInv
<1>2. CASE ~MallocMayFail
  <2>1. Spec => []FreshAttempts
    BY <1>2, FreshAttemptsCorrect
  <2> QED BY <1>1, <2>1, PTL
<1> QED BY <1>1, <1>2

----------------------------------------------------------------------------
(* The map is the frequency dictionary.                                    *)

LEMMA ValueStored ==
  ASSUME NEW mp, MapOK(mp), Reached(mp), NEW s \in Used(mp)
  PROVE  ValueOf(mp, mp.key[s]) = mp.val[s]
<1> DEFINE t == CHOOSE u \in Used(mp) : mp.key[u] = mp.key[s]
<1>1. t \in Used(mp) /\ mp.key[t] = mp.key[s]
  OBVIOUS
<1>2. ValueOf(mp, mp.key[s]) = mp.val[t]
  BY DEF ValueOf
<1>3. t = s
  <2> HIDE DEF t
  <2> QED BY <1>1, ReachedOnce
<1> QED BY <1>2, <1>3

LEMMA ValueAbsent ==
  ASSUME NEW mp, NEW k, \A s \in Used(mp) : mp.key[s] # k
  PROVE  ValueOf(mp, k) = 0
BY DEF ValueOf

\* A probe that stops at a free node has met no node of its key.
LEMMA NotStored ==
  ASSUME NEW mp, MapOK(mp), Reached(mp), NEW k \in Key, NEW a \in 0..mp.cap,
         Stops(mp, k, a), mp.key[Slot(k, mp.cap, a)] = NoKey, NEW t \in Used(mp)
  PROVE  mp.key[t] # k
<1> SUFFICES ASSUME mp.key[t] = k PROVE FALSE
  OBVIOUS
<1>1. PICK b \in 0..mp.cap : /\ Slot(k, mp.cap, b) = t
                             /\ \A c \in 0..b - 1 : Passes(mp, k, c)
  BY DEF Reached
<1>2. ~Passes(mp, k, b) /\ ~Passes(mp, k, a)
  BY <1>1 DEF Passes, Stops, StopsFrom
<1>3. \A c \in 0..a - 1 : Passes(mp, k, c)
  BY DEF Stops, StopsFrom
<1>4. a = b
  BY <1>1, <1>2, <1>3
<1> QED BY <1>1, <1>4 DEF Used

\* The abstract state.
Counts == [k \in Key |-> ValueOf(m, k)]
Word == IF pc = "get" THEN NoKey ELSE arg

IdleNoKey == pc = "idle" => arg = NoKey

LEMMA IdleInv == Spec => []IdleNoKey
<1>1. Init => IdleNoKey
  BY DEF Init, IdleNoKey
<1>2. IdleNoKey /\ [Next]_vars => IdleNoKey'
  BY DEF IdleNoKey, Next, Running, TakeWord, Look, Insert, InsertExisting, InsertFree,
     InsertNoMemory, InsertGrow, GrowNoMemory, InsertExhausted, ReturnNull, RehashSkip,
     RehashCopy, RehashAbort, RehashDone, GetMiss, GetReturn, Back, vars
<1> QED BY <1>1, <1>2, PTL DEF Spec

LEMMA DictExisting ==
  ASSUME HMInv, HMInv', pc = "insert", NEW a \in 0..m.cap, InsertExisting(a)
  PROVE  Counts' = [Counts EXCEPT ![arg] = @ + 1]
<1> USE DEF HMInv, TypeOK, Findable
<1> DEFINE s == Slot(arg, m.cap, a)
<1>1. s \in Used(m) /\ m.key[s] = arg /\ arg \in Key
  <2>0. arg \in Key /\ m.cap \in Nat /\ m.cap >= 3 /\ a \in Nat
    BY DEF MapOK
  <2>1. s \in Slots(m.cap)
    BY <2>0, SlotInRange
  <2> QED BY <2>1, NoKeyAssumption DEF InsertExisting, Used
<1>2. /\ m'.key = m.key /\ m'.cap = m.cap /\ m'.val[s] = m.val[s] + 1
      /\ \A t \in Used(m) \ {s} : m'.val[t] = m.val[t]
  <2>1. m' = [m EXCEPT !.val[s] = @ + 1]
    BY DEF InsertExisting
  <2> HIDE DEF s
  <2>2. m' = [m EXCEPT !.val = [m.val EXCEPT ![s] = m.val[s] + 1]]
    BY <2>1
  <2> QED BY <1>1, <2>2 DEF MapOK, Used
<1>3. Used(m') = Used(m)
  BY <1>2 DEF Used
<1>4. ASSUME NEW k \in Key
      PROVE  ValueOf(m', k) = IF k = arg THEN ValueOf(m, k) + 1 ELSE ValueOf(m, k)
  <2>1. CASE \E t \in Used(m) : m.key[t] = k
    <3>1. PICK t \in Used(m) : m.key[t] = k
      BY <2>1
    <3>2. ValueOf(m, k) = m.val[t]
      BY <3>1, ValueStored
    <3>3. ValueOf(m', k) = m'.val[t]
      BY <1>2, <1>3, <3>1, ValueStored
    <3>4. k = arg <=> t = s
      BY <1>1, <3>1, ReachedOnce
    <3> QED BY <1>2, <3>2, <3>3, <3>4
  <2>2. CASE ~\E t \in Used(m) : m.key[t] = k
    <3>1. k # arg
      BY <1>1, <2>2
    <3>2. ValueOf(m, k) = 0 /\ ValueOf(m', k) = 0
      BY <1>2, <1>3, <2>2, ValueAbsent
    <3> QED BY <3>1, <3>2
  <2> QED BY <2>1, <2>2
<1>5. Counts' = [k \in Key |-> ValueOf(m', k)]
  BY DEF Counts, ValueOf, Used
<1> QED BY <1>1, <1>4, <1>5 DEF Counts

LEMMA DictFree ==
  ASSUME HMInv, HMInv', pc = "insert", NEW a \in 0..m.cap, Stops(m, arg, a), InsertFree(a)
  PROVE  Counts' = [Counts EXCEPT ![arg] = @ + 1]
<1> USE DEF HMInv, TypeOK, Findable
<1> DEFINE s == Slot(arg, m.cap, a)
<1>1. m' = Put(m, s, arg, 1) /\ m.key[s] = NoKey /\ arg \in Key
  BY DEF InsertFree
<1>2. s \in Slots(m.cap)
  <2>1. m.cap \in Nat /\ m.cap >= 3 /\ a \in Nat
    BY DEF MapOK
  <2> QED BY <1>1, <2>1, SlotInRange
<1>3. Used(m') = Used(m) \cup {s} /\ s \notin Used(m)
  <2>1. Used(Put(m, s, arg, 1)) = Used(m) \cup {s}
    <3>1. MapOK(m) /\ Reached(m) /\ 1 \in Nat
      OBVIOUS
    <3> HIDE DEF HMInv, TypeOK, Findable
    <3> QED BY <1>1, <3>1, PutKeepsReached
  <2> QED BY <1>1, <2>1 DEF Used
<1>4. /\ m'.key[s] = arg /\ m'.val[s] = 1
      /\ \A t \in Used(m) : m'.key[t] = m.key[t] /\ m'.val[t] = m.val[t]
  <2> HIDE DEF s
  <2>1. m'.key = [m.key EXCEPT ![s] = arg] /\ m'.val = [m.val EXCEPT ![s] = 1]
    BY <1>1 DEF Put
  <2> QED BY <1>2, <1>3, <2>1 DEF MapOK, Used
<1>5. \A t \in Used(m) : m.key[t] # arg
  BY <1>1, NotStored
<1>6. ASSUME NEW k \in Key
      PROVE  ValueOf(m', k) = IF k = arg THEN ValueOf(m, k) + 1 ELSE ValueOf(m, k)
  <2>1. CASE k = arg
    <3>1. ValueOf(m, k) = 0
      BY <1>5, <2>1, ValueAbsent
    <3>2. ValueOf(m', k) = 1
      BY <1>3, <1>4, <2>1, ValueStored
    <3> QED BY <2>1, <3>1, <3>2
  <2>2. CASE k # arg /\ \E t \in Used(m) : m.key[t] = k
    <3>1. PICK t \in Used(m) : m.key[t] = k
      BY <2>2
    <3>2. ValueOf(m, k) = m.val[t]
      BY <3>1, ValueStored
    <3>3. ValueOf(m', k) = m'.val[t]
      BY <1>3, <1>4, <3>1, ValueStored
    <3> QED BY <1>4, <2>2, <3>2, <3>3
  <2>3. CASE k # arg /\ ~\E t \in Used(m) : m.key[t] = k
    <3>1. \A t \in Used(m') : m'.key[t] # k
      BY <1>3, <1>4, <2>3
    <3> QED BY <2>3, <3>1, ValueAbsent
  <2> QED BY <2>1, <2>2, <2>3
<1>7. Counts' = [k \in Key |-> ValueOf(m', k)]
  BY DEF Counts, ValueOf, Used
<1> QED BY <1>1, <1>6, <1>7 DEF Counts

\* The map that replaces the full one holds the same counts.
LEMMA DictDone ==
  ASSUME HMInv, HMInv', RehashDone
  PROVE  Counts' = Counts
<1> USE DEF HMInv, TypeOK, Findable
<1>1. m' = new_map /\ pc = "rehash" /\ i = m.cap
  BY DEF RehashDone
<1>2. \A s \in Used(m) : s < i
  <2>1. i \in Nat /\ \A s \in Used(m) : s \in 0..i - 1
    BY <1>1 DEF Used, Slots, MapOK
  <2> QED BY <2>1
<1>3. ASSUME NEW k \in Key
      PROVE  ValueOf(new_map, k) = ValueOf(m, k)
  <2>1. CASE \E s \in Used(m) : m.key[s] = k
    <3>1. PICK s \in Used(m) : m.key[s] = k
      BY <2>1
    <3>2. PICK t \in Used(new_map) : new_map.key[t] = m.key[s] /\ new_map.val[t] = m.val[s]
      BY <1>1, <1>2 DEF RehashCopies
    <3> QED BY <3>1, <3>2, ValueStored
  <2>2. CASE ~\E s \in Used(m) : m.key[s] = k
    <3>1. \A t \in Used(new_map) : new_map.key[t] # k
      BY <1>1, <2>2 DEF RehashCopies
    <3> QED BY <2>2, <3>1, ValueAbsent
  <2> QED BY <2>1, <2>2
<1>4. Counts' = [k \in Key |-> ValueOf(new_map, k)]
  BY <1>1 DEF Counts, ValueOf, Used
<1> QED BY <1>3, <1>4 DEF Counts

LEMMA DictStep ==
  ASSUME HMInv, HMInv', FreshAttempts, IdleNoKey, NoWordLost, NoWordLost', [Next]_vars
  PROVE  \/ UNCHANGED <<Counts, Word>>
         \/ Word # NoKey /\ Counts' = [Counts EXCEPT ![Word] = @ + 1] /\ Word' = NoKey
         \/ \E k \in Key : Word = NoKey /\ Word' = k /\ Counts' = Counts
<1>1. m' = m => Counts' = Counts
  BY DEF Counts, ValueOf, Used
<1>2. CASE \E k \in Key : TakeWord(k)
  BY <1>1, <1>2 DEF TakeWord, Word, IdleNoKey
<1>3. CASE \E k \in Key : Look(k)
  BY <1>1, <1>3 DEF Look, Word, IdleNoKey
<1>4. CASE Insert
  <2>0. PICK a \in attempt..m.cap : /\ StopsFrom(m, arg, attempt, a)
                                    /\ \/ InsertExisting(a) \/ InsertFree(a)
                                       \/ InsertNoMemory(a) \/ InsertGrow(a)
                                       \/ GrowNoMemory(a)
    BY <1>4 DEF Insert
  <2>2. pc = "insert" /\ Word = arg /\ arg # NoKey
    BY <1>4, NoKeyAssumption DEF Insert, Word, HMInv, TypeOK
  <2>1. a \in 0..m.cap /\ Stops(m, arg, a)
    BY <2>0, <2>2, FreshStops DEF HMInv
  <2>3. CASE InsertExisting(a) \/ InsertFree(a)
    <3>1. Counts' = [Counts EXCEPT ![arg] = @ + 1]
      BY <2>1, <2>2, <2>3, DictExisting, DictFree
    <3>2. Word' = NoKey
      BY <2>3 DEF InsertExisting, InsertFree, Back, Word
    <3> QED BY <2>2, <3>1, <3>2
  <2>4. CASE InsertNoMemory(a)
    BY <1>1, <2>2, <2>4 DEF InsertNoMemory, ReturnNull, NoWordLost, Word
  <2>5. CASE InsertGrow(a) \/ GrowNoMemory(a)
    BY <1>1, <2>2, <2>5 DEF InsertGrow, GrowNoMemory, Word
  <2> QED BY <2>0, <2>3, <2>4, <2>5
<1>5. CASE InsertExhausted
  BY <1>1, <1>5 DEF InsertExhausted, ReturnNull, NoWordLost, Word
<1>6. CASE RehashSkip \/ RehashCopy \/ RehashAbort
  BY <1>1, <1>6 DEF RehashSkip, RehashCopy, RehashAbort, Word
<1>7. CASE RehashDone
  <2>1. Word' = Word
    BY <1>7 DEF RehashDone, Word
  <2> QED BY <1>7, <2>1, DictDone
<1>8. CASE GetMiss \/ GetReturn
  BY <1>1, <1>8 DEF GetMiss, GetReturn, Back, Word
<1>9. CASE UNCHANGED vars
  BY <1>1, <1>9 DEF vars, Word
<1> QED BY <1>2, <1>3, <1>4, <1>5, <1>6, <1>7, <1>8, <1>9 DEF Next, Running

\* As long as no retry leaves out an attempt (never, if malloc does not fail) and
\* hash_map_insert returns a node for every word, the map is the frequency
\* dictionary of the words: each word adds one to its own count and nothing else
\* does, through every collision and every rehash.  (That it does return one is
\* refuted for some capacities and hashes.)
THEOREM CountsWordsCorrect ==
  /\ Spec /\ []FreshAttempts /\ []NoWordLost => CountsWords
  /\ ~MallocMayFail => (Spec /\ []NoWordLost => CountsWords)
<1>1. Init => Dict!Init
  <2> SUFFICES ASSUME Init PROVE Dict!Init
    OBVIOUS
  <2>1. Used(m) = {}
    BY EmptyMapOK, CapacityAssumption DEF Init
  <2>2. \A k \in Key : ValueOf(m, k) = 0
    BY <2>1, ValueAbsent
  <2>3. pc = "idle" /\ arg = NoKey
    BY DEF Init
  <2> QED BY <2>2, <2>3 DEF Dict!Init
<1>2. HMInv /\ HMInv' /\ FreshAttempts /\ IdleNoKey /\ NoWordLost /\ NoWordLost' /\ [Next]_vars
        => [Dict!Next]_(Dict!dvars)
  BY DictStep DEF Counts, Word, Dict!Next, Dict!Count, Dict!Take, Dict!dvars
<1>3. Spec /\ []FreshAttempts /\ []NoWordLost => CountsWords
  BY <1>1, <1>2, InductiveInv, IdleInv, PTL DEF Spec, CountsWords, Dict!Spec
<1>4. CASE ~MallocMayFail
  <2>1. Spec => []FreshAttempts
    BY <1>4, FreshAttemptsCorrect
  <2> QED BY <1>3, <2>1, PTL
<1> QED BY <1>3, <1>4

----------------------------------------------------------------------------
(* Where no word is lost: the probes of a key have to differ for as long as *)
(* the load factor may keep them from a free node.                          *)

\* The first attempts of every key, one more than the load factor lets nodes
\* be used, visit different nodes.
ProbesDiffer(cap) ==
  \A k \in Key : \A a, b \in 0..Threshold(cap) : Slot(k, cap, a) = Slot(k, cap, b) => a = b

\* Then some attempt meets a free node: the used ones are too few for all.
LEMMA ProbeStops ==
  ASSUME NEW mp, MapOK(mp), Cardinality(Used(mp)) <= Threshold(mp.cap),
         ProbesDiffer(mp.cap), NEW k \in Key
  PROVE  ~Exhausted(mp, k)
<1> SUFFICES ASSUME Exhausted(mp, k) PROVE FALSE
  OBVIOUS
<1> DEFINE T == 0..Threshold(mp.cap)
           probe == [a \in T |-> Slot(k, mp.cap, a)]
<1>1. /\ mp.cap \in Nat /\ mp.cap >= 3 /\ Threshold(mp.cap) \in Nat
      /\ Threshold(mp.cap) <= mp.cap
  BY DEF MapOK, Threshold
<1>2. IsFiniteSet(T) /\ Cardinality(T) = Threshold(mp.cap) + 1
  <2>1. 0 \in Int /\ Threshold(mp.cap) \in Int /\ ~(0 > Threshold(mp.cap))
    BY <1>1
  <2>2. /\ IsFiniteSet(T)
        /\ Cardinality(T) = IF 0 > Threshold(mp.cap) THEN 0 ELSE Threshold(mp.cap) - 0 + 1
    BY <2>1, FS_Interval
  <2> HIDE DEF T
  <2> QED BY <1>1, <2>1, <2>2
<1>3. IsFiniteSet(Used(mp)) /\ Cardinality(Used(mp)) \in Nat
  BY UsedFinite
<1>4. ASSUME NEW a \in T PROVE Slot(k, mp.cap, a) \in Used(mp)
  <2>1. a \in 0..mp.cap /\ a \in Nat
    BY <1>1
  <2>2. Slot(k, mp.cap, a) \in Slots(mp.cap)
    BY <1>1, <2>1, SlotInRange
  <2> QED BY <2>1, <2>2 DEF Exhausted, ExhaustedFrom, Passes, Used
<1>5. probe \in [T -> Used(mp)]
  BY <1>4
<1>6. Cardinality(Used(mp)) < Cardinality(T)
  BY <1>1, <1>2, <1>3
<1>7. ASSUME NEW a \in T, NEW b \in T, probe[a] = probe[b] PROVE a = b
  BY <1>7 DEF ProbesDiffer
<1> HIDE DEF T, probe
<1> QED BY <1>2, <1>3, <1>5, <1>6, <1>7, FS_PigeonHole

\* As long as malloc finds memory and the probes of every key differ, hash_map_insert
\* returns a node for every word.
THEOREM NoWordLostCorrect ==
  ~MallocMayFail => (Spec /\ [](ProbesDiffer(m.cap)) => []NoWordLost)
<1>1. CASE ~MallocMayFail
  <2>1. Init => NoWordLost
    BY DEF Init, NoWordLost
  <2>2. TypeOK /\ SizesOK /\ FreshAttempts /\ ProbesDiffer(m.cap) /\ NoWordLost
          /\ [Next]_vars => NoWordLost'
    <3> SUFFICES ASSUME TypeOK, SizesOK, FreshAttempts, ProbesDiffer(m.cap), [Next]_vars
                 PROVE  lost' = lost
      BY DEF NoWordLost
    <3>1. CASE InsertExhausted
      <4>1. MapOK(m) /\ arg \in Key /\ Exhausted(m, arg)
        BY <3>1, FreshStops DEF TypeOK, InsertExhausted
      <4>2. Cardinality(Used(m)) <= Threshold(m.cap)
        BY DEF SizesOK
      <4> QED BY <4>1, <4>2, ProbeStops
    <3>2. CASE ~InsertExhausted
      BY <1>1, <3>2 DEF Next, Running, TakeWord, Look, Insert, InsertExisting, InsertFree,
         InsertNoMemory, InsertGrow, GrowNoMemory, RehashSkip, RehashCopy, RehashAbort,
         RehashDone, GetMiss, GetReturn, vars
    <3> QED BY <3>1, <3>2
  <2>3. Spec => []FreshAttempts
    BY <1>1, FreshAttemptsCorrect
  <2> QED BY <2>1, <2>2, <2>3, SizesInv, PTL DEF Spec
<1> QED BY <1>1

\* And the assertion of hash_map_rehash (hash_map.h:193) holds, if they differ in
\* the larger map as well.
THEOREM RehashCompletesCorrect ==
  ~MallocMayFail => (Spec /\ [](ProbesDiffer(new_map.cap)) => []RehashCompletes)
<1>1. CASE ~MallocMayFail
  <2>1. Init => RehashCompletes
    BY DEF Init, RehashCompletes
  <2>2. TypeOK /\ SizesOK /\ RehashFits /\ ProbesDiffer(new_map.cap) /\ RehashCompletes
          /\ [Next]_vars => RehashCompletes'
    <3> SUFFICES ASSUME TypeOK, SizesOK, RehashFits, ProbesDiffer(new_map.cap), RehashCompletes,
                        [Next]_vars
                 PROVE  pc' # "crashed"
      BY DEF RehashCompletes
    <3>1. CASE RehashAbort
      <4>1. MapOK(new_map) /\ pc = "rehash" /\ i < m.cap /\ m.key[i] # NoKey
            /\ Exhausted(new_map, m.key[i])
        BY <1>1, <3>1 DEF TypeOK, RehashAbort
      <4>2. m.key[i] \in Key
        BY <4>1 DEF TypeOK, MapOK, Slots
      <4>3. /\ new_map.size = Cardinality(Used(new_map)) /\ new_map.size < Threshold(new_map.cap)
        BY <4>1 DEF SizesOK, RehashFits
      <4>4. Cardinality(Used(new_map)) <= Threshold(new_map.cap)
        <5>1. new_map.cap \in Nat /\ new_map.size \in Nat
          BY <4>1 DEF MapOK
        <5>2. Threshold(new_map.cap) \in Nat
          BY <5>1, ThresholdGrows
        <5> QED BY <4>3, <5>1, <5>2
      <4> QED BY <4>1, <4>2, <4>4, ProbeStops
    <3>2. CASE ~RehashAbort
      BY <1>1, <3>2 DEF Next, Running, TakeWord, Look, Insert, InsertExisting, InsertFree,
         InsertNoMemory, InsertGrow, GrowNoMemory, InsertExhausted, RehashSkip, RehashCopy,
         RehashDone, GetMiss, GetReturn, vars, Back, ReturnNull, RehashCompletes
    <3> QED BY <3>1, <3>2
  <2> QED BY <2>1, <2>2, SizesInv, RehashFitsCorrect, PTL DEF Spec
<1> QED BY <1>1

\* So the map counts the words, without a condition on what insert returns.
THEOREM CountsWordsWithRoom ==
  ~MallocMayFail => (Spec /\ [](ProbesDiffer(m.cap)) => CountsWords)
<1>1. CASE ~MallocMayFail
  <2>1. Spec /\ [](ProbesDiffer(m.cap)) => []NoWordLost
    BY <1>1, NoWordLostCorrect
  <2>2. Spec /\ []NoWordLost => CountsWords
    BY <1>1, CountsWordsCorrect
  <2> QED BY <2>1, <2>2, PTL
<1> QED BY <1>1

----------------------------------------------------------------------------
(* The sum of the values.  While a map grows, the values of the larger one *)
(* add up to those of the nodes visited, or to less where a key was stored *)
(* twice and one value replaced the other.                                 *)

Copied == [s \in Slots(m.cap) |-> IF s < i THEN m.val[s] ELSE 0]

FreeIsZero(mp) == \A s \in Slots(mp.cap) : mp.key[s] = NoKey => mp.val[s] = 0

SumOf(mp) == SumOver(mp.val, Slots(mp.cap))

CopiedSum == SumOver(Copied, Slots(m.cap))

ZerosOK == FreeIsZero(m) /\ (pc = "rehash" => FreeIsZero(new_map))

SumBounded == /\ SumOf(m) + lost + InHand <= words
              /\ pc = "rehash" => SumOf(new_map) <= CopiedSum

SumExact == /\ SumOf(m) + lost + InHand = words
            /\ pc = "rehash" => SumOf(new_map) = CopiedSum

LEMMA SumOfNat ==
  ASSUME NEW mp, MapOK(mp)
  PROVE  SumOf(mp) \in Nat /\ IsFiniteSet(Slots(mp.cap)) /\ mp.val \in [Slots(mp.cap) -> Nat]
<1>1. IsFiniteSet(Slots(mp.cap)) /\ mp.val \in [Slots(mp.cap) -> Nat]
  BY UsedFinite DEF MapOK
<1> QED BY <1>1, SumNat DEF SumOf

LEMMA EmptySum ==
  ASSUME NEW cap \in Nat, cap >= 3
  PROVE  SumOf(EmptyMap(cap)) = 0 /\ FreeIsZero(EmptyMap(cap))
<1>1. IsFiniteSet(Slots(EmptyMap(cap).cap))
  BY EmptyMapOK, UsedFinite
<1>2. \A s \in Slots(EmptyMap(cap).cap) : EmptyMap(cap).val[s] = 0
  BY DEF EmptyMap
<1> QED BY <1>1, <1>2, SumZero DEF SumOf, FreeIsZero

\* One value of a map is changed.
LEMMA ChangedSum ==
  ASSUME NEW mp, MapOK(mp), NEW mq, MapOK(mq), mq.cap = mp.cap, NEW s \in Slots(mp.cap),
         NEW v \in Nat, mq.val = [mp.val EXCEPT ![s] = v]
  PROVE  SumOf(mq) + mp.val[s] = SumOf(mp) + v
<1>1. mq.val[s] = v /\ \A t \in Slots(mp.cap) \ {s} : mp.val[t] = mq.val[t]
  BY DEF MapOK
<1>2. /\ mp.val \in [Slots(mp.cap) -> Nat] /\ mq.val \in [Slots(mp.cap) -> Nat]
      /\ IsFiniteSet(Slots(mp.cap))
  BY SumOfNat
<1>3. SumOver(mq.val, Slots(mp.cap)) + mp.val[s] = SumOver(mp.val, Slots(mp.cap)) + mq.val[s]
  BY <1>1, <1>2, SumChange
<1> QED BY <1>1, <1>3 DEF SumOf

\* A key is put in a node: its value replaces what was there, which is nothing
\* if the node was free.
LEMMA PutSum ==
  ASSUME NEW mp, MapOK(mp), FreeIsZero(mp), NEW s \in Slots(mp.cap),
         NEW k \in Key, NEW v \in Nat
  PROVE  /\ SumOf(Put(mp, s, k, v)) \in Nat /\ SumOf(mp) \in Nat
         /\ SumOf(Put(mp, s, k, v)) <= SumOf(mp) + v
         /\ mp.key[s] = NoKey => SumOf(Put(mp, s, k, v)) = SumOf(mp) + v
         /\ FreeIsZero(Put(mp, s, k, v))
<1> DEFINE n == Put(mp, s, k, v)
<1>1. /\ n.cap = mp.cap /\ n.key = [mp.key EXCEPT ![s] = k]
      /\ n.val = [mp.val EXCEPT ![s] = v] /\ MapOK(n)
  <2>1. MapOK(n)
    BY PutFields, Zenon
  <2> QED BY <2>1 DEF Put
<1>2. mp.val[s] \in Nat /\ (mp.key[s] = NoKey => mp.val[s] = 0)
  BY DEF FreeIsZero, MapOK
<1> HIDE DEF n
<1>3. SumOf(n) + mp.val[s] = SumOf(mp) + v
  BY <1>1, ChangedSum
<1>4. SumOf(n) \in Nat /\ SumOf(mp) \in Nat
  BY <1>1, SumOfNat
<1>5. FreeIsZero(n)
  BY <1>1, NoKeyAssumption DEF FreeIsZero, MapOK
<1> QED BY <1>2, <1>3, <1>4, <1>5 DEF n

\* The sums are natural numbers.
LEMMA SumsNat ==
  ASSUME TypeOK
  PROVE  /\ SumOf(m) \in Nat /\ SumOf(new_map) \in Nat /\ CopiedSum \in Nat
         /\ lost \in Nat /\ words \in Nat /\ InHand \in Nat
         /\ IsFiniteSet(Slots(m.cap)) /\ Copied \in [Slots(m.cap) -> Nat]
<1>1. MapOK(m) /\ MapOK(new_map) /\ lost \in Nat /\ words \in Nat
  BY DEF TypeOK
<1>2. SumOf(m) \in Nat /\ SumOf(new_map) \in Nat /\ IsFiniteSet(Slots(m.cap))
  BY <1>1, SumOfNat
<1>3. Copied \in [Slots(m.cap) -> Nat]
  BY <1>1 DEF Copied, MapOK
<1>4. CopiedSum \in Nat
  BY <1>2, <1>3, SumNat DEF CopiedSum
<1> QED BY <1>1, <1>2, <1>3, <1>4 DEF InHand

LEMMA SumInit == Init => ZerosOK /\ SumBounded /\ SumExact
<1> SUFFICES ASSUME Init PROVE ZerosOK /\ SumBounded /\ SumExact
  OBVIOUS
<1>1. SumOf(m) = 0 /\ FreeIsZero(m) /\ InHand = 0 /\ lost = 0 /\ words = 0 /\ pc # "rehash"
  BY EmptySum, CapacityAssumption DEF Init, InHand
<1> QED BY <1>1 DEF ZerosOK, SumBounded, SumExact

\* A step of hash_map_insert: one to a value, one word lost, or no change; a map
\* that begins to grow has nothing in it.
LEMMA SumInsert ==
  ASSUME TypeOK, TypeOK', ZerosOK, Insert
  PROVE  /\ ZerosOK' /\ words' = words
         /\ SumOf(m)' + lost' + InHand' = SumOf(m) + lost + InHand
         /\ pc' = "rehash" => SumOf(new_map)' = 0 /\ CopiedSum' = 0
<1> USE DEF TypeOK
<1>0. /\ pc = "insert" /\ InHand = 1 /\ arg \in Key
      /\ SumOf(m) \in Nat /\ SumOf(m') \in Nat /\ lost \in Nat /\ lost' \in Nat
      /\ IsFiniteSet(Slots(m.cap)) /\ m.cap \in Nat /\ m.cap >= 3
  BY SumOfNat, SumsNat DEF Insert, InHand, MapOK
<1>1. PICK a \in attempt..m.cap : \/ InsertExisting(a) \/ InsertFree(a)
                                  \/ InsertNoMemory(a) \/ InsertGrow(a)
                                  \/ GrowNoMemory(a)
  BY DEF Insert
<1> DEFINE s == Slot(arg, m.cap, a)
<1>2. s \in Slots(m.cap)
  <2>1. a \in Nat
    BY <1>0
  <2> QED BY <1>0, <2>1, SlotInRange
<1>3. CASE InsertExisting(a)
  <2>1. m' = [m EXCEPT !.val[s] = @ + 1] /\ lost' = lost /\ words' = words /\ pc' = "idle"
        /\ m.key[s] # NoKey
    BY <1>0, <1>3, NoKeyAssumption DEF InsertExisting, Back
  <2> HIDE DEF s
  <2>2. /\ m'.val = [m.val EXCEPT ![s] = m.val[s] + 1] /\ m'.key = m.key /\ m'.cap = m.cap
        /\ m.val[s] \in Nat
    BY <1>2, <2>1 DEF MapOK
  <2>3. SumOf(m') + m.val[s] = SumOf(m) + (m.val[s] + 1)
    <3>1. m.val[s] + 1 \in Nat /\ MapOK(m) /\ MapOK(m')
      BY <2>2
    <3> DEFINE v == m.val[s] + 1
    <3>2. v \in Nat /\ m'.val = [m.val EXCEPT ![s] = v]
      BY <2>2
    <3> HIDE DEF v, TypeOK
    <3>3. SumOf(m') + m.val[s] = SumOf(m) + v
      BY <1>2, <2>2, <3>1, <3>2, ChangedSum
    <3> QED BY <3>3 DEF v
  <2>4. SumOf(m') = SumOf(m) + 1
    <3> HIDE DEF TypeOK
    <3> QED BY <1>0, <2>2, <2>3
  <2>5. FreeIsZero(m') /\ InHand' = 0
    BY <1>2, <2>1, <2>2 DEF ZerosOK, FreeIsZero, InHand, MapOK
  <2> QED BY <1>0, <2>1, <2>4, <2>5 DEF ZerosOK, SumOf, FreeIsZero
<1>4. CASE InsertFree(a)
  <2>1. /\ m' = Put(m, s, arg, 1) /\ m.key[s] = NoKey
        /\ lost' = lost /\ words' = words /\ pc' = "idle"
    BY <1>4 DEF InsertFree, Back
  <2>2. MapOK(m) /\ FreeIsZero(m) /\ 1 \in Nat
    BY DEF ZerosOK
  <2> HIDE DEF s, TypeOK
  <2>3. SumOf(m') = SumOf(m) + 1 /\ FreeIsZero(m')
    BY <1>0, <1>2, <2>1, <2>2, PutSum
  <2>4. InHand' = 0
    BY <2>1 DEF InHand
  <2> QED BY <1>0, <2>1, <2>3, <2>4 DEF ZerosOK, SumOf, FreeIsZero
<1>5. CASE InsertGrow(a)
  <2>1. /\ m' = m /\ new_map' = EmptyMap(2 * m.cap) /\ i' = 0 /\ pc' = "rehash"
        /\ lost' = lost /\ words' = words
    BY <1>5 DEF InsertGrow
  <2>2. 2 * m.cap \in Nat /\ 2 * m.cap >= 3
    BY <1>0
  <2>3. SumOf(new_map') = 0 /\ FreeIsZero(new_map')
    BY <2>1, <2>2, EmptySum
  <2>4. SumOver(Copied', Slots(m.cap)) = 0
    <3>1. \A t \in Slots(m.cap) : Copied'[t] = 0
      BY <2>1 DEF Copied, Slots, MapOK
    <3> QED BY <1>0, <3>1, SumZero
  <2>5. InHand' = 1
    BY <2>1 DEF InHand
  <2>6. CopiedSum' = 0
    BY <2>1, <2>4 DEF CopiedSum
  <2> QED BY <1>0, <2>1, <2>3, <2>5, <2>6 DEF ZerosOK, SumOf, FreeIsZero
<1>6. CASE InsertNoMemory(a)
  <2> HIDE DEF TypeOK
  <2>1. m' = m /\ words' = words /\ ReturnNull
    BY <1>6 DEF InsertNoMemory
  <2>2. SumOf(m') = SumOf(m)
    BY <2>1
  <2>3. CASE lost' = lost + 1 /\ Back
    <3>1. InHand' = 0 /\ pc' # "rehash"
      BY <2>3 DEF Back, InHand
    <3>2. SumOf(m') + lost' + 0 = SumOf(m) + lost + 1
      BY <1>0, <2>2, <2>3
    <3> QED BY <1>0, <2>1, <3>1, <3>2 DEF ZerosOK, SumOf, FreeIsZero
  <2>4. CASE pc' = pc /\ lost' = lost
    <3>1. InHand' = 1 /\ pc' # "rehash"
      BY <1>0, <2>4 DEF InHand
    <3> QED BY <1>0, <2>1, <2>2, <2>4, <3>1 DEF ZerosOK, SumOf, FreeIsZero
  <2> QED BY <2>1, <2>3, <2>4 DEF ReturnNull
<1>7. CASE GrowNoMemory(a)
  <2>1. m' = m /\ lost' = lost /\ words' = words /\ pc' = "crashed" /\ InHand' = 1
    BY <1>7 DEF GrowNoMemory, InHand
  <2> QED BY <1>0, <2>1 DEF ZerosOK, SumOf, FreeIsZero
<1> QED BY <1>1, <1>3, <1>4, <1>5, <1>6, <1>7

\* An unused node has no value to copy.
LEMMA SumSkip ==
  ASSUME TypeOK, TypeOK', ZerosOK, RehashSkip
  PROVE  ZerosOK' /\ SumOf(new_map)' = SumOf(new_map) /\ CopiedSum' = CopiedSum
<1> USE DEF TypeOK
<1>1. /\ m' = m /\ new_map' = new_map /\ i' = i + 1 /\ m.key[i] = NoKey /\ pc' = pc
      /\ i < m.cap /\ i \in Nat /\ pc = "rehash" /\ IsFiniteSet(Slots(m.cap))
  BY SumsNat DEF RehashSkip, MapOK
<1>2. m.val[i] = 0
  <2>1. i \in Slots(m.cap)
    BY <1>1 DEF Slots, MapOK
  <2> QED BY <1>1, <2>1 DEF ZerosOK, FreeIsZero
<1>3. \A s \in Slots(m.cap) : Copied'[s] = Copied[s]
  <2> TAKE s \in Slots(m.cap)
  <2>1. Copied'[s] = IF s < i + 1 THEN m.val[s] ELSE 0
    BY <1>1 DEF Copied
  <2>2. s \in Nat
    BY DEF Slots
  <2>3. CASE s = i
    BY <1>1, <1>2, <2>1, <2>3 DEF Copied
  <2>4. CASE s # i
    BY <1>1, <2>1, <2>2, <2>4 DEF Copied
  <2> QED BY <2>3, <2>4
<1>4. SumOver(Copied', Slots(m.cap)) = SumOver(Copied, Slots(m.cap))
  BY <1>1, <1>3, SumSame
<1> QED BY <1>1, <1>4 DEF ZerosOK, SumOf, FreeIsZero, CopiedSum

\* A copied value joins the others, or replaces one.
LEMMA SumCopy ==
  ASSUME TypeOK, TypeOK', ZerosOK, RehashCopy
  PROVE  /\ ZerosOK'
         /\ CopiedSum' = CopiedSum + m.val[i] /\ m.val[i] \in Nat
         /\ SumOf(new_map)' \in Nat /\ SumOf(new_map)' <= SumOf(new_map) + m.val[i]
         /\ HMInv => SumOf(new_map)' = SumOf(new_map) + m.val[i]
<1> DEFINE k == m.key[i]
           v == m.val[i]
<1>1. PICK a \in 0..new_map.cap :
         /\ Stops(new_map, k, a)
         /\ new_map' = Put(new_map, Slot(k, new_map.cap, a), k, v)
  BY DEF RehashCopy
<1> DEFINE t == Slot(k, new_map.cap, a)
<1>2. i \in Slots(m.cap) /\ k \in Key /\ v \in Nat /\ t \in Slots(new_map.cap)
  BY CopyPlace
<1>3. m' = m /\ i' = i + 1 /\ pc' = pc /\ pc = "rehash" /\ i \in Nat
  BY DEF RehashCopy, TypeOK, MapOK
<1>4. HMInv => new_map.key[t] = NoKey
  BY <1>1, <1>2, CopyFresh DEF Used
<1>5. /\ SumOf(new_map') \in Nat /\ SumOf(new_map') <= SumOf(new_map) + v
      /\ HMInv => SumOf(new_map') = SumOf(new_map) + v
      /\ FreeIsZero(new_map')
  <2> HIDE DEF k, v, t
  <2>1. MapOK(new_map) /\ FreeIsZero(new_map) /\ new_map' = Put(new_map, t, k, v)
    BY <1>1, <1>3 DEF ZerosOK, TypeOK, t
  <2> QED BY <1>2, <1>4, <2>1, PutSum
<1>6. Copied \in [Slots(m.cap) -> Nat] /\ IsFiniteSet(Slots(m.cap)) /\ CopiedSum \in Nat
  BY SumsNat
<1>7. /\ Copied'[i] = v /\ Copied[i] = 0
      /\ \A s \in Slots(m.cap) \ {i} : Copied[s] = Copied'[s]
      /\ Copied' \in [Slots(m.cap) -> Nat]
  <2>1. Copied' = [s \in Slots(m.cap) |-> IF s < i + 1 THEN m.val[s] ELSE 0]
    BY <1>3 DEF Copied
  <2>2. \A s \in Slots(m.cap) \ {i} : s < i + 1 <=> s < i
    BY <1>3 DEF Slots
  <2>3. m.val \in [Slots(m.cap) -> Nat]
    BY DEF TypeOK, MapOK
  <2>4. Copied' \in [Slots(m.cap) -> Nat]
    BY <2>1, <2>3
  <2>5. Copied'[i] = v /\ Copied[i] = 0
    BY <1>2, <1>3, <2>1 DEF Copied
  <2> QED BY <2>1, <2>2, <2>4, <2>5 DEF Copied
<1>8. SumOver(Copied', Slots(m.cap)) + Copied[i] = SumOver(Copied, Slots(m.cap)) + Copied'[i]
  <2> HIDE DEF k, v, t
  <2> QED BY <1>2, <1>6, <1>7, SumChange
<1>9. SumOver(Copied', Slots(m.cap)) \in Nat
  BY <1>6, <1>7, SumNat
<1>10. CopiedSum' = CopiedSum + v
  <2> HIDE DEF v
  <2> QED BY <1>2, <1>3, <1>6, <1>7, <1>8, <1>9 DEF CopiedSum
<1> QED BY <1>2, <1>3, <1>5, <1>10 DEF ZerosOK, SumOf, FreeIsZero

\* When the copying is done, every value has been visited.
LEMMA SumDone ==
  ASSUME TypeOK, ZerosOK, RehashDone
  PROVE  ZerosOK' /\ SumOf(m)' = SumOf(new_map) /\ CopiedSum = SumOf(m)
<1>1. m' = new_map /\ i = m.cap /\ pc' = "insert" /\ pc = "rehash"
  BY DEF RehashDone
<1>2. \A s \in Slots(m.cap) : Copied[s] = m.val[s]
  BY <1>1 DEF Copied, Slots, TypeOK, MapOK
<1>3. IsFiniteSet(Slots(m.cap))
  BY SumsNat
<1>4. SumOver(Copied, Slots(m.cap)) = SumOf(m)
  BY <1>2, <1>3, SumSame DEF SumOf
<1> QED BY <1>1, <1>4 DEF ZerosOK, FreeIsZero, SumOf, CopiedSum

\* What a step adds to the words lost and in hand, it adds to the words given.
LEMMA SumOther ==
  ASSUME TypeOK, TypeOK', ZerosOK,
         \/ \E k \in Key : TakeWord(k) \/ Look(k)
         \/ InsertExhausted \/ RehashAbort \/ GetMiss \/ GetReturn \/ UNCHANGED vars
  PROVE  /\ ZerosOK'
         /\ SumOf(m)' = SumOf(m) /\ lost' + InHand' + words = lost + InHand + words'
         /\ pc' = "rehash" => /\ pc = "rehash"
                              /\ SumOf(new_map)' = SumOf(new_map) /\ CopiedSum' = CopiedSum
<1>1. lost \in Nat /\ words \in Nat
  BY DEF TypeOK
<1>2. /\ m' = m /\ lost' + InHand' + words = lost + InHand + words'
      /\ pc' = "rehash" => pc = "rehash" /\ new_map' = new_map /\ i' = i
  BY <1>1 DEF TakeWord, Look, InsertExhausted, ReturnNull, RehashAbort, GetMiss, GetReturn,
     Back, vars, InHand
<1>3. SumOf(m)' = SumOf(m) /\ FreeIsZero(m)' = FreeIsZero(m)
  BY <1>2 DEF SumOf, FreeIsZero
<1>4. pc' = "rehash" => /\ pc = "rehash" /\ SumOf(new_map)' = SumOf(new_map)
                        /\ FreeIsZero(new_map)' = FreeIsZero(new_map)
                        /\ CopiedSum' = CopiedSum
  BY <1>2 DEF SumOf, FreeIsZero, Copied, CopiedSum
<1> QED BY <1>2, <1>3, <1>4 DEF ZerosOK

LEMMA SumStep ==
  ASSUME TypeOK, TypeOK', ZerosOK, [Next]_vars
  PROVE  /\ ZerosOK'
         /\ SumBounded => SumBounded'
         /\ SumExact /\ HMInv => SumExact'
<1>1. /\ SumOf(m) \in Nat /\ SumOf(new_map) \in Nat /\ CopiedSum \in Nat
      /\ lost \in Nat /\ words \in Nat /\ InHand \in Nat
  BY SumsNat
<1>2. /\ SumOf(m)' \in Nat /\ SumOf(new_map)' \in Nat
      /\ lost' \in Nat /\ words' \in Nat /\ InHand' \in Nat
  <2>1. MapOK(m') /\ MapOK(new_map') /\ lost' \in Nat /\ words' \in Nat
    BY DEF TypeOK, MapOK
  <2>2. SumOf(m') \in Nat /\ SumOf(new_map') \in Nat
    BY <2>1, SumOfNat
  <2> QED BY <2>1, <2>2 DEF SumOf, InHand
<1>3. CASE Insert
  <2>1. pc # "rehash"
    BY <1>3 DEF Insert
  <2> QED BY <1>1, <1>2, <1>3, <2>1, SumInsert DEF SumBounded, SumExact
<1>4. CASE RehashSkip
  <2>1. /\ SumOf(m)' = SumOf(m) /\ lost' = lost /\ words' = words /\ InHand' = InHand
        /\ pc = "rehash"
    BY <1>4 DEF RehashSkip, SumOf, InHand
  <2> QED BY <1>4, <2>1, SumSkip DEF SumBounded, SumExact
<1>5. CASE RehashCopy
  <2>1. /\ SumOf(m)' = SumOf(m) /\ lost' = lost /\ words' = words /\ InHand' = InHand
        /\ pc = "rehash"
    BY <1>5 DEF RehashCopy, SumOf, InHand
  <2> QED BY <1>1, <1>2, <1>5, <2>1, SumCopy DEF SumBounded, SumExact
<1>6. CASE RehashDone
  <2>1. /\ lost' = lost /\ words' = words /\ InHand' = InHand
        /\ pc = "rehash" /\ pc' = "insert"
    BY <1>6 DEF RehashDone, InHand
  <2> QED BY <1>1, <1>2, <1>6, <2>1, SumDone DEF SumBounded, SumExact
<1>7. CASE \/ \E k \in Key : TakeWord(k) \/ Look(k)
           \/ InsertExhausted \/ RehashAbort \/ GetMiss \/ GetReturn \/ UNCHANGED vars
  <2>1. /\ ZerosOK'
        /\ SumOf(m)' = SumOf(m) /\ lost' + InHand' + words = lost + InHand + words'
        /\ pc' = "rehash" => /\ pc = "rehash"
                             /\ SumOf(new_map)' = SumOf(new_map) /\ CopiedSum' = CopiedSum
    BY <1>7, SumOther
  <2> QED BY <1>1, <1>2, <2>1 DEF SumBounded, SumExact
<1> QED BY <1>3, <1>4, <1>5, <1>6, <1>7 DEF Next, Running

\* Whatever malloc does, no word is in the sum of the values twice: a key stored
\* again by a retry starts from nothing, and copying it replaces a value.
THEOREM NoneCountedTwiceCorrect == Spec => []NoneCountedTwice
<1>1. TypeOK /\ TypeOK' /\ ZerosOK /\ SumBounded /\ [Next]_vars => ZerosOK' /\ SumBounded'
  BY SumStep
<1>2. SumBounded => NoneCountedTwice
  BY DEF SumBounded, NoneCountedTwice, Counted, SumOf, SumOver
<1> QED BY <1>1, <1>2, SumInit, TypeCorrect, PTL DEF Spec

\* No word vanishes either, also in the middle of a rehash, while no retry leaves
\* out an attempt: the values of the map, the words that were skipped and the word
\* in hand are the words handed over.
THEOREM EveryWordAccountedCorrect ==
  /\ Spec /\ []FreshAttempts => []EveryWordAccounted
  /\ ~MallocMayFail => (Spec => []EveryWordAccounted)
<1>1. Spec /\ []FreshAttempts => []EveryWordAccounted
  <2>1. HMInv /\ TypeOK /\ TypeOK' /\ ZerosOK /\ SumExact /\ [Next]_vars
          => ZerosOK' /\ SumExact'
    BY SumStep
  <2>2. SumExact => EveryWordAccounted
    BY DEF SumExact, EveryWordAccounted, Counted, SumOf, SumOver
  <2> QED BY <2>1, <2>2, SumInit, InductiveInv, TypeCorrect, PTL DEF Spec
<1>2. CASE ~MallocMayFail
  <2>1. Spec => []FreshAttempts
    BY <1>2, FreshAttemptsCorrect
  <2> QED BY <1>1, <2>1, PTL
<1> QED BY <1>1, <1>2
=============================================================================
