------------------------------- MODULE HashMap -------------------------------
(***************************************************************************)
(* The open addressing hash map of frequency_dictionary/include/hash_map.h *)
(* as its callers use it: hash_map_init of frequency_dict.h counts words   *)
(* with hash_map_insert, the tests look words up with hash_map_get_node.   *)
(*                                                                         *)
(* One thread owns a map, so a probe loop of hash_map_insert is one step;  *)
(* each iteration of the loop of hash_map_rehash is a step of its own, and *)
(* each probe of hash_map_get_node is, because that loop has no bound.     *)
(* Strings are abstracted to the keys of Key and the 32-bit value Hash     *)
(* gives them, and the capacities stay as small as an instance needs.      *)
(***************************************************************************)
EXTENDS Integers, Sequences, FiniteSetsExt

CONSTANTS Key,            \* the words
          NoKey,          \* a NULL key pointer
          Hash,           \* pirsons_hash of each word
          InitCapacity,   \* what create_hash_map is given
          MaxWords,       \* bound: calls of hash_map_insert
          MallocMayFail   \* whether malloc and calloc may return NULL

\* count - 1 is a divisor and count is capacity - 1 (hash_map.h:54, :132)
ASSUME CapacityAssumption == InitCapacity \in Nat /\ InitCapacity >= 3
ASSUME HashAssumption == Hash \in [Key -> Nat]
ASSUME NoKeyAssumption == NoKey \notin Key
ASSUME BoundAssumption == MaxWords \in Nat /\ MallocMayFail \in BOOLEAN

VARIABLES m,         \* the map
          new_map,   \* the map hash_map_rehash fills
          i,         \* its loop counter
          pc, arg,   \* where the caller is, and the key it passed
          attempt,   \* attempt_idx where the probe loop goes on (that of
                     \* hash_map_get_node modulo its period)
          outer,     \* attempt_idx of the hash_map_insert that called itself
                     \* after a rehash and waits: the last caller comes first
          words,     \* words handed over so far
          lost       \* words hash_map_insert returned NULL for

vars == <<m, new_map, i, pc, arg, attempt, outer, words, lost>>

----------------------------------------------------------------------------
(* The map and its probe sequence.                                         *)

Slots(cap) == 0..cap - 1

EmptyMap(cap) == [cap  |-> cap,
                  size |-> 0,
                  key  |-> [s \in Slots(cap) |-> NoKey],
                  val  |-> [s \in Slots(cap) |-> 0]]

\* the slot of attempt a: double hashing over count = capacity - 1 slots
Slot(k, cap, a) == LET count == cap - 1
                   IN  ((Hash[k] % count) + a * ((Hash[k] % (count - 1)) + 1)) % count

\* mutant: the map may fill up
Threshold_Full(cap) == cap

\* (size_t)((float)capacity * REHASH_FACTOR)
Threshold(cap) == (33 * cap) \div 100

\* the probe loop of hash_map_insert, begun at attempt from, stops at attempt a
Passes(mp, k, a) == mp.key[Slot(k, mp.cap, a)] \notin {NoKey, k}
StopsFrom(mp, k, from, a) == /\ ~Passes(mp, k, a)
                             /\ \A b \in from..a - 1 : Passes(mp, k, b)
Stops(mp, k, a) == StopsFrom(mp, k, 0, a)

\* attempt_idx > capacity: the loop gives up
ExhaustedFrom(mp, k, from) == \A a \in from..mp.cap : Passes(mp, k, a)
Exhausted(mp, k) == ExhaustedFrom(mp, k, 0)

\* the slot is k's, with v as its value; it counts as one more if it was free
Put(mp, s, k, v) == [cap  |-> mp.cap,
                     size |-> IF mp.key[s] = NoKey THEN mp.size + 1 ELSE mp.size,
                     key  |-> [mp.key EXCEPT ![s] = k],
                     val  |-> [mp.val EXCEPT ![s] = v]]

----------------------------------------------------------------------------
Init == /\ m = EmptyMap(InitCapacity)
        /\ new_map = EmptyMap(InitCapacity)
        /\ i = 0
        /\ pc = "idle"
        /\ arg = NoKey
        /\ attempt = 0
        /\ outer = <<>>
        /\ words = 0
        /\ lost = 0

\* hash_map_init takes the next word of the file
TakeWord(k) == /\ pc = "idle" /\ words < MaxWords
               /\ pc' = "insert" /\ arg' = k /\ attempt' = 0 /\ words' = words + 1
               /\ UNCHANGED <<m, new_map, i, outer, lost>>

\* every call of insert or get returns; the caller goes on to its next word
Back == pc' = "idle" /\ arg' = NoKey /\ attempt' = 0 /\ outer' = <<>>

\* hash_map_insert returns NULL: its caller skips the word, but the insert that
\* called itself goes round its loop, in the grown map and at the attempt where
\* it had stopped in the smaller one
ReturnNull == \/ outer = <<>> /\ lost' = lost + 1 /\ Back
              \/ /\ outer # <<>>
                 /\ attempt' = Head(outer) /\ outer' = Tail(outer)
                 /\ UNCHANGED <<pc, arg, lost>>

\* mutant: the value of an existing node is set, as a new node's is
InsertExisting_Reset(a) ==
    LET s == Slot(arg, m.cap, a)
    IN  /\ m.key[s] = arg
        /\ m' = [m EXCEPT !.val[s] = 1]
        /\ Back
        /\ UNCHANGED <<new_map, i, words, lost>>

\* the key is in the map already: its node is returned and counted
InsertExisting(a) ==
    LET s == Slot(arg, m.cap, a)
    IN  /\ m.key[s] = arg
        /\ m' = [m EXCEPT !.val[s] = @ + 1]
        /\ Back
        /\ UNCHANGED <<new_map, i, words, lost>>

\* mutant: the call that inserted after a rehash counts the word, and its
\* caller does too
InsertFree_BothCount(a) ==
    LET s == Slot(arg, m.cap, a)
    IN  /\ m.key[s] = NoKey /\ m.size < Threshold(m.cap)
        /\ m' = Put(m, s, arg, 1 + Len(outer))
        /\ Back
        /\ UNCHANGED <<new_map, i, words, lost>>

\* a free node, and the load factor leaves room for one more
InsertFree(a) ==
    LET s == Slot(arg, m.cap, a)
    IN  /\ m.key[s] = NoKey /\ m.size < Threshold(m.cap)
        /\ m' = Put(m, s, arg, 1)
        /\ Back
        /\ UNCHANGED <<new_map, i, words, lost>>

\* the same, but malloc of the new key fails
InsertNoMemory(a) ==
    /\ MallocMayFail
    /\ m.key[Slot(arg, m.cap, a)] = NoKey /\ m.size < Threshold(m.cap)
    /\ ReturnNull
    /\ UNCHANGED <<m, new_map, i, words>>

\* mutant: the map is halved
InsertGrow_Halve(a) ==
    /\ m.key[Slot(arg, m.cap, a)] = NoKey /\ m.size >= Threshold(m.cap)
    /\ new_map' = EmptyMap(m.cap \div 2) /\ i' = 0
    /\ outer' = <<a>> \o outer
    /\ pc' = "rehash"
    /\ UNCHANGED <<m, arg, attempt, words, lost>>

\* a free node, but the load factor is reached: hash_map_rehash is called
InsertGrow(a) ==
    /\ m.key[Slot(arg, m.cap, a)] = NoKey /\ m.size >= Threshold(m.cap)
    /\ new_map' = EmptyMap(2 * m.cap) /\ i' = 0
    /\ outer' = <<a>> \o outer
    /\ pc' = "rehash"
    /\ UNCHANGED <<m, arg, attempt, words, lost>>

\* create_hash_map of the larger map returns NULL, which is then used
GrowNoMemory(a) ==
    /\ MallocMayFail
    /\ m.key[Slot(arg, m.cap, a)] = NoKey /\ m.size >= Threshold(m.cap)
    /\ pc' = "crashed"
    /\ UNCHANGED <<m, new_map, i, arg, attempt, outer, words, lost>>

Insert == /\ pc = "insert"
          /\ \E a \in attempt..m.cap : /\ StopsFrom(m, arg, attempt, a)
                                       /\ \/ InsertExisting(a)
                                          \/ InsertFree(a)
                                          \/ InsertNoMemory(a)
                                          \/ InsertGrow(a)
                                          \/ GrowNoMemory(a)

\* every attempt met another key
InsertExhausted == /\ pc = "insert" /\ ExhaustedFrom(m, arg, attempt)
                   /\ ReturnNull
                   /\ UNCHANGED <<m, new_map, i, words>>

\* an unused node of the old map is skipped
RehashSkip == /\ pc = "rehash" /\ i < m.cap /\ m.key[i] = NoKey
              /\ i' = i + 1
              /\ UNCHANGED <<m, new_map, pc, arg, attempt, outer, words, lost>>

\* mutant: the node keeps its index, as the capacity is only a bound
RehashCopy_SameNode ==
    /\ pc = "rehash" /\ i < m.cap /\ m.key[i] # NoKey
    /\ new_map' = Put(new_map, i, m.key[i], m.val[i])
    /\ i' = i + 1
    /\ UNCHANGED <<m, pc, arg, attempt, outer, words, lost>>

\* mutant: the value stays behind
RehashCopy_NoValue ==
    /\ pc = "rehash" /\ i < m.cap /\ m.key[i] # NoKey
    /\ \E a \in 0..new_map.cap :
          /\ Stops(new_map, m.key[i], a)
          /\ new_map' = Put(new_map, Slot(m.key[i], new_map.cap, a), m.key[i], 0)
    /\ i' = i + 1
    /\ UNCHANGED <<m, pc, arg, attempt, outer, words, lost>>

\* a used one is inserted into the new map, with its value, over that of a node
\* that has its key already; the new map's load factor leaves room (RehashFits)
RehashCopy == /\ pc = "rehash" /\ i < m.cap /\ m.key[i] # NoKey
              /\ \E a \in 0..new_map.cap :
                    /\ Stops(new_map, m.key[i], a)
                    /\ new_map' = Put(new_map, Slot(m.key[i], new_map.cap, a), m.key[i], m.val[i])
              /\ i' = i + 1
              /\ UNCHANGED <<m, pc, arg, attempt, outer, words, lost>>

\* or fails: assert(NULL != inserted)
RehashAbort == /\ pc = "rehash" /\ i < m.cap /\ m.key[i] # NoKey
               /\ \/ Exhausted(new_map, m.key[i])
                  \/ /\ MallocMayFail
                     /\ \E a \in 0..new_map.cap :
                           /\ Stops(new_map, m.key[i], a)
                           /\ new_map.key[Slot(m.key[i], new_map.cap, a)] = NoKey
               /\ pc' = "crashed"
               /\ UNCHANGED <<m, new_map, i, arg, attempt, outer, words, lost>>

\* mutant: the word that made the map grow is not inserted
RehashDone_NoRetry ==
    /\ pc = "rehash" /\ i = m.cap
    /\ m' = new_map
    /\ new_map' = EmptyMap(InitCapacity) /\ i' = 0
    /\ Back
    /\ UNCHANGED <<words, lost>>

\* mutant: the nodes are swapped, the capacities are not
RehashDone_NoSwap ==
    /\ pc = "rehash" /\ i = m.cap
    /\ m' = [new_map EXCEPT !.cap = m.cap]
    /\ new_map' = EmptyMap(InitCapacity) /\ i' = 0
    /\ pc' = "insert" /\ attempt' = 0
    /\ UNCHANGED <<arg, outer, words, lost>>

\* hash_map_swap_data, and the old map is removed; hash_map_insert then
\* calls itself on the grown map
RehashDone == /\ pc = "rehash" /\ i = m.cap
              /\ m' = new_map
              /\ new_map' = EmptyMap(InitCapacity) /\ i' = 0
              /\ pc' = "insert" /\ attempt' = 0
              /\ UNCHANGED <<arg, outer, words, lost>>

\* hash_map_get_node is called for a key, present or not
Look(k) == /\ pc = "idle"
           /\ pc' = "get" /\ arg' = k /\ attempt' = 0
           /\ UNCHANGED <<m, new_map, i, outer, words, lost>>

\* another key is met: the loop goes on, whatever the number of attempts
\* (the slots of the attempts repeat after count of them)
GetMiss == /\ pc = "get" /\ Passes(m, arg, attempt)
           /\ attempt' = (attempt + 1) % (m.cap - 1)
           /\ UNCHANGED <<m, new_map, i, pc, arg, outer, words, lost>>

\* the key or a free node ends it; the test compares the value it finds
GetReturn == /\ pc = "get" /\ ~Passes(m, arg, attempt)
             /\ Back
             /\ UNCHANGED <<m, new_map, i, words, lost>>

Running == \/ Insert \/ InsertExhausted
           \/ RehashSkip \/ RehashCopy \/ RehashAbort \/ RehashDone
           \/ GetMiss \/ GetReturn

Next == \/ \E k \in Key : TakeWord(k) \/ Look(k)
        \/ Running

Spec == Init /\ [][Next]_vars

\* a call that has begun is executed by its thread until it returns
FairSpec == Spec /\ WF_vars(Running)

----------------------------------------------------------------------------
(* Properties.                                                             *)

MapOK(mp) == /\ mp = [cap |-> mp.cap, size |-> mp.size, key |-> mp.key, val |-> mp.val]
             /\ mp.cap \in Nat /\ mp.cap >= 3
             /\ mp.size \in Nat
             /\ mp.key \in [Slots(mp.cap) -> Key \cup {NoKey}]
             /\ mp.val \in [Slots(mp.cap) -> Nat]

TypeOK == /\ MapOK(m) /\ MapOK(new_map)
          /\ i \in 0..m.cap
          /\ pc \in {"idle", "insert", "rehash", "get", "crashed"}
          /\ arg \in Key \cup {NoKey}
          /\ pc \in {"insert", "rehash", "get"} => arg \in Key
          /\ attempt \in Nat /\ outer \in Seq(Nat) /\ words \in Nat /\ lost \in Nat

Used(mp) == {s \in Slots(mp.cap) : mp.key[s] # NoKey}

Reached(mp) == \A s \in Used(mp) :
                  \E a \in 0..mp.cap : /\ Slot(mp.key[s], mp.cap, a) = s
                                       /\ \A b \in 0..a - 1 : Passes(mp, mp.key[s], b)

\* A stored key is met by the probes of its own look-up before any free
\* node is, in the map and in the larger one being filled: so no key is
\* stored twice, and none is forgotten behind a free node (hash_map.h:113-121,
\* :128-167).  It rests on the probes of an insert starting at attempt 0, which
\* those of a retry after a failed malloc do not.
Findable == Reached(m) /\ Reached(new_map)

\* What Findable rests on: the attempts hash_map_insert leaves out, because its
\* loop had passed them before it called itself, still meet other keys.
FreshAttempts == pc = "insert" => \A b \in 0..attempt - 1 : Passes(m, arg, b)

ValueOf(mp, k) == IF \E s \in Used(mp) : mp.key[s] = k
                  THEN mp.val[CHOOSE s \in Used(mp) : mp.key[s] = k]
                  ELSE 0

\* Growing loses nothing: at every step of hash_map_rehash the new map holds
\* the keys of the nodes already visited, each with its value, and no other.
RehashCopies ==
    pc = "rehash" =>
        /\ \A s \in Used(m) : s < i => \E t \in Used(new_map) : /\ new_map.key[t] = m.key[s]
                                                                /\ new_map.val[t] = m.val[s]
        /\ \A t \in Used(new_map) : \E s \in Used(m) : s < i /\ m.key[s] = new_map.key[t]

\* hash_map_rehash inserts into a map that has room below its own load
\* factor, so it never calls itself.
RehashFits == pc = "rehash" /\ i < m.cap /\ m.key[i] # NoKey
                 => new_map.size < Threshold(new_map.cap)

Counted == MapThenSumSet(LAMBDA s : m.val[s], Slots(m.cap))
InHand == IF pc \notin {"idle", "get"} THEN 1 ELSE 0

\* Every word handed over is in the sum of the values, was skipped after a
\* NULL, or is the one being inserted: none is counted twice or vanishes
\* (hash_map.h:128-168, :182-199), as long as malloc does not fail.
EveryWordAccounted == Counted + lost + InHand = words

\* Where malloc may fail too, a word is at most once in the values, the words
\* skipped and the one in hand: a retry that stores a key again, or a rehash
\* that meets both copies of it, may forget counts but invents none.
NoneCountedTwice == Counted + lost + InHand <= words

\* hash_map_insert "creates a new node or assigned a node value if key exists in
\* the hash-map" (hash_map.h:126-127): no key has two nodes.
KeyStoredOnce == \A s, t \in Used(m) : m.key[s] = m.key[t] => s = t

\* hash_map_insert returns a node for every word (hash_map.h:126-127), so no
\* word of the file is skipped.
NoWordLost == lost = 0

\* A map that grows takes over all its nodes: assert(NULL != inserted) of
\* hash_map_rehash (hash_map.h:193) never fails.
RehashCompletes == pc # "crashed"

\* hash_map_init counts words: between two words the map is the frequency
\* dictionary of the words handed over.
Dict == INSTANCE FrequencyDict
            WITH Nobody <- NoKey,
                 counts <- [k \in Key |-> ValueOf(m, k)],
                 word   <- IF pc = "get" THEN NoKey ELSE arg

CountsWords == Dict!Spec

\* Every call returns: hash_map_insert after at most capacity + 1 attempts,
\* hash_map_get_node because it meets the key or a free node.
CallsReturn == pc # "idle" ~> pc = "idle"

\* hash_map_rehashing_test (dictionary_test.c:66-67): a map created with
\* four nodes holds two keys without growing.
FourNodesHoldTwoKeys == pc = "idle" /\ m.size <= 2 => m.cap = InitCapacity

=============================================================================
