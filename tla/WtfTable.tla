------------------------------ MODULE WtfTable ------------------------------
(***************************************************************************)
(* wait_free_hash_map/include/wtf_table.h: a hash trie whose slots are     *)
(* atomic pointer words.  A word is NULL, a pointer to a node, or a        *)
(* pointer to a sub-array (bit 1 of the pointer is set); bit 0 of a word   *)
(* is the "mark" that an inserter sets after too many failed attempts.     *)
(*                                                                         *)
(* One action is one access to shared memory (an atomic load, a CAS, a     *)
(* fetch_or, a read of a node's field, a free) together with the local     *)
(* computation that follows it.  A 64-bit hash is written as its base-64   *)
(* digits, least significant first: digit l is the position the code       *)
(* computes at level l by `hash & (ARR_SZ - 1); hash >>= BIT_SHIFT`.       *)
(***************************************************************************)
EXTENDS Integers, FiniteSets

CONSTANTS
  Inserters,      \* threads that call wtf_table_insert
  Finders,        \* threads that call wtf_table_find
  ARR_SZ, MAX_LVL, MAX_LVL_ARR_SZ, MAX_FAIL_CNT,
  FAIL_CNT_MOD,   \* fail_count is a uint8_t: 256, less in small instances
  Hash,           \* the hashes the callers use
  HashesOf,       \* the hashes each inserter inserts
  Addr,           \* addresses malloc can return for a node_t
  ArrId,          \* sub-arrays malloc can return; HeadArr is t->head_
  HeadArr,
  MaxOps,         \* bound on the number of calls
  Recycle         \* does free() hand memory out again while a stale pointer
                  \* to it exists (malloc/free), or not (a collecting allocator)

Threads == Inserters \cup Finders
Slots   == 0 .. ARR_SZ - 1
Levels  == 0 .. MAX_LVL
FailCount == 0 .. FAIL_CNT_MOD - 1
Value   == 1 .. MaxOps      \* the value_ of the n-th insert is n
NoValue == 0
Junk    == -1               \* what a read of reused memory may return
Pending == -2

\* CUR_ARR_SZ: the last level holds the remaining high bits of the hash.
CUR_ARR_SZ(lvl) == IF lvl < MAX_LVL THEN ARR_SZ ELSE MAX_LVL_ARR_SZ

ASSUME SizesAssumption ==
  /\ ARR_SZ \in Nat \ {0} /\ MAX_LVL \in Nat /\ MAX_FAIL_CNT \in Nat
  /\ MAX_LVL_ARR_SZ \in 1 .. ARR_SZ /\ FAIL_CNT_MOD \in Nat \ {0}
  /\ MaxOps \in Nat
ASSUME HashAssumption ==
  /\ Hash \subseteq [Levels -> Slots]
  /\ \A h \in Hash : h[MAX_LVL] < MAX_LVL_ARR_SZ
  /\ Hash # {} /\ HashesOf \in [Inserters -> SUBSET Hash]
ASSUME MemoryAssumption ==
  /\ ArrId \subseteq Int /\ IsFiniteSet(ArrId) /\ HeadArr \in ArrId
  /\ Addr \subseteq Int /\ Recycle \in BOOLEAN

-----------------------------------------------------------------------------
\* Pointer words and the tag operations on them.

Word == [kind : {"null"},  ref : {HeadArr}, mark : BOOLEAN] \cup
        [kind : {"node"},  ref : Addr,      mark : BOOLEAN] \cup
        [kind : {"array"}, ref : ArrId,     mark : BOOLEAN]
Null         == [kind |-> "null",  ref |-> HeadArr, mark |-> FALSE]
NodeWord(a)  == [kind |-> "node",  ref |-> a, mark |-> FALSE]
ArrayWord(i) == [kind |-> "array", ref |-> i, mark |-> FALSE]
Marked(w)    == [w EXCEPT !.mark = TRUE]
get_unmarked_node(w) == [w EXCEPT !.mark = FALSE]
is_array(w)          == w.kind = "array"
is_node_marked(w)    == w.mark

VARIABLES
  arr,     \* the slots of every array
  pool,    \* arrays not allocated
  heap,    \* every node_t: its hash_, its value_, and whether it is allocated
  leaked,  \* kinds of memory that were allocated and dropped
  pc, arg, at, cur, exp, res,   \* the locals of the threads
  ops      \* calls made so far

mem  == <<arr, pool, heap, leaked>>
loc  == <<arg, at, cur, exp, res>>
vars == <<mem, pc, loc, ops>>

Empty  == [s \in Slots |-> Null]
NoArg  == [op |-> "none", hash |-> CHOOSE h \in Hash : TRUE, value |-> NoValue,
           node |-> Null]
AtHead == [arr |-> HeadArr, lvl |-> 0, fail |-> 0]
NoExp  == [node |-> Null, arr |-> HeadArr]

InsertPCs == {"mark", "load", "cas_null", "reload_null", "cmp_null", "cmp",
              "cas_upd", "reload_upd", "exp_load", "exp_fill", "exp_cas"}
FindPCs   == {"f_load", "f_cmp", "f_val"}
PCs       == InsertPCs \cup FindPCs \cup {"idle", "free", "ret", "wild"}

Init ==
  /\ arr    = [i \in ArrId |-> Empty]
  /\ pool   = ArrId \ {HeadArr}
  /\ heap   = [a \in Addr |-> [st |-> "free", hash |-> NoArg.hash,
                               value |-> NoValue]]
  /\ leaked = {}
  /\ pc     = [t \in Threads |-> "idle"]
  /\ arg    = [t \in Threads |-> NoArg]
  /\ at     = [t \in Threads |-> AtHead]
  /\ cur    = [t \in Threads |-> Null]
  /\ exp    = [t \in Threads |-> NoExp]
  /\ res    = [t \in Threads |-> Pending]
  /\ ops    = 0

-----------------------------------------------------------------------------
\* Shared memory: the slot a thread works on, and reads through a node pointer.

Pos(t)  == arg[t].hash[at[t].lvl]
Slot(t) == arr[at[t].arr][Pos(t)]
SetSlot(t, w) == [arr EXCEPT ![at[t].arr][Pos(t)] = w]

\* A pointer whose target is a live, untagged node reads that node.  A tagged
\* pointer reads unrelated bytes; freed memory is intact only without reuse.
Readable(w) == /\ w.kind = "node" /\ ~w.mark
               /\ heap[w.ref].st = "live" \/ ~Recycle
\* The outcomes of `w->hash_ == hash` and of reading `w->value_`.
HashEquals(w, h) == IF Readable(w) THEN {heap[w.ref].hash = h} ELSE BOOLEAN
ReadValue(w)     == IF Readable(w) THEN {heap[w.ref].value} ELSE {Junk}
\* expanded_node_new_pos: a digit of the hash read through the loaded pointer.
\* Below the last level the shift count exceeds the width of size_t.
NewPos(w, lvl) ==
  IF Readable(w) /\ lvl < MAX_LVL THEN {heap[w.ref].hash[lvl + 1]}
                                  ELSE 0 .. CUR_ARR_SZ(lvl + 1) - 1

\* What malloc may return: fresh memory (which fresh address it is does not
\* matter, so the least one) or, with Recycle, any freed node's memory.
Fresh == {a \in Addr : heap[a].st = "free"}
Allocatable ==
  {a \in Addr : \/ a \in Fresh /\ (\A b \in Fresh : a <= b)
                \/ Recycle /\ heap[a].st = "dead"}
Freed(a) == [heap EXCEPT ![a].st = "dead"]

-----------------------------------------------------------------------------
\* How the local code continues after an access.

Goto(t, l) == pc' = [pc EXCEPT ![t] = l]
See(t, w)  == cur' = [cur EXCEPT ![t] = w]

Ret(t, r) ==
  /\ Goto(t, "ret")
  /\ res' = [res EXCEPT ![t] = r]
  /\ at'  = [at EXCEPT ![t] = AtHead]
  /\ See(t, Null)
  /\ exp' = [exp EXCEPT ![t] = NoExp]

\* Mutant: the outer loop stops one level early.
Descend_OneLevelShort(t, i) ==
  IF at[t].lvl < MAX_LVL - 1
  THEN /\ at' = [at EXCEPT ![t] = [arr |-> i, lvl |-> @.lvl + 1, fail |-> 0]]
       /\ Goto(t, "load")
       /\ See(t, Null)
       /\ exp' = [exp EXCEPT ![t] = NoExp]
       /\ UNCHANGED <<leaked, res>>
  ELSE leaked' = leaked \cup {"node"} /\ Ret(t, 0)

\* `cur_arr = ...; break;` and the for loop's `shift += BIT_SHIFT`; leaving the
\* loop at the bottom returns false and forgets new_node.
Descend(t, i) ==
  IF at[t].lvl < MAX_LVL
  THEN /\ at' = [at EXCEPT ![t] = [arr |-> i, lvl |-> @.lvl + 1, fail |-> 0]]
       /\ Goto(t, "load")
       /\ See(t, Null)
       /\ exp' = [exp EXCEPT ![t] = NoExp]
       /\ UNCHANGED <<leaked, res>>
  ELSE /\ leaked' = leaked \cup {"node"}
       /\ Ret(t, 0)

\* get_unmarked_array clears bit 1 only: a word that is also marked yields a
\* misaligned cur_arr, and the call goes on to load and compare_exchange words
\* that straddle two slots.  The model ends there: see Next.
Follow(t, w) ==
  IF is_node_marked(w) /\ at[t].lvl < MAX_LVL
  THEN Goto(t, "wild") /\ UNCHANGED <<at, cur, exp, leaked, res>>
  ELSE Descend(t, w.ref)

\* `++fail_count` (a uint8_t), then the test at the top of the inner loop.
Fail(t) ==
  LET n == (at[t].fail + 1) % FAIL_CNT_MOD
  IN  /\ at' = [at EXCEPT ![t].fail = n]
      /\ Goto(t, IF n > MAX_FAIL_CNT THEN "mark" ELSE "load")
      /\ See(t, Null)
      /\ exp' = [exp EXCEPT ![t] = NoExp]
      /\ UNCHANGED res

\* Mutant: the node that is not needed is not freed.
DropNew_Leak(t) == Ret(t, 1) /\ UNCHANGED <<heap, leaked>>

\* `free(new_node); return true;`
DropNew(t) == heap' = Freed(arg[t].node.ref) /\ Ret(t, 1) /\ UNCHANGED leaked

-----------------------------------------------------------------------------
\* wtf_table_insert

InvokeInsert(t, h) ==
  /\ pc[t] = "idle" /\ ops < MaxOps
  /\ ops' = ops + 1
  /\ UNCHANGED <<arr, pool, leaked, at, cur, exp>>
  /\ \/ \E a \in Allocatable :
          /\ heap' = [heap EXCEPT ![a] = [st |-> "live", hash |-> h,
                                          value |-> ops + 1]]
          /\ arg' = [arg EXCEPT ![t] = [op |-> "insert", hash |-> h,
                                        value |-> ops + 1,
                                        node |-> NodeWord(a)]]
          /\ Goto(t, "load")
          /\ UNCHANGED res
     \/ /\ Allocatable = {}
        /\ arg' = [arg EXCEPT ![t] = [op |-> "insert", hash |-> h,
                                      value |-> ops + 1, node |-> Null]]
        /\ Goto(t, "ret")
        /\ res' = [res EXCEPT ![t] = 0]
        /\ UNCHANGED heap

MarkSlot(t) ==
  /\ pc[t] = "mark"
  /\ arr' = SetSlot(t, Marked(Slot(t)))
  /\ Goto(t, "load")
  /\ UNCHANGED <<pool, heap, leaked, loc, ops>>

\* The first atomic_load of the inner loop.
LoadSlot(t) ==
  /\ pc[t] = "load"
  /\ UNCHANGED <<arr, pool, heap, arg, ops>>
  /\ LET w == Slot(t) IN
     \/ is_array(w) /\ Follow(t, w)
     \/ /\ ~is_array(w)
        /\ See(t, w)
        /\ Goto(t, CASE is_node_marked(w) -> "exp_load"
                     [] w = Null          -> "cas_null"
                     [] OTHER             -> "cmp")
        /\ UNCHANGED <<at, exp, leaked, res>>

CasNull(t) ==
  /\ pc[t] = "cas_null"
  /\ UNCHANGED <<pool, heap, leaked, arg, ops>>
  /\ \/ /\ Slot(t) = Null
        /\ arr' = SetSlot(t, arg[t].node)
        /\ Ret(t, 1)
     \/ /\ Slot(t) # Null
        /\ Goto(t, "reload_null")
        /\ UNCHANGED <<arr, at, cur, exp, res>>

\* Mutant: the slot is not loaded again after the failed compare_exchange.
ReloadNull_Stale(t) ==
  /\ pc[t] = "reload_null"
  /\ Goto(t, "cmp_null")
  /\ UNCHANGED <<mem, loc, ops>>

ReloadNull(t) ==
  /\ pc[t] = "reload_null"
  /\ UNCHANGED <<arr, pool, heap, arg, ops>>
  /\ LET w == Slot(t) IN
     \/ is_array(w) /\ Follow(t, w)
     \/ /\ ~is_array(w)
        /\ See(t, w)
        /\ Goto(t, IF is_node_marked(w) THEN "exp_load" ELSE "cmp_null")
        /\ UNCHANGED <<at, exp, leaked, res>>

CmpNull(t) ==
  /\ pc[t] = "cmp_null"
  /\ UNCHANGED <<arr, pool, arg, ops>>
  /\ \E eq \in HashEquals(cur[t], arg[t].hash) :
       \/ eq /\ DropNew(t)
       \/ ~eq /\ Fail(t) /\ UNCHANGED <<heap, leaked>>

\* Mutant: a slot held by another key is loaded again instead of expanded.
CmpHash_Spin(t) ==
  /\ pc[t] = "cmp"
  /\ \E eq \in HashEquals(cur[t], arg[t].hash) :
       Goto(t, IF eq THEN "cas_upd" ELSE "load")
  /\ UNCHANGED <<mem, loc, ops>>

\* Mutant: the value of a key that is present is kept.
CmpHash_KeepOld(t) ==
  /\ pc[t] = "cmp"
  /\ UNCHANGED <<arr, pool, arg, ops>>
  /\ \E eq \in HashEquals(cur[t], arg[t].hash) :
       IF eq THEN DropNew(t)
       ELSE Goto(t, "exp_load") /\ UNCHANGED <<heap, leaked, at, cur, exp, res>>

CmpHash(t) ==
  /\ pc[t] = "cmp"
  /\ \E eq \in HashEquals(cur[t], arg[t].hash) :
       Goto(t, IF eq THEN "cas_upd" ELSE "exp_load")
  /\ UNCHANGED <<mem, loc, ops>>

\* Mutant: a plain store instead of the compare_exchange.
CasUpdate_Store(t) ==
  /\ pc[t] = "cas_upd"
  /\ arr' = SetSlot(t, arg[t].node)
  /\ Goto(t, "free")
  /\ res' = [res EXCEPT ![t] = 1]
  /\ UNCHANGED <<pool, heap, leaked, arg, at, cur, exp, ops>>

\* Mutant: desired and expected are swapped, so the old node is stored back.
CasUpdate_Swapped(t) ==
  /\ pc[t] = "cas_upd"
  /\ UNCHANGED <<arr, pool, heap, leaked, arg, at, exp, ops>>
  /\ \/ Slot(t) = cur[t] /\ Goto(t, "free") /\ See(t, arg[t].node)
        /\ res' = [res EXCEPT ![t] = 1]
     \/ Slot(t) # cur[t] /\ Goto(t, "reload_upd") /\ See(t, Slot(t)) /\ UNCHANGED res

\* A failed compare_exchange also writes the word it found into cur_node.
CasUpdate(t) ==
  /\ pc[t] = "cas_upd"
  /\ UNCHANGED <<pool, heap, leaked, arg, at, exp, ops>>
  /\ \/ /\ Slot(t) = cur[t]
        /\ arr' = SetSlot(t, arg[t].node)
        /\ Goto(t, "free")
        /\ res' = [res EXCEPT ![t] = 1]
        /\ UNCHANGED cur
     \/ /\ Slot(t) # cur[t]
        /\ See(t, Slot(t))
        /\ Goto(t, "reload_upd")
        /\ UNCHANGED <<arr, res>>

\* Mutant: an array found after the failed update is not followed.
ReloadUpdate_NoArray(t) ==
  /\ pc[t] = "reload_upd"
  /\ DropNew(t)
  /\ UNCHANGED <<arr, pool, arg, ops>>

ReloadUpdate(t) ==
  /\ pc[t] = "reload_upd"
  /\ UNCHANGED <<arr, pool, arg, ops>>
  /\ LET w == Slot(t)
         expand == is_node_marked(w) /\ get_unmarked_node(w) = cur[t]
     IN \/ is_array(w) /\ Follow(t, w) /\ UNCHANGED heap
        \/ /\ ~is_array(w) /\ expand
           /\ See(t, Null)
           /\ Goto(t, "exp_load")
           /\ UNCHANGED <<heap, at, exp, leaked, res>>
        \/ ~is_array(w) /\ ~expand /\ DropNew(t)

FreeOld(t) ==
  /\ pc[t] = "free"
  /\ heap' = Freed(cur[t].ref)
  /\ Ret(t, 1)
  /\ UNCHANGED <<arr, pool, leaked, arg, ops>>

-----------------------------------------------------------------------------
\* wtf_table_expand_table(&cur_arr[pos], shift), called from four places.

ExpandLoad(t) ==
  /\ pc[t] = "exp_load"
  /\ exp' = [exp EXCEPT ![t].node = Slot(t)]
  /\ See(t, Null)
  /\ Goto(t, "exp_fill")
  /\ UNCHANGED <<mem, arg, at, res, ops>>

\* Mutant: the node is left out of the new array.
ExpandFill_Empty(t) ==
  /\ pc[t] = "exp_fill"
  /\ UNCHANGED <<heap, leaked, arg, ops>>
  /\ \/ \E i \in pool :
          /\ \A j \in pool : i <= j
          /\ pool' = pool \ {i}
          /\ exp' = [exp EXCEPT ![t].arr = i]
          /\ Goto(t, "exp_cas")
          /\ UNCHANGED <<arr, at, cur, res>>
     \/ pool = {} /\ Fail(t) /\ UNCHANGED <<arr, pool>>

\* malloc and clear the new array, read the node's hash, place the node.
ExpandFill(t) ==
  /\ pc[t] = "exp_fill"
  /\ UNCHANGED <<heap, leaked, arg, ops>>
  /\ \/ \E i \in pool, p \in NewPos(exp[t].node, at[t].lvl) :
          /\ \A j \in pool : i <= j
          /\ pool' = pool \ {i}
          /\ arr' = [arr EXCEPT ![i] = [Empty EXCEPT ![p] = exp[t].node]]
          /\ exp' = [exp EXCEPT ![t].arr = i]
          /\ Goto(t, "exp_cas")
          /\ UNCHANGED <<at, cur, res>>
     \/ pool = {} /\ Fail(t) /\ UNCHANGED <<arr, pool>>

\* Mutant: the new array is stored without comparing the slot.
ExpandCas_Store(t) ==
  /\ pc[t] = "exp_cas"
  /\ arr' = SetSlot(t, ArrayWord(exp[t].arr))
  /\ Descend(t, exp[t].arr)
  /\ UNCHANGED <<pool, heap, arg, ops>>

\* Mutant: the loser frees its array, as meant, and walks on into it.
ExpandCas_OwnArray(t) ==
  /\ pc[t] = "exp_cas"
  /\ UNCHANGED <<heap, arg, ops>>
  /\ LET new == exp[t].arr IN
     /\ Descend(t, new)
     /\ IF Slot(t) = exp[t].node
        THEN arr' = SetSlot(t, ArrayWord(new)) /\ UNCHANGED pool
        ELSE arr' = [arr EXCEPT ![new] = Empty] /\ pool' = pool \cup {new}

\* The loser's `is_array(&node)` tests the address of a local variable, which
\* is never tagged: the array is leaked and NULL returned.  A leaked array is
\* unreachable, so its identifier goes back to the pool.
ExpandCas(t) ==
  /\ pc[t] = "exp_cas"
  /\ UNCHANGED <<heap, arg, ops>>
  /\ LET new == exp[t].arr IN
     \/ /\ Slot(t) = exp[t].node
        /\ arr' = SetSlot(t, ArrayWord(new))
        /\ Descend(t, new)
        /\ UNCHANGED pool
     \/ /\ Slot(t) # exp[t].node
        /\ arr'  = [arr EXCEPT ![new] = Empty]
        /\ pool' = pool \cup {new}
        /\ leaked' = leaked \cup {"array"}
        /\ Fail(t)

-----------------------------------------------------------------------------
\* wtf_table_find: both tag bits are cleared before a word is used.

InvokeFind(t, h) ==
  /\ pc[t] = "idle" /\ ops < MaxOps
  /\ ops' = ops + 1
  /\ arg' = [arg EXCEPT ![t] = [op |-> "find", hash |-> h, value |-> NoValue,
                                node |-> Null]]
  /\ Goto(t, "f_load")
  /\ UNCHANGED <<mem, at, cur, exp, res>>

FindLoad(t) ==
  /\ pc[t] = "f_load"
  /\ UNCHANGED <<mem, arg, ops>>
  /\ LET w == get_unmarked_node(Slot(t)) IN
     \/ /\ is_array(w) /\ at[t].lvl < MAX_LVL
        /\ at' = [at EXCEPT ![t].arr = w.ref, ![t].lvl = @ + 1]
        /\ UNCHANGED <<pc, cur, exp, res>>
     \/ /\ w = Null \/ (is_array(w) /\ at[t].lvl = MAX_LVL)
        /\ Ret(t, NoValue)
     \/ /\ w.kind = "node"
        /\ See(t, w)
        /\ Goto(t, "f_cmp")
        /\ UNCHANGED <<at, exp, res>>

FindCmp(t) ==
  /\ pc[t] = "f_cmp"
  /\ UNCHANGED <<mem, arg, ops>>
  /\ \E eq \in HashEquals(cur[t], arg[t].hash) :
       \/ eq /\ Goto(t, "f_val") /\ UNCHANGED <<at, cur, exp, res>>
       \/ ~eq /\ Ret(t, NoValue)

FindValue(t) ==
  /\ pc[t] = "f_val"
  /\ \E v \in ReadValue(cur[t]) : Ret(t, v)
  /\ UNCHANGED <<mem, arg, ops>>

Return(t) ==
  /\ pc[t] = "ret"
  /\ Goto(t, "idle")
  /\ arg' = [arg EXCEPT ![t] = NoArg]
  /\ res' = [res EXCEPT ![t] = Pending]
  /\ UNCHANGED <<mem, at, cur, exp, ops>>

-----------------------------------------------------------------------------
InsertStep(t) ==
  \/ MarkSlot(t) \/ LoadSlot(t) \/ CasNull(t) \/ ReloadNull(t) \/ CmpNull(t)
  \/ CmpHash(t) \/ CasUpdate(t) \/ ReloadUpdate(t) \/ FreeOld(t)
  \/ ExpandLoad(t) \/ ExpandFill(t) \/ ExpandCas(t)
FindStep(t) == FindLoad(t) \/ FindCmp(t) \/ FindValue(t)

\* No thread has come to a misaligned array.
Defined == \A t \in Threads : pc[t] # "wild"

\* The table is described up to the first access through a misaligned pointer,
\* which is undefined and may write anywhere: no step follows it.
Next ==
  /\ Defined
  /\ \/ \E t \in Inserters : \E h \in HashesOf[t] : InvokeInsert(t, h)
     \/ \E t \in Finders, h \in Hash : InvokeFind(t, h)
     \/ \E t \in Threads : InsertStep(t) \/ FindStep(t) \/ Return(t)

Spec == Init /\ [][Next]_vars

\* A thread inside a call is scheduled again and again; nobody has to call.
Fairness == \A t \in Threads :
              WF_vars(InsertStep(t) \/ FindStep(t) \/ Return(t))
FairSpec == Spec /\ Fairness

-----------------------------------------------------------------------------
\* Views of the state.

Quiet == \A t \in Threads : pc[t] = "idle"

\* The array a thread has built but not published yet.
Private   == {exp[t].arr : t \in {u \in Threads : pc[u] = "exp_cas"}}
Published == ArrId \ (pool \cup Private)

\* The word at which a search for h ends: walk[l] is the word the search has in
\* hand after level l.
LeafWord(h) ==
  LET walk[l \in Levels] ==
        LET w == IF l = 0 THEN ArrayWord(HeadArr) ELSE walk[l - 1] IN
        IF is_array(w) THEN arr[w.ref][h[l]] ELSE w
  IN  walk[MAX_LVL]

\* What the table holds for h.
Lookup(h) ==
  LET w == LeafWord(h) IN
  IF w.kind = "node" /\ heap[w.ref].hash = h THEN heap[w.ref].value ELSE NoValue

Content == [h \in Hash |-> Lookup(h)]
Held == {h \in Hash : Lookup(h) # NoValue}

\* Every slot of every published array.
Cells == Published \X Slots

\* The slots wtf_table_for_each looks at: the first CUR_ARR_SZ(d) of every array
\* it recurses into d array words below the head.  A marked array word would
\* lead it to a misaligned address; the walk is taken to end there.
Depths     == 0 .. Cardinality(ArrId)
Visited(d) == 0 .. CUR_ARR_SZ(d) - 1
wtf_table_for_each ==
  LET arrays[d \in Depths] ==
        IF d = 0 THEN {HeadArr}
        ELSE {i \in ArrId : \E j \in arrays[d - 1], s \in Visited(d - 1) :
                               arr[j][s] = ArrayWord(i)}
  IN  UNION {arrays[d] \X Visited(d) : d \in Depths}

\* wtf_table_count: counter skips the array words.
wtf_table_count ==
  Cardinality({c \in wtf_table_for_each : arr[c[1]][c[2]].kind = "node"})

\* wtf_table_destroy: the nodes wtf_table_destroy_node frees.
DestroyedNodes  == {arr[c[1]][c[2]].ref :
                      c \in {d \in wtf_table_for_each : arr[d[1]][d[2]].kind = "node"}}

-----------------------------------------------------------------------------
\* Properties.

Node      == [st : {"free", "live", "dead"}, hash : Hash, value : Value \cup {NoValue}]
Call      == [op : {"none", "insert", "find"}, hash : Hash,
              value : Value \cup {NoValue}, node : Word]
Place     == [arr : ArrId, lvl : Levels, fail : FailCount]
Expansion == [node : Word, arr : ArrId]
Result    == Value \cup {Pending, Junk, 0, 1}

TypeOK ==
  /\ arr \in [ArrId -> [Slots -> Word]]
  /\ pool \in SUBSET ArrId
  /\ heap \in [Addr -> Node]
  /\ leaked \in SUBSET {"node", "array"}
  /\ pc \in [Threads -> PCs]
  /\ arg \in [Threads -> Call]
  /\ at \in [Threads -> Place]
  /\ cur \in [Threads -> Word]
  /\ exp \in [Threads -> Expansion]
  /\ res \in [Threads -> Result]
  /\ ops \in 0 .. MaxOps

\* Every node and every array is reached by one path only: no two slots of
\* published arrays hold the same pointer.  destroy and for_each rely on it
\* (a node reached twice would be freed twice), and so does every CAS that
\* takes an equal pointer for an unchanged slot.
OneOwner ==
  \A c, d \in Cells :
    LET w == arr[c[1]][c[2]]
        x == arr[d[1]][d[2]]
    IN  w # Null /\ w.kind = x.kind /\ w.ref = x.ref => c = d

\* A published word only moves forward: an empty slot takes a node, a node
\* word is marked, replaced by a node of the same hash, or wrapped in an array
\* that holds it; an array word is never replaced by a node nor cleared.
Wraps(i, w) == \E s \in Slots : arr'[i] = [Empty EXCEPT ![s] = w]
Forward(w, x) ==
  \/ x = w
  \/ w = Null /\ x.kind = "node" /\ ~x.mark
  \/ w # Null /\ x = Marked(w)
  \/ w # Null /\ is_array(x) /\ ~x.mark /\ Wraps(x.ref, w)
  \/ /\ w.kind = "node" /\ ~w.mark /\ x.kind = "node" /\ ~x.mark
     /\ heap[x.ref].hash = heap[w.ref].hash
SlotsMoveForward ==
  [][\A i \in Published, s \in Slots : Forward(arr[i][s], arr'[i][s])]_vars

\* Who holds which array: an array that is free or still being built is known
\* to nobody but its builder, and every pointer to an array - in a slot, in the
\* cur_arr of a thread or in the word it is about to wrap - leads to a
\* published one.
ArraysOwned ==
  /\ HeadArr \in Published /\ Private \cap pool = {}
  /\ \A t, u \in Threads : pc[t] = "exp_cas" /\ pc[u] = "exp_cas"
                             /\ exp[t].arr = exp[u].arr => t = u
  /\ \A t \in Threads : at[t].arr \in Published
  /\ \A i \in ArrId, s \in Slots : is_array(arr[i][s]) => arr[i][s].ref \in Published
  /\ \A t \in Threads : is_array(exp[t].node) => exp[t].node.ref \in Published

\* What a thread in the middle of an insert may rely on: it still has its node,
\* and a slot it has seen occupied is still occupied.
Full(t) ==
  /\ pc[t] \in InsertPCs => arg[t].node.kind = "node"
  /\ pc[t] \in {"mark", "reload_null", "cmp_null", "cmp", "exp_load", "exp_fill",
                "exp_cas"} => Slot(t) # Null
  /\ pc[t] = "cmp_null" => cur[t] # Null
  /\ pc[t] \in {"exp_fill", "exp_cas"} => exp[t].node # Null
SlotsStayFull == \A t \in Threads : Full(t)

\* The two dereferences that are guarded by an earlier load only: after a
\* failed compare_exchange the reloaded word is a node (wtf_table.h:220), and
\* the word wtf_table_expand_table dereferences (:129) is not NULL.
NoNullDereference ==
  \A t \in Threads :
    /\ pc[t] = "cmp_null" => cur[t] # Null
    /\ pc[t] = "exp_fill" => exp[t].node # Null

\* wtf_table_insert returns false only when malloc found no node.
InsertFailsOnlyWithoutMemory ==
  \A t \in Threads :
    pc[t] = "ret" /\ arg[t].op = "insert" /\ res[t] = 0 => arg[t].node = Null

\* Between calls wtf_table_destroy frees every node that was allocated and not
\* freed, through whatever sub-arrays the inserts made; and the table counts
\* every key it holds once.
NodesAccountedFor ==
  Quiet => /\ {a \in Addr : heap[a].st = "live"} = DestroyedNodes
           /\ wtf_table_count = Cardinality(Held)

\* The array of an expansion that loses its race is freed
\* (wtf_table.h:146, "the node was already expanded, free stuff created above").
LostExpansionIsFreed == "array" \notin leaked

\* "wtf stands for WaiT Free" (wtf_table.h:77): a call returns after finitely
\* many steps of its thread, whatever the others do.
CallsReturn == \A t \in Threads : pc[t] # "idle" ~> pc[t] = "idle"

-----------------------------------------------------------------------------
\* Refinement.

\* The abstract map is what Lookup finds.  A find has taken effect when its
\* last load returned the word in cur, an insert when its CAS succeeded.
CallOf(t) ==
  [op |-> arg[t].op, hash |-> arg[t].hash, value |-> arg[t].value,
   res |-> IF pc[t] \in {"f_cmp", "f_val"}
           THEN IF heap[cur[t].ref].hash = arg[t].hash
                THEN heap[cur[t].ref].value ELSE NoValue
           ELSE res[t]]

Map == INSTANCE AtomicMap WITH map  <- Content,
                               call <- [t \in Threads |-> CallOf(t)]

\* Where each key has one writer, no slot is marked and memory is not reused,
\* the table implements the atomic map.
ImplementsAtomicMap == Map!Spec
=============================================================================
