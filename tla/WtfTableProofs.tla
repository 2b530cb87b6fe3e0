--------------------------- MODULE WtfTableProofs ---------------------------
(***************************************************************************)
(* Theorems about WtfTable for every number of threads, keys, arrays and   *)
(* levels.  TableInv is inductive whether or not freed memory is used      *)
(* again; NodesInv, which adds who holds which node, where it is not.      *)
(*                                                                         *)
(* On NodesInv rest, for the executions in which no thread gives up on a   *)
(* slot and no expansion loads an array (Tame): PathInv, that the arrays   *)
(* are a trie and every walk follows the digits of its hash; MapInv, that  *)
(* the search for a hash finds its node; AddedInv, that no hash gets lost; *)
(* and OwnInv, where each hash has one writer, from which the table is     *)
(* shown to implement an atomic map.                                       *)
(***************************************************************************)
EXTENDS WtfTable, SumTheorems, TLAPS

-----------------------------------------------------------------------------
(* Types.                                                                  *)

\* The initial words and locals are well formed.
LEMMA ConstantTypes ==
  /\ Null \in Word /\ \A a \in Addr : NodeWord(a) \in Word
  /\ \A i \in ArrId : ArrayWord(i) \in Word
  /\ \A w \in Word : Marked(w) \in Word /\ get_unmarked_node(w) \in Word
  /\ NoArg.hash \in Hash /\ NoArg \in Call
  /\ AtHead \in Place /\ NoExp \in Expansion /\ Empty \in [Slots -> Word]
<1>1. /\ Null \in Word /\ \A a \in Addr : NodeWord(a) \in Word
      /\ \A i \in ArrId : ArrayWord(i) \in Word
      /\ \A w \in Word : Marked(w) \in Word /\ get_unmarked_node(w) \in Word
  BY MemoryAssumption DEF Null, NodeWord, ArrayWord, Marked, get_unmarked_node, Word
<1>2. NoArg.hash \in Hash
  BY HashAssumption DEF NoArg
<1>3. NoArg \in Call
  BY <1>1, <1>2 DEF NoArg, Call
<1>4. AtHead \in Place
  BY SizesAssumption, MemoryAssumption DEF AtHead, Place, Levels, FailCount
<1>5. NoExp \in Expansion /\ Empty \in [Slots -> Word]
  BY <1>1, MemoryAssumption DEF NoExp, Expansion, Empty
<1> QED
  BY <1>1, <1>2, <1>3, <1>4, <1>5

\* The slot a thread works on exists and holds a word.
LEMMA SlotType ==
  ASSUME TypeOK, NEW t \in Threads
  PROVE  /\ Pos(t) \in Slots /\ at[t].arr \in ArrId /\ Slot(t) \in Word
         /\ \A w \in Word : SetSlot(t, w) \in [ArrId -> [Slots -> Word]]
<1>1. at[t].arr \in ArrId /\ at[t].lvl \in Levels /\ arg[t].hash \in Hash
  BY DEF TypeOK, Place, Call
<1>2. Pos(t) \in Slots
  BY <1>1, HashAssumption DEF Pos
<1>3. arr[at[t].arr] \in [Slots -> Word]
  BY <1>1 DEF TypeOK
<1>4. ASSUME NEW w \in Word
      PROVE  SetSlot(t, w) \in [ArrId -> [Slots -> Word]]
  <2>1. [arr[at[t].arr] EXCEPT ![Pos(t)] = w] \in [Slots -> Word]
    BY <1>2, <1>3
  <2> QED
    BY <1>1, <2>1 DEF TypeOK, SetSlot
<1> QED
  BY <1>1, <1>2, <1>3, <1>4 DEF Slot

\* The locals of the threads, as the helpers leave them.
LocalsOK ==
  /\ pc \in [Threads -> PCs]
  /\ at \in [Threads -> Place]
  /\ cur \in [Threads -> Word]
  /\ exp \in [Threads -> Expansion]
  /\ res \in [Threads -> Result]

LEMMA RetType ==
  ASSUME TypeOK, NEW t \in Threads, NEW r \in Result, Ret(t, r)
  PROVE  LocalsOK'
BY ConstantTypes DEF TypeOK, LocalsOK, Ret, Goto, See, PCs

LEMMA DescendType ==
  ASSUME TypeOK, NEW t \in Threads, NEW i \in ArrId, Descend(t, i)
  PROVE  LocalsOK' /\ leaked' \in SUBSET {"node", "array"}
<1>1. CASE at[t].lvl < MAX_LVL
  <2>1. at[t].lvl + 1 \in Levels
    BY <1>1, SizesAssumption DEF TypeOK, Levels, Place
  <2>2. 0 \in FailCount
    BY SizesAssumption DEF FailCount
  <2>3. [arr |-> i, lvl |-> at[t].lvl + 1, fail |-> 0] \in Place
    BY <2>1, <2>2 DEF Place
  <2>4. at' \in [Threads -> Place]
    BY <1>1, <2>3 DEF TypeOK, Descend
  <2>5. pc' \in [Threads -> PCs]
    BY <1>1 DEF TypeOK, Descend, Goto, PCs, InsertPCs
  <2> QED
    BY <1>1, <2>4, <2>5, ConstantTypes DEF TypeOK, LocalsOK, Descend, See
<1>2. CASE ~(at[t].lvl < MAX_LVL)
  BY <1>2, RetType DEF Descend, TypeOK, Result
<1> QED
  BY <1>1, <1>2

LEMMA FollowType ==
  ASSUME TypeOK, NEW t \in Threads, NEW w \in Word, is_array(w), Follow(t, w)
  PROVE  LocalsOK' /\ leaked' \in SUBSET {"node", "array"}
<1>1. CASE is_node_marked(w) /\ at[t].lvl < MAX_LVL
  BY <1>1 DEF Follow, TypeOK, LocalsOK, Goto, PCs
<1>2. CASE ~(is_node_marked(w) /\ at[t].lvl < MAX_LVL)
  <2>1. w.ref \in ArrId
    BY DEF Word, is_array
  <2> QED
    BY <1>2, <2>1, DescendType DEF Follow
<1> QED
  BY <1>1, <1>2

LEMMA FailType ==
  ASSUME TypeOK, NEW t \in Threads, Fail(t)
  PROVE  LocalsOK'
<1>1. (at[t].fail + 1) % FAIL_CNT_MOD \in FailCount
  <2>1. at[t].fail + 1 \in Nat /\ FAIL_CNT_MOD \in Nat \ {0}
    BY SizesAssumption DEF TypeOK, FailCount, Place
  <2> QED
    BY <2>1 DEF FailCount
<1>2. [at[t] EXCEPT !.fail = (at[t].fail + 1) % FAIL_CNT_MOD] \in Place
  BY <1>1 DEF TypeOK, Place
<1>3. at' \in [Threads -> Place]
  BY <1>2 DEF TypeOK, Fail
<1>4. pc' \in [Threads -> PCs]
  BY DEF TypeOK, Fail, Goto, PCs, InsertPCs
<1> QED
  BY <1>3, <1>4, ConstantTypes DEF Fail, TypeOK, LocalsOK, See

LEMMA DropNewType ==
  ASSUME TypeOK, NEW t \in Threads, DropNew(t)
  PROVE  LocalsOK' /\ heap' \in [Addr -> Node]
<1>1. LocalsOK'
  BY RetType DEF DropNew, Result
<1> QED
  BY <1>1 DEF DropNew, Freed, TypeOK, Node

LEMMA TypeInit == Init => TypeOK
<1>1. ArrId \ {HeadArr} \in SUBSET ArrId
  OBVIOUS
<1>2. [st |-> "free", hash |-> NoArg.hash, value |-> NoValue] \in Node
  BY ConstantTypes DEF Node
<1>3. Pending \in Result /\ "idle" \in PCs /\ 0 \in 0 .. MaxOps
  BY SizesAssumption DEF Result, PCs
<1> QED
  BY <1>1, <1>2, <1>3, ConstantTypes DEF Init, TypeOK

\* The steps of a call are the insert steps, the find steps and the return.
LEMMA TypeInvoke ==
  ASSUME TypeOK, NEW t \in Threads, NEW h \in Hash,
         InvokeInsert(t, h) \/ InvokeFind(t, h)
  PROVE  TypeOK'
<1>1. ops + 1 \in Value /\ ops + 1 \in 0 .. MaxOps
  BY SizesAssumption DEF TypeOK, InvokeInsert, InvokeFind, Value
<1>2. ops' \in 0 .. MaxOps
  BY <1>1 DEF InvokeInsert, InvokeFind
<1>3. ASSUME NEW a \in Addr
      PROVE  /\ [st |-> "live", hash |-> h, value |-> ops + 1] \in Node
             /\ [op |-> "insert", hash |-> h, value |-> ops + 1,
                 node |-> NodeWord(a)] \in Call
  BY <1>1, ConstantTypes DEF Node, Call
<1>4. /\ [op |-> "insert", hash |-> h, value |-> ops + 1, node |-> Null] \in Call
      /\ [op |-> "find", hash |-> h, value |-> NoValue, node |-> Null] \in Call
  BY <1>1, ConstantTypes DEF Call
<1>5. heap' \in [Addr -> Node] /\ arg' \in [Threads -> Call]
  BY <1>3, <1>4 DEF TypeOK, InvokeInsert, InvokeFind, Allocatable, mem
<1>6. pc' \in [Threads -> PCs] /\ res' \in [Threads -> Result]
  BY DEF TypeOK, InvokeInsert, InvokeFind, Goto, PCs, InsertPCs, FindPCs, Result
<1> QED
  BY <1>2, <1>5, <1>6 DEF TypeOK, InvokeInsert, InvokeFind, mem

\* What a step leaves to check once the locals are known to be well typed.
LEMMA TypeFromLocals ==
  ASSUME LocalsOK', TypeOK, UNCHANGED <<arg, ops>>,
         arr' \in [ArrId -> [Slots -> Word]],
         pool' \in SUBSET ArrId,
         heap' \in [Addr -> Node],
         leaked' \in SUBSET {"node", "array"}
  PROVE  TypeOK'
BY DEF TypeOK, LocalsOK

LEMMA TypeInsertStep ==
  ASSUME TypeOK, NEW t \in Threads, InsertStep(t)
  PROVE  TypeOK'
<1> USE TypeFromLocals, SlotType, ConstantTypes
<1>1. CASE MarkSlot(t)
  <2>1. LocalsOK'
    BY <1>1 DEF MarkSlot, LocalsOK, TypeOK, Goto, PCs, InsertPCs, loc
  <2> QED
    BY <1>1, <2>1 DEF MarkSlot, TypeOK, loc
<1>2. CASE LoadSlot(t)
  <2>1. LocalsOK' /\ leaked' \in SUBSET {"node", "array"}
    <3>1. CASE is_array(Slot(t))
      BY <1>2, <3>1, FollowType DEF LoadSlot
    <3>2. CASE ~is_array(Slot(t))
      <4>1. /\ See(t, Slot(t)) /\ UNCHANGED <<at, exp, leaked, res>>
            /\ \E l \in InsertPCs : Goto(t, l)
        BY <1>2, <3>2 DEF LoadSlot, InsertPCs
      <4> QED
        BY <4>1 DEF LocalsOK, TypeOK, Goto, See, PCs
    <3> QED
      BY <3>1, <3>2
  <2> QED
    BY <1>2, <2>1 DEF LoadSlot, TypeOK
<1>3. CASE CasNull(t)
  <2>1. arg[t].node \in Word
    BY DEF TypeOK, Call
  <2>2. LocalsOK'
    <3>1. CASE Ret(t, 1)
      BY <3>1, RetType DEF Result
    <3>2. CASE ~Ret(t, 1)
      BY <1>3, <3>2 DEF CasNull, LocalsOK, TypeOK, Goto, PCs, InsertPCs
    <3> QED
      BY <3>1, <3>2
  <2>3. arr' \in [ArrId -> [Slots -> Word]]
    BY <1>3, <2>1 DEF CasNull, TypeOK
  <2> QED
    BY <1>3, <2>2, <2>3 DEF CasNull, TypeOK
<1>4. CASE ReloadNull(t)
  <2>1. LocalsOK' /\ leaked' \in SUBSET {"node", "array"}
    <3>1. CASE is_array(Slot(t))
      BY <1>4, <3>1, FollowType DEF ReloadNull
    <3>2. CASE ~is_array(Slot(t))
      <4>1. /\ See(t, Slot(t)) /\ UNCHANGED <<at, exp, leaked, res>>
            /\ \E l \in InsertPCs : Goto(t, l)
        BY <1>4, <3>2 DEF ReloadNull, InsertPCs
      <4> QED
        BY <4>1 DEF LocalsOK, TypeOK, Goto, See, PCs
    <3> QED
      BY <3>1, <3>2
  <2> QED
    BY <1>4, <2>1 DEF ReloadNull, TypeOK
<1>5. CASE CmpNull(t)
  <2>1. CASE DropNew(t)
    BY <1>5, <2>1, DropNewType DEF CmpNull, DropNew, TypeOK
  <2>2. CASE ~DropNew(t)
    <3>1. Fail(t) /\ UNCHANGED <<arr, pool, heap, leaked, arg, ops>>
      BY <1>5, <2>2 DEF CmpNull
    <3> QED
      BY <3>1, FailType DEF TypeOK
  <2> QED
    BY <2>1, <2>2
<1>6. CASE CmpHash(t)
  BY <1>6 DEF CmpHash, LocalsOK, TypeOK, Goto, PCs, InsertPCs, mem, loc
<1>7. CASE CasUpdate(t)
  <2>1. arg[t].node \in Word
    BY DEF TypeOK, Call
  <2>2. LocalsOK'
    BY <1>7 DEF CasUpdate, LocalsOK, TypeOK, Goto, See, PCs, InsertPCs, Result
  <2>3. arr' \in [ArrId -> [Slots -> Word]]
    BY <1>7, <2>1 DEF CasUpdate, TypeOK
  <2> QED
    BY <1>7, <2>2, <2>3 DEF CasUpdate, TypeOK
<1>8. CASE ReloadUpdate(t)
  <2>1. CASE DropNew(t)
    BY <1>8, <2>1, DropNewType DEF ReloadUpdate, DropNew, TypeOK
  <2>2. CASE ~DropNew(t)
    <3>1. LocalsOK' /\ leaked' \in SUBSET {"node", "array"}
      <4>1. CASE is_array(Slot(t)) /\ Follow(t, Slot(t))
        BY <4>1, FollowType
      <4>2. CASE ~(is_array(Slot(t)) /\ Follow(t, Slot(t)))
        BY <1>8, <2>2, <4>2
        DEF ReloadUpdate, LocalsOK, TypeOK, Goto, See, PCs, InsertPCs
      <4> QED
        BY <4>1, <4>2
    <3>2. UNCHANGED <<arr, pool, heap, arg, ops>>
      BY <1>8, <2>2 DEF ReloadUpdate
    <3> QED
      BY <3>1, <3>2 DEF TypeOK
  <2> QED
    BY <2>1, <2>2
<1>9. CASE FreeOld(t)
  <2>1. LocalsOK'
    BY <1>9, RetType DEF FreeOld, Result
  <2>2. heap' \in [Addr -> Node]
    BY <1>9 DEF FreeOld, Freed, TypeOK, Node
  <2> QED
    BY <1>9, <2>1, <2>2 DEF FreeOld, TypeOK
<1>10. CASE ExpandLoad(t)
  <2>1. [exp[t] EXCEPT !.node = Slot(t)] \in Expansion
    BY DEF TypeOK, Expansion
  <2>2. LocalsOK'
    BY <1>10, <2>1 DEF ExpandLoad, LocalsOK, TypeOK, Goto, See, PCs, InsertPCs
  <2> QED
    BY <1>10, <2>2 DEF ExpandLoad, TypeOK, mem
<1>11. CASE ExpandFill(t)
  <2>1. CASE Fail(t) /\ UNCHANGED <<arr, pool>>
    BY <1>11, <2>1, FailType DEF ExpandFill, TypeOK
  <2>2. CASE ~(Fail(t) /\ UNCHANGED <<arr, pool>>)
    <3>1. PICK i \in pool, p \in NewPos(exp[t].node, at[t].lvl) :
            /\ pool' = pool \ {i}
            /\ arr' = [arr EXCEPT ![i] = [Empty EXCEPT ![p] = exp[t].node]]
            /\ exp' = [exp EXCEPT ![t].arr = i]
            /\ Goto(t, "exp_cas")
            /\ UNCHANGED <<at, cur, res>>
      BY <1>11, <2>2 DEF ExpandFill
    <3>2. i \in ArrId /\ exp[t].node \in Word
      BY DEF TypeOK, Expansion
    <3>3. [exp[t] EXCEPT !.arr = i] \in Expansion
      BY <3>2 DEF TypeOK, Expansion
    <3>4. LocalsOK'
      BY <3>1, <3>3 DEF LocalsOK, TypeOK, Goto, PCs, InsertPCs
    <3>5. [Empty EXCEPT ![p] = exp[t].node] \in [Slots -> Word]
      BY <3>2
    <3>6. arr' \in [ArrId -> [Slots -> Word]]
      BY <3>1, <3>2, <3>5 DEF TypeOK
    <3> QED
      BY <1>11, <3>1, <3>4, <3>6 DEF ExpandFill, TypeOK
  <2> QED
    BY <2>1, <2>2
<1>12. CASE ExpandCas(t)
  <2>1. exp[t].arr \in ArrId
    BY DEF TypeOK, Expansion
  <2>2. CASE Slot(t) = exp[t].node
    <3>1. arr' \in [ArrId -> [Slots -> Word]]
      BY <1>12, <2>1, <2>2 DEF ExpandCas
    <3>2. LocalsOK' /\ leaked' \in SUBSET {"node", "array"}
      BY <1>12, <2>1, <2>2, DescendType DEF ExpandCas
    <3> QED
      BY <1>12, <2>2, <3>1, <3>2 DEF ExpandCas, TypeOK
  <2>3. CASE Slot(t) # exp[t].node
    <3>1. arr' = [arr EXCEPT ![exp[t].arr] = Empty]
      BY <1>12, <2>3 DEF ExpandCas
    <3>3. arr' \in [ArrId -> [Slots -> Word]]
      BY <3>1, <2>1 DEF TypeOK
    <3>2. LocalsOK'
      BY <1>12, <2>3, FailType DEF ExpandCas
    <3>4. /\ pool' = pool \cup {exp[t].arr} /\ leaked' = leaked \cup {"array"}
          /\ UNCHANGED <<heap, arg, ops>>
      BY <1>12, <2>3 DEF ExpandCas
    <3> QED
      BY <2>1, <3>2, <3>3, <3>4 DEF TypeOK
  <2> QED
    BY <2>2, <2>3
<1> QED
  BY <1>1, <1>2, <1>3, <1>4, <1>5, <1>6, <1>7, <1>8, <1>9, <1>10, <1>11, <1>12
  DEF InsertStep

LEMMA TypeFindStep ==
  ASSUME TypeOK, NEW t \in Threads, FindStep(t)
  PROVE  TypeOK'
<1> USE TypeFromLocals, ConstantTypes
<1>1. CASE FindLoad(t)
  <2> DEFINE w == get_unmarked_node(Slot(t))
  <2>1. w \in Word /\ (is_array(w) => w.ref \in ArrId)
    BY SlotType DEF Word, is_array
  <2>2. LocalsOK'
    <3>1. CASE /\ is_array(w) /\ at[t].lvl < MAX_LVL
               /\ at' = [at EXCEPT ![t].arr = w.ref, ![t].lvl = @ + 1]
               /\ UNCHANGED <<pc, cur, exp, res>>
      <4>1. at[t].lvl + 1 \in Levels
        BY <3>1, SizesAssumption DEF TypeOK, Levels, Place
      <4>2. [at[t] EXCEPT !.arr = w.ref, !.lvl = @ + 1] \in Place
        <5>1. at[t] \in Place
          BY DEF TypeOK
        <5>2. w.ref \in ArrId
          BY <2>1, <3>1
        <5> QED
          BY <4>1, <5>1, <5>2 DEF Place
      <4>3. at' = [at EXCEPT ![t] = [at[t] EXCEPT !.arr = w.ref, !.lvl = @ + 1]]
        BY <3>1 DEF TypeOK, Place
      <4>4. at' \in [Threads -> Place]
        BY <4>2, <4>3 DEF TypeOK
      <4> QED
        BY <3>1, <4>4 DEF LocalsOK, TypeOK
    <3>2. CASE Ret(t, NoValue)
      BY <3>2, RetType DEF Result, NoValue
    <3>3. CASE See(t, w) /\ Goto(t, "f_cmp") /\ UNCHANGED <<at, exp, res>>
      BY <2>1, <3>3 DEF LocalsOK, TypeOK, See, Goto, PCs, FindPCs
    <3> QED
      BY <1>1, <3>1, <3>2, <3>3 DEF FindLoad
  <2> QED
    BY <1>1, <2>2 DEF FindLoad, TypeOK, mem
<1>2. CASE FindCmp(t)
  <2>1. LocalsOK'
    <3>1. CASE Ret(t, NoValue)
      BY <3>1, RetType DEF Result, NoValue
    <3>2. CASE ~Ret(t, NoValue)
      BY <1>2, <3>2 DEF FindCmp, LocalsOK, TypeOK, Goto, PCs, FindPCs
    <3> QED
      BY <3>1, <3>2
  <2> QED
    BY <1>2, <2>1 DEF FindCmp, TypeOK, mem
<1>3. CASE FindValue(t)
  <2>1. PICK v \in ReadValue(cur[t]) : Ret(t, v)
    BY <1>3 DEF FindValue
  <2>2. v \in Result
    <3>1. CASE Readable(cur[t])
      <4>1. cur[t].ref \in Addr
        BY <3>1 DEF Readable, TypeOK, Word
      <4> QED
        BY <2>1, <3>1, <4>1 DEF ReadValue, TypeOK, Node, Result, NoValue
    <3>2. CASE ~Readable(cur[t])
      BY <2>1, <3>2 DEF ReadValue, Result
    <3> QED
      BY <3>1, <3>2
  <2>3. LocalsOK'
    BY <2>1, <2>2, RetType
  <2> QED
    BY <1>3, <2>3 DEF FindValue, TypeOK, mem
<1> QED
  BY <1>1, <1>2, <1>3 DEF FindStep

LEMMA TypeReturn ==
  ASSUME TypeOK, NEW t \in Threads, Return(t)
  PROVE  TypeOK'
BY ConstantTypes DEF TypeOK, Return, Goto, PCs, Result, mem

LEMMA TypeNext == TypeOK /\ [Next]_vars => TypeOK'
<1>1. CASE UNCHANGED vars
  BY <1>1 DEF TypeOK, vars, mem, loc
<1>2. CASE Next
  BY <1>2, TypeInvoke, TypeInsertStep, TypeFindStep, TypeReturn, HashAssumption
  DEF Next, Threads
<1> QED
  BY <1>1, <1>2

\* Every value a thread or the shared memory holds is of the type the code
\* gives it: a word is NULL, a node or an array, possibly marked.
THEOREM TypeCorrect == Spec => []TypeOK
BY TypeInit, TypeNext, PTL DEF Spec

-----------------------------------------------------------------------------
(* Ownership of the arrays.  A step changes the locals of one thread; what  *)
(* the helpers do to them is summed up by Moves.                            *)

Others(t) == \A u \in Threads \ {t} :
  pc'[u] = pc[u] /\ at'[u] = at[u] /\ exp'[u] = exp[u] /\ cur'[u] = cur[u]

Moves(t, i) ==
  /\ Others(t)
  /\ pc'[t] \in {"load", "mark", "ret", "wild"}
  /\ exp'[t] \in {NoExp, exp[t]}
  /\ at'[t].arr \in {HeadArr, at[t].arr, i}
  /\ pc'[t] = "mark" => at'[t].arr = at[t].arr /\ at'[t].lvl = at[t].lvl

LEMMA RetMoves ==
  ASSUME TypeOK, NEW t \in Threads, NEW r, NEW i, Ret(t, r)
  PROVE  Moves(t, i)
BY DEF TypeOK, Moves, Others, Ret, Goto, See, AtHead

LEMMA FailMoves ==
  ASSUME TypeOK, NEW t \in Threads, NEW i, Fail(t)
  PROVE  Moves(t, i)
BY DEF TypeOK, Moves, Others, Fail, Goto, See, Place

LEMMA DescendMoves ==
  ASSUME TypeOK, NEW t \in Threads, NEW i, Descend(t, i)
  PROVE  Moves(t, i)
<1>1. CASE at[t].lvl < MAX_LVL
  BY <1>1 DEF TypeOK, Moves, Others, Descend, Goto, See, Place
<1>2. CASE ~(at[t].lvl < MAX_LVL)
  BY <1>2, RetMoves DEF Descend
<1> QED
  BY <1>1, <1>2

LEMMA FollowMoves ==
  ASSUME TypeOK, NEW t \in Threads, NEW w, Follow(t, w)
  PROVE  Moves(t, w.ref)
<1>1. CASE is_node_marked(w) /\ at[t].lvl < MAX_LVL
  BY <1>1 DEF TypeOK, Moves, Others, Follow, Goto
<1>2. CASE ~(is_node_marked(w) /\ at[t].lvl < MAX_LVL)
  BY <1>2, DescendMoves DEF Follow
<1> QED
  BY <1>1, <1>2

\* A step that neither starts nor ends the building of an array.
LEMMA OwnedFrame ==
  ASSUME TypeOK, ArraysOwned, NEW t \in Threads, Others(t),
         pool' = pool, pc[t] # "exp_cas", pc'[t] # "exp_cas",
         at'[t].arr \in Published,
         is_array(exp'[t].node) => exp'[t].node.ref \in Published,
         \A i \in ArrId, s \in Slots :
           is_array(arr'[i][s]) => arr'[i][s].ref \in Published
  PROVE  ArraysOwned'
<1>1. Private' = Private
  BY DEF Private, Others
<1>2. Published' = Published
  BY <1>1 DEF Published
<1>3. \A u, v \in Threads : pc'[u] = "exp_cas" /\ pc'[v] = "exp_cas"
                              /\ exp'[u].arr = exp'[v].arr => u = v
  BY DEF ArraysOwned, Others
<1>4. \A u \in Threads : at'[u].arr \in Published
  BY DEF ArraysOwned, Others
<1>5. \A u \in Threads : is_array(exp'[u].node) => exp'[u].node.ref \in Published
  BY DEF ArraysOwned, Others
<1> QED
  BY <1>1, <1>2, <1>3, <1>4, <1>5 DEF ArraysOwned, is_array

LEMMA OwnedMoves ==
  ASSUME TypeOK, ArraysOwned, NEW t \in Threads, NEW i, Moves(t, i),
         pool' = pool, pc[t] # "exp_cas", i \in Published, arr' = arr
  PROVE  ArraysOwned'
<1>1. at'[t].arr \in Published
  BY DEF Moves, ArraysOwned
<1>2. is_array(exp'[t].node) => exp'[t].node.ref \in Published
  BY DEF Moves, ArraysOwned, NoExp, Null, is_array
<1>3. \A j \in ArrId, s \in Slots :
        is_array(arr'[j][s]) => arr'[j][s].ref \in Published
  BY DEF ArraysOwned
<1> QED
  BY <1>1, <1>2, <1>3, OwnedFrame DEF Moves

\* A slot of a published array that a thread stores w into.
LEMMA SetSlotWords ==
  ASSUME TypeOK, NEW t \in Threads, NEW w \in Word, arr' = SetSlot(t, w),
         NEW i \in ArrId, NEW s \in Slots
  PROVE  arr'[i][s] = IF i = at[t].arr /\ s = Pos(t) THEN w ELSE arr[i][s]
BY SlotType DEF TypeOK, SetSlot

\* A step that leaves the arrays and the place of its thread alone.
LEMMA OwnedStill ==
  ASSUME TypeOK, ArraysOwned, NEW t \in Threads, Others(t),
         pool' = pool, arr' = arr, pc[t] # "exp_cas", pc'[t] # "exp_cas",
         at'[t] = at[t], exp'[t] = exp[t]
  PROVE  ArraysOwned'
<1>1. at'[t].arr \in Published
  BY DEF ArraysOwned
<1>2. is_array(exp'[t].node) => exp'[t].node.ref \in Published
  BY DEF ArraysOwned
<1>3. \A i \in ArrId, s \in Slots :
        is_array(arr'[i][s]) => arr'[i][s].ref \in Published
  BY DEF ArraysOwned
<1> QED
  BY <1>1, <1>2, <1>3, OwnedFrame

LEMMA OwnedHead ==
  ASSUME TypeOK, ArraysOwned, NEW t \in Threads
  PROVE  /\ HeadArr \in Published /\ at[t].arr \in Published
         /\ Slot(t) \in Word
         /\ is_array(Slot(t)) => Slot(t).ref \in Published
BY SlotType DEF ArraysOwned, Slot

LEMMA OwnedExpandFill ==
  ASSUME TypeOK, ArraysOwned, NEW t \in Threads, ExpandFill(t)
  PROVE  ArraysOwned'
<1>1. CASE Fail(t) /\ UNCHANGED <<arr, pool>>
  BY <1>1, FailMoves, OwnedMoves, OwnedHead DEF ExpandFill
<1>2. CASE ~(Fail(t) /\ UNCHANGED <<arr, pool>>)
  <2>1. PICK i \in pool, p \in NewPos(exp[t].node, at[t].lvl) :
          /\ pool' = pool \ {i}
          /\ arr' = [arr EXCEPT ![i] = [Empty EXCEPT ![p] = exp[t].node]]
          /\ exp' = [exp EXCEPT ![t].arr = i]
          /\ Goto(t, "exp_cas")
          /\ UNCHANGED <<at, cur, res>>
    BY <1>2 DEF ExpandFill
  <2>2. i \in ArrId /\ i \notin Private /\ i \notin Published
    BY DEF TypeOK, ArraysOwned, Published
  <2>3. /\ pc[t] # "exp_cas" /\ pc' = [pc EXCEPT ![t] = "exp_cas"]
        /\ exp'[t].arr = i /\ exp'[t].node = exp[t].node
        /\ \A u \in Threads \ {t} : pc'[u] = pc[u] /\ exp'[u] = exp[u]
        /\ pc'[t] = "exp_cas"
    BY <2>1 DEF ExpandFill, Goto, TypeOK, Expansion
  <2>4. Private' = Private \cup {i}
    BY <2>3 DEF Private
  <2>5. Published' = Published
    BY <2>1, <2>2, <2>4 DEF Published
  <2>6. HeadArr \in Published' /\ (Private \cap pool)' = {}
    BY <2>1, <2>4, <2>5 DEF ArraysOwned
  <2>7. \A u, v \in Threads : pc'[u] = "exp_cas" /\ pc'[v] = "exp_cas"
                                /\ exp'[u].arr = exp'[v].arr => u = v
    <3>1. \A u \in Threads \ {t} : pc'[u] = "exp_cas" => exp'[u].arr # i
      BY <2>2, <2>3 DEF Private
    <3> QED
      BY <2>3, <3>1 DEF ArraysOwned
  <2>8. \A u \in Threads : at'[u].arr \in Published'
    BY <2>1, <2>5 DEF ArraysOwned
  <2>9. ASSUME NEW j \in ArrId, NEW s \in Slots, is_array(arr'[j][s])
        PROVE  arr'[j][s].ref \in Published'
    <3>1. CASE j # i
      BY <2>1, <2>5, <2>9, <3>1 DEF TypeOK, ArraysOwned
    <3>2. CASE j = i
      <4>1. arr'[j][s] \in {Null, exp[t].node}
        BY <2>1, <2>2, <3>2 DEF Empty, TypeOK
      <4>2. ~is_array(Null)
        BY DEF is_array, Null
      <4> QED
        BY <2>5, <2>9, <4>1, <4>2 DEF ArraysOwned
    <3> QED
      BY <3>1, <3>2
  <2>10. \A u \in Threads : is_array(exp'[u].node) => exp'[u].node.ref \in Published'
    BY <2>3, <2>5 DEF ArraysOwned
  <2> QED
    BY <2>6, <2>7, <2>8, <2>9, <2>10 DEF ArraysOwned, is_array
<1> QED
  BY <1>1, <1>2

LEMMA OwnedExpandCas ==
  ASSUME TypeOK, ArraysOwned, NEW t \in Threads, ExpandCas(t)
  PROVE  ArraysOwned'
<1> DEFINE new == exp[t].arr
<1>1. /\ new \in ArrId /\ new \in Private /\ new \notin pool
      /\ new \notin Published /\ new # HeadArr /\ pc[t] = "exp_cas"
  BY DEF TypeOK, Expansion, ExpandCas, ArraysOwned, Private, Published
<1>2. Moves(t, new)
  BY DescendMoves, FailMoves DEF ExpandCas
<1>3. Private' = Private \ {new}
  <2>1. pc'[t] # "exp_cas"
    BY <1>2 DEF Moves
  <2>2. \A u \in Threads \ {t} : pc[u] = "exp_cas" => exp[u].arr # new
    BY <1>1 DEF ArraysOwned
  <2>3. \A u \in Threads \ {t} : pc'[u] = pc[u] /\ exp'[u] = exp[u]
    BY <1>2 DEF Moves, Others
  <2> QED
    BY <1>1, <2>1, <2>2, <2>3 DEF Private
<1>4. \A u, v \in Threads : pc'[u] = "exp_cas" /\ pc'[v] = "exp_cas"
                              /\ exp'[u].arr = exp'[v].arr => u = v
  BY <1>2 DEF Moves, Others, ArraysOwned
<1>5. \A u \in Threads : is_array(exp'[u].node) => exp'[u].node.ref \in Published
  BY <1>2 DEF Moves, Others, ArraysOwned, NoExp, Null, is_array
<1>6. CASE Slot(t) = exp[t].node
  <2>1. arr' = SetSlot(t, ArrayWord(new)) /\ pool' = pool
    BY <1>6 DEF ExpandCas
  <2>2. Published' = Published \cup {new}
    BY <1>1, <1>3, <2>1 DEF Published
  <2>3. \A u \in Threads : at'[u].arr \in Published'
    BY <1>2, <2>2 DEF Moves, Others, ArraysOwned
  <2>4. ASSUME NEW i \in ArrId, NEW s \in Slots, is_array(arr'[i][s])
        PROVE  arr'[i][s].ref \in Published'
    <3>1. arr'[i][s] = IF i = at[t].arr /\ s = Pos(t) THEN ArrayWord(new)
                                                       ELSE arr[i][s]
      BY <1>1, <2>1, SetSlotWords, ConstantTypes
    <3>2. ArrayWord(new).ref = new
      BY DEF ArrayWord
    <3> QED
      BY <2>2, <2>4, <3>1, <3>2 DEF ArraysOwned
  <2> QED
    BY <1>1, <1>3, <1>4, <1>5, <2>1, <2>2, <2>3, <2>4 DEF ArraysOwned, is_array
<1>7. CASE Slot(t) # exp[t].node
  <2>1. arr' = [arr EXCEPT ![new] = Empty] /\ pool' = pool \cup {new} /\ Fail(t)
    BY <1>7 DEF ExpandCas
  <2>2. Published' = Published
    BY <1>1, <1>3, <2>1 DEF Published
  <2>3. Moves(t, HeadArr)
    BY <2>1, FailMoves
  <2>4. \A u \in Threads : at'[u].arr \in Published'
    BY <2>2, <2>3 DEF Moves, Others, ArraysOwned
  <2>5. ASSUME NEW i \in ArrId, NEW s \in Slots, is_array(arr'[i][s])
        PROVE  arr'[i][s].ref \in Published'
    <3>1. arr'[i][s] = IF i = new THEN Null ELSE arr[i][s]
      BY <1>1, <2>1 DEF TypeOK, Empty
    <3>2. ~is_array(Null)
      BY DEF is_array, Null
    <3> QED
      BY <2>2, <2>5, <3>1, <3>2 DEF ArraysOwned
  <2>6. Private' \cap pool' = {}
    BY <1>1, <1>3, <2>1 DEF ArraysOwned
  <2> QED
    BY <1>4, <1>5, <2>2, <2>4, <2>5, <2>6 DEF ArraysOwned, is_array
<1> QED
  BY <1>6, <1>7

\* A step that stores a word in its slot and starts or ends nothing.
LEMMA OwnedStore ==
  ASSUME TypeOK, ArraysOwned, NEW t \in Threads, Others(t), pool' = pool,
         pc[t] # "exp_cas", pc'[t] # "exp_cas",
         at'[t].arr \in Published,
         is_array(exp'[t].node) => exp'[t].node.ref \in Published,
         NEW w \in Word, is_array(w) => w.ref \in Published, arr' = SetSlot(t, w)
  PROVE  ArraysOwned'
<1>1. \A i \in ArrId, s \in Slots :
        is_array(arr'[i][s]) => arr'[i][s].ref \in Published
  BY SetSlotWords DEF ArraysOwned
<1> QED
  BY <1>1, OwnedFrame

LEMMA OwnedInsertStep ==
  ASSUME TypeOK, ArraysOwned, SlotsStayFull, NEW t \in Threads, InsertStep(t)
  PROVE  ArraysOwned'
<1> USE OwnedHead
<1>1. CASE MarkSlot(t)
  <2>1. Others(t) /\ at'[t] = at[t] /\ exp'[t] = exp[t] /\ pc'[t] = "load"
    BY <1>1 DEF MarkSlot, Others, Goto, loc, TypeOK
  <2>2. /\ Marked(Slot(t)) \in Word
        /\ is_array(Marked(Slot(t))) => Marked(Slot(t)).ref \in Published
    BY ConstantTypes DEF Marked, is_array, Word
  <2>3. is_array(exp[t].node) => exp[t].node.ref \in Published
    BY DEF ArraysOwned
  <2> QED
    BY <1>1, <2>1, <2>2, <2>3, OwnedStore DEF MarkSlot
<1>2. CASE LoadSlot(t)
  <2>1. CASE is_array(Slot(t))
    BY <1>2, <2>1, FollowMoves, OwnedMoves DEF LoadSlot
  <2>2. CASE ~is_array(Slot(t))
    <3>1. Others(t) /\ at'[t] = at[t] /\ exp'[t] = exp[t] /\ pc'[t] # "exp_cas"
      BY <1>2, <2>2 DEF LoadSlot, Others, Goto, See, TypeOK
    <3> QED
      BY <1>2, <3>1, OwnedStill DEF LoadSlot
  <2> QED
    BY <2>1, <2>2
<1>3. CASE CasNull(t)
  <2>1. CASE Slot(t) = Null
    <3>1. Moves(t, HeadArr) /\ arr' = SetSlot(t, arg[t].node) /\ pool' = pool
      BY <1>3, <2>1, RetMoves DEF CasNull
    <3>2. arg[t].node \in Word /\ ~is_array(arg[t].node)
      BY <1>3 DEF CasNull, SlotsStayFull, Full, InsertPCs, is_array, TypeOK, Call
    <3>3. is_array(exp'[t].node) => exp'[t].node.ref \in Published
      BY <3>1 DEF Moves, ArraysOwned, NoExp, Null, is_array
    <3>4. at'[t].arr \in Published /\ pc'[t] # "exp_cas" /\ pc[t] # "exp_cas"
      BY <1>3, <3>1 DEF Moves, CasNull
    <3> QED
      BY <3>1, <3>2, <3>3, <3>4, OwnedStore DEF Moves
  <2>2. CASE Slot(t) # Null
    <3>1. Others(t) /\ at'[t] = at[t] /\ exp'[t] = exp[t] /\ pc'[t] # "exp_cas"
      BY <1>3, <2>2 DEF CasNull, Others, Goto, TypeOK
    <3> QED
      BY <1>3, <2>2, <3>1, OwnedStill DEF CasNull
  <2> QED
    BY <2>1, <2>2
<1>4. CASE ReloadNull(t)
  <2>1. CASE is_array(Slot(t))
    BY <1>4, <2>1, FollowMoves, OwnedMoves DEF ReloadNull
  <2>2. CASE ~is_array(Slot(t))
    <3>1. Others(t) /\ at'[t] = at[t] /\ exp'[t] = exp[t] /\ pc'[t] # "exp_cas"
      BY <1>4, <2>2 DEF ReloadNull, Others, Goto, See, TypeOK
    <3> QED
      BY <1>4, <3>1, OwnedStill DEF ReloadNull
  <2> QED
    BY <2>1, <2>2
<1>5. CASE CmpNull(t)
  <2>1. Moves(t, HeadArr)
    BY <1>5, RetMoves, FailMoves DEF CmpNull, DropNew
  <2> QED
    BY <1>5, <2>1, OwnedMoves DEF CmpNull
<1>6. CASE CmpHash(t)
  <2>1. Others(t) /\ at'[t] = at[t] /\ exp'[t] = exp[t] /\ pc'[t] # "exp_cas"
    BY <1>6 DEF CmpHash, Others, Goto, TypeOK, loc
  <2> QED
    BY <1>6, <2>1, OwnedStill DEF CmpHash, mem
<1>7. CASE CasUpdate(t)
  <2>1. Others(t) /\ at'[t] = at[t] /\ exp'[t] = exp[t] /\ pc'[t] # "exp_cas"
    BY <1>7 DEF CasUpdate, Others, Goto, See, TypeOK
  <2>2. CASE Slot(t) = cur[t]
    <3>1. arg[t].node \in Word /\ ~is_array(arg[t].node)
      BY <1>7 DEF CasUpdate, SlotsStayFull, Full, InsertPCs, is_array, TypeOK, Call
    <3>2. is_array(exp[t].node) => exp[t].node.ref \in Published
      BY DEF ArraysOwned
    <3> QED
      BY <1>7, <2>1, <2>2, <3>1, <3>2, OwnedStore DEF CasUpdate
  <2>3. CASE Slot(t) # cur[t]
    BY <1>7, <2>1, <2>3, OwnedStill DEF CasUpdate
  <2> QED
    BY <2>2, <2>3
<1>8. CASE ReloadUpdate(t)
  <2>1. CASE is_array(Slot(t))
    BY <1>8, <2>1, FollowMoves, OwnedMoves DEF ReloadUpdate
  <2>2. CASE ~is_array(Slot(t)) /\ DropNew(t)
    <3>1. Moves(t, HeadArr)
      BY <2>2, RetMoves DEF DropNew
    <3> QED
      BY <1>8, <3>1, OwnedMoves DEF ReloadUpdate
  <2>3. CASE ~is_array(Slot(t)) /\ ~DropNew(t)
    <3>1. Others(t) /\ at'[t] = at[t] /\ exp'[t] = exp[t] /\ pc'[t] # "exp_cas"
      BY <1>8, <2>3 DEF ReloadUpdate, Others, Goto, See, TypeOK
    <3> QED
      BY <1>8, <3>1, OwnedStill DEF ReloadUpdate
  <2> QED
    BY <2>1, <2>2, <2>3
<1>9. CASE FreeOld(t)
  <2>1. Moves(t, HeadArr)
    BY <1>9, RetMoves DEF FreeOld
  <2> QED
    BY <1>9, <2>1, OwnedMoves DEF FreeOld
<1>10. CASE ExpandLoad(t)
  <2>1. /\ Others(t) /\ at'[t] = at[t] /\ pc'[t] # "exp_cas" /\ pc[t] # "exp_cas"
        /\ exp'[t].node = Slot(t) /\ pool' = pool /\ arr' = arr
    BY <1>10 DEF ExpandLoad, Others, Goto, See, TypeOK, Expansion, mem
  <2>2. \A i \in ArrId, s \in Slots :
          is_array(arr'[i][s]) => arr'[i][s].ref \in Published
    BY <2>1 DEF ArraysOwned
  <2> QED
    BY <2>1, <2>2, OwnedFrame
<1>11. CASE ExpandFill(t)
  BY <1>11, OwnedExpandFill
<1>12. CASE ExpandCas(t)
  BY <1>12, OwnedExpandCas
<1> QED
  BY <1>1, <1>2, <1>3, <1>4, <1>5, <1>6, <1>7, <1>8, <1>9, <1>10, <1>11, <1>12
  DEF InsertStep

LEMMA OwnedFindStep ==
  ASSUME TypeOK, ArraysOwned, NEW t \in Threads, FindStep(t) \/ Return(t)
  PROVE  ArraysOwned'
<1> USE OwnedHead
<1>1. CASE FindLoad(t)
  <2> DEFINE w == get_unmarked_node(Slot(t))
  <2>1. is_array(w) => w.ref \in Published
    BY DEF get_unmarked_node, is_array, Word
  <2>2. CASE Ret(t, NoValue)
    BY <1>1, <2>2, RetMoves, OwnedMoves DEF FindLoad, mem
  <2>3. CASE ~Ret(t, NoValue)
    <3>1. /\ Others(t) /\ exp'[t] = exp[t] /\ pc'[t] # "exp_cas" /\ pc[t] # "exp_cas"
          /\ at'[t].arr \in Published /\ pool' = pool /\ arr' = arr
      BY <1>1, <2>1, <2>3 DEF FindLoad, Others, Goto, See, TypeOK, Place, mem
    <3>2. is_array(exp[t].node) => exp[t].node.ref \in Published
      BY DEF ArraysOwned
    <3>3. \A i \in ArrId, s \in Slots :
            is_array(arr'[i][s]) => arr'[i][s].ref \in Published
      BY <3>1 DEF ArraysOwned
    <3> QED
      BY <3>1, <3>2, <3>3, OwnedFrame
  <2> QED
    BY <2>2, <2>3
<1>2. CASE FindCmp(t)
  <2>1. CASE Ret(t, NoValue)
    BY <1>2, <2>1, RetMoves, OwnedMoves DEF FindCmp, mem
  <2>2. CASE ~Ret(t, NoValue)
    <3>1. Others(t) /\ at'[t] = at[t] /\ exp'[t] = exp[t] /\ pc'[t] # "exp_cas"
      BY <1>2, <2>2 DEF FindCmp, Others, Goto, TypeOK
    <3> QED
      BY <1>2, <3>1, OwnedStill DEF FindCmp, mem
  <2> QED
    BY <2>1, <2>2
<1>3. CASE FindValue(t)
  BY <1>3, RetMoves, OwnedMoves DEF FindValue, mem
<1>4. CASE Return(t)
  <2>1. Others(t) /\ at'[t] = at[t] /\ exp'[t] = exp[t] /\ pc'[t] # "exp_cas"
    BY <1>4 DEF Return, Others, Goto, TypeOK
  <2> QED
    BY <1>4, <2>1, OwnedStill DEF Return, mem
<1> QED
  BY <1>1, <1>2, <1>3, <1>4 DEF FindStep

LEMMA OwnedInvoke ==
  ASSUME TypeOK, ArraysOwned, NEW t \in Threads, NEW h \in Hash,
         InvokeInsert(t, h) \/ InvokeFind(t, h)
  PROVE  ArraysOwned'
<1>1. /\ Others(t) /\ at'[t] = at[t] /\ exp'[t] = exp[t] /\ pc'[t] # "exp_cas"
      /\ pc[t] # "exp_cas" /\ pool' = pool /\ arr' = arr
  BY DEF InvokeInsert, InvokeFind, Others, Goto, TypeOK, mem
<1> QED
  BY <1>1, OwnedStill

-----------------------------------------------------------------------------
(* A slot that has been seen occupied stays occupied.                       *)

KeepsFull == \A i \in Published, s \in Slots : arr[i][s] # Null => arr'[i][s] # Null

LEMMA StoreKeepsFull ==
  ASSUME TypeOK, NEW t \in Threads, NEW w \in Word, w # Null, arr' = SetSlot(t, w)
  PROVE  KeepsFull
BY SetSlotWords DEF KeepsFull, Published

LEMMA SameKeepsFull == ASSUME arr' = arr PROVE KeepsFull
BY DEF KeepsFull

\* The slot of a thread that stays where it is.
LEMMA SlotStaysFull ==
  ASSUME TypeOK, ArraysOwned, NEW t \in Threads, KeepsFull, Slot(t) # Null,
         at'[t].arr = at[t].arr, at'[t].lvl = at[t].lvl, arg'[t] = arg[t]
  PROVE  Slot(t)' # Null
<1>1. Pos(t)' = Pos(t)
  BY DEF Pos
<1>2. at[t].arr \in Published /\ Pos(t) \in Slots
  BY SlotType DEF ArraysOwned
<1> QED
  BY <1>1, <1>2 DEF Slot, KeepsFull

LEMMA FullFrame ==
  ASSUME TypeOK, ArraysOwned, SlotsStayFull, NEW t \in Threads, Others(t),
         \A u \in Threads \ {t} : arg'[u] = arg[u], KeepsFull, Full(t)'
  PROVE  SlotsStayFull'
<1>1. ASSUME NEW u \in Threads \ {t}
      PROVE  Full(u)'
  <2>1. /\ pc'[u] = pc[u] /\ at'[u] = at[u] /\ exp'[u] = exp[u] /\ cur'[u] = cur[u]
        /\ arg'[u] = arg[u]
    BY DEF Others
  <2>2. Slot(u) # Null => Slot(u)' # Null
    BY <2>1, SlotStaysFull
  <2> QED
    BY <2>1, <2>2 DEF SlotsStayFull, Full
<1> QED
  BY <1>1 DEF SlotsStayFull

LEMMA FullMoves ==
  ASSUME TypeOK, ArraysOwned, SlotsStayFull, NEW t \in Threads, NEW i,
         Moves(t, i), arg' = arg, KeepsFull,
         pc[t] \in InsertPCs \/ pc'[t] = "ret",
         pc'[t] = "mark" => Slot(t) # Null
  PROVE  SlotsStayFull'
<1>1. pc'[t] = "mark" => Slot(t)' # Null
  BY SlotStaysFull DEF Moves
<1>2. Full(t)'
  BY <1>1 DEF Moves, Full, SlotsStayFull, InsertPCs
<1> QED
  BY <1>2, FullFrame DEF Moves

LEMMA FullExpand ==
  ASSUME TypeOK, ArraysOwned, SlotsStayFull, NEW t \in Threads,
         ExpandFill(t) \/ ExpandCas(t)
  PROVE  SlotsStayFull'
<1>1. /\ Slot(t) # Null /\ exp[t].node # Null /\ pc[t] \in InsertPCs /\ arg' = arg
      /\ arg[t].node.kind = "node"
  BY DEF ExpandFill, ExpandCas, SlotsStayFull, Full, InsertPCs
<1>2. CASE Fail(t) /\ UNCHANGED <<arr, pool>>
  BY <1>1, <1>2, FailMoves, FullMoves, SameKeepsFull
<1>3. CASE ExpandFill(t) /\ ~(Fail(t) /\ UNCHANGED <<arr, pool>>)
  <2>1. PICK i \in pool, p \in NewPos(exp[t].node, at[t].lvl) :
          /\ arr' = [arr EXCEPT ![i] = [Empty EXCEPT ![p] = exp[t].node]]
          /\ exp' = [exp EXCEPT ![t].arr = i]
          /\ Goto(t, "exp_cas")
          /\ UNCHANGED <<at, cur, res>>
    BY <1>3 DEF ExpandFill
  <2>2. KeepsFull
    BY <2>1 DEF KeepsFull, Published, TypeOK
  <2>3. /\ Others(t) /\ pc'[t] = "exp_cas" /\ exp'[t].node = exp[t].node
        /\ at'[t] = at[t]
    BY <2>1 DEF Others, Goto, TypeOK, Expansion
  <2>4. Slot(t)' # Null
    BY <1>1, <2>2, <2>3, SlotStaysFull
  <2>5. Full(t)'
    BY <1>1, <2>3, <2>4 DEF Full
  <2> QED
    BY <1>1, <2>2, <2>3, <2>5, FullFrame
<1>4. CASE ExpandCas(t)
  <2> DEFINE new == exp[t].arr
  <2>1. new \in ArrId /\ new \notin Published
    BY <1>4 DEF ExpandCas, TypeOK, Expansion, Published, Private
  <2>2. Moves(t, new)
    BY <1>4, DescendMoves, FailMoves DEF ExpandCas
  <2>3. KeepsFull
    <3>1. CASE Slot(t) = exp[t].node
      <4>1. ArrayWord(new) \in Word /\ ArrayWord(new) # Null
        BY <2>1, ConstantTypes DEF ArrayWord, Null
      <4> QED
        BY <1>4, <3>1, <4>1, StoreKeepsFull DEF ExpandCas
    <3>2. CASE Slot(t) # exp[t].node
      <4>1. arr' = [arr EXCEPT ![new] = Empty]
        BY <1>4, <3>2 DEF ExpandCas
      <4> QED
        BY <2>1, <4>1 DEF KeepsFull, Published, TypeOK
    <3> QED
      BY <3>1, <3>2
  <2> QED
    BY <1>1, <2>2, <2>3, FullMoves
<1> QED
  BY <1>2, <1>3, <1>4

LEMMA MarkedNotNull == ASSUME NEW w \in Word
                       PROVE  Marked(w) # Null /\ (is_node_marked(w) => w # Null)
BY DEF Marked, Null, is_node_marked, Word

\* A step that leaves the arrays, the call and the place of its thread alone.
LEMMA FullStill ==
  ASSUME TypeOK, ArraysOwned, SlotsStayFull, NEW t \in Threads, Others(t),
         arr' = arr, arg' = arg, at'[t] = at[t], Full(t)'
  PROVE  SlotsStayFull'
BY SameKeepsFull, FullFrame

LEMMA SlotSame ==
  ASSUME NEW t \in Threads, arr' = arr, arg' = arg, at'[t] = at[t]
  PROVE  Slot(t)' = Slot(t)
BY DEF Slot, Pos

LEMMA FullInsertStep ==
  ASSUME TypeOK, ArraysOwned, SlotsStayFull, NEW t \in Threads, InsertStep(t)
  PROVE  SlotsStayFull'
<1> USE SlotSame, SameKeepsFull, SlotType
<1>0. Full(t)
  BY DEF SlotsStayFull
<1>1. CASE MarkSlot(t)
  <2>1. Others(t) /\ at'[t] = at[t] /\ exp'[t] = exp[t] /\ pc'[t] = "load" /\ arg' = arg
    BY <1>1 DEF MarkSlot, Others, Goto, loc, TypeOK
  <2>2. KeepsFull
    BY <1>1, MarkedNotNull, ConstantTypes, StoreKeepsFull DEF MarkSlot
  <2>3. Full(t)'
    BY <1>0, <1>1, <2>1 DEF Full, InsertPCs, MarkSlot
  <2> QED
    BY <2>1, <2>2, <2>3, FullFrame
<1>2. CASE LoadSlot(t)
  <2>1. CASE is_array(Slot(t))
    <3>1. Slot(t) # Null
      BY <2>1 DEF is_array, Null
    <3> QED
      BY <1>2, <2>1, <3>1, FollowMoves, FullMoves DEF LoadSlot, InsertPCs
  <2>2. CASE ~is_array(Slot(t))
    <3>1. /\ Others(t) /\ at'[t] = at[t] /\ exp'[t] = exp[t] /\ arg' = arg /\ arr' = arr
          /\ \/ pc'[t] = "exp_load" /\ is_node_marked(Slot(t))
             \/ pc'[t] = "cas_null"
             \/ pc'[t] = "cmp" /\ Slot(t) # Null
      BY <1>2, <2>2 DEF LoadSlot, Others, Goto, See, TypeOK
    <3>2. Full(t)'
      BY <1>0, <1>2, <3>1, MarkedNotNull DEF Full, InsertPCs, LoadSlot
    <3> QED
      BY <3>1, <3>2, FullStill
  <2> QED
    BY <2>1, <2>2
<1>3. CASE CasNull(t)
  <2>1. CASE Slot(t) = Null
    <3>1. arg[t].node \in Word /\ arg[t].node # Null
      BY <1>0, <1>3 DEF CasNull, Full, InsertPCs, Null, TypeOK, Call
    <3>2. KeepsFull
      BY <1>3, <2>1, <3>1, StoreKeepsFull DEF CasNull
    <3>3. Moves(t, HeadArr) /\ pc'[t] = "ret"
      BY <1>3, <2>1, RetMoves DEF CasNull, Ret, Goto, TypeOK
    <3> QED
      BY <1>3, <3>2, <3>3, FullMoves DEF CasNull
  <2>2. CASE Slot(t) # Null
    <3>1. /\ Others(t) /\ at'[t] = at[t] /\ exp'[t] = exp[t] /\ arg' = arg /\ arr' = arr
          /\ pc'[t] = "reload_null"
      BY <1>3, <2>2 DEF CasNull, Others, Goto, TypeOK
    <3>2. Full(t)'
      BY <1>0, <1>3, <2>2, <3>1 DEF Full, InsertPCs, CasNull
    <3> QED
      BY <3>1, <3>2, FullStill
  <2> QED
    BY <2>1, <2>2
<1>4. CASE ReloadNull(t)
  <2>0. Slot(t) # Null
    BY <1>0, <1>4 DEF Full, ReloadNull
  <2>1. CASE is_array(Slot(t))
    BY <1>4, <2>0, <2>1, FollowMoves, FullMoves DEF ReloadNull, InsertPCs
  <2>2. CASE ~is_array(Slot(t))
    <3>1. /\ Others(t) /\ at'[t] = at[t] /\ exp'[t] = exp[t] /\ arg' = arg /\ arr' = arr
          /\ cur'[t] = Slot(t) /\ pc'[t] \in {"exp_load", "cmp_null"}
      BY <1>4, <2>2 DEF ReloadNull, Others, Goto, See, TypeOK
    <3>2. Full(t)'
      BY <1>0, <1>4, <2>0, <3>1 DEF Full, InsertPCs, ReloadNull
    <3> QED
      BY <3>1, <3>2, FullStill
  <2> QED
    BY <2>1, <2>2
<1>5. CASE CmpNull(t)
  <2>1. Moves(t, HeadArr) /\ Slot(t) # Null
    BY <1>0, <1>5, RetMoves, FailMoves DEF CmpNull, DropNew, Full
  <2> QED
    BY <1>5, <2>1, FullMoves DEF CmpNull, InsertPCs
<1>6. CASE CmpHash(t)
  <2>1. /\ Others(t) /\ at'[t] = at[t] /\ exp'[t] = exp[t] /\ arg' = arg /\ arr' = arr
        /\ pc'[t] \in {"cas_upd", "exp_load"}
    BY <1>6 DEF CmpHash, Others, Goto, TypeOK, loc, mem
  <2>2. Full(t)'
    BY <1>0, <1>6, <2>1 DEF Full, InsertPCs, CmpHash
  <2> QED
    BY <2>1, <2>2, FullStill
<1>7. CASE CasUpdate(t)
  <2>1. /\ Others(t) /\ at'[t] = at[t] /\ exp'[t] = exp[t] /\ arg' = arg
        /\ pc'[t] \in {"free", "reload_upd"}
    BY <1>7 DEF CasUpdate, Others, Goto, See, TypeOK
  <2>2. Full(t)'
    BY <1>0, <1>7, <2>1 DEF Full, InsertPCs, CasUpdate
  <2>3. KeepsFull
    <3>1. arg[t].node \in Word /\ arg[t].node # Null
      BY <1>0, <1>7 DEF CasUpdate, Full, InsertPCs, Null, TypeOK, Call
    <3> QED
      BY <1>7, <3>1, StoreKeepsFull DEF CasUpdate
  <2> QED
    BY <2>1, <2>2, <2>3, FullFrame
<1>8. CASE ReloadUpdate(t)
  <2>1. CASE is_array(Slot(t))
    <3>1. Slot(t) # Null
      BY <2>1 DEF is_array, Null
    <3> QED
      BY <1>8, <2>1, <3>1, FollowMoves, FullMoves DEF ReloadUpdate, InsertPCs
  <2>2. CASE ~is_array(Slot(t)) /\ DropNew(t)
    <3>1. Moves(t, HeadArr) /\ pc'[t] = "ret"
      BY <2>2, RetMoves DEF DropNew, Ret, Goto, TypeOK
    <3> QED
      BY <1>8, <3>1, FullMoves DEF ReloadUpdate
  <2>3. CASE ~is_array(Slot(t)) /\ ~DropNew(t)
    <3>1. /\ Others(t) /\ at'[t] = at[t] /\ exp'[t] = exp[t] /\ arg' = arg /\ arr' = arr
          /\ pc'[t] = "exp_load" /\ is_node_marked(Slot(t))
      BY <1>8, <2>3 DEF ReloadUpdate, Others, Goto, See, TypeOK
    <3>2. Full(t)'
      BY <1>0, <1>8, <3>1, MarkedNotNull DEF Full, InsertPCs, ReloadUpdate
    <3> QED
      BY <3>1, <3>2, FullStill
  <2> QED
    BY <2>1, <2>2, <2>3
<1>9. CASE FreeOld(t)
  <2>1. Moves(t, HeadArr) /\ pc'[t] = "ret"
    BY <1>9, RetMoves DEF FreeOld, Ret, Goto, TypeOK
  <2> QED
    BY <1>9, <2>1, FullMoves DEF FreeOld
<1>10. CASE ExpandLoad(t)
  <2>1. /\ Others(t) /\ at'[t] = at[t] /\ exp'[t].node = Slot(t) /\ arg' = arg
        /\ arr' = arr /\ pc'[t] = "exp_fill"
    BY <1>10 DEF ExpandLoad, Others, Goto, See, TypeOK, Expansion, mem
  <2>2. Full(t)'
    BY <1>0, <1>10, <2>1 DEF Full, InsertPCs, ExpandLoad
  <2> QED
    BY <2>1, <2>2, FullStill
<1>11. CASE ExpandFill(t) \/ ExpandCas(t)
  BY <1>11, FullExpand
<1> QED
  BY <1>1, <1>2, <1>3, <1>4, <1>5, <1>6, <1>7, <1>8, <1>9, <1>10, <1>11
  DEF InsertStep

LEMMA FullOtherSteps ==
  ASSUME TypeOK, ArraysOwned, SlotsStayFull, NEW t \in Threads, NEW h \in Hash,
         FindStep(t) \/ Return(t) \/ InvokeInsert(t, h) \/ InvokeFind(t, h)
  PROVE  SlotsStayFull'
<1>1. /\ Others(t) /\ arr' = arr /\ \A u \in Threads \ {t} : arg'[u] = arg[u]
      /\ \/ pc'[t] \in FindPCs \cup {"idle", "ret"}
         \/ pc'[t] = "load" /\ arg'[t].node.kind = "node"
  <2>1. CASE FindStep(t)
    BY <2>1 DEF FindStep, FindLoad, FindCmp, FindValue, FindPCs, Others, Goto, See,
       Ret, TypeOK, mem
  <2>2. CASE Return(t)
    BY <2>2 DEF Return, Others, Goto, TypeOK, mem
  <2>3. CASE InvokeInsert(t, h)
    BY <2>3 DEF InvokeInsert, Others, Goto, TypeOK, NodeWord
  <2>4. CASE InvokeFind(t, h)
    BY <2>4 DEF InvokeFind, Others, Goto, TypeOK, mem, FindPCs
  <2> QED
    BY <2>1, <2>2, <2>3, <2>4
<1>2. Full(t)'
  BY <1>1 DEF Full, FindPCs, InsertPCs
<1> QED
  BY <1>1, <1>2, SameKeepsFull, FullFrame

-----------------------------------------------------------------------------
\* The inductive invariant.
TableInv == TypeOK /\ ArraysOwned /\ SlotsStayFull

LEMMA TableInvInit == Init => TableInv
<1> SUFFICES ASSUME Init PROVE TableInv
  OBVIOUS
<1>1. TypeOK
  BY TypeInit
<1>2. Private = {} /\ Published = {HeadArr}
  BY MemoryAssumption DEF Init, Private, Published
<1>3. ArraysOwned
  BY <1>2, MemoryAssumption
  DEF Init, ArraysOwned, Empty, Null, is_array, AtHead, NoExp
<1>4. SlotsStayFull
  BY DEF Init, SlotsStayFull, Full, InsertPCs
<1> QED
  BY <1>1, <1>3, <1>4 DEF TableInv

LEMMA TableInvNext == TableInv /\ [Next]_vars => TableInv'
<1> SUFFICES ASSUME TypeOK, ArraysOwned, SlotsStayFull, [Next]_vars
             PROVE  TableInv'
  BY DEF TableInv
<1>1. TypeOK'
  BY TypeNext
<1>2. CASE UNCHANGED vars
  BY <1>1, <1>2 DEF TableInv, ArraysOwned, SlotsStayFull, Full, Published, Private,
     Slot, Pos, is_array, vars, mem, loc
<1>3. CASE Next
  <2>1. CASE \E t \in Inserters : \E h \in HashesOf[t] : InvokeInsert(t, h)
    BY <1>1, <2>1, OwnedInvoke, FullOtherSteps, HashAssumption DEF TableInv, Threads
  <2>2. CASE \E t \in Finders, h \in Hash : InvokeFind(t, h)
    BY <1>1, <2>2, OwnedInvoke, FullOtherSteps DEF TableInv, Threads
  <2>3. CASE \E t \in Threads : InsertStep(t) \/ FindStep(t) \/ Return(t)
    BY <1>1, <2>3, OwnedInsertStep, OwnedFindStep, FullInsertStep, FullOtherSteps,
       HashAssumption DEF TableInv
  <2> QED
    BY <1>3, <2>1, <2>2, <2>3 DEF Next
<1> QED
  BY <1>2, <1>3

LEMMA TableInvariant == Spec => []TableInv
BY TableInvInit, TableInvNext, PTL DEF Spec

\* An array is known to its builder only until it is published, and then for
\* good: no thread works in, and no slot points to, an array that is not.
THEOREM ArraysOwnedCorrect == Spec => []ArraysOwned
BY TableInvariant, PTL DEF TableInv

\* wtf_table_insert and wtf_table_expand_table never dereference NULL, however
\* many threads race for a slot and whether or not freed memory is reused.
THEOREM NoNullDereferenceCorrect == Spec => []NoNullDereference
<1>1. TableInv => NoNullDereference
  BY DEF TableInv, SlotsStayFull, Full, NoNullDereference
<1> QED
  BY <1>1, TableInvariant, PTL

-----------------------------------------------------------------------------
(* Ownership of the nodes, where freed memory is not handed out again: a   *)
(* node is in one slot of the table, or held by one thread that is about   *)
(* to store it or to free it.                                              *)

\* The nodes the table points to, and those a thread answers for: the one it
\* inserts until it has stored it, the one it replaced until it has freed it.
Tab     == {a \in Addr : \E i \in Published, s \in Slots :
                            arr[i][s].kind = "node" /\ arr[i][s].ref = a}
HeldBy(t) == {a \in Addr : (pc[t] \in InsertPCs /\ arg[t].node.ref = a)
                             \/ (pc[t] = "free" /\ cur[t].ref = a)}

\* What a thread knows of the nodes it has pointers to.
Knows(t) ==
  /\ pc[t] \in InsertPCs => /\ arg[t].node = NodeWord(arg[t].node.ref)
                            /\ heap[arg[t].node.ref].hash = arg[t].hash
  /\ pc[t] \in {"cmp", "cas_upd", "free"} => cur[t].kind = "node" /\ ~cur[t].mark
  /\ pc[t] \in {"cmp", "cas_upd"} => heap[cur[t].ref].st # "free"
  /\ pc[t] = "cas_upd" => heap[cur[t].ref].hash = arg[t].hash
  /\ pc[t] = "exp_cas" => \E p \in Slots : arr[exp[t].arr] = [Empty EXCEPT ![p] = exp[t].node]

\* Only a slot that holds something is marked.
NullsUnmarked == \A i \in Published, s \in Slots : arr[i][s].kind = "null" => arr[i][s] = Null

NodesOwned ==
  /\ OneOwner /\ NullsUnmarked
  /\ \A t \in Threads : Knows(t)
  /\ \A a \in Tab : heap[a].st = "live"
  /\ \A t \in Threads : \A a \in HeldBy(t) : heap[a].st = "live" /\ a \notin Tab
  /\ \A t, u \in Threads : HeldBy(t) \cap HeldBy(u) # {} => t = u

\* A node that is neither freed nor in the table is held by a thread, was
\* forgotten by an insert that returned false, or belongs to a lost thread.
NodesKept ==
  \A a \in Addr : heap[a].st = "live" =>
      \/ a \in Tab
      \/ \E t \in Threads : a \in HeldBy(t) \/ pc[t] = "wild"
      \/ "node" \in leaked

\* A digit of a hash is a slot.
LEMMA NewPosType ==
  ASSUME TypeOK, NEW w \in Word, NEW l \in Levels
  PROVE  NewPos(w, l) \subseteq Slots
<1>1. CASE Readable(w) /\ l < MAX_LVL
  <2>1. w.ref \in Addr
    BY <1>1 DEF Readable, Word
  <2>2. heap[w.ref].hash \in [Levels -> Slots]
    BY <2>1, HashAssumption DEF TypeOK, Node
  <2>3. l + 1 \in Levels
    BY <1>1, SizesAssumption DEF Levels
  <2> QED
    BY <1>1, <2>2, <2>3 DEF NewPos
<1>2. CASE ~(Readable(w) /\ l < MAX_LVL)
  <2>1. CUR_ARR_SZ(l + 1) \in 1 .. ARR_SZ
    BY SizesAssumption DEF CUR_ARR_SZ
  <2> QED
    BY <1>2, <2>1, SizesAssumption DEF NewPos, Slots
<1> QED
  BY <1>1, <1>2

\* The words of the published arrays keep their targets.
TableSame ==
  /\ Published' = Published
  /\ \A i \in Published, s \in Slots : /\ arr'[i][s].kind = arr[i][s].kind
                                       /\ arr'[i][s].ref = arr[i][s].ref
                                       /\ arr'[i][s] # Null => arr[i][s] # Null

\* OneOwner, slot by slot.
LEMMA OwnerUnfolded ==
  OneOwner <=> \A i, j \in Published, r, s \in Slots :
                 /\ arr[i][r] # Null /\ arr[i][r].kind = arr[j][s].kind
                 /\ arr[i][r].ref = arr[j][s].ref
                 => i = j /\ r = s
<1>1. ASSUME OneOwner, NEW i \in Published, NEW j \in Published,
             NEW r \in Slots, NEW s \in Slots,
             arr[i][r] # Null, arr[i][r].kind = arr[j][s].kind, arr[i][r].ref = arr[j][s].ref
      PROVE  i = j /\ r = s
  <2>1. <<i, r>> \in Cells /\ <<j, s>> \in Cells
    BY DEF Cells
  <2>2. <<i, r>> = <<j, s>>
    BY <1>1, <2>1 DEF OneOwner
  <2> QED
    BY <2>2
<1>2. ASSUME \A i, j \in Published, r, s \in Slots :
               /\ arr[i][r] # Null /\ arr[i][r].kind = arr[j][s].kind
               /\ arr[i][r].ref = arr[j][s].ref
               => i = j /\ r = s,
             NEW c \in Cells, NEW d \in Cells, arr[c[1]][c[2]] # Null,
             arr[c[1]][c[2]].kind = arr[d[1]][d[2]].kind,
             arr[c[1]][c[2]].ref = arr[d[1]][d[2]].ref
      PROVE  c = d
  <2>1. /\ c = <<c[1], c[2]>> /\ c[1] \in Published /\ c[2] \in Slots
        /\ d = <<d[1], d[2]>> /\ d[1] \in Published /\ d[2] \in Slots
    BY DEF Cells
  <2> QED
    BY <1>2, <2>1
<1> QED
  BY <1>1, <1>2 DEF OneOwner

LEMMA SameTable ==
  ASSUME OneOwner, TableSame
  PROVE  OneOwner' /\ Tab' = Tab
<1>1. Tab' = Tab
  BY DEF TableSame, Tab
<1>2. OneOwner'
  <2>1. SUFFICES ASSUME NEW c \in Cells', NEW d \in Cells', arr'[c[1]][c[2]] # Null,
                        arr'[c[1]][c[2]].kind = arr'[d[1]][d[2]].kind,
                        arr'[c[1]][c[2]].ref = arr'[d[1]][d[2]].ref
                 PROVE  c = d
    BY DEF OneOwner
  <2>2. c \in Cells /\ d \in Cells
    BY DEF TableSame, Cells
  <2>3. /\ c[1] \in Published /\ c[2] \in Slots
        /\ d[1] \in Published /\ d[2] \in Slots
    BY <2>2 DEF Cells
  <2>4. /\ arr'[c[1]][c[2]].kind = arr[c[1]][c[2]].kind
        /\ arr'[c[1]][c[2]].ref = arr[c[1]][c[2]].ref
        /\ arr[c[1]][c[2]] # Null
        /\ arr'[d[1]][d[2]].kind = arr[d[1]][d[2]].kind
        /\ arr'[d[1]][d[2]].ref = arr[d[1]][d[2]].ref
    BY <2>1, <2>3 DEF TableSame
  <2> QED
    BY <2>1, <2>2, <2>4 DEF OneOwner
<1> QED
  BY <1>1, <1>2

\* A node that the table did not hold is stored into one of its slots.
LEMMA StoreInTable ==
  ASSUME OneOwner, ArraysOwned, TypeOK, Published' = Published,
         NEW i \in Published, NEW s \in Slots, NEW a \in Addr, a \notin Tab,
         arr'[i][s] = NodeWord(a),
         \A j \in Published, r \in Slots : j # i \/ r # s => arr'[j][r] = arr[j][r]
  PROVE  /\ OneOwner'
         /\ arr[i][s].kind = "node" => Tab' = (Tab \ {arr[i][s].ref}) \cup {a}
         /\ arr[i][s].kind # "node" => Tab' = Tab \cup {a}
<1>1. NodeWord(a).kind = "node" /\ NodeWord(a).ref = a /\ NodeWord(a) # Null
  BY DEF NodeWord, Null
<1>2. \A j \in Published, r \in Slots : arr[j][r].kind = "node" => arr[j][r].ref # a
  BY DEF Tab
<1>3. OneOwner'
  <2>1. SUFFICES ASSUME NEW c \in Cells', NEW d \in Cells', arr'[c[1]][c[2]] # Null,
                        arr'[c[1]][c[2]].kind = arr'[d[1]][d[2]].kind,
                        arr'[c[1]][c[2]].ref = arr'[d[1]][d[2]].ref
                 PROVE  c = d
    BY DEF OneOwner
  <2>2. /\ c \in Cells /\ d \in Cells
        /\ c[1] \in Published /\ c[2] \in Slots /\ d[1] \in Published /\ d[2] \in Slots
        /\ c = <<c[1], c[2]>> /\ d = <<d[1], d[2]>>
    BY DEF Cells
  <2>3. CASE c = <<i, s>>
    BY <1>1, <1>2, <2>1, <2>2, <2>3
  <2>4. CASE d = <<i, s>>
    BY <1>1, <1>2, <2>1, <2>2, <2>4
  <2>5. CASE c # <<i, s>> /\ d # <<i, s>>
    <3>1. /\ arr'[c[1]][c[2]] = arr[c[1]][c[2]]
          /\ arr'[d[1]][d[2]] = arr[d[1]][d[2]]
      BY <2>2, <2>5
    <3> QED
      BY <2>1, <2>2, <3>1 DEF OneOwner
  <2> QED
    BY <2>3, <2>4, <2>5
<1>4. ASSUME arr[i][s].kind = "node"
      PROVE  Tab' = (Tab \ {arr[i][s].ref}) \cup {a}
  <2>1. arr[i][s] # Null
    BY <1>4 DEF Null
  <2>2. \A j \in Published, r \in Slots :
          arr[j][r].kind = "node" /\ arr[j][r].ref = arr[i][s].ref => j = i /\ r = s
    BY <1>4, <2>1, OwnerUnfolded
  <2>3. ASSUME NEW b \in Tab'
        PROVE  b \in (Tab \ {arr[i][s].ref}) \cup {a}
    <3>1. PICK j \in Published, r \in Slots : arr'[j][r].kind = "node" /\ arr'[j][r].ref = b
      BY DEF Tab
    <3>2. CASE j = i /\ r = s
      BY <1>1, <3>1, <3>2
    <3>3. CASE ~(j = i /\ r = s)
      BY <2>2, <3>1, <3>3 DEF Tab
    <3> QED
      BY <3>2, <3>3
  <2>4. ASSUME NEW b \in (Tab \ {arr[i][s].ref}) \cup {a}
        PROVE  b \in Tab'
    <3>1. CASE b = a
      BY <1>1, <3>1 DEF Tab
    <3>2. CASE b # a
      <4>1. PICK j \in Published, r \in Slots : arr[j][r].kind = "node" /\ arr[j][r].ref = b
        BY <2>4, <3>2 DEF Tab
      <4>2. ~(j = i /\ r = s)
        BY <2>4, <3>2, <4>1
      <4> QED
        BY <2>4, <4>1, <4>2 DEF Tab
    <3> QED
      BY <3>1, <3>2
  <2> QED
    BY <2>3, <2>4
<1>5. ASSUME arr[i][s].kind # "node"
      PROVE  Tab' = Tab \cup {a}
  BY <1>1, <1>5 DEF Tab
<1> QED
  BY <1>3, <1>4, <1>5

\* A slot whose word moved into the array it now points to.
LEMMA ExpandInTable ==
  ASSUME OneOwner, ArraysOwned, TypeOK, NullsUnmarked,
         NEW i \in Published, NEW s \in Slots, NEW n \in ArrId \ Published, NEW p \in Slots,
         Published' = Published \cup {n}, arr[i][s] # Null,
         arr'[i][s] = ArrayWord(n), arr'[n] = [Empty EXCEPT ![p] = arr[i][s]],
         \A j \in Published, r \in Slots : j # i \/ r # s => arr'[j][r] = arr[j][r]
  PROVE  OneOwner' /\ Tab' = Tab
<1> DEFINE w == arr[i][s]
<1>1. /\ ArrayWord(n).kind = "array" /\ ArrayWord(n).ref = n /\ ArrayWord(n) # Null
      /\ Null.kind = "null"
  BY DEF ArrayWord, Null
<1>2. /\ arr'[n][p] = w
      /\ \A r \in Slots \ {p} : arr'[n][r] = Null
  BY DEF Empty
<1>3. \A j \in Published, r \in Slots : arr[j][r].kind = "array" => arr[j][r].ref # n
  BY DEF ArraysOwned, Published, is_array
<1>4. \A j \in Published, r \in Slots :
        arr[j][r].kind = w.kind /\ arr[j][r].ref = w.ref => j = i /\ r = s
  BY OwnerUnfolded
<1>5. \A j \in Published, r \in Slots :
        /\ arr'[j][r].kind # w.kind \/ arr'[j][r].ref # w.ref
        /\ arr'[j][r].kind = "array" /\ arr'[j][r].ref = n => j = i /\ r = s
  BY <1>1, <1>3, <1>4
<1>6. OneOwner'
  <2>1. SUFFICES ASSUME NEW c \in Cells', NEW d \in Cells', arr'[c[1]][c[2]] # Null,
                        arr'[c[1]][c[2]].kind = arr'[d[1]][d[2]].kind,
                        arr'[c[1]][c[2]].ref = arr'[d[1]][d[2]].ref
                 PROVE  c = d
    BY DEF OneOwner
  <2>2. /\ c[1] \in Published \cup {n} /\ c[2] \in Slots
        /\ d[1] \in Published \cup {n} /\ d[2] \in Slots
        /\ c = <<c[1], c[2]>> /\ d = <<d[1], d[2]>>
    BY DEF Cells
  <2>3. CASE c[1] = n
    <3>1. c[2] = p /\ arr'[c[1]][c[2]] = w
      BY <1>2, <2>1, <2>2, <2>3
    <3>2. d[1] = n
      BY <1>5, <2>1, <2>2, <3>1
    <3>3. d[2] = p
      <4>1. w.kind # "null"
        BY DEF NullsUnmarked
      <4> QED
        BY <1>1, <1>2, <2>1, <2>2, <3>1, <3>2, <4>1
    <3> QED
      BY <2>2, <2>3, <3>1, <3>2, <3>3
  <2>4. CASE c[1] # n /\ d[1] = n
    <3>1. arr'[d[1]][d[2]] \in {w, Null}
      BY <1>2, <2>2, <2>4
    <3>2. arr'[d[1]][d[2]] = Null
      BY <1>5, <2>1, <2>2, <2>4, <3>1
    <3>3. arr'[c[1]][c[2]].kind = "null"
      BY <1>1, <2>1, <3>2
    <3>4. arr'[c[1]][c[2]] = arr[c[1]][c[2]] /\ c[1] \in ArrId
      BY <1>1, <2>2, <2>4, <3>3 DEF Published
    <3> QED
      BY <2>1, <2>2, <2>4, <3>3, <3>4 DEF NullsUnmarked
  <2>5. CASE c[1] # n /\ d[1] # n
    <3>1. CASE c = <<i, s>>
      BY <1>1, <1>5, <2>1, <2>2, <2>5, <3>1
    <3>2. CASE d = <<i, s>>
      BY <1>1, <1>5, <2>1, <2>2, <2>5, <3>2
    <3>3. CASE c # <<i, s>> /\ d # <<i, s>>
      <4>1. /\ arr'[c[1]][c[2]] = arr[c[1]][c[2]]
            /\ arr'[d[1]][d[2]] = arr[d[1]][d[2]]
            /\ c[1] \in Published /\ d[1] \in Published
        BY <2>2, <2>5, <3>3
      <4> QED
        BY <2>1, <2>2, <4>1, OwnerUnfolded
    <3> QED
      BY <3>1, <3>2, <3>3
  <2> QED
    BY <2>3, <2>4, <2>5
<1>7. ASSUME NEW a \in Tab'
      PROVE  a \in Tab
  <2>1. PICK j \in Published \cup {n}, r \in Slots :
          arr'[j][r].kind = "node" /\ arr'[j][r].ref = a
    BY DEF Tab
  <2>2. CASE j = n
    <3>1. arr'[j][r] = w
      BY <1>1, <1>2, <2>1, <2>2
    <3> QED
      BY <2>1, <3>1 DEF Tab
  <2>3. CASE j # n
    <3>1. arr'[j][r] = arr[j][r]
      BY <1>1, <2>1, <2>3
    <3> QED
      BY <2>1, <2>3, <3>1 DEF Tab
  <2> QED
    BY <2>2, <2>3
<1>8. ASSUME NEW a \in Tab
      PROVE  a \in Tab'
  <2>1. PICK j \in Published, r \in Slots : arr[j][r].kind = "node" /\ arr[j][r].ref = a
    BY DEF Tab
  <2>2. CASE j = i /\ r = s
    <3>1. n \in Published' /\ arr'[n][p].kind = "node" /\ arr'[n][p].ref = a
      BY <1>2, <2>1, <2>2
    <3> QED
      BY <3>1 DEF Tab
  <2>3. CASE ~(j = i /\ r = s)
    <3>1. j \in Published' /\ arr'[j][r].kind = "node" /\ arr'[j][r].ref = a
      BY <2>1, <2>3
    <3> QED
      BY <3>1 DEF Tab
  <2> QED
    BY <2>2, <2>3
<1> QED
  BY <1>6, <1>7, <1>8

-----------------------------------------------------------------------------
(* What a step of one thread does to the nodes.                            *)

NodeStep(t) ==
  /\ Others(t) /\ \A u \in Threads \ {t} : arg'[u] = arg[u]
  /\ pc[t] # "wild" /\ leaked \subseteq leaked'
  /\ \A u \in Threads \ {t} : pc[u] = "exp_cas" => arr'[exp[u].arr] = arr[exp[u].arr]
  /\ \A a \in Addr : heap[a].st # "free" => heap'[a].st # "free" /\ heap'[a].hash = heap[a].hash
  /\ \A a \in Addr \ HeldBy(t) : heap[a].st # "free" => heap'[a].st = heap[a].st
  /\ \A a \in Addr : heap[a].st = "free" /\ heap'[a].st = "live" => a \in HeldBy(t)'
  /\ \A a \in Tab' \cup HeldBy(t)' : /\ heap'[a].st = "live"
                                     /\ a \in Tab \cup HeldBy(t) \/ heap[a].st = "free"
  /\ HeldBy(t)' \cap Tab' = {}
  /\ \A a \in (Tab \cup HeldBy(t)) \ (Tab' \cup HeldBy(t)') :
       heap'[a].st = "live" => "node" \in leaked' \/ pc'[t] = "wild"

\* The other threads know and hold what they did.
LEMMA OthersKnow ==
  ASSUME TypeOK, NodesOwned, NEW t \in Threads, NodeStep(t), NEW u \in Threads \ {t}
  PROVE  Knows(u)' /\ HeldBy(u)' = HeldBy(u)
<1>1. /\ pc'[u] = pc[u] /\ at'[u] = at[u] /\ exp'[u] = exp[u] /\ cur'[u] = cur[u]
      /\ arg'[u] = arg[u]
  BY DEF NodeStep, Others
<1>2. HeldBy(u)' = HeldBy(u)
  BY <1>1 DEF HeldBy
<1>3. Knows(u)
  BY DEF NodesOwned
<1>4. \A a \in Addr : heap[a].st # "free" => heap'[a].st # "free" /\ heap'[a].hash = heap[a].hash
  BY DEF NodeStep
<1>5. pc[u] \in InsertPCs => arg[u].node.ref \in Addr /\ heap[arg[u].node.ref].st # "free"
  <2>1. SUFFICES ASSUME pc[u] \in InsertPCs
                 PROVE  arg[u].node.ref \in Addr /\ heap[arg[u].node.ref].st # "free"
    OBVIOUS
  <2>2. arg[u].node.kind = "node" /\ arg[u].node \in Word
    BY <1>3, <2>1 DEF Knows, NodeWord, TypeOK, Call
  <2>3. arg[u].node.ref \in Addr
    BY <2>2 DEF Word
  <2> QED
    BY <2>1, <2>3 DEF HeldBy, NodesOwned
<1>6. pc[u] \in {"cmp", "cas_upd"} => cur[u].ref \in Addr /\ heap[cur[u].ref].st # "free"
  BY <1>3 DEF Knows, TypeOK, Word
<1>7. pc[u] = "exp_cas" => arr'[exp[u].arr] = arr[exp[u].arr]
  BY DEF NodeStep
<1> QED
  BY <1>1, <1>2, <1>3, <1>4, <1>5, <1>6, <1>7 DEF Knows

LEMMA NodeStepInv ==
  ASSUME TypeOK, NodesOwned, NodesKept, NEW t \in Threads, NodeStep(t),
         Knows(t)', OneOwner', NullsUnmarked'
  PROVE  NodesOwned' /\ NodesKept'
<1>1. \A u \in Threads \ {t} : Knows(u)' /\ HeldBy(u)' = HeldBy(u)
  BY OthersKnow
<1>2. \A u \in Threads : Tab' \subseteq Addr /\ HeldBy(u) \subseteq Addr /\ HeldBy(u)' \subseteq Addr
  BY DEF Tab, HeldBy
<1>3. ASSUME NEW u \in Threads \ {t}, NEW a \in HeldBy(u)
      PROVE  heap'[a].st = "live" /\ a \notin Tab' /\ a \notin HeldBy(t)'
  <2>1. heap[a].st = "live" /\ a \notin Tab /\ a \notin HeldBy(t) /\ a \in Addr
    BY <1>2 DEF NodesOwned
  <2> QED
    BY <2>1 DEF NodeStep
<1>4. \A u \in Threads : \A a \in HeldBy(u)' : heap'[a].st = "live" /\ a \notin Tab'
  BY <1>1, <1>3 DEF NodeStep
<1>5. \A u, v \in Threads : HeldBy(u)' \cap HeldBy(v)' # {} => u = v
  BY <1>1, <1>3 DEF NodesOwned
<1>6. \A a \in Tab' : heap'[a].st = "live"
  BY DEF NodeStep
<1>7. NodesOwned'
  BY <1>1, <1>4, <1>5, <1>6 DEF NodesOwned
<1>8. ASSUME NEW a \in Addr, heap'[a].st = "live", a \notin Tab', "node" \notin leaked'
      PROVE  \E u \in Threads : a \in HeldBy(u)' \/ pc'[u] = "wild"
  <2>1. CASE a \in Tab \cup HeldBy(t)
    BY <1>8, <2>1 DEF NodeStep
  <2>2. CASE a \notin Tab \cup HeldBy(t) /\ heap[a].st = "free"
    BY <1>8, <2>2 DEF NodeStep
  <2>3. CASE a \notin Tab \cup HeldBy(t) /\ heap[a].st # "free"
    <3>1. heap[a].st = "live"
      BY <1>8, <2>3 DEF NodeStep
    <3>2. PICK u \in Threads : a \in HeldBy(u) \/ pc[u] = "wild"
      BY <1>8, <2>3, <3>1 DEF NodesKept, NodeStep
    <3>3. u # t
      BY <2>3, <3>2 DEF NodeStep
    <3> QED
      BY <1>1, <3>2, <3>3 DEF NodeStep, Others
  <2> QED
    BY <2>1, <2>2, <2>3
<1> QED
  BY <1>7, <1>8 DEF NodesKept

\* A step that neither publishes an array nor moves a node.
LEMMA StillNodes ==
  ASSUME TypeOK, ArraysOwned, NodesOwned, NodesKept, NEW t \in Threads,
         Others(t), \A u \in Threads \ {t} : arg'[u] = arg[u],
         pc[t] # "wild", leaked \subseteq leaked', heap' = heap, TableSame,
         \A i \in Published, s \in Slots : arr'[i][s].kind = "null" => arr'[i][s] = Null,
         \A u \in Threads \ {t} : pc[u] = "exp_cas" => arr'[exp[u].arr] = arr[exp[u].arr],
         \/ HeldBy(t)' = HeldBy(t)
         \/ HeldBy(t)' = {} /\ ("node" \in leaked' \/ pc'[t] = "wild" \/ HeldBy(t) = {}),
         Knows(t)'
  PROVE  NodesOwned' /\ NodesKept'
<1>1. OneOwner' /\ Tab' = Tab
  BY SameTable DEF NodesOwned
<1>2. NullsUnmarked'
  BY DEF NullsUnmarked, TableSame
<1>3. NodeStep(t)
  BY <1>1 DEF NodeStep, NodesOwned
<1> QED
  BY <1>1, <1>2, <1>3, NodeStepInv

\* The published arrays are the same.
LEMMA PublishedSame ==
  ASSUME NEW t \in Threads, Others(t), pool' = pool, pc[t] # "exp_cas", pc'[t] # "exp_cas"
  PROVE  Published' = Published
BY DEF Others, Published, Private

\* A step that leaves the arrays and the heap alone.
LEMMA IdleNodes ==
  ASSUME TypeOK, ArraysOwned, NodesOwned, NodesKept, NEW t \in Threads,
         Others(t), \A u \in Threads \ {t} : arg'[u] = arg[u],
         pc[t] \notin {"wild", "exp_cas"}, pc'[t] # "exp_cas",
         leaked \subseteq leaked', heap' = heap, arr' = arr, pool' = pool,
         \/ HeldBy(t)' = HeldBy(t)
         \/ HeldBy(t)' = {} /\ ("node" \in leaked' \/ pc'[t] = "wild" \/ HeldBy(t) = {}),
         Knows(t)'
  PROVE  NodesOwned' /\ NodesKept'
<1>1. TableSame
  BY PublishedSame DEF TableSame
<1>2. \A i \in Published, s \in Slots : arr'[i][s].kind = "null" => arr'[i][s] = Null
  BY DEF NodesOwned, NullsUnmarked
<1> QED
  BY <1>1, <1>2, StillNodes

\* A step that takes its thread to the next attempt, down a level or out.
LEMMA MovesNodes ==
  ASSUME TypeOK, ArraysOwned, NodesOwned, NodesKept, NEW t \in Threads, NEW i,
         Moves(t, i), arg' = arg, arr' = arr, heap' = heap, pool' = pool,
         leaked \subseteq leaked', pc[t] \notin {"wild", "exp_cas"},
         pc[t] \in InsertPCs \/ pc'[t] = "ret",
         pc'[t] = "ret" => "node" \in leaked' \/ HeldBy(t) = {}
  PROVE  NodesOwned' /\ NodesKept'
<1>1. Others(t) /\ pc'[t] \in {"load", "mark", "ret", "wild"}
  BY DEF Moves
<1>2. Knows(t)
  BY DEF NodesOwned
<1>3. Knows(t)'
  BY <1>1, <1>2 DEF Knows, InsertPCs
<1>4. CASE pc'[t] \in {"load", "mark"}
  <2>1. HeldBy(t)' = HeldBy(t)
    BY <1>4 DEF HeldBy, InsertPCs
  <2> QED
    BY <1>1, <1>3, <2>1, IdleNodes
<1>5. CASE pc'[t] \in {"ret", "wild"}
  <2>1. HeldBy(t)' = {}
    BY <1>5 DEF HeldBy, InsertPCs
  <2> QED
    BY <1>1, <1>3, <1>5, <2>1, IdleNodes
<1> QED
  BY <1>1, <1>4, <1>5

\* A step of an insert that only reads a slot or a node.
LEMMA ReadsNodes ==
  ASSUME TypeOK, ArraysOwned, NodesOwned, NodesKept, NEW t \in Threads,
         Others(t), arg' = arg, arr' = arr, heap' = heap, pool' = pool, leaked' = leaked,
         pc[t] \in InsertPCs \ {"exp_cas"}, pc'[t] \in InsertPCs \ {"exp_cas"},
         pc'[t] \in {"cmp", "cas_upd"} =>
           /\ cur'[t].kind = "node" /\ ~cur'[t].mark /\ heap[cur'[t].ref].st # "free"
           /\ pc'[t] = "cas_upd" => heap[cur'[t].ref].hash = arg[t].hash
  PROVE  NodesOwned' /\ NodesKept'
<1>1. HeldBy(t)' = HeldBy(t)
  BY DEF HeldBy, InsertPCs
<1>2. Knows(t)
  BY DEF NodesOwned
<1>3. Knows(t)'
  BY <1>2 DEF Knows, InsertPCs
<1> QED
  BY <1>1, <1>3, IdleNodes DEF InsertPCs

\* The node a thread inserts.
LEMMA OwnNode ==
  ASSUME TypeOK, NodesOwned, NEW t \in Threads, pc[t] \in InsertPCs
  PROVE  /\ arg[t].node.ref \in Addr /\ arg[t].node = NodeWord(arg[t].node.ref)
         /\ HeldBy(t) = {arg[t].node.ref} /\ arg[t].node.ref \notin Tab
         /\ heap[arg[t].node.ref].st = "live"
         /\ heap[arg[t].node.ref].hash = arg[t].hash
<1>1. /\ arg[t].node = NodeWord(arg[t].node.ref)
      /\ heap[arg[t].node.ref].hash = arg[t].hash
  BY DEF NodesOwned, Knows
<1>2. arg[t].node \in Word /\ arg[t].node.kind = "node"
  BY <1>1 DEF NodeWord, TypeOK, Call
<1>3. arg[t].node.ref \in Addr
  BY <1>2 DEF Word
<1>4. HeldBy(t) = {arg[t].node.ref}
  BY <1>3 DEF HeldBy, InsertPCs
<1> QED
  BY <1>1, <1>3, <1>4 DEF NodesOwned

\* A slot of the table that is not empty and not an array holds a live node.
LEMMA SlotNode ==
  ASSUME TypeOK, ArraysOwned, NodesOwned, NEW t \in Threads
  PROVE  /\ Slot(t).kind = "null" => Slot(t) = Null
         /\ Slot(t).kind = "node" => /\ Slot(t).ref \in Addr /\ Slot(t).ref \in Tab
                                     /\ heap[Slot(t).ref].st = "live"
         /\ Slot(t).kind \in {"null", "node", "array"}
<1>1. at[t].arr \in Published /\ Pos(t) \in Slots /\ Slot(t) \in Word
  BY SlotType DEF ArraysOwned
<1>2. Slot(t).kind \in {"null", "node", "array"} /\ (Slot(t).kind = "node" => Slot(t).ref \in Addr)
  BY <1>1 DEF Word
<1>3. Slot(t).kind = "node" => Slot(t).ref \in Tab
  BY <1>1, <1>2 DEF Tab, Slot
<1> QED
  BY <1>1, <1>2, <1>3 DEF NodesOwned, NullsUnmarked, Slot

\* The node that is not needed, or the one that was replaced, is freed.
LEMMA FreeNodes ==
  ASSUME TypeOK, ArraysOwned, NodesOwned, NodesKept, NEW t \in Threads, NEW a \in Addr,
         HeldBy(t) = {a}, heap' = Freed(a), Ret(t, 1), pc[t] \notin {"wild", "exp_cas"},
         arg' = arg, arr' = arr, pool' = pool, leaked' = leaked
  PROVE  NodesOwned' /\ NodesKept'
<1>1. Moves(t, HeadArr) /\ pc'[t] = "ret"
  BY RetMoves DEF Ret, Goto, TypeOK
<1>2. HeldBy(t)' = {} /\ Knows(t)'
  BY <1>1 DEF HeldBy, Knows, InsertPCs
<1>3. TableSame
  BY <1>1, PublishedSame DEF TableSame, Moves
<1>4. OneOwner' /\ Tab' = Tab
  BY <1>3, SameTable DEF NodesOwned
<1>5. NullsUnmarked'
  BY <1>3 DEF NullsUnmarked, TableSame, NodesOwned
<1>6. /\ heap'[a].st = "dead" /\ heap'[a].hash = heap[a].hash
      /\ \A b \in Addr \ {a} : heap'[b] = heap[b]
  BY DEF Freed, TypeOK, Node
<1>7. a \notin Tab /\ heap[a].st = "live" /\ Tab \subseteq Addr
  BY DEF NodesOwned, Tab
<1>8. NodeStep(t)
  BY <1>1, <1>2, <1>4, <1>6, <1>7 DEF NodeStep, NodesOwned, Moves
<1> QED
  BY <1>2, <1>4, <1>5, <1>8, NodeStepInv

\* A thread stores its node into an empty slot or in place of the node it read.
LEMMA StoreNodes ==
  ASSUME TypeOK, ArraysOwned, NodesOwned, NodesKept, NEW t \in Threads,
         pc[t] \in InsertPCs \ {"exp_cas"}, arr' = SetSlot(t, arg[t].node),
         Others(t), arg' = arg, heap' = heap, pool' = pool, leaked' = leaked,
         \/ Slot(t) = Null /\ pc'[t] = "ret"
         \/ /\ Slot(t) = cur[t] /\ pc'[t] = "free" /\ cur'[t] = cur[t]
            /\ cur[t].kind = "node" /\ ~cur[t].mark
  PROVE  NodesOwned' /\ NodesKept'
<1> DEFINE a == arg[t].node.ref
           i == at[t].arr
           s == Pos(t)
<1>1. /\ a \in Addr /\ arg[t].node = NodeWord(a) /\ HeldBy(t) = {a} /\ a \notin Tab
      /\ heap[a].st = "live"
  BY OwnNode
<1>2. i \in Published /\ s \in Slots /\ arg[t].node \in Word
  BY SlotType DEF ArraysOwned, TypeOK, Call
<1>3. \A j \in ArrId, r \in Slots :
        arr'[j][r] = IF j = i /\ r = s THEN NodeWord(a) ELSE arr[j][r]
  BY <1>1, <1>2, SetSlotWords
<1>4. Published' = Published /\ Published \subseteq ArrId
  BY PublishedSame DEF Published, InsertPCs
<1>5. /\ OneOwner'
      /\ arr[i][s].kind = "node" => Tab' = (Tab \ {arr[i][s].ref}) \cup {a}
      /\ arr[i][s].kind # "node" => Tab' = Tab \cup {a}
  <2> HIDE DEF a, i, s
  <2>1. /\ arr'[i][s] = NodeWord(a)
        /\ \A j \in Published, r \in Slots : j # i \/ r # s => arr'[j][r] = arr[j][r]
    BY <1>2, <1>3, <1>4
  <2> QED
    BY <1>1, <1>2, <1>4, <2>1, StoreInTable DEF NodesOwned
<1>6. NullsUnmarked'
  BY <1>3, <1>4 DEF NullsUnmarked, NodesOwned, NodeWord
<1>7. Knows(t)' /\ HeldBy(t)' = {b \in Addr : pc'[t] = "free" /\ cur'[t].ref = b}
  BY DEF Knows, HeldBy, InsertPCs
<1>8. \A u \in Threads \ {t} : pc[u] = "exp_cas" => arr'[exp[u].arr] = arr[exp[u].arr]
  BY <1>2 DEF Published, Private, SetSlot, TypeOK
<1>9. Tab \subseteq Addr
  BY DEF Tab
<1>10. CASE Slot(t) = Null /\ pc'[t] = "ret"
  <2>1. Tab' = Tab \cup {a} /\ HeldBy(t)' = {}
    BY <1>5, <1>7, <1>10 DEF Slot, Null
  <2>2. NodeStep(t)
    BY <1>1, <1>8, <1>9, <2>1 DEF NodeStep, NodesOwned, InsertPCs
  <2> QED
    BY <1>5, <1>6, <1>7, <2>2, NodeStepInv
<1>11. CASE Slot(t) = cur[t] /\ pc'[t] = "free"
  <2> DEFINE b == cur[t].ref
  <2>1. b \in Addr /\ b \in Tab /\ heap[b].st = "live"
    BY <1>11, SlotNode
  <2>2. Tab' = (Tab \ {b}) \cup {a} /\ HeldBy(t)' = {b} /\ a # b
    BY <1>1, <1>5, <1>7, <1>11, <2>1 DEF Slot
  <2>3. NodeStep(t)
    <3> HIDE DEF a, b
    <3> QED
      BY <1>1, <1>8, <1>9, <2>1, <2>2 DEF NodeStep, NodesOwned, InsertPCs
  <2> QED
    BY <1>5, <1>6, <1>7, <2>3, NodeStepInv
<1> QED
  BY <1>10, <1>11

LEMMA NodesExpandFill ==
  ASSUME TypeOK, ArraysOwned, NodesOwned, NodesKept, NEW t \in Threads, ExpandFill(t)
  PROVE  NodesOwned' /\ NodesKept'
<1>1. CASE Fail(t) /\ UNCHANGED <<arr, pool>>
  <2>1. Moves(t, HeadArr) /\ pc'[t] # "ret"
    BY <1>1, FailMoves DEF Fail, Goto, TypeOK
  <2> QED
    BY <1>1, <2>1, MovesNodes DEF ExpandFill, InsertPCs
<1>2. CASE ~(Fail(t) /\ UNCHANGED <<arr, pool>>)
  <2>1. PICK i \in pool, p \in NewPos(exp[t].node, at[t].lvl) :
          /\ pool' = pool \ {i}
          /\ arr' = [arr EXCEPT ![i] = [Empty EXCEPT ![p] = exp[t].node]]
          /\ exp' = [exp EXCEPT ![t].arr = i]
          /\ Goto(t, "exp_cas")
          /\ UNCHANGED <<at, cur, res>>
    BY <1>2 DEF ExpandFill
  <2>2. i \in ArrId /\ i \notin Private /\ i \notin Published
    BY DEF TypeOK, ArraysOwned, Published
  <2>3. /\ pc[t] = "exp_fill" /\ pc'[t] = "exp_cas"
        /\ exp'[t].arr = i /\ exp'[t].node = exp[t].node
        /\ \A u \in Threads \ {t} : pc'[u] = pc[u] /\ exp'[u] = exp[u]
        /\ Others(t) /\ arg' = arg /\ heap' = heap /\ leaked' = leaked
    BY <2>1 DEF ExpandFill, Goto, TypeOK, Expansion, Others
  <2>4. Private' = Private \cup {i}
    BY <2>3 DEF Private
  <2>5. Published' = Published
    BY <2>1, <2>2, <2>4 DEF Published
  <2>6. arr'[i] = [Empty EXCEPT ![p] = exp'[t].node] /\ \A j \in ArrId \ {i} : arr'[j] = arr[j]
    BY <2>1, <2>2, <2>3 DEF TypeOK
  <2>7. TableSame
    BY <2>2, <2>5, <2>6 DEF TableSame, Published
  <2>8. p \in Slots
    BY NewPosType DEF TypeOK, Expansion, Place
  <2>9. Knows(t)
    BY DEF NodesOwned
  <2>10. Knows(t)'
    BY <2>3, <2>6, <2>8, <2>9 DEF Knows, InsertPCs
  <2>11. HeldBy(t)' = HeldBy(t)
    BY <2>3 DEF HeldBy, InsertPCs
  <2>12. \A j \in Published, s \in Slots : arr'[j][s].kind = "null" => arr'[j][s] = Null
    BY <2>2, <2>6 DEF NodesOwned, NullsUnmarked, Published
  <2>13. \A u \in Threads \ {t} : pc[u] = "exp_cas" => arr'[exp[u].arr] = arr[exp[u].arr]
    BY <2>2, <2>6 DEF Private, TypeOK, Expansion
  <2> QED
    BY <2>3, <2>7, <2>10, <2>11, <2>12, <2>13, StillNodes
<1> QED
  BY <1>1, <1>2

\* The loser of an expansion forgets its array and tries again.
LEMMA NodesExpandLost ==
  ASSUME TypeOK, ArraysOwned, NodesOwned, NodesKept, NEW t \in Threads, ExpandCas(t),
         Slot(t) # exp[t].node
  PROVE  NodesOwned' /\ NodesKept'
<1> DEFINE new == exp[t].arr
<1>1. /\ new \in ArrId /\ new \in Private /\ new \notin pool
      /\ new \notin Published /\ pc[t] = "exp_cas"
  BY DEF TypeOK, Expansion, ExpandCas, ArraysOwned, Private, Published
<1>2. /\ arr' = [arr EXCEPT ![new] = Empty] /\ pool' = pool \cup {new} /\ Fail(t)
      /\ leaked' = leaked \cup {"array"} /\ heap' = heap /\ arg' = arg
  BY DEF ExpandCas
<1>3. Others(t) /\ pc'[t] \in {"load", "mark"}
  BY <1>2, FailMoves DEF Moves, Fail, Goto, TypeOK
<1>4. Private' = Private \ {new}
  <2>1. \A u \in Threads \ {t} : pc[u] = "exp_cas" => exp[u].arr # new
    BY <1>1 DEF ArraysOwned
  <2> QED
    BY <1>1, <1>3, <2>1 DEF Private, Others
<1>5. Published' = Published
  BY <1>1, <1>2, <1>4 DEF Published
<1>6. \A j \in ArrId \ {new} : arr'[j] = arr[j]
  BY <1>2 DEF TypeOK
<1>7. TableSame
  BY <1>1, <1>5, <1>6 DEF TableSame, Published
<1>8. \A j \in Published, s \in Slots : arr'[j][s].kind = "null" => arr'[j][s] = Null
  BY <1>1, <1>6 DEF NodesOwned, NullsUnmarked, Published
<1>9. \A u \in Threads \ {t} : pc[u] = "exp_cas" => arr'[exp[u].arr] = arr[exp[u].arr]
  BY <1>1, <1>6 DEF ArraysOwned, TypeOK, Expansion
<1>10. Knows(t)
  BY DEF NodesOwned
<1>11. Knows(t)' /\ HeldBy(t)' = HeldBy(t)
  BY <1>1, <1>2, <1>3, <1>10 DEF Knows, HeldBy, InsertPCs
<1> QED
  BY <1>1, <1>2, <1>3, <1>7, <1>8, <1>9, <1>11, StillNodes

\* The winner publishes an array that holds what its slot held.
LEMMA NodesExpandWon ==
  ASSUME TypeOK, ArraysOwned, SlotsStayFull, NodesOwned, NodesKept, NEW t \in Threads,
         ExpandCas(t), Slot(t) = exp[t].node
  PROVE  NodesOwned' /\ NodesKept'
<1> DEFINE new == exp[t].arr
           i == at[t].arr
           s == Pos(t)
<1>1. /\ new \in ArrId /\ new \in Private /\ new \notin pool
      /\ new \notin Published /\ pc[t] = "exp_cas"
  BY DEF TypeOK, Expansion, ExpandCas, ArraysOwned, Private, Published
<1>2. /\ arr' = SetSlot(t, ArrayWord(new)) /\ pool' = pool /\ Descend(t, new)
      /\ heap' = heap /\ arg' = arg
  BY <1>1 DEF ExpandCas
<1>3. Others(t) /\ pc'[t] \in {"load", "ret"} /\ Moves(t, new)
  BY <1>2, DescendMoves DEF Moves, Descend, Goto, TypeOK, Ret
<1>4. /\ leaked \subseteq leaked'
      /\ pc'[t] = "ret" => "node" \in leaked'
  BY <1>2 DEF Descend, Goto, TypeOK
<1>5. Private' = Private \ {new}
  <2>1. \A u \in Threads \ {t} : pc[u] = "exp_cas" => exp[u].arr # new
    BY <1>1 DEF ArraysOwned
  <2> QED
    BY <1>1, <1>3, <2>1 DEF Private, Others
<1>6. Published' = Published \cup {new}
  BY <1>1, <1>2, <1>5 DEF Published
<1>7. i \in Published /\ s \in Slots /\ ArrayWord(new) \in Word /\ arr[i][s] # Null
  BY <1>1, SlotType, ConstantTypes DEF ArraysOwned, SlotsStayFull, Full, Slot
<1>8. \A j \in ArrId, r \in Slots :
        arr'[j][r] = IF j = i /\ r = s THEN ArrayWord(new) ELSE arr[j][r]
  BY <1>2, <1>7, SetSlotWords
<1>9. arr'[new] = arr[new] /\ \A j \in ArrId \ {i} : arr'[j] = arr[j]
  BY <1>1, <1>2, <1>7 DEF SetSlot, TypeOK
<1>10. PICK p \in Slots : arr[new] = [Empty EXCEPT ![p] = exp[t].node]
  BY <1>1 DEF NodesOwned, Knows
<1>11. OneOwner' /\ Tab' = Tab
  <2>1. arr'[new] = [Empty EXCEPT ![p] = arr[i][s]]
    BY <1>9, <1>10 DEF Slot
  <2>2. Published \subseteq ArrId /\ arr'[i][s] = ArrayWord(new)
    BY <1>7, <1>8 DEF Published
  <2> HIDE DEF new, i, s
  <2> QED
    BY <1>1, <1>6, <1>7, <1>8, <2>1, <2>2, ExpandInTable DEF NodesOwned
<1>12. NullsUnmarked'
  <2>1. ASSUME NEW j \in Published \cup {new}, NEW r \in Slots, arr'[j][r].kind = "null"
        PROVE  arr'[j][r] = Null
    <3>1. CASE j = new
      <4>1. arr'[j][r] \in {Null, arr[i][s]}
        BY <1>9, <1>10, <3>1 DEF Empty, Slot
      <4> QED
        BY <1>7, <2>1, <4>1 DEF NodesOwned, NullsUnmarked
    <3>2. CASE j \in Published
      BY <1>8, <2>1, <3>2 DEF NodesOwned, NullsUnmarked, Published, ArrayWord
    <3> QED
      BY <3>1, <3>2
  <2> QED
    BY <1>6, <2>1 DEF NullsUnmarked
<1>13. \A u \in Threads \ {t} : pc[u] = "exp_cas" => arr'[exp[u].arr] = arr[exp[u].arr]
  BY <1>7, <1>9 DEF Published, Private, TypeOK, Expansion
<1>14. Knows(t)
  BY DEF NodesOwned
<1>15. /\ Knows(t)'
       /\ pc'[t] = "load" => HeldBy(t)' = HeldBy(t)
       /\ pc'[t] = "ret" => HeldBy(t)' = {}
  BY <1>1, <1>2, <1>3, <1>14 DEF Knows, HeldBy, InsertPCs
<1>16. NodeStep(t)
  <2>1. \A a \in Tab \cup HeldBy(t) : heap[a].st = "live"
    BY DEF NodesOwned
  <2>2. HeldBy(t)' \cap Tab' = {}
    BY <1>3, <1>11, <1>15 DEF NodesOwned
  <2> QED
    BY <1>1, <1>2, <1>3, <1>4, <1>11, <1>13, <1>15, <2>1, <2>2 DEF NodeStep
<1> QED
  BY <1>11, <1>12, <1>15, <1>16, NodeStepInv

\* Where freed memory is not handed out again, comparing hashes is exact.
LEMMA ExactHash ==
  ASSUME ~Recycle, NEW w, w.kind = "node", ~w.mark, NEW h
  PROVE  HashEquals(w, h) = {heap[w.ref].hash = h}
BY DEF HashEquals, Readable

LEMMA NodesInsertStep ==
  ASSUME ~Recycle, TypeOK, ArraysOwned, SlotsStayFull, NodesOwned, NodesKept,
         NEW t \in Threads, InsertStep(t)
  PROVE  NodesOwned' /\ NodesKept'
<1> USE SlotNode
<1>0. Full(t) /\ Knows(t)
  BY DEF SlotsStayFull, NodesOwned
<1>1. CASE MarkSlot(t)
  <2>1. /\ Others(t) /\ pc[t] = "mark" /\ pc'[t] = "load" /\ UNCHANGED <<arg, cur>>
        /\ heap' = heap /\ leaked' = leaked /\ pool' = pool
    BY <1>1 DEF MarkSlot, Others, Goto, loc, TypeOK
  <2>2. Published' = Published /\ Published \subseteq ArrId
    BY <2>1, PublishedSame DEF Published
  <2>3. at[t].arr \in Published /\ Pos(t) \in Slots /\ Marked(Slot(t)) \in Word
    BY SlotType, ConstantTypes DEF ArraysOwned
  <2>4. \A i \in Published, s \in Slots :
          arr'[i][s] = IF i = at[t].arr /\ s = Pos(t) THEN Marked(Slot(t)) ELSE arr[i][s]
    BY <1>1, <2>2, <2>3, SetSlotWords DEF MarkSlot
  <2>5. /\ Marked(Slot(t)).kind = Slot(t).kind /\ Marked(Slot(t)).ref = Slot(t).ref
        /\ Slot(t) # Null /\ Slot(t).kind # "null"
    BY <1>0, <1>1, SlotType DEF MarkSlot, Full, Marked, Word
  <2>6. TableSame
    BY <2>2, <2>4, <2>5 DEF TableSame, Slot
  <2>7. \A i \in Published, s \in Slots : arr'[i][s].kind = "null" => arr'[i][s] = Null
    BY <2>4, <2>5 DEF NodesOwned, NullsUnmarked
  <2>8. \A u \in Threads \ {t} : pc[u] = "exp_cas" => arr'[exp[u].arr] = arr[exp[u].arr]
    BY <1>1, <2>3 DEF MarkSlot, SetSlot, Published, Private, TypeOK
  <2>9. HeldBy(t)' = HeldBy(t) /\ Knows(t)'
    BY <1>0, <2>1 DEF HeldBy, Knows, InsertPCs
  <2> QED
    BY <2>1, <2>6, <2>7, <2>8, <2>9, StillNodes
<1>2. CASE LoadSlot(t)
  <2>1. CASE is_array(Slot(t)) /\ Follow(t, Slot(t))
    <3>1. Moves(t, Slot(t).ref)
      BY <2>1, FollowMoves
    <3>2. leaked \subseteq leaked' /\ (pc'[t] = "ret" => "node" \in leaked')
      BY <2>1 DEF Follow, Descend, Goto, TypeOK
    <3> QED
      BY <1>2, <3>1, <3>2, MovesNodes DEF LoadSlot, InsertPCs
  <2>2. CASE ~is_array(Slot(t))
    <3>1. /\ Others(t) /\ arg' = arg /\ arr' = arr /\ heap' = heap /\ pool' = pool
          /\ leaked' = leaked /\ cur'[t] = Slot(t)
          /\ \/ pc'[t] \in {"exp_load", "cas_null"}
             \/ pc'[t] = "cmp" /\ Slot(t) # Null /\ ~is_node_marked(Slot(t))
      BY <1>2, <2>2 DEF LoadSlot, Others, Goto, See, TypeOK
    <3> QED
      BY <1>2, <2>2, <3>1, ReadsNodes DEF LoadSlot, InsertPCs, is_array, is_node_marked
  <2> QED
    BY <1>2, <2>1, <2>2 DEF LoadSlot
<1>3. CASE CasNull(t)
  <2>1. CASE Slot(t) = Null
    <3>1. /\ arr' = SetSlot(t, arg[t].node) /\ Ret(t, 1)
          /\ UNCHANGED <<pool, heap, leaked, arg>>
      BY <1>3, <2>1 DEF CasNull
    <3>2. Others(t) /\ pc'[t] = "ret"
      BY <3>1, RetMoves DEF Ret, Goto, TypeOK, Moves
    <3> QED
      BY <1>3, <2>1, <3>1, <3>2, StoreNodes DEF CasNull, InsertPCs
  <2>2. CASE Slot(t) # Null
    <3>1. /\ Others(t) /\ arg' = arg /\ arr' = arr /\ heap' = heap /\ pool' = pool
          /\ leaked' = leaked /\ pc'[t] = "reload_null"
      BY <1>3, <2>2 DEF CasNull, Others, Goto, TypeOK
    <3> QED
      BY <1>3, <3>1, ReadsNodes DEF CasNull, InsertPCs
  <2> QED
    BY <2>1, <2>2
<1>4. CASE ReloadNull(t)
  <2>1. CASE is_array(Slot(t)) /\ Follow(t, Slot(t))
    <3>1. Moves(t, Slot(t).ref)
      BY <2>1, FollowMoves
    <3>2. leaked \subseteq leaked' /\ (pc'[t] = "ret" => "node" \in leaked')
      BY <2>1 DEF Follow, Descend, Goto, TypeOK
    <3> QED
      BY <1>4, <3>1, <3>2, MovesNodes DEF ReloadNull, InsertPCs
  <2>2. CASE ~is_array(Slot(t))
    <3>1. /\ Others(t) /\ arg' = arg /\ arr' = arr /\ heap' = heap /\ pool' = pool
          /\ leaked' = leaked /\ pc'[t] \in {"exp_load", "cmp_null"}
      BY <1>4, <2>2 DEF ReloadNull, Others, Goto, See, TypeOK
    <3> QED
      BY <1>4, <3>1, ReadsNodes DEF ReloadNull, InsertPCs
  <2> QED
    BY <1>4, <2>1, <2>2 DEF ReloadNull
<1>5. CASE CmpNull(t)
  <2>1. CASE DropNew(t)
    BY <1>5, <2>1, OwnNode, FreeNodes DEF CmpNull, DropNew, InsertPCs
  <2>2. CASE ~DropNew(t)
    <3>1. Fail(t) /\ UNCHANGED <<arr, pool, heap, leaked, arg>>
      BY <1>5, <2>2 DEF CmpNull
    <3>2. Moves(t, HeadArr) /\ pc'[t] # "ret"
      BY <3>1, FailMoves DEF Fail, Goto, TypeOK
    <3> QED
      BY <1>5, <3>1, <3>2, MovesNodes DEF CmpNull, InsertPCs
  <2> QED
    BY <2>1, <2>2
<1>6. CASE CmpHash(t)
  <2>1. cur[t].kind = "node" /\ ~cur[t].mark /\ heap[cur[t].ref].st # "free"
    BY <1>0, <1>6 DEF Knows, CmpHash
  <2>2. /\ Others(t) /\ arg' = arg /\ arr' = arr /\ heap' = heap /\ pool' = pool
        /\ leaked' = leaked /\ cur' = cur
        /\ \/ pc'[t] = "exp_load"
           \/ pc'[t] = "cas_upd" /\ heap[cur[t].ref].hash = arg[t].hash
    <3>1. HashEquals(cur[t], arg[t].hash) = {heap[cur[t].ref].hash = arg[t].hash}
      BY <2>1, ExactHash
    <3>2. \E eq \in {heap[cur[t].ref].hash = arg[t].hash} :
            pc' = [pc EXCEPT ![t] = IF eq THEN "cas_upd" ELSE "exp_load"]
      BY <1>6, <3>1 DEF CmpHash, Goto
    <3>3. pc' = [pc EXCEPT ![t] = IF heap[cur[t].ref].hash = arg[t].hash
                                  THEN "cas_upd" ELSE "exp_load"]
      BY <3>2
    <3> QED
      BY <1>6, <3>3 DEF CmpHash, Others, TypeOK, mem, loc
  <2> QED
    BY <1>6, <2>1, <2>2, ReadsNodes DEF CmpHash, InsertPCs
<1>7. CASE CasUpdate(t)
  <2>1. Others(t) /\ UNCHANGED <<pool, heap, leaked, arg>> /\ pc[t] = "cas_upd"
    BY <1>7 DEF CasUpdate, Others, Goto, See, TypeOK
  <2>2. CASE Slot(t) = cur[t]
    <3>1. /\ arr' = SetSlot(t, arg[t].node) /\ pc'[t] = "free" /\ cur'[t] = cur[t]
      BY <1>7, <2>2 DEF CasUpdate, Goto, TypeOK
    <3>2. cur[t].kind = "node" /\ ~cur[t].mark
      BY <1>0, <2>1 DEF Knows
    <3> QED
      BY <2>1, <2>2, <3>1, <3>2, StoreNodes DEF InsertPCs
  <2>3. CASE Slot(t) # cur[t]
    <3>1. arr' = arr /\ pc'[t] = "reload_upd"
      BY <1>7, <2>3 DEF CasUpdate, Goto, TypeOK
    <3> QED
      BY <2>1, <3>1, ReadsNodes DEF InsertPCs
  <2> QED
    BY <2>2, <2>3
<1>8. CASE ReloadUpdate(t)
  <2>1. CASE DropNew(t)
    BY <1>8, <2>1, OwnNode, FreeNodes DEF ReloadUpdate, DropNew, InsertPCs
  <2>2. CASE is_array(Slot(t)) /\ Follow(t, Slot(t)) /\ UNCHANGED heap
    <3>1. Moves(t, Slot(t).ref)
      BY <2>2, FollowMoves
    <3>2. leaked \subseteq leaked' /\ (pc'[t] = "ret" => "node" \in leaked')
      BY <2>2 DEF Follow, Descend, Goto, TypeOK
    <3> QED
      BY <1>8, <2>2, <3>1, <3>2, MovesNodes DEF ReloadUpdate, InsertPCs
  <2>3. CASE ~is_array(Slot(t)) /\ ~DropNew(t)
    <3>1. /\ Others(t) /\ arg' = arg /\ arr' = arr /\ heap' = heap /\ pool' = pool
          /\ leaked' = leaked /\ pc'[t] = "exp_load"
      BY <1>8, <2>3 DEF ReloadUpdate, Others, Goto, See, TypeOK
    <3> QED
      BY <1>8, <3>1, ReadsNodes DEF ReloadUpdate, InsertPCs
  <2> QED
    BY <1>8, <2>1, <2>2, <2>3 DEF ReloadUpdate
<1>9. CASE FreeOld(t)
  <2>1. cur[t].kind = "node" /\ cur[t] \in Word
    BY <1>0, <1>9 DEF Knows, FreeOld, TypeOK
  <2>2. cur[t].ref \in Addr
    BY <2>1 DEF Word
  <2>3. HeldBy(t) = {cur[t].ref}
    BY <1>9, <2>2 DEF HeldBy, FreeOld, InsertPCs
  <2> QED
    BY <1>9, <2>2, <2>3, FreeNodes DEF FreeOld
<1>10. CASE ExpandLoad(t)
  <2>1. /\ Others(t) /\ arg' = arg /\ arr' = arr /\ heap' = heap /\ pool' = pool
        /\ leaked' = leaked /\ pc'[t] = "exp_fill"
    BY <1>10 DEF ExpandLoad, Others, Goto, See, TypeOK, mem
  <2> QED
    BY <1>10, <2>1, ReadsNodes DEF ExpandLoad, InsertPCs
<1>11. CASE ExpandFill(t)
  BY <1>11, NodesExpandFill
<1>12. CASE ExpandCas(t)
  BY <1>12, NodesExpandWon, NodesExpandLost
<1> QED
  BY <1>1, <1>2, <1>3, <1>4, <1>5, <1>6, <1>7, <1>8, <1>9, <1>10, <1>11, <1>12
  DEF InsertStep

\* A find and the return of a call hold no node.
LEMMA NodesOtherSteps ==
  ASSUME TypeOK, ArraysOwned, NodesOwned, NodesKept, NEW t \in Threads, NEW h \in Hash,
         FindStep(t) \/ Return(t) \/ InvokeFind(t, h)
  PROVE  NodesOwned' /\ NodesKept'
<1>1. /\ Others(t) /\ \A u \in Threads \ {t} : arg'[u] = arg[u]
      /\ UNCHANGED mem /\ pc[t] \in FindPCs \cup {"idle", "ret"}
      /\ pc'[t] \in FindPCs \cup {"idle", "ret"}
  <2>1. CASE FindStep(t)
    BY <2>1 DEF FindStep, FindLoad, FindCmp, FindValue, FindPCs, Others, Goto, See,
       Ret, TypeOK
  <2>2. CASE Return(t)
    BY <2>2 DEF Return, Others, Goto, TypeOK
  <2>3. CASE InvokeFind(t, h)
    BY <2>3 DEF InvokeFind, Others, Goto, TypeOK, FindPCs
  <2> QED
    BY <2>1, <2>2, <2>3
<1>2. HeldBy(t) = {} /\ HeldBy(t)' = {} /\ Knows(t)'
  BY <1>1 DEF HeldBy, Knows, InsertPCs, FindPCs
<1> QED
  BY <1>1, <1>2, IdleNodes DEF mem, FindPCs

\* A call of wtf_table_insert takes a node that nobody has, or none.
LEMMA NodesInvokeInsert ==
  ASSUME ~Recycle, TypeOK, ArraysOwned, NodesOwned, NodesKept,
         NEW t \in Threads, NEW h \in Hash, InvokeInsert(t, h)
  PROVE  NodesOwned' /\ NodesKept'
<1>1. /\ Others(t) /\ \A u \in Threads \ {t} : arg'[u] = arg[u]
      /\ pc[t] = "idle" /\ pc'[t] \in {"load", "ret"} /\ arr' = arr /\ pool' = pool
      /\ leaked' = leaked /\ HeldBy(t) = {}
  BY DEF InvokeInsert, Others, Goto, TypeOK, HeldBy, InsertPCs
<1>2. CASE Goto(t, "ret") /\ UNCHANGED heap
  <2>1. pc'[t] = "ret"
    BY <1>2 DEF Goto, TypeOK
  <2>2. HeldBy(t)' = {} /\ Knows(t)'
    BY <2>1 DEF HeldBy, Knows, InsertPCs
  <2> QED
    BY <1>1, <1>2, <2>1, <2>2, IdleNodes
<1>3. CASE ~(Goto(t, "ret") /\ UNCHANGED heap)
  <2>1. PICK a \in Allocatable :
          /\ heap' = [heap EXCEPT ![a] = [st |-> "live", hash |-> h, value |-> ops + 1]]
          /\ arg' = [arg EXCEPT ![t] = [op |-> "insert", hash |-> h, value |-> ops + 1,
                                        node |-> NodeWord(a)]]
          /\ Goto(t, "load")
    BY <1>3 DEF InvokeInsert
  <2>2. a \in Addr /\ heap[a].st = "free"
    BY DEF Allocatable, Fresh
  <2>3. /\ pc'[t] = "load" /\ arg'[t].node = NodeWord(a) /\ arg'[t].hash = h
        /\ heap'[a].st = "live" /\ heap'[a].hash = h
        /\ \A b \in Addr \ {a} : heap'[b] = heap[b]
    BY <2>1, <2>2 DEF Goto, TypeOK
  <2>4. NodeWord(a).ref = a
    BY DEF NodeWord
  <2>5. HeldBy(t)' = {a} /\ Knows(t)'
    BY <2>2, <2>3, <2>4 DEF HeldBy, Knows, InsertPCs
  <2>6. TableSame
    BY <1>1, <2>3, PublishedSame DEF TableSame
  <2>7. OneOwner' /\ Tab' = Tab
    BY <2>6, SameTable DEF NodesOwned
  <2>8. NullsUnmarked'
    BY <1>1, <2>6 DEF NullsUnmarked, TableSame, NodesOwned
  <2>9. a \notin Tab /\ Tab \subseteq Addr
    BY <2>2 DEF NodesOwned, Tab
  <2>10. NodeStep(t)
    BY <1>1, <2>2, <2>3, <2>5, <2>7, <2>9 DEF NodeStep, NodesOwned
  <2> QED
    BY <2>5, <2>7, <2>8, <2>10, NodeStepInv
<1> QED
  BY <1>2, <1>3

\* The inductive invariant where freed memory is not handed out again.
NodesInv == TableInv /\ NodesOwned /\ NodesKept

LEMMA NodesInvInit == Init => NodesInv
<1> SUFFICES ASSUME Init PROVE NodesInv
  OBVIOUS
<1>1. TableInv
  BY TableInvInit
<1>2. \A i \in Published, s \in Slots : arr[i][s] = Null
  BY DEF Init, Empty, Published
<1>3. Null.kind = "null"
  BY DEF Null
<1>4. OneOwner /\ NullsUnmarked /\ Tab = {}
  BY <1>2, <1>3, OwnerUnfolded DEF NullsUnmarked, Tab
<1>5. \A t \in Threads : HeldBy(t) = {} /\ Knows(t)
  BY DEF Init, HeldBy, Knows, InsertPCs
<1>6. \A a \in Addr : heap[a].st = "free"
  BY DEF Init
<1> QED
  BY <1>1, <1>4, <1>5, <1>6 DEF NodesInv, NodesOwned, NodesKept

LEMMA NodesInvNext == ~Recycle /\ NodesInv /\ [Next]_vars => NodesInv'
<1> SUFFICES ASSUME ~Recycle, TableInv, NodesOwned, NodesKept, [Next]_vars
             PROVE  NodesInv'
  BY DEF NodesInv
<1>1. TableInv' /\ TypeOK /\ ArraysOwned /\ SlotsStayFull
  BY TableInvNext DEF TableInv
<1>2. CASE UNCHANGED vars
  <2>1. /\ OneOwner' = OneOwner /\ NullsUnmarked' = NullsUnmarked /\ Tab' = Tab
        /\ \A t \in Threads : HeldBy(t)' = HeldBy(t) /\ Knows(t)' = Knows(t)
    BY <1>2 DEF OneOwner, NullsUnmarked, Tab, HeldBy, Knows, Cells, Published, Private,
       vars, mem, loc
  <2> QED
    BY <1>1, <1>2, <2>1 DEF NodesInv, NodesOwned, NodesKept, vars, mem
<1>3. CASE Next
  <2>1. CASE \E t \in Inserters : \E h \in HashesOf[t] : InvokeInsert(t, h)
    BY <1>1, <2>1, NodesInvokeInsert, HashAssumption DEF NodesInv, Threads
  <2>2. CASE \E t \in Finders, h \in Hash : InvokeFind(t, h)
    BY <1>1, <2>2, NodesOtherSteps DEF NodesInv, Threads
  <2>3. CASE \E t \in Threads : InsertStep(t) \/ FindStep(t) \/ Return(t)
    BY <1>1, <2>3, NodesInsertStep, NodesOtherSteps, HashAssumption DEF NodesInv
  <2> QED
    BY <1>3, <2>1, <2>2, <2>3 DEF Next
<1> QED
  BY <1>2, <1>3

LEMMA NodesInvariant == ~Recycle => (Spec => []NodesInv)
<1>1. ~Recycle /\ NodesInv /\ [Next]_vars => NodesInv'
  BY NodesInvNext
<1>2. CASE ~Recycle
  <2>1. NodesInv /\ [Next]_vars => NodesInv'
    BY <1>1, <1>2
  <2> QED
    BY <2>1, NodesInvInit, PTL DEF Spec
<1> QED
  BY <1>2

\* Where free() hands no memory out again while a thread may still point to it,
\* every node and every array is in one slot of the table only, whatever
\* inserts, updates and expansions race: a walk that follows unmarked words
\* comes to nothing twice.
THEOREM OneOwnerCorrect == ~Recycle => (Spec => []OneOwner)
BY NodesInvariant, PTL DEF NodesInv, NodesOwned

\* No memory is freed while the table points to it, and none is freed twice: the
\* node a thread is about to free is live, not in the table, and no other thread's.
THEOREM FreesOwnNode ==
  ~Recycle => (Spec => [](\A t \in Threads : \A a \in HeldBy(t) :
                            /\ heap[a].st = "live" /\ a \notin Tab
                            /\ \A u \in Threads \ {t} : a \notin HeldBy(u)))
<1>1. NodesInv => \A t \in Threads : \A a \in HeldBy(t) :
                    /\ heap[a].st = "live" /\ a \notin Tab
                    /\ \A u \in Threads \ {t} : a \notin HeldBy(u)
  BY DEF NodesInv, NodesOwned
<1> QED
  BY <1>1, NodesInvariant, PTL

\* Between calls the nodes that are live are those of the table.
LEMMA LiveNodesInTable ==
  NodesInv => (Quiet /\ "node" \notin leaked => {a \in Addr : heap[a].st = "live"} = Tab)
<1> SUFFICES ASSUME NodesInv, Quiet, "node" \notin leaked
             PROVE  {a \in Addr : heap[a].st = "live"} = Tab
  OBVIOUS
<1>1. \A t \in Threads : HeldBy(t) = {} /\ pc[t] # "wild"
  BY DEF Quiet, HeldBy, InsertPCs
<1>2. \A a \in Addr : heap[a].st = "live" => a \in Tab
  BY <1>1 DEF NodesInv, NodesKept
<1>3. Tab \subseteq Addr /\ \A a \in Tab : heap[a].st = "live"
  BY DEF NodesInv, NodesOwned, Tab
<1> QED BY <1>2, <1>3

\* No race drops a node: between calls the nodes that are allocated are those
\* that hang in a slot of an array some expansion has published, unless an insert
\* has returned false and forgotten its node.  Whether wtf_table_for_each comes to
\* that slot is another matter: NodesAccountedForCorrect.
THEOREM LiveNodesHang ==
  ~Recycle => (Spec => [](Quiet /\ "node" \notin leaked =>
                            {a \in Addr : heap[a].st = "live"} = Tab))
BY LiveNodesInTable, NodesInvariant, PTL

-----------------------------------------------------------------------------
(* What a step may do to a published slot.                                 *)

\* Steps that store nothing in the table.
LEMMA ForwardStill ==
  ASSUME arr' = arr, NEW i \in Published, NEW s \in Slots
  PROVE  Forward(arr[i][s], arr'[i][s])
BY DEF Forward

\* A step that stores a word in the slot of its thread.
LEMMA ForwardStore ==
  ASSUME TypeOK, NEW t \in Threads, NEW w \in Word, arr' = SetSlot(t, w),
         Forward(Slot(t), w), NEW i \in Published, NEW s \in Slots
  PROVE  Forward(arr[i][s], arr'[i][s])
<1>1. arr'[i][s] = IF i = at[t].arr /\ s = Pos(t) THEN w ELSE arr[i][s]
  BY SetSlotWords DEF Published
<1>2. CASE i = at[t].arr /\ s = Pos(t)
  BY <1>1, <1>2 DEF Slot
<1>3. CASE ~(i = at[t].arr /\ s = Pos(t))
  BY <1>1, <1>3 DEF Forward
<1> QED
  BY <1>2, <1>3

LEMMA ForwardInsertStep ==
  ASSUME NodesInv, NEW t \in Threads, InsertStep(t), NEW i \in Published, NEW s \in Slots
  PROVE  Forward(arr[i][s], arr'[i][s])
<1>0. /\ TypeOK /\ ArraysOwned /\ SlotsStayFull /\ NodesOwned /\ Full(t) /\ Knows(t)
      /\ Slot(t) \in Word
  BY SlotType DEF NodesInv, TableInv, SlotsStayFull, NodesOwned
<1>1. CASE arr' = arr
  BY <1>1, ForwardStill
<1>2. CASE MarkSlot(t)
  <2>1. Slot(t) # Null /\ Marked(Slot(t)) \in Word
    BY <1>0, <1>2, ConstantTypes DEF Full, MarkSlot
  <2>2. Forward(Slot(t), Marked(Slot(t)))
    BY <2>1 DEF Forward
  <2> QED
    BY <1>0, <1>2, <2>1, <2>2, ForwardStore DEF MarkSlot
<1>3. CASE CasNull(t) /\ Slot(t) = Null
  <2>1. arg[t].node = NodeWord(arg[t].node.ref) /\ arg[t].node \in Word
    BY <1>0, <1>3, OwnNode DEF CasNull, InsertPCs, TypeOK, Call
  <2>2. arg[t].node.kind = "node" /\ ~arg[t].node.mark
    BY <2>1 DEF NodeWord
  <2>3. Forward(Slot(t), arg[t].node)
    BY <1>3, <2>2 DEF Forward
  <2> QED
    BY <1>0, <1>3, <2>1, <2>3, ForwardStore DEF CasNull
<1>4. CASE CasUpdate(t) /\ Slot(t) = cur[t]
  <2>1. /\ arg[t].node = NodeWord(arg[t].node.ref) /\ arg[t].node \in Word
        /\ heap[arg[t].node.ref].hash = arg[t].hash
    BY <1>0, <1>4, OwnNode DEF CasUpdate, InsertPCs, TypeOK, Call
  <2>2. arg[t].node.kind = "node" /\ ~arg[t].node.mark
    BY <2>1 DEF NodeWord
  <2>3. /\ cur[t].kind = "node" /\ ~cur[t].mark
        /\ heap[cur[t].ref].hash = arg[t].hash
    BY <1>0, <1>4 DEF Knows, CasUpdate
  <2>4. Forward(Slot(t), arg[t].node)
    BY <1>4, <2>1, <2>2, <2>3 DEF Forward
  <2> QED
    BY <1>0, <1>4, <2>1, <2>4, ForwardStore DEF CasUpdate
<1>5. CASE ExpandFill(t) /\ arr' # arr
  <2>1. PICK j \in pool, p \in NewPos(exp[t].node, at[t].lvl) :
          arr' = [arr EXCEPT ![j] = [Empty EXCEPT ![p] = exp[t].node]]
    BY <1>5 DEF ExpandFill
  <2>2. arr'[i] = arr[i]
    BY <1>0, <2>1 DEF Published, TypeOK
  <2> QED
    BY <2>2 DEF Forward
<1>6. CASE ExpandCas(t) /\ Slot(t) = exp[t].node
  <2> DEFINE new == exp[t].arr
  <2>1. /\ new \in ArrId /\ ArrayWord(new) \in Word /\ Slot(t) # Null
        /\ new # at[t].arr /\ arr' = SetSlot(t, ArrayWord(new))
    BY <1>0, <1>6, ConstantTypes
    DEF TypeOK, Expansion, ExpandCas, ArraysOwned, Private, Published, Full
  <2>2. arr'[new] = arr[new]
    BY <1>0, <2>1, SlotType DEF SetSlot, TypeOK
  <2>3. Wraps(new, Slot(t))
    BY <1>0, <1>6, <2>2 DEF Wraps, Knows, ExpandCas
  <2>4. Forward(Slot(t), ArrayWord(new))
    BY <2>1, <2>3 DEF Forward, ArrayWord, is_array
  <2> QED
    BY <1>0, <2>1, <2>4, ForwardStore
<1>7. CASE ExpandCas(t) /\ Slot(t) # exp[t].node
  <2>1. arr' = [arr EXCEPT ![exp[t].arr] = Empty]
    BY <1>7 DEF ExpandCas
  <2>2. exp[t].arr \notin Published
    BY <1>7 DEF ExpandCas, Private, Published
  <2>3. arr'[i] = arr[i]
    BY <1>0, <2>1, <2>2 DEF Published, TypeOK
  <2> QED
    BY <2>3 DEF Forward
<1>8. \/ arr' = arr \/ MarkSlot(t) \/ CasNull(t) \/ CasUpdate(t)
      \/ ExpandFill(t) \/ ExpandCas(t)
  BY DEF InsertStep, LoadSlot, ReloadNull, CmpNull, CmpHash, ReloadUpdate, FreeOld,
     ExpandLoad, mem
<1> QED
  BY <1>1, <1>2, <1>3, <1>4, <1>5, <1>6, <1>7, <1>8 DEF CasNull, CasUpdate

LEMMA ForwardNext ==
  NodesInv /\ [Next]_vars =>
    \A i \in Published, s \in Slots : Forward(arr[i][s], arr'[i][s])
<1> SUFFICES ASSUME NodesInv, [Next]_vars, NEW i \in Published, NEW s \in Slots
             PROVE  Forward(arr[i][s], arr'[i][s])
  OBVIOUS
<1>1. CASE arr' = arr
  BY <1>1, ForwardStill
<1>2. CASE \E t \in Threads : InsertStep(t)
  BY <1>2, ForwardInsertStep
<1>3. arr' = arr \/ \E t \in Threads : InsertStep(t)
  BY DEF Next, vars, mem, InvokeInsert, InvokeFind, FindStep, FindLoad, FindCmp,
     FindValue, Return
<1> QED
  BY <1>1, <1>2, <1>3

\* Where memory is not reused under a stale pointer, a published slot only moves
\* forward: an update replaces a node of its own key only, and an array that takes
\* the place of a node holds that node, so no race drops a node from the table.
THEOREM SlotsMoveForwardCorrect == ~Recycle => (Spec => SlotsMoveForward)
<1>1. NodesInv /\ [Next]_vars =>
        [\A i \in Published, s \in Slots : Forward(arr[i][s], arr'[i][s])]_vars
  BY ForwardNext
<1> QED
  BY <1>1, NodesInvariant, PTL DEF Spec, SlotsMoveForward

-----------------------------------------------------------------------------
(* The search in the trie A: LeafWord, with the arrays as a parameter.     *)

IsWalk(F, A, h, n) ==
  F = [l \in 0 .. n |->
         LET w == IF l = 0 THEN ArrayWord(HeadArr) ELSE F[l - 1] IN
         IF is_array(w) THEN A[w.ref][h[l]] ELSE w]
Leaf(A, h) == (CHOOSE F : IsWalk(F, A, h, MAX_LVL))[MAX_LVL]

LEMMA LeafWordIsLeaf == \A h : LeafWord(h) = Leaf(arr, h)
BY DEF LeafWord, Leaf, IsWalk, Levels

LEMMA WalkExists ==
  ASSUME NEW A, NEW h, NEW n \in Nat
  PROVE  \E F : IsWalk(F, A, h, n)
<1> DEFINE N == {k \in Nat : \E F : IsWalk(F, A, h, k)}
<1>1. 0 \in N
  <2>1. IsWalk([l \in 0..0 |-> A[HeadArr][h[0]]], A, h, 0)
    BY DEF IsWalk, ArrayWord, is_array
  <2> QED BY <2>1
<1>2. ASSUME NEW k \in Nat, k \in N PROVE k + 1 \in N
  <2>1. PICK F : IsWalk(F, A, h, k)
    BY <1>2
  <2> DEFINE w == F[k]
             last == IF is_array(w) THEN A[w.ref][h[k + 1]] ELSE w
             G == [l \in 0 .. k + 1 |-> IF l = k + 1 THEN last ELSE F[l]]
             B(H, l) == LET v == IF l = 0 THEN ArrayWord(HeadArr) ELSE H[l - 1] IN
                        IF is_array(v) THEN A[v.ref][h[l]] ELSE v
  <2>2. \A l \in 0 .. k : F[l] = B(F, l)
    BY <2>1 DEF IsWalk
  <2>3. \A l \in 0 .. k : G[l] = F[l]
    OBVIOUS
  <2>4. \A l \in 0 .. k : B(G, l) = B(F, l)
    <3>1. \A l \in 0 .. k : l # 0 => l - 1 \in 0 .. k
      OBVIOUS
    <3> HIDE DEF G
    <3> QED BY <2>3, <3>1
  <2>5. B(G, k + 1) = last /\ G[k + 1] = last
    <3>1. k + 1 # 0 /\ (k + 1) - 1 = k /\ k \in 0 .. k /\ k + 1 \in 0 .. k + 1
      OBVIOUS
    <3>2. G[k + 1] = last
      BY <3>1
    <3>3. G[(k + 1) - 1] = w
      BY <2>3, <3>1
    <3> HIDE DEF G
    <3> QED BY <3>1, <3>2, <3>3
  <2>6. \A l \in 0 .. k + 1 : G[l] = B(G, l)
    <3>1. \A l \in 0 .. k + 1 : l \in 0 .. k \/ l = k + 1
      OBVIOUS
    <3> HIDE DEF G, B, last
    <3> QED BY <2>2, <2>3, <2>4, <2>5, <3>1
  <2>7. G = [l \in 0 .. k + 1 |-> B(G, l)]
    <3>1. G = [l \in 0 .. k + 1 |-> G[l]]
      OBVIOUS
    <3> HIDE DEF G, B
    <3> QED BY <2>6, <3>1
  <2>8. IsWalk(G, A, h, k + 1)
    <3> HIDE DEF G
    <3> QED BY <2>7 DEF IsWalk
  <2> QED BY <2>8
<1>3. Nat \subseteq N
  <2> HIDE DEF N
  <2> QED BY <1>1, <1>2, NatInductionSet
<1> QED BY <1>3

\* The word in hand after a level.
LEMMA WalkStep ==
  ASSUME NEW A, NEW h, NEW F, IsWalk(F, A, h, MAX_LVL)
  PROVE  /\ F[0] = A[HeadArr][h[0]]
         /\ \A l \in Levels \ {0} : F[l] = IF is_array(F[l - 1]) THEN A[F[l - 1].ref][h[l]]
                                                              ELSE F[l - 1]
<1>1. 0 \in 0 .. MAX_LVL /\ is_array(ArrayWord(HeadArr)) /\ ArrayWord(HeadArr).ref = HeadArr
  BY SizesAssumption DEF ArrayWord, is_array
<1> QED BY <1>1, SizesAssumption DEF IsWalk, Levels

\* h has the digits that lead to array i.
On(lev, rep, h, i) == \A l \in Levels : l < lev[i] => h[l] = rep[i][l]

\* lev and rep are the levels of the arrays of A, and hashes that lead to them.
Shape(A, P, lev, rep) ==
  /\ lev \in [ArrId -> Levels] /\ rep \in [ArrId -> [Levels -> Slots]]
  /\ P \subseteq ArrId /\ HeadArr \in P /\ lev[HeadArr] = 0
  /\ \A i \in P, s \in Slots : is_array(A[i][s]) =>
       /\ A[i][s].ref \in P /\ lev[i] < MAX_LVL
       /\ lev[A[i][s].ref] = lev[i] + 1
       /\ rep[A[i][s].ref][lev[i]] = s /\ On(lev, rep, rep[A[i][s].ref], i)
  /\ \A j \in P \ {HeadArr} : \E i \in P, s \in Slots :
       is_array(A[i][s]) /\ A[i][s].ref = j

\* Down the path of a hash.
LEMMA OnDown ==
  ASSUME NEW A, NEW P, NEW lev, NEW rep, Shape(A, P, lev, rep),
         NEW i \in P, NEW h \in [Levels -> Slots], On(lev, rep, h, i), is_array(A[i][h[lev[i]]])
  PROVE  /\ A[i][h[lev[i]]].ref \in P /\ lev[i] < MAX_LVL
         /\ lev[A[i][h[lev[i]]].ref] = lev[i] + 1
         /\ On(lev, rep, h, A[i][h[lev[i]]].ref)
<1> DEFINE s == h[lev[i]]
           j == A[i][s].ref
<1>1. lev[i] \in Levels /\ i \in ArrId /\ s \in Slots
  BY DEF Shape
<1>2. j \in P /\ lev[i] < MAX_LVL /\ lev[j] = lev[i] + 1 /\ rep[j][lev[i]] = s /\ On(lev, rep, rep[j], i)
  BY <1>1 DEF Shape
<1> HIDE DEF s, j
<1>3. \A l \in Levels : l < lev[j] => l < lev[i] \/ l = lev[i]
  BY <1>1, <1>2, SizesAssumption DEF Levels
<1>4. On(lev, rep, h, j)
  BY <1>2, <1>3 DEF On, s
<1> QED BY <1>2, <1>4 DEF s, j

\* Up the path of a hash.
LEMMA OnUp ==
  ASSUME NEW A, NEW P, NEW lev, NEW rep, Shape(A, P, lev, rep),
         NEW j \in P \ {HeadArr}, NEW h, On(lev, rep, h, j)
  PROVE  \E i \in P : /\ lev[j] = lev[i] + 1 /\ On(lev, rep, h, i) /\ h[lev[i]] \in Slots
                      /\ is_array(A[i][h[lev[i]]]) /\ A[i][h[lev[i]]].ref = j
<1>1. PICK i \in P, s \in Slots : is_array(A[i][s]) /\ A[i][s].ref = j
  BY DEF Shape
<1>2. lev[i] < MAX_LVL /\ lev[j] = lev[i] + 1 /\ rep[j][lev[i]] = s /\ On(lev, rep, rep[j], i)
  BY <1>1 DEF Shape
<1>3. lev[i] \in Levels /\ lev[j] \in Levels
  BY DEF Shape
<1>4. h[lev[i]] = s
  BY <1>2, <1>3 DEF On, Levels
<1>5. \A l \in Levels : l < lev[i] => l < lev[j]
  BY <1>2, <1>3 DEF Levels
<1>6. On(lev, rep, h, i)
  BY <1>2, <1>5 DEF On
<1> QED BY <1>1, <1>2, <1>4, <1>6

\* A search for h that has an array in hand after level lev[i] - 1 has i.
LEMMA WalkReaches ==
  ASSUME NEW A, NEW P, NEW lev, NEW rep, Shape(A, P, lev, rep), NEW h \in [Levels -> Slots],
         NEW F, IsWalk(F, A, h, MAX_LVL), NEW i \in P, On(lev, rep, h, i)
  PROVE  F[lev[i]] = A[i][h[lev[i]]]
<1> DEFINE Good(n) == \A j \in P : lev[j] = n /\ On(lev, rep, h, j) => F[n] = A[j][h[n]]
           N == {n \in Nat : n \in Levels => Good(n)}
<1>1. 0 \in N
  <2>1. ASSUME NEW j \in P, lev[j] = 0, On(lev, rep, h, j) PROVE F[0] = A[j][h[0]]
    <3>1. CASE j = HeadArr
      BY <3>1, WalkStep
    <3>2. CASE j # HeadArr
      <4>1. PICK k \in P : lev[j] = lev[k] + 1
        BY <2>1, <3>2, OnUp
      <4>2. lev[k] \in Levels
        BY DEF Shape
      <4> QED BY <2>1, <4>1, <4>2 DEF Levels
    <3> QED BY <3>1, <3>2
  <2> QED BY <2>1
<1>2. ASSUME NEW n \in Nat, n \in N PROVE n + 1 \in N
  <2>1. SUFFICES ASSUME n + 1 \in Levels, NEW j \in P, lev[j] = n + 1, On(lev, rep, h, j)
                 PROVE  F[n + 1] = A[j][h[n + 1]]
    OBVIOUS
  <2>2. j # HeadArr
    BY <2>1 DEF Shape
  <2>3. PICK k \in P : /\ lev[j] = lev[k] + 1 /\ On(lev, rep, h, k) /\ h[lev[k]] \in Slots
                       /\ is_array(A[k][h[lev[k]]]) /\ A[k][h[lev[k]]].ref = j
    BY <2>1, <2>2, OnUp
  <2>4. lev[k] \in Levels /\ lev[k] = n /\ n \in Levels /\ (n + 1) - 1 = n /\ n + 1 # 0
    <3>1. lev[k] \in Levels
      BY DEF Shape
    <3> QED BY <2>1, <2>3, <3>1 DEF Levels
  <2>5. F[n] = A[k][h[n]]
    BY <1>2, <2>3, <2>4
  <2>6. F[n + 1] = IF is_array(F[n]) THEN A[F[n].ref][h[n + 1]] ELSE F[n]
    BY <2>1, <2>4, WalkStep
  <2> QED BY <2>3, <2>4, <2>5, <2>6
<1>3. lev[i] \in Nat /\ lev[i] \in Levels
  BY SizesAssumption DEF Shape, Levels
<1>4. Nat \subseteq N
  <2> HIDE DEF N
  <2> QED BY <1>1, <1>2, NatInductionSet
<1> QED BY <1>3, <1>4

\* Below a word that is not an array the search keeps it.
LEMMA WalkKeeps ==
  ASSUME NEW A, NEW h, NEW F, IsWalk(F, A, h, MAX_LVL), NEW n \in Levels, ~is_array(F[n])
  PROVE  F[MAX_LVL] = F[n]
<1> DEFINE N == {k \in Nat : n + k \in Levels => F[n + k] = F[n]}
<1>1. 0 \in N
  BY DEF Levels
<1>2. ASSUME NEW k \in Nat, k \in N PROVE k + 1 \in N
  <2>1. SUFFICES ASSUME n + (k + 1) \in Levels PROVE F[n + (k + 1)] = F[n]
    OBVIOUS
  <2>2. n + k \in Levels /\ (n + (k + 1)) - 1 = n + k /\ n + (k + 1) # 0
    BY <2>1, SizesAssumption DEF Levels
  <2>3. F[n + k] = F[n]
    BY <1>2, <2>2
  <2> QED BY <2>1, <2>2, <2>3, WalkStep
<1>3. Nat \subseteq N
  <2> HIDE DEF N
  <2> QED BY <1>1, <1>2, NatInductionSet
<1>4. MAX_LVL - n \in Nat /\ n + (MAX_LVL - n) = MAX_LVL /\ MAX_LVL \in Levels
  BY SizesAssumption DEF Levels
<1>5. MAX_LVL - n \in N
  BY <1>3, <1>4
<1> QED BY <1>4, <1>5

\* The search for h ends at the word that is not an array on the path of h.
LEMMA LeafAt ==
  ASSUME NEW A, NEW P, NEW lev, NEW rep, Shape(A, P, lev, rep), NEW h \in [Levels -> Slots],
         NEW i \in P, On(lev, rep, h, i), ~is_array(A[i][h[lev[i]]])
  PROVE  Leaf(A, h) = A[i][h[lev[i]]]
<1> DEFINE F == CHOOSE G : IsWalk(G, A, h, MAX_LVL)
<1>1. IsWalk(F, A, h, MAX_LVL)
  BY WalkExists, SizesAssumption
<1>2. Leaf(A, h) = F[MAX_LVL]
  BY DEF Leaf
<1> HIDE DEF F
<1>3. F[lev[i]] = A[i][h[lev[i]]]
  BY <1>1, WalkReaches
<1>4. lev[i] \in Levels
  BY DEF Shape
<1> QED BY <1>1, <1>2, <1>3, <1>4, WalkKeeps

\* Every hash has such a word.
LEMMA LeafExists ==
  ASSUME NEW A, NEW P, NEW lev, NEW rep, Shape(A, P, lev, rep), NEW h \in [Levels -> Slots]
  PROVE  \E i \in P : On(lev, rep, h, i) /\ ~is_array(A[i][h[lev[i]]])
<1> SUFFICES ASSUME \A i \in P : On(lev, rep, h, i) => is_array(A[i][h[lev[i]]])
             PROVE  FALSE
  OBVIOUS
<1> DEFINE N == {n \in Nat : \E i \in P : lev[i] = n /\ On(lev, rep, h, i)}
<1>1. 0 \in N
  <2>1. HeadArr \in P /\ lev[HeadArr] = 0
    BY DEF Shape
  <2>2. On(lev, rep, h, HeadArr)
    BY <2>1 DEF On, Levels
  <2> QED BY <2>1, <2>2
<1>2. ASSUME NEW n \in Nat, n \in N PROVE n + 1 \in N
  <2>1. PICK i \in P : lev[i] = n /\ On(lev, rep, h, i)
    BY <1>2
  <2>2. is_array(A[i][h[lev[i]]])
    BY <2>1
  <2>3. /\ A[i][h[lev[i]]].ref \in P
        /\ lev[A[i][h[lev[i]]].ref] = lev[i] + 1
        /\ On(lev, rep, h, A[i][h[lev[i]]].ref)
    BY <2>1, <2>2, OnDown
  <2> QED BY <2>1, <2>3
<1>3. Nat \subseteq N
  <2> HIDE DEF N
  <2> QED BY <1>1, <1>2, NatInductionSet
<1>4. MAX_LVL + 1 \in Nat
  BY SizesAssumption
<1>5. PICK i \in P : lev[i] = MAX_LVL + 1
  BY <1>3, <1>4
<1> QED BY <1>5, SizesAssumption DEF Shape, Levels

-----------------------------------------------------------------------------
(* The shape of the trie, and what a thread has read of it, as long as no  *)
(* thread gives up and marks a slot and no expansion loads an array.       *)

Tame == \A t \in Threads : pc[t] # "mark" /\ ~is_array(exp[t].node)

NoMarks == \A i \in Published, s \in Slots : ~arr[i][s].mark

\* Every node hangs in an array and a slot that its hash leads to, and every
\* thread works in an array that the hash of its call leads to.
Trie(lev, rep) ==
  /\ Shape(arr, Published, lev, rep)
  /\ \A i \in Published, s \in Slots : arr[i][s].kind = "node" =>
       /\ On(lev, rep, heap[arr[i][s].ref].hash, i)
       /\ heap[arr[i][s].ref].hash[lev[i]] = s
  /\ \A t \in Threads : /\ at[t].lvl = lev[at[t].arr]
                        /\ On(lev, rep, arg[t].hash, at[t].arr)

\* w is a node word that the thread may have read in its slot.
Saw(t, w) ==
  /\ w.kind = "node" /\ ~w.mark /\ w.ref \in Addr /\ heap[w.ref].st # "free"
  /\ \A l \in Levels : l <= at[t].lvl => heap[w.ref].hash[l] = arg[t].hash[l]

\* The call a thread is in.
Calls(t) ==
  /\ pc[t] \in InsertPCs => /\ arg[t].op = "insert" /\ res[t] = Pending
                            /\ heap[arg[t].node.ref].value = arg[t].value
                            /\ arg[t].value \in Value
  /\ pc[t] \in FindPCs => arg[t].op = "find" /\ res[t] = Pending
  /\ pc[t] = "free" => arg[t].op = "insert" /\ res[t] = 1
  /\ pc[t] = "ret" => /\ arg[t].op # "none" /\ res[t] # Pending
                      /\ arg[t].op = "insert" /\ res[t] = 0 => arg[t].node = Null
  /\ pc[t] = "idle" => arg[t] = NoArg /\ res[t] = Pending
  /\ pc[t] \in InsertPCs \cup {"free"} => t \in Inserters /\ arg[t].hash \in HashesOf[t]
  /\ pc[t] \in {"idle", "ret"} => at[t] = AtHead
  /\ pc[t] # "wild"

\* What a thread has read.
Reads(t) ==
  /\ pc[t] \in {"cmp", "cmp_null", "f_cmp", "f_val"} => Saw(t, cur[t])
  /\ pc[t] = "f_val" => heap[cur[t].ref].hash = arg[t].hash
  /\ pc[t] \in {"exp_load", "exp_fill", "exp_cas"} => at[t].lvl < MAX_LVL
  /\ pc[t] \in {"exp_fill", "exp_cas"} => Saw(t, exp[t].node)
  /\ pc[t] = "exp_cas" =>
       arr[exp[t].arr] = [Empty EXCEPT ![heap[exp[t].node.ref].hash[at[t].lvl + 1]] =
                                         exp[t].node]

\* Nodes that were allocated keep their hash and value for good.
HeapKept == \A a \in Addr : heap[a].st # "free" =>
              /\ heap'[a].st # "free" /\ heap'[a].hash = heap[a].hash
              /\ heap'[a].value = heap[a].value

\* What a step of t leaves alone, and what it does to the table: nothing, a
\* store of its node, or the publication of its array.
Leaves(t) ==
  /\ Others(t) /\ HeapKept
  /\ \A u \in Threads \ {t} : arg'[u] = arg[u] /\ res'[u] = res[u]
  /\ \A u \in Threads \ {t} : pc[u] = "exp_cas" => arr'[exp[u].arr] = arr[exp[u].arr]
Still == Published' = Published /\ \A i \in Published : arr'[i] = arr[i]
Stores(t) ==
  /\ \/ pc[t] = "cas_null" /\ Slot(t) = Null
     \/ pc[t] = "cas_upd" /\ Slot(t) = cur[t]
  /\ Published' = Published /\ arr' = SetSlot(t, arg[t].node)
  /\ heap' = heap /\ arg' = arg
Expands(t) ==
  /\ pc[t] = "exp_cas" /\ Slot(t) = exp[t].node
  /\ exp[t].arr \in ArrId \ Published /\ Published' = Published \cup {exp[t].arr}
  /\ arr' = SetSlot(t, ArrayWord(exp[t].arr)) /\ arr'[exp[t].arr] = arr[exp[t].arr]
  /\ heap' = heap /\ arg' = arg
Effect(t) == Leaves(t) /\ (Still \/ Stores(t) \/ Expands(t))

LEMMA EffectLocal ==
  ASSUME TypeOK, NEW t \in Threads, Others(t), HeapKept,
         \A u \in Threads \ {t} : arg'[u] = arg[u] /\ res'[u] = res[u],
         arr' = arr, pool' = pool, pc[t] # "exp_cas", pc'[t] # "exp_cas"
  PROVE  Effect(t)
BY PublishedSame DEF Effect, Leaves, Still

LEMMA SameHeap == heap' = heap => HeapKept
BY DEF HeapKept

LEMMA FreedHeap == ASSUME TypeOK, NEW a, heap' = Freed(a) PROVE HeapKept
BY DEF HeapKept, Freed, TypeOK, Node

LEMMA RetLeaves ==
  ASSUME TypeOK, NEW t \in Threads, NEW r, Ret(t, r)
  PROVE  /\ \A u \in Threads \ {t} : res'[u] = res[u]
         /\ res'[t] = r /\ at'[t] = AtHead /\ pc'[t] = "ret"
BY DEF Ret, Goto, TypeOK

LEMMA DescendLeaves ==
  ASSUME TypeOK, NEW t \in Threads, NEW i, Descend(t, i)
  PROVE  \A u \in Threads \ {t} : res'[u] = res[u]
BY DEF Descend, Ret, TypeOK

LEMMA FollowLeaves ==
  ASSUME TypeOK, NEW t \in Threads, NEW w, Follow(t, w)
  PROVE  \A u \in Threads \ {t} : res'[u] = res[u]
BY DescendLeaves DEF Follow

LEMMA DropLeaves ==
  ASSUME TypeOK, NEW t \in Threads, DropNew(t)
  PROVE  HeapKept /\ Moves(t, HeadArr) /\ \A u \in Threads \ {t} : res'[u] = res[u]
BY FreedHeap, RetMoves, RetLeaves DEF DropNew

LEMMA FailLeaves ==
  ASSUME TypeOK, NEW t \in Threads, Fail(t)
  PROVE  /\ Moves(t, HeadArr) /\ pc'[t] \in {"load", "mark"} /\ UNCHANGED res
         /\ at'[t].arr = at[t].arr /\ at'[t].lvl = at[t].lvl
BY FailMoves DEF Fail, Goto, TypeOK, Place

LEMMA InsertEffect ==
  ASSUME TypeOK, ArraysOwned, NEW t \in Threads, InsertStep(t), pc[t] # "mark"
  PROVE  Effect(t)
<1>1. CASE LoadSlot(t)
  <2>1. CASE is_array(Slot(t)) /\ Follow(t, Slot(t))
    <3>1. Moves(t, Slot(t).ref) /\ \A u \in Threads \ {t} : res'[u] = res[u]
      BY <2>1, FollowMoves, FollowLeaves
    <3> QED BY <1>1, <3>1, EffectLocal, SameHeap DEF LoadSlot, Moves
  <2>2. CASE ~is_array(Slot(t))
    <3>1. Others(t) /\ pc'[t] \in {"exp_load", "cas_null", "cmp"} /\ res' = res
      BY <1>1, <2>2 DEF LoadSlot, Others, Goto, See, TypeOK
    <3> QED BY <1>1, <3>1, EffectLocal, SameHeap DEF LoadSlot
  <2> QED BY <1>1, <2>1, <2>2 DEF LoadSlot
<1>2. CASE CasNull(t)
  <2>1. CASE Slot(t) = Null
    <3>1. /\ arr' = SetSlot(t, arg[t].node) /\ Ret(t, 1) /\ pc[t] = "cas_null"
          /\ UNCHANGED <<pool, heap, leaked, arg>>
      BY <1>2, <2>1 DEF CasNull
    <3>2. Others(t) /\ pc'[t] = "ret" /\ \A u \in Threads \ {t} : res'[u] = res[u]
      BY <3>1, RetMoves, RetLeaves DEF Moves
    <3>3. Published' = Published
      BY <3>1, <3>2, PublishedSame
    <3>4. \A u \in Threads \ {t} : pc[u] = "exp_cas" => arr'[exp[u].arr] = arr[exp[u].arr]
      BY <3>1 DEF ArraysOwned, Published, Private, SetSlot, TypeOK
    <3> QED BY <2>1, <3>1, <3>2, <3>3, <3>4, SameHeap DEF Effect, Leaves, Stores
  <2>2. CASE Slot(t) # Null
    <3>1. Others(t) /\ pc'[t] = "reload_null" /\ res' = res /\ arr' = arr
      BY <1>2, <2>2 DEF CasNull, Others, Goto, TypeOK
    <3> QED BY <1>2, <3>1, EffectLocal, SameHeap DEF CasNull
  <2> QED BY <2>1, <2>2
<1>3. CASE ReloadNull(t)
  <2>1. CASE is_array(Slot(t)) /\ Follow(t, Slot(t))
    <3>1. Moves(t, Slot(t).ref) /\ \A u \in Threads \ {t} : res'[u] = res[u]
      BY <2>1, FollowMoves, FollowLeaves
    <3> QED BY <1>3, <3>1, EffectLocal, SameHeap DEF ReloadNull, Moves
  <2>2. CASE ~is_array(Slot(t))
    <3>1. Others(t) /\ pc'[t] \in {"exp_load", "cmp_null"} /\ res' = res
      BY <1>3, <2>2 DEF ReloadNull, Others, Goto, See, TypeOK
    <3> QED BY <1>3, <3>1, EffectLocal, SameHeap DEF ReloadNull
  <2> QED BY <1>3, <2>1, <2>2 DEF ReloadNull
<1>4. CASE CmpNull(t)
  <2>1. CASE DropNew(t)
    BY <1>4, <2>1, DropLeaves, EffectLocal DEF CmpNull, Moves
  <2>2. CASE Fail(t) /\ UNCHANGED <<heap, leaked>>
    BY <1>4, <2>2, FailLeaves, EffectLocal, SameHeap DEF CmpNull, Moves
  <2> QED BY <1>4, <2>1, <2>2 DEF CmpNull
<1>5. CASE CmpHash(t)
  <2>1. Others(t) /\ pc'[t] \in {"exp_load", "cas_upd"}
    BY <1>5 DEF CmpHash, Others, Goto, TypeOK, loc
  <2> QED BY <1>5, <2>1, EffectLocal, SameHeap DEF CmpHash, mem, loc
<1>6. CASE CasUpdate(t)
  <2>1. CASE Slot(t) = cur[t]
    <3>1. /\ arr' = SetSlot(t, arg[t].node) /\ pc[t] = "cas_upd" /\ pc'[t] = "free"
          /\ UNCHANGED <<pool, heap, leaked, arg>> /\ Others(t)
          /\ \A u \in Threads \ {t} : res'[u] = res[u]
      BY <1>6, <2>1 DEF CasUpdate, Others, Goto, TypeOK
    <3>3. Published' = Published
      BY <3>1, PublishedSame
    <3>4. \A u \in Threads \ {t} : pc[u] = "exp_cas" => arr'[exp[u].arr] = arr[exp[u].arr]
      BY <3>1 DEF ArraysOwned, Published, Private, SetSlot, TypeOK
    <3> QED BY <2>1, <3>1, <3>3, <3>4, SameHeap DEF Effect, Leaves, Stores
  <2>2. CASE Slot(t) # cur[t]
    <3>1. Others(t) /\ pc'[t] = "reload_upd" /\ res' = res /\ arr' = arr
      BY <1>6, <2>2 DEF CasUpdate, Others, Goto, See, TypeOK
    <3> QED BY <1>6, <3>1, EffectLocal, SameHeap DEF CasUpdate
  <2> QED BY <2>1, <2>2
<1>7. CASE ReloadUpdate(t)
  <2>1. CASE is_array(Slot(t)) /\ Follow(t, Slot(t)) /\ UNCHANGED heap
    <3>1. Moves(t, Slot(t).ref) /\ \A u \in Threads \ {t} : res'[u] = res[u]
      BY <2>1, FollowMoves, FollowLeaves
    <3> QED BY <1>7, <2>1, <3>1, EffectLocal, SameHeap DEF ReloadUpdate, Moves
  <2>2. CASE DropNew(t)
    BY <1>7, <2>2, DropLeaves, EffectLocal DEF ReloadUpdate, Moves
  <2>3. CASE See(t, Null) /\ Goto(t, "exp_load") /\ UNCHANGED <<heap, at, exp, leaked, res>>
    <3>1. Others(t) /\ pc'[t] = "exp_load"
      BY <2>3 DEF Others, Goto, See, TypeOK
    <3> QED BY <1>7, <2>3, <3>1, EffectLocal, SameHeap DEF ReloadUpdate
  <2> QED BY <1>7, <2>1, <2>2, <2>3 DEF ReloadUpdate
<1>8. CASE FreeOld(t)
  BY <1>8, FreedHeap, RetMoves, RetLeaves, EffectLocal DEF FreeOld, Moves
<1>9. CASE ExpandLoad(t)
  <2>1. Others(t) /\ pc'[t] = "exp_fill"
    BY <1>9 DEF ExpandLoad, Others, Goto, See, TypeOK
  <2> QED BY <1>9, <2>1, EffectLocal, SameHeap DEF ExpandLoad, mem
<1>10. CASE ExpandFill(t)
  <2>1. CASE Fail(t) /\ UNCHANGED <<arr, pool>>
    BY <1>10, <2>1, FailLeaves, EffectLocal, SameHeap DEF ExpandFill, Moves
  <2>2. CASE ~(Fail(t) /\ UNCHANGED <<arr, pool>>)
    <3>1. PICK i \in pool, p \in NewPos(exp[t].node, at[t].lvl) :
            /\ pool' = pool \ {i}
            /\ arr' = [arr EXCEPT ![i] = [Empty EXCEPT ![p] = exp[t].node]]
            /\ exp' = [exp EXCEPT ![t].arr = i]
            /\ Goto(t, "exp_cas")
            /\ UNCHANGED <<at, cur, res>>
      BY <1>10, <2>2 DEF ExpandFill
    <3>2. i \in ArrId /\ i \notin Private /\ i \notin Published
      BY DEF TypeOK, ArraysOwned, Published
    <3>3. /\ pc[t] = "exp_fill" /\ pc'[t] = "exp_cas"
          /\ exp'[t].arr = i
          /\ \A u \in Threads \ {t} : pc'[u] = pc[u] /\ exp'[u] = exp[u]
          /\ Others(t) /\ arg' = arg /\ heap' = heap
      BY <1>10, <3>1 DEF ExpandFill, Goto, TypeOK, Expansion, Others
    <3>4. Private' = Private \cup {i}
      BY <3>3 DEF Private
    <3>5. Published' = Published
      BY <3>1, <3>2, <3>4 DEF Published
    <3>6. \A j \in ArrId \ {i} : arr'[j] = arr[j]
      BY <3>1, <3>2 DEF TypeOK
    <3>7. \A j \in Published : arr'[j] = arr[j]
      BY <3>2, <3>6 DEF Published
    <3>8. \A u \in Threads \ {t} : pc[u] = "exp_cas" => arr'[exp[u].arr] = arr[exp[u].arr]
      BY <3>2, <3>6 DEF Private, TypeOK, Expansion
    <3> QED BY <3>1, <3>3, <3>5, <3>7, <3>8, SameHeap DEF Effect, Leaves, Still
  <2> QED BY <2>1, <2>2
<1>11. CASE ExpandCas(t)
  <2> DEFINE new == exp[t].arr
  <2>1. /\ new \in ArrId /\ new \in Private /\ new \notin pool
        /\ new \notin Published /\ pc[t] = "exp_cas"
    BY <1>11 DEF TypeOK, Expansion, ExpandCas, ArraysOwned, Private, Published
  <2>2. \A u \in Threads \ {t} : pc[u] = "exp_cas" => exp[u].arr # new
    BY <2>1 DEF ArraysOwned
  <2>3. CASE Slot(t) = exp[t].node
    <3>1. /\ arr' = SetSlot(t, ArrayWord(new)) /\ pool' = pool /\ Descend(t, new)
          /\ heap' = heap /\ arg' = arg
      BY <1>11, <2>1, <2>3 DEF ExpandCas
    <3>2. Others(t) /\ pc'[t] \in {"load", "ret"} /\ \A u \in Threads \ {t} : res'[u] = res[u]
      BY <3>1, DescendMoves, DescendLeaves DEF Moves, Descend, Goto, TypeOK, Ret
    <3>3. Private' = Private \ {new}
      BY <2>1, <2>2, <3>2 DEF Private, Others
    <3>4. Published' = Published \cup {new}
      BY <2>1, <3>1, <3>3 DEF Published
    <3>5. at[t].arr \in Published /\ at[t].arr # new
      BY <2>1 DEF ArraysOwned
    <3>6. \A j \in ArrId \ {at[t].arr} : arr'[j] = arr[j]
      BY <3>1 DEF SetSlot, TypeOK
    <3>7. \A u \in Threads \ {t} : pc[u] = "exp_cas" => arr'[exp[u].arr] = arr[exp[u].arr]
      BY <3>5, <3>6 DEF Published, Private, TypeOK, Expansion
    <3> QED BY <2>1, <2>3, <3>1, <3>2, <3>4, <3>5, <3>6, <3>7, SameHeap
            DEF Effect, Leaves, Expands
  <2>4. CASE Slot(t) # exp[t].node
    <3>1. /\ arr' = [arr EXCEPT ![new] = Empty] /\ pool' = pool \cup {new} /\ Fail(t)
          /\ heap' = heap /\ arg' = arg
      BY <1>11, <2>4 DEF ExpandCas
    <3>2. Others(t) /\ pc'[t] \in {"load", "mark"} /\ res' = res
      BY <3>1, FailLeaves DEF Moves
    <3>3. Private' = Private \ {new}
      BY <2>1, <2>2, <3>2 DEF Private, Others
    <3>4. Published' = Published
      BY <2>1, <3>1, <3>3 DEF Published
    <3>5. \A j \in ArrId \ {new} : arr'[j] = arr[j]
      BY <3>1 DEF TypeOK
    <3>6. \A u \in Threads \ {t} : pc[u] = "exp_cas" => arr'[exp[u].arr] = arr[exp[u].arr]
      BY <2>2, <3>5 DEF TypeOK, Expansion
    <3>7. \A j \in Published : arr'[j] = arr[j]
      BY <2>1, <3>5 DEF Published
    <3> QED BY <3>1, <3>2, <3>4, <3>6, <3>7, SameHeap DEF Effect, Leaves, Still
  <2> QED BY <2>3, <2>4
<1> QED
  BY <1>1, <1>2, <1>3, <1>4, <1>5, <1>6, <1>7, <1>8, <1>9, <1>10, <1>11
  DEF InsertStep, MarkSlot

LEMMA OtherEffect ==
  ASSUME ~Recycle, TypeOK, NEW t \in Threads, NEW h \in Hash,
         FindStep(t) \/ Return(t) \/ InvokeFind(t, h) \/ InvokeInsert(t, h)
  PROVE  Effect(t) /\ arr' = arr
<1>1. CASE FindStep(t) \/ Return(t) \/ InvokeFind(t, h)
  <2>1. /\ Others(t) /\ UNCHANGED mem /\ pc[t] # "exp_cas" /\ pc'[t] # "exp_cas"
        /\ \A u \in Threads \ {t} : arg'[u] = arg[u] /\ res'[u] = res[u]
    <3>1. CASE FindStep(t)
      BY <3>1 DEF FindStep, FindLoad, FindCmp, FindValue, FindPCs, Others, Goto, See,
         Ret, TypeOK
    <3>2. CASE Return(t)
      BY <3>2 DEF Return, Others, Goto, TypeOK
    <3>3. CASE InvokeFind(t, h)
      BY <3>3 DEF InvokeFind, Others, Goto, TypeOK
    <3> QED BY <1>1, <3>1, <3>2, <3>3
  <2> QED BY <2>1, EffectLocal, SameHeap DEF mem
<1>2. CASE InvokeInsert(t, h)
  <2>1. /\ Others(t) /\ pc[t] # "exp_cas" /\ pc'[t] # "exp_cas" /\ arr' = arr /\ pool' = pool
        /\ \A u \in Threads \ {t} : arg'[u] = arg[u] /\ res'[u] = res[u]
    BY <1>2 DEF InvokeInsert, Others, Goto, TypeOK
  <2>2. HeapKept
    <3>1. CASE heap' = heap
      BY <3>1, SameHeap
    <3>2. CASE heap' # heap
      <4>1. PICK a \in Allocatable : heap' = [heap EXCEPT ![a] = [st |-> "live", hash |-> h,
                                                                 value |-> ops + 1]]
        BY <1>2, <3>2 DEF InvokeInsert
      <4>2. a \in Addr /\ heap[a].st = "free"
        BY DEF Allocatable, Fresh
      <4> QED BY <4>1, <4>2 DEF HeapKept, TypeOK
    <3> QED BY <3>1, <3>2
  <2> QED BY <2>1, <2>2, EffectLocal
<1> QED BY <1>1, <1>2

\* A slot takes a word that is not an array.
LEMMA ShapeStore ==
  ASSUME NEW A, NEW B, NEW P, NEW lev, NEW rep, Shape(A, P, lev, rep),
         \A i \in P, s \in Slots : A[i][s] = B[i][s] \/ (~is_array(A[i][s]) /\ ~is_array(B[i][s]))
  PROVE  Shape(B, P, lev, rep)
<1>1. \A i \in P, s \in Slots : is_array(B[i][s]) => A[i][s] = B[i][s]
  OBVIOUS
<1>2. \A i \in P, s \in Slots : is_array(A[i][s]) => A[i][s] = B[i][s]
  OBVIOUS
<1>3. \A j \in P \ {HeadArr} : \E i \in P, s \in Slots : is_array(B[i][s]) /\ B[i][s].ref = j
  BY <1>2 DEF Shape
<1> QED BY <1>1, <1>3 DEF Shape

\* The maps of the trie with a new array under the path of h.
Deeper(lev, i, new) == [lev EXCEPT ![new] = lev[i] + 1]
Longer(rep, new, h) == [rep EXCEPT ![new] = h]

\* A slot of A, of the arrays P, takes the new array.
Wrapped(A, B, P, i, s, new) ==
  /\ ~is_array(A[i][s]) /\ B[i][s] = ArrayWord(new)
  /\ \A r \in Slots : ~is_array(B[new][r])
  /\ \A j \in P, r \in Slots : j # i \/ r # s => B[j][r] = A[j][r]

\* The maps lev2 and rep2 agree with lev and rep on P, and new is under i.
Grows(P, lev, rep, lev2, rep2, i, s, new) ==
  /\ \A j \in P : lev2[j] = lev[j] /\ \A g : On(lev, rep, g, j) => On(lev2, rep2, g, j)
  /\ lev2[new] = lev[i] + 1
  /\ \A g : On(lev, rep, g, i) /\ g[lev[i]] = s => On(lev2, rep2, g, new)

LEMMA ShapeExpand ==
  ASSUME NEW A, NEW B, NEW P, NEW lev, NEW rep, Shape(A, P, lev, rep),
         NEW i \in P, NEW s \in Slots, NEW new \in ArrId \ P, NEW h \in [Levels -> Slots],
         On(lev, rep, h, i), h[lev[i]] = s, lev[i] < MAX_LVL,
         Wrapped(A, B, P, i, s, new)
  PROVE  /\ Shape(B, P \cup {new}, Deeper(lev, i, new), Longer(rep, new, h))
         /\ Grows(P, lev, rep, Deeper(lev, i, new), Longer(rep, new, h), i, s, new)
<1> DEFINE lev2 == Deeper(lev, i, new)
           rep2 == Longer(rep, new, h)
<1> USE DEF Wrapped
<1>1. /\ lev \in [ArrId -> Levels] /\ rep \in [ArrId -> [Levels -> Slots]]
      /\ P \subseteq ArrId /\ HeadArr \in P /\ lev[HeadArr] = 0
  BY DEF Shape
<1>2. lev[i] \in Levels /\ lev[i] + 1 \in Levels /\ new # i
  BY <1>1, SizesAssumption DEF Levels
<1>3. lev2 \in [ArrId -> Levels] /\ rep2 \in [ArrId -> [Levels -> Slots]]
  BY <1>1, <1>2 DEF Deeper, Longer
<1>4. /\ \A j \in P : lev2[j] = lev[j] /\ rep2[j] = rep[j]
      /\ lev2[new] = lev[i] + 1 /\ rep2[new] = h
  BY <1>1 DEF Deeper, Longer
<1> HIDE DEF lev2, rep2
<1>5. \A j \in P : \A g : On(lev, rep, g, j) <=> On(lev2, rep2, g, j)
  BY <1>4 DEF On
<1>6. \A g : On(lev, rep, g, i) /\ g[lev[i]] = s => On(lev2, rep2, g, new)
  <2>1. \A l \in Levels : l < lev2[new] => l < lev[i] \/ l = lev[i]
    BY <1>2, <1>4 DEF Levels
  <2> QED BY <1>4, <2>1 DEF On
<1>7. is_array(ArrayWord(new)) /\ ArrayWord(new).ref = new
  BY DEF is_array, ArrayWord
<1>8. ASSUME NEW j \in P \cup {new}, NEW r \in Slots, is_array(B[j][r])
      PROVE  /\ B[j][r].ref \in P \cup {new} /\ lev2[j] < MAX_LVL
             /\ lev2[B[j][r].ref] = lev2[j] + 1
             /\ rep2[B[j][r].ref][lev2[j]] = r /\ On(lev2, rep2, rep2[B[j][r].ref], j)
  <2>1. j \in P
    BY <1>8
  <2>2. CASE j = i /\ r = s
    BY <1>4, <1>5, <1>7, <2>2
  <2>3. CASE ~(j = i /\ r = s)
    <3>1. B[j][r] = A[j][r]
      BY <2>1, <2>3
    <3>2. /\ A[j][r].ref \in P /\ lev[j] < MAX_LVL
          /\ lev[A[j][r].ref] = lev[j] + 1
          /\ rep[A[j][r].ref][lev[j]] = r /\ On(lev, rep, rep[A[j][r].ref], j)
      BY <1>8, <2>1, <3>1 DEF Shape
    <3> QED BY <1>4, <1>5, <2>1, <3>1, <3>2
  <2> QED BY <2>2, <2>3
<1>9. ASSUME NEW j \in (P \cup {new}) \ {HeadArr}
      PROVE  \E k \in P \cup {new}, r \in Slots : is_array(B[k][r]) /\ B[k][r].ref = j
  <2>1. CASE j = new
    BY <1>7, <2>1
  <2>2. CASE j # new
    <3>1. PICK k \in P, r \in Slots : is_array(A[k][r]) /\ A[k][r].ref = j
      BY <2>2, <1>9 DEF Shape
    <3>2. B[k][r] = A[k][r]
      BY <3>1
    <3> QED BY <3>1, <3>2
  <2> QED BY <2>1, <2>2
<1>10. Shape(B, P \cup {new}, lev2, rep2)
  <2>1. P \cup {new} \subseteq ArrId /\ HeadArr \in P \cup {new} /\ lev2[HeadArr] = 0
    BY <1>1, <1>4
  <2> QED BY <1>3, <1>8, <1>9, <2>1 DEF Shape
<1> QED BY <1>4, <1>5, <1>6, <1>10 DEF lev2, rep2, Grows

-----------------------------------------------------------------------------
(* What a thread may conclude from the word in its slot.                   *)

LEMMA SlotSeen ==
  ASSUME TypeOK, ArraysOwned, NodesOwned, NoMarks, NEW lev, NEW rep, Trie(lev, rep),
         NEW t \in Threads
  PROVE  /\ ~Slot(t).mark
         /\ Slot(t).kind = "null" => Slot(t) = Null
         /\ Slot(t).kind = "node" => Saw(t, Slot(t))
         /\ is_array(Slot(t)) => at[t].lvl < MAX_LVL
         /\ Slot(t).kind \in {"null", "node", "array"}
<1> DEFINE i == at[t].arr
           s == Pos(t)
<1>1. i \in Published /\ s \in Slots /\ Slot(t) = arr[i][s] /\ s = arg[t].hash[at[t].lvl]
  BY SlotType DEF ArraysOwned, Slot, Pos
<1>2. at[t].lvl = lev[i] /\ On(lev, rep, arg[t].hash, i) /\ lev[i] \in Levels
  BY <1>1 DEF Trie, Shape
<1> HIDE DEF i, s
<1>3. ~Slot(t).mark
  BY <1>1 DEF NoMarks
<1>4. is_array(Slot(t)) => at[t].lvl < MAX_LVL
  BY <1>1, <1>2 DEF Trie, Shape
<1>5. ASSUME Slot(t).kind = "node" PROVE Saw(t, Slot(t))
  <2>1. Slot(t).ref \in Addr /\ heap[Slot(t).ref].st = "live"
    BY <1>5, SlotNode
  <2> DEFINE g == heap[Slot(t).ref].hash
  <2>2. On(lev, rep, g, i) /\ g[lev[i]] = s
    <3>1. arr[i][s].kind = "node" /\ heap[arr[i][s].ref].hash = g
      BY <1>1, <1>5
    <3> HIDE DEF g
    <3> QED BY <1>1, <3>1 DEF Trie
  <2>3. ASSUME NEW l \in Levels, l <= at[t].lvl PROVE g[l] = arg[t].hash[l]
    <3>1. l < lev[i] \/ l = lev[i]
      BY <1>2, <2>3 DEF Levels
    <3> QED BY <1>1, <1>2, <2>2, <3>1 DEF On
  <2> QED BY <1>3, <1>5, <2>1, <2>3 DEF Saw
<1> QED BY <1>3, <1>4, <1>5, SlotNode

-----------------------------------------------------------------------------
(* The trie after a step.                                                  *)

\* Where a step takes its thread: back to the head, nowhere, or down the word
\* that its slot now holds.
Walks(t) ==
  \/ at'[t].arr = HeadArr /\ at'[t].lvl = 0
  \/ arg'[t].hash = arg[t].hash /\ at'[t].arr = at[t].arr /\ at'[t].lvl = at[t].lvl
  \/ /\ arg'[t].hash = arg[t].hash
     /\ is_array(arr'[at[t].arr][Pos(t)])
     /\ at'[t].arr = arr'[at[t].arr][Pos(t)].ref /\ at'[t].lvl = at[t].lvl + 1

\* Where the threads are, given the shape of the new table.
LEMMA PlaceStep ==
  ASSUME TypeOK, ArraysOwned, TypeOK', NEW lev, NEW rep, Trie(lev, rep), NEW t \in Threads,
         Others(t), \A u \in Threads \ {t} : arg'[u] = arg[u], Walks(t),
         NEW lev2, NEW rep2, NEW B, B = arr', NEW P, P = Published', Shape(B, P, lev2, rep2),
         \A j \in Published : \A g : On(lev, rep, g, j) => On(lev2, rep2, g, j),
         \A j \in Published : lev2[j] = lev[j], Published \subseteq P
  PROVE  \A u \in Threads : /\ at'[u].lvl = lev2[at'[u].arr]
                            /\ On(lev2, rep2, arg'[u].hash, at'[u].arr)
<1> SUFFICES ASSUME NEW u \in Threads
             PROVE  at'[u].lvl = lev2[at'[u].arr] /\ On(lev2, rep2, arg'[u].hash, at'[u].arr)
  OBVIOUS
<1>1. /\ at[u].lvl = lev[at[u].arr] /\ On(lev, rep, arg[u].hash, at[u].arr)
      /\ at[u].arr \in Published
  BY DEF Trie, ArraysOwned
<1>2. /\ at[u].lvl = lev2[at[u].arr] /\ On(lev2, rep2, arg[u].hash, at[u].arr)
      /\ at[u].arr \in P
  BY <1>1
<1>3. CASE u # t
  BY <1>2, <1>3 DEF Others
<1>4. CASE u = t /\ at'[t].arr = HeadArr /\ at'[t].lvl = 0
  BY <1>4 DEF Shape, On, Levels
<1>5. CASE u = t /\ arg'[t].hash = arg[t].hash /\ at'[t].arr = at[t].arr /\ at'[t].lvl = at[t].lvl
  BY <1>2, <1>5 DEF On
<1>6. CASE /\ u = t /\ arg'[t].hash = arg[t].hash
           /\ is_array(arr'[at[t].arr][Pos(t)])
           /\ at'[t].arr = arr'[at[t].arr][Pos(t)].ref /\ at'[t].lvl = at[t].lvl + 1
  <2> DEFINE h == arg[t].hash
             i == at[t].arr
  <2>1. h \in [Levels -> Slots] /\ Pos(t) = h[lev2[i]]
    BY <1>2, <1>6, HashAssumption DEF TypeOK, Call, Pos
  <2>2. is_array(B[i][h[lev2[i]]])
    BY <1>6, <2>1
  <2>3. i \in P /\ On(lev2, rep2, h, i) /\ at[t].lvl = lev2[i]
    BY <1>2, <1>6
  <2>4. at'[t].arr = B[i][h[lev2[i]]].ref
    BY <1>6, <2>1
  <2>5. arg'[t].hash = h
    BY <1>6
  <2> HIDE DEF h, i
  <2>6. lev2[B[i][h[lev2[i]]].ref] = lev2[i] + 1 /\ On(lev2, rep2, h, B[i][h[lev2[i]]].ref)
    BY <2>1, <2>2, <2>3, OnDown
  <2> QED BY <1>6, <2>3, <2>4, <2>5, <2>6
<1> QED BY <1>3, <1>4, <1>5, <1>6 DEF Walks

\* The node a thread stores, and the slot it stores it in.
LEMMA StoredSlot ==
  ASSUME TypeOK, ArraysOwned, NodesOwned, NEW t \in Threads, Stores(t)
  PROVE  /\ arg[t].node = NodeWord(arg[t].node.ref) /\ arg[t].node.ref \in Addr
         /\ heap[arg[t].node.ref].hash = arg[t].hash
         /\ arg[t].node.kind = "node" /\ ~arg[t].node.mark
         /\ ~is_array(Slot(t)) /\ at[t].arr \in Published /\ Pos(t) \in Slots
         /\ \A i \in ArrId, s \in Slots :
              arr'[i][s] = IF i = at[t].arr /\ s = Pos(t) THEN arg[t].node ELSE arr[i][s]
<1>1. pc[t] \in InsertPCs
  BY DEF Stores, InsertPCs
<1>2. /\ arg[t].node = NodeWord(arg[t].node.ref) /\ arg[t].node.ref \in Addr
      /\ heap[arg[t].node.ref].hash = arg[t].hash
  BY <1>1, OwnNode
<1>3. arg[t].node.kind = "node" /\ ~arg[t].node.mark
  BY <1>2 DEF NodeWord
<1>4. arg[t].node \in Word
  BY DEF TypeOK, Call
<1>5. ~is_array(Slot(t))
  BY DEF Stores, NodesOwned, Knows, Null, is_array
<1>6. at[t].arr \in Published /\ Pos(t) \in Slots
  BY SlotType DEF ArraysOwned
<1>7. arr' = SetSlot(t, arg[t].node)
  BY DEF Stores
<1> QED BY <1>2, <1>3, <1>4, <1>5, <1>6, <1>7, SetSlotWords

\* The slot that takes an array, and what the array holds.
LEMMA ExpandedSlot ==
  ASSUME TypeOK, ArraysOwned, NodesOwned, NEW t \in Threads, Expands(t), Reads(t)
  PROVE  /\ exp[t].node = Slot(t) /\ Saw(t, Slot(t)) /\ at[t].lvl < MAX_LVL
         /\ exp[t].arr \in ArrId \ Published
         /\ at[t].arr \in Published /\ Pos(t) \in Slots
         /\ heap[Slot(t).ref].hash \in Hash
         /\ heap[Slot(t).ref].hash[at[t].lvl + 1] \in Slots
         /\ \A i \in ArrId, s \in Slots :
              arr'[i][s] = IF i = at[t].arr /\ s = Pos(t) THEN ArrayWord(exp[t].arr)
                                                          ELSE arr[i][s]
         /\ arr'[exp[t].arr] =
              [Empty EXCEPT ![heap[Slot(t).ref].hash[at[t].lvl + 1]] = Slot(t)]
<1>1. /\ pc[t] = "exp_cas" /\ Slot(t) = exp[t].node /\ Saw(t, exp[t].node)
      /\ at[t].lvl < MAX_LVL /\ exp[t].arr \in ArrId \ Published
      /\ arr'[exp[t].arr] = arr[exp[t].arr] /\ arr' = SetSlot(t, ArrayWord(exp[t].arr))
      /\ arr[exp[t].arr] = [Empty EXCEPT ![heap[exp[t].node.ref].hash[at[t].lvl + 1]] =
                                           exp[t].node]
  BY DEF Expands, Reads
<1>2. ArrayWord(exp[t].arr) \in Word
  BY <1>1, ConstantTypes
<1>3. at[t].arr \in Published /\ Pos(t) \in Slots
  BY SlotType DEF ArraysOwned
<1>4. heap[Slot(t).ref].hash \in Hash
  BY <1>1 DEF Saw, TypeOK, Node
<1>5. at[t].lvl + 1 \in Levels
  BY <1>1, SizesAssumption DEF TypeOK, Place, Levels
<1>6. heap[Slot(t).ref].hash[at[t].lvl + 1] \in Slots
  BY <1>4, <1>5, HashAssumption
<1> QED BY <1>1, <1>2, <1>3, <1>4, <1>6, SetSlotWords

\* A node in the table keeps its hash and value.
LEMMA TableHeap ==
  ASSUME TypeOK, NodesOwned, HeapKept, NEW i \in Published, NEW s \in Slots,
         arr[i][s].kind = "node"
  PROVE  /\ arr[i][s].ref \in Addr /\ arr[i][s].ref \in Tab /\ heap[arr[i][s].ref].st = "live"
         /\ heap'[arr[i][s].ref].hash = heap[arr[i][s].ref].hash
         /\ heap'[arr[i][s].ref].value = heap[arr[i][s].ref].value
<1>1. arr[i][s] \in Word
  BY DEF TypeOK, Published
<1>2. arr[i][s].ref \in Addr
  BY <1>1 DEF Word
<1>3. arr[i][s].ref \in Tab
  BY <1>2 DEF Tab
<1>4. heap[arr[i][s].ref].st = "live"
  BY <1>3 DEF NodesOwned
<1> QED BY <1>2, <1>3, <1>4 DEF HeapKept

LEMMA TrieStill ==
  ASSUME TypeOK, TypeOK', ArraysOwned, NodesOwned, NoMarks, NEW lev, NEW rep, Trie(lev, rep),
         NEW t \in Threads, Leaves(t), Still, Walks(t)
  PROVE  NoMarks' /\ Trie(lev, rep)'
<1>1. Published' = Published /\ \A i \in Published : arr'[i] = arr[i]
  BY DEF Still
<1>2. NoMarks'
  BY <1>1 DEF NoMarks
<1>3. Shape(arr', Published', lev, rep)
  <2>1. Shape(arr, Published, lev, rep)
    BY DEF Trie
  <2>2. Shape(arr', Published, lev, rep)
    BY <1>1, <2>1, ShapeStore
  <2> QED BY <1>1, <2>2
<1>4. ASSUME NEW i \in Published', NEW s \in Slots, arr'[i][s].kind = "node"
      PROVE  /\ On(lev, rep, heap'[arr'[i][s].ref].hash, i)
             /\ heap'[arr'[i][s].ref].hash[lev[i]] = s
  <2>1. i \in Published /\ arr'[i][s] = arr[i][s]
    BY <1>1
  <2>2. heap'[arr[i][s].ref].hash = heap[arr[i][s].ref].hash
    BY <1>4, <2>1, TableHeap DEF Leaves
  <2>3. On(lev, rep, heap[arr[i][s].ref].hash, i) /\ heap[arr[i][s].ref].hash[lev[i]] = s
    BY <1>4, <2>1 DEF Trie
  <2> QED BY <2>1, <2>2, <2>3
<1>5. \A u \in Threads : /\ at'[u].lvl = lev[at'[u].arr]
                         /\ On(lev, rep, arg'[u].hash, at'[u].arr)
  BY <1>1, <1>3, PlaceStep DEF Leaves
<1> QED BY <1>2, <1>3, <1>4, <1>5 DEF Trie, On

LEMMA TrieStore ==
  ASSUME TypeOK, TypeOK', ArraysOwned, NodesOwned, NoMarks, NEW lev, NEW rep, Trie(lev, rep),
         NEW t \in Threads, Leaves(t), Stores(t), Walks(t)
  PROVE  NoMarks' /\ Trie(lev, rep)'
<1> DEFINE i == at[t].arr
           s == Pos(t)
           w == arg[t].node
<1>1. /\ w.ref \in Addr /\ heap[w.ref].hash = arg[t].hash
      /\ w.kind = "node" /\ ~w.mark /\ ~is_array(arr[i][s]) /\ i \in Published /\ s \in Slots
      /\ \A j \in ArrId, r \in Slots : arr'[j][r] = IF j = i /\ r = s THEN w ELSE arr[j][r]
  BY StoredSlot DEF Slot
<1>2. Published' = Published /\ heap' = heap /\ arg' = arg /\ Published \subseteq ArrId
  BY DEF Stores, Published
<1>3. s = arg[t].hash[lev[i]] /\ On(lev, rep, arg[t].hash, i)
  BY DEF Trie, Pos
<1> HIDE DEF i, s, w
<1>4. NoMarks'
  BY <1>1, <1>2 DEF NoMarks
<1>5. Shape(arr', Published', lev, rep)
  <2>1. Shape(arr, Published, lev, rep)
    BY DEF Trie
  <2>2. \A j \in Published, r \in Slots :
          arr[j][r] = arr'[j][r] \/ (~is_array(arr[j][r]) /\ ~is_array(arr'[j][r]))
    BY <1>1, <1>2 DEF is_array
  <2>3. Shape(arr', Published, lev, rep)
    BY <2>1, <2>2, ShapeStore
  <2> QED BY <1>2, <2>3
<1>6. ASSUME NEW j \in Published', NEW r \in Slots, arr'[j][r].kind = "node"
      PROVE  /\ On(lev, rep, heap'[arr'[j][r].ref].hash, j)
             /\ heap'[arr'[j][r].ref].hash[lev[j]] = r
  <2>1. CASE j = i /\ r = s
    BY <1>1, <1>2, <1>3, <2>1
  <2>2. CASE ~(j = i /\ r = s)
    <3>1. arr'[j][r] = arr[j][r] /\ j \in Published
      BY <1>1, <1>2, <2>2
    <3> QED BY <1>2, <1>6, <3>1 DEF Trie
  <2> QED BY <2>1, <2>2
<1>7. \A u \in Threads : /\ at'[u].lvl = lev[at'[u].arr]
                         /\ On(lev, rep, arg'[u].hash, at'[u].arr)
  BY <1>2, <1>5, PlaceStep DEF Leaves
<1> QED BY <1>4, <1>5, <1>6, <1>7 DEF Trie, On

\* The shape of the table with the new array.
LEMMA ExpandShape ==
  ASSUME TypeOK, ArraysOwned, NodesOwned, NEW lev, NEW rep, Trie(lev, rep),
         NEW t \in Threads, Expands(t), Reads(t)
  PROVE  \E lev2, rep2 : /\ Shape(arr', Published', lev2, rep2)
                         /\ Grows(Published, lev, rep, lev2, rep2, at[t].arr, Pos(t), exp[t].arr)
<1> DEFINE i == at[t].arr
           s == Pos(t)
           new == exp[t].arr
           w == Slot(t)
           h == arg[t].hash
           g == heap[w.ref].hash
           n == at[t].lvl
<1>1. /\ w = arr[i][s] /\ w.kind = "node" /\ n < MAX_LVL
      /\ new \in ArrId \ Published /\ i \in Published /\ s \in Slots
      /\ \A j \in ArrId, r \in Slots :
           arr'[j][r] = IF j = i /\ r = s THEN ArrayWord(new) ELSE arr[j][r]
      /\ arr'[new] = [Empty EXCEPT ![g[n + 1]] = w]
  BY ExpandedSlot DEF Slot, Saw
<1>2. Published' = Published \cup {new} /\ Published \subseteq ArrId
  BY DEF Expands, Published
<1>3. s = h[lev[i]] /\ On(lev, rep, h, i) /\ n = lev[i] /\ h \in [Levels -> Slots]
  BY HashAssumption DEF Trie, Pos, TypeOK, Call
<1>4. \A r \in Slots : arr'[new][r] = w \/ arr'[new][r] = Null
  BY <1>1 DEF Empty
<1>5. ~is_array(w) /\ ~is_array(Null)
  BY <1>1 DEF is_array, Null
<1> HIDE DEF i, s, new, w, h, g, n
<1>6. Shape(arr, Published, lev, rep)
  BY DEF Trie
<1>7. Wrapped(arr, arr', Published, i, s, new)
  BY <1>1, <1>2, <1>4, <1>5 DEF Wrapped
<1>8. /\ Shape(arr', Published \cup {new}, Deeper(lev, i, new), Longer(rep, new, h))
      /\ Grows(Published, lev, rep, Deeper(lev, i, new), Longer(rep, new, h), i, s, new)
  BY <1>1, <1>3, <1>6, <1>7, ShapeExpand
<1> QED BY <1>2, <1>8 DEF i, s, new

LEMMA TrieExpand ==
  ASSUME TypeOK, TypeOK', ArraysOwned, NodesOwned, NoMarks, NEW lev, NEW rep, Trie(lev, rep),
         NEW t \in Threads, Leaves(t), Expands(t), Walks(t), Reads(t)
  PROVE  NoMarks' /\ \E lev2, rep2 : Trie(lev2, rep2)'
<1> DEFINE i == at[t].arr
           s == Pos(t)
           new == exp[t].arr
           w == Slot(t)
           h == arg[t].hash
           g == heap[w.ref].hash
           n == at[t].lvl
<1>1. /\ w = arr[i][s] /\ w.kind = "node" /\ ~w.mark /\ n < MAX_LVL
      /\ new \in ArrId \ Published /\ i \in Published /\ s \in Slots
      /\ g \in Hash /\ g[n + 1] \in Slots
      /\ \A j \in ArrId, r \in Slots :
           arr'[j][r] = IF j = i /\ r = s THEN ArrayWord(new) ELSE arr[j][r]
      /\ arr'[new] = [Empty EXCEPT ![g[n + 1]] = w]
  BY ExpandedSlot DEF Slot, Saw
<1>2. Published' = Published \cup {new} /\ heap' = heap /\ arg' = arg /\ Published \subseteq ArrId
  BY DEF Expands, Published
<1>3. s = h[lev[i]] /\ On(lev, rep, h, i) /\ n = lev[i] /\ h \in [Levels -> Slots]
  BY HashAssumption DEF Trie, Pos, TypeOK, Call
<1>4. On(lev, rep, g, i) /\ g[lev[i]] = s
  <2>1. arr[i][s].kind = "node" /\ heap[arr[i][s].ref].hash = g
    BY <1>1
  <2> HIDE DEF g, i, s
  <2> QED BY <1>1, <2>1 DEF Trie
<1>5. \A r \in Slots : arr'[new][r] = IF r = g[n + 1] THEN w ELSE Null
  BY <1>1 DEF Empty
<1>6. /\ ~is_array(w) /\ ~is_array(Null) /\ ~Null.mark /\ Null.kind # "node"
      /\ ArrayWord(new).kind # "node" /\ ~ArrayWord(new).mark
  BY <1>1 DEF is_array, Null, ArrayWord
<1>0. PICK lev2, rep2 : /\ Shape(arr', Published', lev2, rep2)
                        /\ Grows(Published, lev, rep, lev2, rep2, i, s, new)
  BY ExpandShape
<1> HIDE DEF i, s, new, w, h, g, n
<1>7. NoMarks'
  <2>1. ASSUME NEW j \in Published', NEW r \in Slots PROVE ~arr'[j][r].mark
    <3>1. CASE j = new
      BY <1>1, <1>5, <1>6, <3>1
    <3>2. CASE j # new
      <4>1. j \in Published
        BY <1>2, <3>2
      <4>2. ~arr[j][r].mark
        BY <4>1 DEF NoMarks
      <4> QED BY <1>1, <1>2, <1>6, <4>1, <4>2
    <3> QED BY <3>1, <3>2
  <2> QED BY <2>1 DEF NoMarks
<1>8. /\ \A j \in Published : \A f : On(lev, rep, f, j) => On(lev2, rep2, f, j)
      /\ \A j \in Published : lev2[j] = lev[j]
      /\ \A f : On(lev, rep, f, i) /\ f[lev[i]] = s => On(lev2, rep2, f, new)
      /\ lev2[new] = lev[i] + 1
  BY <1>0 DEF Grows
<1>9. ASSUME NEW j \in Published', NEW r \in Slots, arr'[j][r].kind = "node"
       PROVE  /\ On(lev2, rep2, heap'[arr'[j][r].ref].hash, j)
              /\ heap'[arr'[j][r].ref].hash[lev2[j]] = r
  <2>1. CASE j = new
    <3>1. r = g[n + 1] /\ arr'[j][r] = w
      BY <1>5, <1>6, <1>9, <2>1
    <3>2. heap'[arr'[j][r].ref].hash = g
      BY <1>2, <3>1 DEF g
    <3> QED BY <1>3, <1>4, <1>8, <2>1, <3>1, <3>2
  <2>2. CASE j # new
    <3>1. j \in Published
      BY <1>2, <2>2
    <3>2. arr'[j][r] = arr[j][r]
      BY <1>1, <1>2, <1>6, <1>9, <3>1
    <3>3. On(lev, rep, heap[arr[j][r].ref].hash, j) /\ heap[arr[j][r].ref].hash[lev[j]] = r
      BY <1>9, <3>1, <3>2 DEF Trie
    <3> QED BY <1>2, <1>8, <3>1, <3>2, <3>3
  <2> QED BY <2>1, <2>2
<1>10. \A u \in Threads : /\ at'[u].lvl = lev2[at'[u].arr]
                          /\ On(lev2, rep2, arg'[u].hash, at'[u].arr)
  BY <1>0, <1>2, <1>8, PlaceStep DEF Leaves
<1>11. Trie(lev2, rep2)'
  BY <1>0, <1>9, <1>10 DEF Trie, On
<1> QED BY <1>7, <1>11

LEMMA TrieStep ==
  ASSUME TypeOK, TypeOK', ArraysOwned, NodesOwned, NoMarks, \E lev, rep : Trie(lev, rep),
         NEW t \in Threads, Effect(t), Walks(t), Reads(t)
  PROVE  NoMarks' /\ \E lev, rep : Trie(lev, rep)'
<1>1. PICK lev, rep : Trie(lev, rep)
  OBVIOUS
<1> QED BY <1>1, TrieStill, TrieStore, TrieExpand DEF Effect

\* The other threads have read what they had.
LEMMA OthersRead ==
  ASSUME TypeOK, NodesOwned, NEW t \in Threads, Leaves(t),
         NEW u \in Threads \ {t}, Calls(u), Reads(u)
  PROVE  Calls(u)' /\ Reads(u)'
<1>1. /\ pc'[u] = pc[u] /\ at'[u] = at[u] /\ exp'[u] = exp[u] /\ cur'[u] = cur[u]
      /\ arg'[u] = arg[u] /\ res'[u] = res[u]
  BY DEF Leaves, Others
<1>2. \A w : Saw(u, w) => /\ heap'[w.ref].st # "free" /\ heap'[w.ref].hash = heap[w.ref].hash
                          /\ w.ref \in Addr
  BY DEF Saw, Leaves, HeapKept
<1>3. ASSUME NEW w, Saw(u, w) PROVE Saw(u, w)'
  BY <1>1, <1>2, <1>3 DEF Saw
<1>4. pc[u] \in InsertPCs => heap'[arg[u].node.ref].value = heap[arg[u].node.ref].value
  BY OwnNode DEF Leaves, HeapKept
<1>5. Calls(u)'
  BY <1>1, <1>4 DEF Calls
<1>6. PICK c : c = cur[u]
  OBVIOUS
<1>7. PICK e : e = exp[u].node
  OBVIOUS
<1>8. /\ pc[u] \in {"cmp", "cmp_null", "f_cmp", "f_val"} => Saw(u, cur[u])'
      /\ pc[u] \in {"exp_fill", "exp_cas"} => Saw(u, exp[u].node)'
  BY <1>1, <1>3, <1>6, <1>7 DEF Reads
<1>9. pc[u] = "exp_cas" => arr'[exp[u].arr] = arr[exp[u].arr]
  BY DEF Leaves
<1>10. pc[u] = "f_val" => heap'[cur[u].ref].hash = heap[cur[u].ref].hash
  BY <1>2 DEF Reads
<1>11. pc[u] = "exp_cas" => heap'[exp[u].node.ref].hash = heap[exp[u].node.ref].hash
  BY <1>2 DEF Reads
<1> QED BY <1>1, <1>5, <1>8, <1>9, <1>10, <1>11 DEF Reads

-----------------------------------------------------------------------------
(* What a thread knows after its own step.                                 *)

Local(t) == Calls(t)' /\ Reads(t)' /\ Walks(t)

LEMMA RetLocal ==
  ASSUME TypeOK, NEW t \in Threads, NEW r, Ret(t, r), arg' = arg, r # Pending,
         arg[t].op # "none", arg[t].op = "insert" /\ r = 0 => arg[t].node = Null
  PROVE  Local(t)
<1>1. pc'[t] = "ret" /\ res'[t] = r /\ at'[t] = AtHead
  BY RetLeaves
<1>2. Calls(t)' /\ Reads(t)'
  BY <1>1 DEF Calls, Reads, InsertPCs, FindPCs
<1> QED BY <1>1, <1>2 DEF Local, Walks, AtHead

\* An insert that goes on keeps its call.
LEMMA InsertGoesOn ==
  ASSUME TypeOK, NodesOwned, NEW t \in Threads, pc[t] \in InsertPCs, Calls(t), HeapKept,
         pc'[t] \in InsertPCs, arg' = arg, res' = res
  PROVE  Calls(t)'
<1>1. heap'[arg[t].node.ref].value = heap[arg[t].node.ref].value
  BY OwnNode DEF HeapKept
<1> QED BY <1>1 DEF Calls, InsertPCs, FindPCs

LEMMA FailLocal ==
  ASSUME TypeOK, NodesOwned, NEW t \in Threads, pc[t] \in InsertPCs, Calls(t),
         Fail(t), arg' = arg, heap' = heap, pc'[t] # "mark"
  PROVE  Local(t)
<1>1. pc'[t] = "load" /\ res' = res /\ at'[t].arr = at[t].arr /\ at'[t].lvl = at[t].lvl
  BY FailLeaves
<1>2. Calls(t)'
  BY <1>1, InsertGoesOn, SameHeap DEF InsertPCs
<1>3. Reads(t)'
  BY <1>1 DEF Reads
<1> QED BY <1>1, <1>2, <1>3 DEF Local, Walks

\* A step down, from a level above the last.
LEMMA DescendLocal ==
  ASSUME TypeOK, NodesOwned, NEW t \in Threads, pc[t] \in InsertPCs, Calls(t), NEW i,
         Descend(t, i), at[t].lvl < MAX_LVL, arg' = arg, heap' = heap,
         is_array(arr'[at[t].arr][Pos(t)]), arr'[at[t].arr][Pos(t)].ref = i
  PROVE  Local(t) /\ leaked' = leaked /\ pc'[t] = "load" /\ res' = res
<1>1. /\ pc'[t] = "load" /\ res' = res /\ leaked' = leaked
      /\ at'[t].arr = i /\ at'[t].lvl = at[t].lvl + 1
  BY DEF Descend, Goto, TypeOK
<1>2. Calls(t)'
  BY <1>1, InsertGoesOn, SameHeap DEF InsertPCs
<1>3. Reads(t)'
  BY <1>1 DEF Reads
<1> QED BY <1>1, <1>2, <1>3 DEF Local, Walks

LEMMA FollowLocal ==
  ASSUME TypeOK, NodesOwned, NEW t \in Threads, pc[t] \in InsertPCs, Calls(t),
         is_array(Slot(t)), Follow(t, Slot(t)), ~Slot(t).mark, at[t].lvl < MAX_LVL,
         arg' = arg, heap' = heap, arr' = arr
  PROVE  Local(t) /\ leaked' = leaked /\ pc'[t] = "load" /\ res' = res
<1>1. Descend(t, Slot(t).ref)
  BY DEF Follow, is_node_marked
<1>2. arr'[at[t].arr][Pos(t)] = Slot(t)
  BY DEF Slot
<1> QED BY <1>1, <1>2, DescendLocal

\* A step that stays in the slot and only reads.
LEMMA ReadLocal ==
  ASSUME TypeOK, NodesOwned, NEW t \in Threads, pc[t] \in InsertPCs, Calls(t),
         pc'[t] \in InsertPCs, arg' = arg, heap' = heap, res' = res, at' = at, Reads(t)'
  PROVE  Local(t)
BY InsertGoesOn, SameHeap DEF Local, Walks

LEMMA LocalInsertStep ==
  ASSUME ~Recycle, NodesInv, NoMarks, \E lev, rep : Trie(lev, rep), Tame, Tame',
         NEW t \in Threads, Calls(t), Reads(t), InsertStep(t)
  PROVE  Local(t) /\ leaked' \in {leaked, leaked \cup {"array"}}
<1>0. /\ TypeOK /\ ArraysOwned /\ SlotsStayFull /\ NodesOwned /\ Full(t) /\ Knows(t)
      /\ pc[t] # "mark" /\ pc'[t] # "mark" /\ ~is_array(exp'[t].node)
  BY DEF NodesInv, TableInv, SlotsStayFull, NodesOwned, Tame, is_array
<1>a. PICK lev, rep : Trie(lev, rep)
  OBVIOUS
<1>s. /\ ~Slot(t).mark /\ Slot(t).kind \in {"null", "node", "array"}
      /\ Slot(t).kind = "null" => Slot(t) = Null
      /\ Slot(t).kind = "node" => Saw(t, Slot(t))
      /\ is_array(Slot(t)) => at[t].lvl < MAX_LVL
  BY <1>0, <1>a, SlotSeen
<1>b. /\ pc[t] \in InsertPCs => arg[t].op = "insert"
      /\ pc[t] = "free" => arg[t].op = "insert"
  BY DEF Calls
<1>c. \A r : r = 1 => r # Pending /\ r # 0
  BY DEF Pending
<1>1. CASE LoadSlot(t)
  <2>1. CASE is_array(Slot(t)) /\ Follow(t, Slot(t))
    BY <1>0, <1>1, <1>s, <2>1, FollowLocal DEF LoadSlot, InsertPCs
  <2>2. CASE ~is_array(Slot(t))
    <3>1. /\ UNCHANGED <<arr, heap, arg, at, exp, leaked, res>> /\ cur'[t] = Slot(t)
          /\ \/ pc'[t] = "cas_null" 
             \/ pc'[t] = "cmp" /\ Slot(t) # Null
      BY <1>0, <1>1, <1>s, <2>2 DEF LoadSlot, Goto, See, TypeOK, is_node_marked
    <3>2. pc'[t] = "cmp" => Saw(t, Slot(t))
      BY <1>s, <2>2, <3>1 DEF is_array
    <3>3. Reads(t)'
      BY <3>1, <3>2 DEF Reads, Saw
    <3> QED BY <1>0, <1>1, <3>1, <3>3, ReadLocal DEF LoadSlot, InsertPCs
  <2> QED BY <1>1, <2>1, <2>2 DEF LoadSlot
<1>2. CASE CasNull(t)
  <2>1. CASE Ret(t, 1)
    BY <1>0, <1>2, <1>b, <1>c, <2>1, RetLocal DEF CasNull, InsertPCs
  <2>2. CASE Goto(t, "reload_null") /\ UNCHANGED <<arr, at, cur, exp, res>>
    <3>1. pc'[t] = "reload_null"
      BY <1>0, <2>2 DEF Goto, TypeOK
    <3>2. Reads(t)'
      BY <3>1 DEF Reads
    <3> QED BY <1>0, <1>2, <2>2, <3>1, <3>2, ReadLocal DEF CasNull, InsertPCs
  <2> QED BY <1>2, <2>1, <2>2 DEF CasNull
<1>3. CASE ReloadNull(t)
  <2>1. CASE is_array(Slot(t)) /\ Follow(t, Slot(t))
    BY <1>0, <1>3, <1>s, <2>1, FollowLocal DEF ReloadNull, InsertPCs
  <2>2. CASE ~is_array(Slot(t))
    <3>1. /\ UNCHANGED <<arr, heap, arg, at, exp, leaked, res>> /\ cur'[t] = Slot(t)
          /\ pc'[t] = "cmp_null" /\ Slot(t) # Null
      BY <1>0, <1>3, <1>s, <2>2 DEF ReloadNull, Goto, See, TypeOK, is_node_marked, Full
    <3>2. Saw(t, Slot(t))
      BY <1>s, <2>2, <3>1 DEF is_array
    <3>3. Reads(t)'
      BY <3>1, <3>2 DEF Reads, Saw
    <3> QED BY <1>0, <1>3, <3>1, <3>3, ReadLocal DEF ReloadNull, InsertPCs
  <2> QED BY <1>3, <2>1, <2>2 DEF ReloadNull
<1>4. CASE CmpNull(t)
  <2>1. CASE DropNew(t)
    BY <1>0, <1>4, <1>b, <1>c, <2>1, RetLocal DEF CmpNull, DropNew, InsertPCs
  <2>2. CASE Fail(t) /\ UNCHANGED <<heap, leaked>>
    BY <1>0, <1>4, <2>2, FailLocal DEF CmpNull, InsertPCs
  <2> QED BY <1>4, <2>1, <2>2 DEF CmpNull
<1>5. CASE CmpHash(t)
  <2>1. Saw(t, cur[t]) /\ pc[t] = "cmp" /\ UNCHANGED <<mem, loc, ops>>
    BY <1>5 DEF CmpHash, Reads
  <2>2. HashEquals(cur[t], arg[t].hash) = {heap[cur[t].ref].hash = arg[t].hash}
    BY <2>1, ExactHash DEF Saw
  <2>3. pc' = [pc EXCEPT ![t] = IF heap[cur[t].ref].hash = arg[t].hash
                                THEN "cas_upd" ELSE "exp_load"]
    <3>1. \E eq \in {heap[cur[t].ref].hash = arg[t].hash} :
            pc' = [pc EXCEPT ![t] = IF eq THEN "cas_upd" ELSE "exp_load"]
      BY <1>5, <2>2 DEF CmpHash, Goto
    <3> QED BY <3>1
  <2>4. pc'[t] = "cas_upd" \/ (pc'[t] = "exp_load" /\ heap[cur[t].ref].hash # arg[t].hash)
    BY <1>0, <2>3 DEF TypeOK
  <2>5. pc'[t] = "exp_load" => at[t].lvl < MAX_LVL
    <3>1. SUFFICES ASSUME heap[cur[t].ref].hash # arg[t].hash, ~(at[t].lvl < MAX_LVL) PROVE FALSE
      BY <2>4
    <3>2. heap[cur[t].ref].hash \in [Levels -> Slots] /\ arg[t].hash \in [Levels -> Slots]
      BY <1>0, <2>1, HashAssumption DEF Saw, TypeOK, Node, Call
    <3>3. PICK l \in Levels : heap[cur[t].ref].hash[l] # arg[t].hash[l]
      BY <3>1, <3>2
    <3>4. l <= at[t].lvl
      BY <1>0, <3>1, SizesAssumption DEF Levels, TypeOK, Place
    <3> QED BY <2>1, <3>3, <3>4 DEF Saw
  <2>6. Reads(t)'
    BY <2>1, <2>4, <2>5 DEF Reads, loc, mem
  <2> QED BY <1>0, <2>1, <2>4, <2>6, ReadLocal DEF InsertPCs, mem, loc
<1>6. CASE CasUpdate(t)
  <2>1. CASE Goto(t, "free") /\ res' = [res EXCEPT ![t] = 1]
    <3>1. pc'[t] = "free" /\ res'[t] = 1 /\ pc[t] = "cas_upd"
          /\ UNCHANGED <<heap, leaked, arg, at>>
      BY <1>0, <1>6, <2>1 DEF Goto, TypeOK, CasUpdate
    <3>2. Calls(t)' /\ Reads(t)'
      BY <1>b, <3>1 DEF Calls, Reads, InsertPCs, FindPCs
    <3> QED BY <3>1, <3>2 DEF Local, Walks
  <2>2. CASE Goto(t, "reload_upd") /\ UNCHANGED <<arr, res>>
    <3>1. pc'[t] = "reload_upd"
      BY <1>0, <2>2 DEF Goto, TypeOK
    <3>2. Reads(t)'
      BY <3>1 DEF Reads
    <3> QED BY <1>0, <1>6, <2>2, <3>1, <3>2, ReadLocal DEF CasUpdate, InsertPCs
  <2> QED BY <1>6, <2>1, <2>2 DEF CasUpdate
<1>7. CASE ReloadUpdate(t)
  <2>1. CASE is_array(Slot(t)) /\ Follow(t, Slot(t)) /\ UNCHANGED heap
    BY <1>0, <1>7, <1>s, <2>1, FollowLocal DEF ReloadUpdate, InsertPCs
  <2>2. CASE DropNew(t)
    BY <1>0, <1>7, <1>b, <1>c, <2>2, RetLocal DEF ReloadUpdate, DropNew, InsertPCs
  <2>3. ~is_node_marked(Slot(t))
    BY <1>s DEF is_node_marked
  <2> QED BY <1>7, <2>1, <2>2, <2>3 DEF ReloadUpdate
<1>8. CASE FreeOld(t)
  BY <1>0, <1>8, <1>b, <1>c, RetLocal DEF FreeOld
<1>9. CASE ExpandLoad(t)
  <2>1. /\ UNCHANGED <<arr, heap, leaked, arg, at, res>> /\ pc[t] = "exp_load"
        /\ exp'[t].node = Slot(t) /\ pc'[t] = "exp_fill"
    BY <1>0, <1>9 DEF ExpandLoad, Goto, TypeOK, mem, Expansion
  <2>2. Saw(t, Slot(t))
    BY <1>0, <1>s, <2>1 DEF Full, is_array
  <2>3. Reads(t)'
    BY <2>1, <2>2 DEF Reads, Saw
  <2> QED BY <1>0, <2>1, <2>3, ReadLocal DEF InsertPCs
<1>10. CASE ExpandFill(t)
  <2>1. CASE Fail(t) /\ UNCHANGED <<arr, pool>>
    BY <1>0, <1>10, <2>1, FailLocal DEF ExpandFill, InsertPCs
  <2>2. CASE ~(Fail(t) /\ UNCHANGED <<arr, pool>>)
    <3>1. PICK i \in pool, p \in NewPos(exp[t].node, at[t].lvl) :
            /\ pool' = pool \ {i}
            /\ arr' = [arr EXCEPT ![i] = [Empty EXCEPT ![p] = exp[t].node]]
            /\ exp' = [exp EXCEPT ![t].arr = i]
            /\ Goto(t, "exp_cas")
            /\ UNCHANGED <<at, cur, res>>
      BY <1>10, <2>2 DEF ExpandFill
    <3>2. i \in ArrId
      BY <1>0 DEF TypeOK
    <3>3. /\ pc[t] = "exp_fill" /\ pc'[t] = "exp_cas"
          /\ exp'[t].arr = i /\ exp'[t].node = exp[t].node
          /\ UNCHANGED <<heap, leaked, arg, at, res>>
      BY <1>0, <1>10, <3>1 DEF ExpandFill, Goto, TypeOK, Expansion
    <3>4. Saw(t, exp[t].node) /\ at[t].lvl < MAX_LVL
      BY <3>3 DEF Reads
    <3>5. p = heap[exp[t].node.ref].hash[at[t].lvl + 1]
      BY <3>4 DEF NewPos, Readable, Saw
    <3>6. arr'[i] = [Empty EXCEPT ![p] = exp[t].node]
      BY <1>0, <3>1, <3>2 DEF TypeOK
    <3>7. arr'[exp'[t].arr] = [Empty EXCEPT ![heap'[exp'[t].node.ref].hash[at'[t].lvl + 1]] =
                                              exp'[t].node]
      BY <3>3, <3>5, <3>6
    <3>8. Reads(t)'
      BY <3>3, <3>4, <3>7 DEF Reads, Saw
    <3> QED BY <1>0, <3>3, <3>8, ReadLocal DEF InsertPCs
  <2> QED BY <2>1, <2>2
<1>11. CASE ExpandCas(t)
  <2> DEFINE new == exp[t].arr
  <2>1. pc[t] = "exp_cas" /\ at[t].lvl < MAX_LVL /\ UNCHANGED <<heap, arg, ops>>
    BY <1>11 DEF ExpandCas, Reads
  <2>2. CASE Slot(t) = exp[t].node
    <3>1. arr' = SetSlot(t, ArrayWord(new)) /\ Descend(t, new)
      BY <1>11, <2>2 DEF ExpandCas
    <3>2. ArrayWord(new) \in Word /\ is_array(ArrayWord(new)) /\ ArrayWord(new).ref = new
      BY <1>0, ConstantTypes DEF TypeOK, Expansion, ArrayWord, is_array
    <3>3. arr'[at[t].arr][Pos(t)] = ArrayWord(new)
      BY <1>0, <3>1, <3>2, SlotType, SetSlotWords
    <3> QED BY <1>0, <2>1, <3>1, <3>2, <3>3, DescendLocal DEF InsertPCs
  <2>3. CASE Slot(t) # exp[t].node
    <3>1. Fail(t) /\ leaked' = leaked \cup {"array"}
      BY <1>11, <2>3 DEF ExpandCas
    <3> QED BY <1>0, <2>1, <3>1, FailLocal DEF InsertPCs
  <2> QED BY <2>2, <2>3
<1> QED
  BY <1>0, <1>1, <1>2, <1>3, <1>4, <1>5, <1>6, <1>7, <1>8, <1>9, <1>10, <1>11
  DEF InsertStep, MarkSlot

LEMMA LocalFindStep ==
  ASSUME ~Recycle, NodesInv, NoMarks, \E lev, rep : Trie(lev, rep),
         NEW t \in Threads, Calls(t), Reads(t), FindStep(t)
  PROVE  Local(t)
<1>0. /\ TypeOK /\ ArraysOwned /\ NodesOwned
  BY DEF NodesInv, TableInv
<1>a. PICK lev, rep : Trie(lev, rep)
  OBVIOUS
<1>s. /\ ~Slot(t).mark /\ Slot(t).kind \in {"null", "node", "array"}
      /\ Slot(t).kind = "null" => Slot(t) = Null
      /\ Slot(t).kind = "node" => Saw(t, Slot(t))
      /\ is_array(Slot(t)) => at[t].lvl < MAX_LVL
  BY <1>0, <1>a, SlotSeen
<1>b. pc[t] \in FindPCs => arg[t].op = "find" /\ res[t] = Pending
  BY DEF Calls
<1>1. CASE FindLoad(t)
  <2>1. get_unmarked_node(Slot(t)) = Slot(t)
    BY <1>0, <1>s, SlotType DEF get_unmarked_node, Word
  <2>2. pc[t] = "f_load" /\ UNCHANGED <<mem, arg, ops>> /\ arr' = arr /\ heap' = heap
    BY <1>1 DEF FindLoad, mem
  <2>3. CASE /\ is_array(Slot(t)) /\ at[t].lvl < MAX_LVL
             /\ at' = [at EXCEPT ![t].arr = Slot(t).ref, ![t].lvl = @ + 1]
             /\ UNCHANGED <<pc, cur, exp, res>>
    <3>1. at'[t].arr = Slot(t).ref /\ at'[t].lvl = at[t].lvl + 1
      BY <1>0, <2>3 DEF TypeOK, Place
    <3>2. Calls(t)' /\ Reads(t)'
      BY <1>b, <2>2, <2>3 DEF Calls, Reads, FindPCs, InsertPCs
    <3> QED BY <2>2, <2>3, <3>1, <3>2 DEF Local, Walks, Slot
  <2>4. CASE Ret(t, NoValue)
    <3>1. NoValue # Pending
      BY DEF NoValue, Pending
    <3> QED BY <1>0, <1>b, <2>2, <2>4, <3>1, RetLocal DEF FindPCs
  <2>5. CASE Slot(t).kind = "node" /\ See(t, Slot(t)) /\ Goto(t, "f_cmp") /\ UNCHANGED <<at, exp, res>>
    <3>1. pc'[t] = "f_cmp" /\ cur'[t] = Slot(t) /\ UNCHANGED <<at, exp, res>>
      BY <1>0, <2>5 DEF See, Goto, TypeOK
    <3>2. Calls(t)' /\ Reads(t)'
      BY <1>s, <1>b, <2>2, <2>5, <3>1 DEF Calls, Reads, FindPCs, InsertPCs, Saw
    <3> QED BY <2>2, <3>1, <3>2 DEF Local, Walks
  <2> QED BY <1>1, <2>1, <2>3, <2>4, <2>5 DEF FindLoad
<1>2. CASE FindCmp(t)
  <2>1. Saw(t, cur[t]) /\ pc[t] = "f_cmp" /\ UNCHANGED <<mem, arg, ops>> /\ heap' = heap
    BY <1>2 DEF FindCmp, Reads, mem
  <2>2. HashEquals(cur[t], arg[t].hash) = {heap[cur[t].ref].hash = arg[t].hash}
    BY <2>1, ExactHash DEF Saw
  <2>3. CASE heap[cur[t].ref].hash = arg[t].hash
    <3>1. Goto(t, "f_val") /\ UNCHANGED <<at, cur, exp, res>>
      BY <1>2, <2>2, <2>3 DEF FindCmp
    <3>2. pc'[t] = "f_val"
      BY <1>0, <3>1 DEF Goto, TypeOK
    <3>3. Calls(t)' /\ Reads(t)'
      BY <1>b, <2>1, <2>3, <3>1, <3>2 DEF Calls, Reads, FindPCs, InsertPCs, Saw
    <3> QED BY <2>1, <3>1, <3>3 DEF Local, Walks
  <2>4. CASE heap[cur[t].ref].hash # arg[t].hash
    <3>1. Ret(t, NoValue)
      BY <1>2, <2>2, <2>4 DEF FindCmp
    <3>2. NoValue # Pending
      BY DEF NoValue, Pending
    <3> QED BY <1>0, <1>b, <2>1, <3>1, <3>2, RetLocal DEF FindPCs
  <2> QED BY <2>3, <2>4
<1>3. CASE FindValue(t)
  <2>1. pc[t] = "f_val" /\ Saw(t, cur[t]) /\ arg' = arg
    BY <1>3 DEF FindValue, Reads
  <2>2. ReadValue(cur[t]) = {heap[cur[t].ref].value}
    BY <2>1 DEF ReadValue, Readable, Saw
  <2>3. Ret(t, heap[cur[t].ref].value)
    BY <1>3, <2>2 DEF FindValue
  <2>4. heap[cur[t].ref].value # Pending
    BY <1>0, <2>1, SizesAssumption DEF Saw, TypeOK, Node, Value, NoValue, Pending
  <2> QED BY <1>0, <1>b, <2>1, <2>3, <2>4, RetLocal DEF FindPCs
<1> QED BY <1>1, <1>2, <1>3 DEF FindStep

LEMMA LocalInvoke ==
  ASSUME TypeOK, NEW t \in Threads, Calls(t), NEW h \in Hash,
         \/ Return(t) \/ InvokeFind(t, h)
         \/ t \in Inserters /\ h \in HashesOf[t] /\ InvokeInsert(t, h)
  PROVE  Local(t)
<1>1. CASE Return(t)
  <2>1. pc'[t] = "idle" /\ arg'[t] = NoArg /\ res'[t] = Pending /\ at'[t] = AtHead
    BY <1>1 DEF Return, Goto, TypeOK, Calls
  <2>2. Calls(t)' /\ Reads(t)'
    BY <2>1 DEF Calls, Reads, FindPCs, InsertPCs
  <2> QED BY <2>1, <2>2 DEF Local, Walks, AtHead
<1>2. CASE InvokeFind(t, h)
  <2>1. pc'[t] = "f_load" /\ arg'[t].op = "find" /\ res'[t] = Pending /\ at'[t] = AtHead
    BY <1>2 DEF InvokeFind, Goto, TypeOK, Calls
  <2>2. Calls(t)' /\ Reads(t)'
    BY <2>1 DEF Calls, Reads, FindPCs, InsertPCs
  <2> QED BY <2>1, <2>2 DEF Local, Walks, AtHead
<1>3. CASE t \in Inserters /\ h \in HashesOf[t] /\ InvokeInsert(t, h)
  <2>1. /\ at'[t] = AtHead /\ arg'[t].op = "insert" /\ arg'[t].hash = h
        /\ arg'[t].value = ops + 1 /\ ops + 1 \in Value
        /\ \/ pc'[t] = "load" /\ res'[t] = Pending /\ heap'[arg'[t].node.ref].value = ops + 1
           \/ pc'[t] = "ret" /\ res'[t] = 0 /\ arg'[t].node = Null
    <3>1. at'[t] = AtHead /\ res[t] = Pending
      BY <1>3 DEF InvokeInsert, Calls
    <3>0. ops + 1 \in Value
      BY <1>3, SizesAssumption DEF InvokeInsert, TypeOK, Value
    <3>2. CASE Allocatable = {} /\ Goto(t, "ret") /\ res' = [res EXCEPT ![t] = 0]
               /\ arg' = [arg EXCEPT ![t] = [op |-> "insert", hash |-> h,
                                             value |-> ops + 1, node |-> Null]]
      BY <3>0, <3>1, <3>2 DEF Goto, TypeOK
    <3>3. CASE \E a \in Allocatable :
                 /\ heap' = [heap EXCEPT ![a] = [st |-> "live", hash |-> h, value |-> ops + 1]]
                 /\ arg' = [arg EXCEPT ![t] = [op |-> "insert", hash |-> h, value |-> ops + 1,
                                               node |-> NodeWord(a)]]
                 /\ Goto(t, "load") /\ UNCHANGED res
      <4>1. PICK a \in Allocatable :
                 /\ heap' = [heap EXCEPT ![a] = [st |-> "live", hash |-> h, value |-> ops + 1]]
                 /\ arg' = [arg EXCEPT ![t] = [op |-> "insert", hash |-> h, value |-> ops + 1,
                                               node |-> NodeWord(a)]]
                 /\ Goto(t, "load") /\ UNCHANGED res
        BY <3>3
      <4>2. a \in Addr /\ NodeWord(a).ref = a
        BY DEF Allocatable, NodeWord
      <4> QED BY <3>0, <3>1, <4>1, <4>2 DEF Goto, TypeOK
    <3> QED BY <1>3, <3>2, <3>3 DEF InvokeInsert
  <2>2. Calls(t)' /\ Reads(t)'
    <3>1. 0 # Pending
      BY DEF Pending
    <3> QED BY <1>3, <2>1, <3>1 DEF Calls, Reads, FindPCs, InsertPCs
  <2> QED BY <2>1, <2>2 DEF Local, Walks, AtHead
<1> QED BY <1>1, <1>2, <1>3

-----------------------------------------------------------------------------
\* The inductive invariant of the executions in which no thread gives up.
PathInv ==
  /\ NodesInv /\ NoMarks /\ "node" \notin leaked
  /\ \E lev, rep : Trie(lev, rep)
  /\ \A t \in Threads : Calls(t) /\ Reads(t)

LEMMA PathInvInit == Init => PathInv
<1> SUFFICES ASSUME Init PROVE PathInv
  OBVIOUS
<1>1. NodesInv
  BY NodesInvInit
<1>2. Private = {} /\ Published = {HeadArr}
  BY MemoryAssumption DEF Init, Private, Published
<1>3. /\ \A s \in Slots : arr[HeadArr][s] = Null
      /\ Null.kind = "null" /\ ~Null.mark /\ ~is_array(Null)
  BY MemoryAssumption DEF Init, Empty, Null, is_array
<1>4. NoMarks /\ "node" \notin leaked
  BY <1>2, <1>3 DEF NoMarks, Init
<1>5. \A t \in Threads : Calls(t) /\ Reads(t)
  BY DEF Init, Calls, Reads, InsertPCs, FindPCs
<1> DEFINE lev == [i \in ArrId |-> 0]
           rep == [i \in ArrId |-> [l \in Levels |-> 0]]
<1>6. Shape(arr, Published, lev, rep)
  <2>1. lev \in [ArrId -> Levels] /\ rep \in [ArrId -> [Levels -> Slots]] /\ lev[HeadArr] = 0
    BY SizesAssumption, MemoryAssumption DEF Levels, Slots
  <2> HIDE DEF lev, rep
  <2> QED BY <1>2, <1>3, <2>1, MemoryAssumption DEF Shape
<1>7. \A t \in Threads : /\ at[t].lvl = lev[at[t].arr]
                         /\ On(lev, rep, arg[t].hash, at[t].arr)
  <2>1. \A t \in Threads : at[t].arr = HeadArr /\ at[t].lvl = 0
    BY DEF Init, AtHead
  <2>2. lev[HeadArr] = 0
    BY MemoryAssumption
  <2> HIDE DEF lev, rep
  <2> QED BY <2>1, <2>2 DEF On, Levels
<1>8. Trie(lev, rep)
  <2> HIDE DEF lev, rep
  <2> QED BY <1>2, <1>3, <1>6, <1>7 DEF Trie
<1> HIDE DEF lev, rep
<1> QED BY <1>1, <1>4, <1>5, <1>8 DEF PathInv

LEMMA PathInvStep ==
  ASSUME PathInv, NodesInv', NEW t \in Threads, Effect(t), Local(t),
         leaked' \in {leaked, leaked \cup {"array"}}
  PROVE  PathInv'
<1>1. /\ TypeOK /\ TypeOK' /\ ArraysOwned /\ NodesOwned /\ NoMarks /\ Reads(t)
      /\ \E lev, rep : Trie(lev, rep)
  BY DEF PathInv, NodesInv, TableInv
<1>2. NoMarks' /\ \E lev, rep : Trie(lev, rep)'
  BY <1>1, TrieStep DEF Local
<1>3. ASSUME NEW u \in Threads PROVE Calls(u)' /\ Reads(u)'
  <2>1. CASE u = t
    BY <2>1 DEF Local
  <2>2. CASE u # t
    BY <1>1, <2>2, OthersRead DEF PathInv, Effect
  <2> QED BY <2>1, <2>2
<1>4. "node" \notin leaked'
  BY DEF PathInv
<1> QED BY <1>2, <1>3, <1>4 DEF PathInv

LEMMA NodesSame == ASSUME NodesInv, UNCHANGED vars PROVE NodesInv'
<1>1. arr' = arr /\ pool' = pool /\ heap' = heap /\ leaked' = leaked /\ pc' = pc
      /\ arg' = arg /\ at' = at /\ cur' = cur /\ exp' = exp /\ res' = res /\ ops' = ops
  BY DEF vars, mem, loc
<1>2. Published' = Published
  BY <1>1 DEF Published, Private
<1>3. TableInv'
  BY TableInvNext DEF NodesInv
<1>4. /\ OneOwner' = OneOwner /\ NullsUnmarked' = NullsUnmarked /\ Tab' = Tab
      /\ \A t \in Threads : HeldBy(t)' = HeldBy(t) /\ Knows(t)' = Knows(t)
  BY <1>1, <1>2 DEF OneOwner, NullsUnmarked, Tab, HeldBy, Knows, Cells
<1> QED BY <1>1, <1>3, <1>4 DEF NodesInv, NodesOwned, NodesKept

LEMMA PathInvSame == ASSUME PathInv, UNCHANGED vars PROVE PathInv'
<1>1. arr' = arr /\ pool' = pool /\ heap' = heap /\ leaked' = leaked /\ pc' = pc
      /\ arg' = arg /\ at' = at /\ cur' = cur /\ exp' = exp /\ res' = res /\ ops' = ops
  BY DEF vars, mem, loc
<1>2. Published' = Published
  BY <1>1 DEF Published, Private
<1>3. NoMarks' /\ "node" \notin leaked'
  BY <1>1, <1>2 DEF NoMarks, PathInv
<1>4. \A t \in Threads : Calls(t)' /\ Reads(t)'
  <2> SUFFICES ASSUME NEW t \in Threads PROVE Calls(t)' /\ Reads(t)'
    OBVIOUS
  <2>1. Calls(t) /\ Reads(t)
    BY DEF PathInv
  <2>2. Calls(t)'
    BY <1>1, <2>1 DEF Calls
  <2>3. Reads(t)'
    BY <1>1, <2>1 DEF Reads, Saw
  <2> QED BY <2>2, <2>3
<1>5. \E lev, rep : Trie(lev, rep)'
  <2>1. PICK lev, rep : Trie(lev, rep)
    BY DEF PathInv
  <2>2. Trie(lev, rep)'
    BY <1>1, <1>2, <2>1 DEF Trie
  <2> QED BY <2>2
<1>6. NodesInv'
  BY NodesSame DEF PathInv
<1> QED BY <1>3, <1>4, <1>5, <1>6 DEF PathInv

\* What a step in such an execution is.
LEMMA PathStep ==
  ASSUME ~Recycle, PathInv, Tame, Tame', Next
  PROVE  \E t \in Threads : Effect(t) /\ Local(t) /\ leaked' \in {leaked, leaked \cup {"array"}}
<1>1. /\ NodesInv /\ NoMarks /\ \E lev, rep : Trie(lev, rep)
      /\ \A t \in Threads : Calls(t) /\ Reads(t)
      /\ TypeOK /\ ArraysOwned /\ \A t \in Threads : pc[t] # "mark"
  BY DEF PathInv, NodesInv, TableInv, Tame
<1>2. CASE \E t \in Inserters : \E h \in HashesOf[t] : InvokeInsert(t, h)
  <2>1. PICK t \in Inserters : \E h \in HashesOf[t] : InvokeInsert(t, h)
    BY <1>2
  <2>2. PICK h \in HashesOf[t] : InvokeInsert(t, h)
    BY <2>1
  <2>3. t \in Threads /\ h \in Hash
    BY HashAssumption DEF Threads
  <2>4. leaked' = leaked
    BY <2>2 DEF InvokeInsert
  <2> QED BY <1>1, <2>2, <2>3, <2>4, OtherEffect, LocalInvoke
<1>3. CASE \E t \in Finders, h \in Hash : InvokeFind(t, h)
  <2>1. PICK t \in Finders, h \in Hash : InvokeFind(t, h)
    BY <1>3
  <2>2. t \in Threads /\ leaked' = leaked
    BY <2>1 DEF Threads, InvokeFind, mem
  <2> QED BY <1>1, <2>1, <2>2, OtherEffect, LocalInvoke
<1>4. CASE \E t \in Threads : InsertStep(t)
  BY <1>1, <1>4, InsertEffect, LocalInsertStep
<1>5. CASE \E t \in Threads : FindStep(t)
  <2>1. PICK t \in Threads : FindStep(t)
    BY <1>5
  <2>2. leaked' = leaked
    BY <2>1 DEF FindStep, FindLoad, FindCmp, FindValue, mem
  <2>3. PICK h \in Hash : TRUE
    BY HashAssumption
  <2> QED BY <1>1, <2>1, <2>2, <2>3, OtherEffect, LocalFindStep
<1>6. CASE \E t \in Threads : Return(t)
  <2>1. PICK t \in Threads : Return(t)
    BY <1>6
  <2>2. leaked' = leaked
    BY <2>1 DEF Return, mem
  <2>3. PICK h \in Hash : TRUE
    BY HashAssumption
  <2> QED BY <1>1, <2>1, <2>2, <2>3, OtherEffect, LocalInvoke
<1> QED BY <1>2, <1>3, <1>4, <1>5, <1>6 DEF Next

LEMMA PathInvNext == ~Recycle /\ PathInv /\ Tame /\ Tame' /\ [Next]_vars => PathInv'
<1> SUFFICES ASSUME ~Recycle, PathInv, Tame, Tame', [Next]_vars PROVE PathInv'
  OBVIOUS
<1>1. NodesInv'
  BY NodesInvNext DEF PathInv
<1>2. CASE Next
  BY <1>1, <1>2, PathStep, PathInvStep
<1>3. CASE UNCHANGED vars
  BY <1>3, PathInvSame
<1> QED BY <1>2, <1>3

LEMMA PathInvariant == ~Recycle => (Spec /\ []Tame => []PathInv)
<1>1. CASE ~Recycle
  <2>1. PathInv /\ Tame /\ Tame' /\ [Next]_vars => PathInv'
    BY <1>1, PathInvNext
  <2> QED
    BY <2>1, PathInvInit, PTL DEF Spec
<1> QED
  BY <1>1

\* An insert returns false only when malloc found no memory for its node, as
\* long as no thread gives up on a slot and no expansion loads an array: a walk
\* that follows its own hash never runs out of levels (wtf_table.h:243).
THEOREM InsertFailsOnlyWithoutMemoryCorrect ==
  ~Recycle => (Spec /\ []Tame => []InsertFailsOnlyWithoutMemory)
<1>1. PathInv => InsertFailsOnlyWithoutMemory
  BY DEF PathInv, Calls, InsertFailsOnlyWithoutMemory
<1> QED
  BY <1>1, PathInvariant, PTL

-----------------------------------------------------------------------------
(* What the table holds for a hash, and how many hashes it holds.          *)

TableValues == \A i \in Published, s \in Slots :
                 arr[i][s].kind = "node" => heap[arr[i][s].ref].value \in Value

LEMMA TableValuesStep ==
  ASSUME PathInv, TableValues, NEW t \in Threads, Effect(t)
  PROVE  TableValues'
<1>0. /\ TypeOK /\ ArraysOwned /\ NodesOwned /\ Calls(t) /\ Reads(t) /\ Leaves(t)
  BY DEF PathInv, NodesInv, TableInv, Effect
<1> SUFFICES ASSUME NEW i \in Published', NEW s \in Slots, arr'[i][s].kind = "node"
             PROVE  heap'[arr'[i][s].ref].value \in Value
  BY DEF TableValues
<1>1. ASSUME i \in Published, arr'[i][s] = arr[i][s]
      PROVE  heap'[arr'[i][s].ref].value \in Value
  BY <1>0, <1>1, TableHeap DEF TableValues, Leaves
<1>2. CASE Still
  BY <1>1, <1>2 DEF Still
<1>3. CASE Stores(t)
  <2>1. /\ arr'[i][s] = IF i = at[t].arr /\ s = Pos(t) THEN arg[t].node ELSE arr[i][s]
        /\ i \in Published /\ heap' = heap
    BY <1>0, <1>3, StoredSlot DEF Stores, Published
  <2>2. heap[arg[t].node.ref].value \in Value
    BY <1>0, <1>3 DEF Calls, Stores, InsertPCs
  <2> QED BY <1>1, <2>1, <2>2
<1>4. CASE Expands(t)
  <2> DEFINE new == exp[t].arr
  <2>1. /\ Saw(t, Slot(t)) /\ at[t].arr \in Published /\ Pos(t) \in Slots
        /\ \A j \in ArrId, r \in Slots :
             arr'[j][r] = IF j = at[t].arr /\ r = Pos(t) THEN ArrayWord(new) ELSE arr[j][r]
        /\ arr'[new] = [Empty EXCEPT ![heap[Slot(t).ref].hash[at[t].lvl + 1]] = Slot(t)]
    BY <1>0, <1>4, ExpandedSlot
  <2>2. Published' = Published \cup {new} /\ heap' = heap /\ Published \subseteq ArrId
    BY <1>4 DEF Expands, Published
  <2>3. CASE i = new
    <3>1. arr'[new][s] = Slot(t) \/ arr'[new][s] = Null
      BY <2>1 DEF Empty
    <3>2. arr'[new][s] = Slot(t)
      BY <2>3, <3>1 DEF Null
    <3>3. Slot(t).kind = "node" /\ Slot(t) = arr[at[t].arr][Pos(t)]
      BY <2>1 DEF Saw, Slot
    <3>4. heap[arr[at[t].arr][Pos(t)].ref].value \in Value
      BY <2>1, <3>3 DEF TableValues
    <3> QED BY <2>2, <2>3, <3>2, <3>3, <3>4
  <2>4. CASE i # new
    <3>1. ArrayWord(new).kind # "node"
      BY DEF ArrayWord
    <3> QED BY <1>1, <2>1, <2>2, <2>4, <3>1
  <2> QED BY <2>3, <2>4
<1> QED BY <1>2, <1>3, <1>4 DEF Effect

\* The invariants of those executions, with the values in the table.
MapInv == PathInv /\ TableValues

LEMMA MapInvInit == Init => MapInv
<1> SUFFICES ASSUME Init PROVE MapInv
  OBVIOUS
<1>1. Published = {HeadArr} /\ \A s \in Slots : arr[HeadArr][s] = Null
  BY MemoryAssumption DEF Init, Private, Published, Empty
<1>2. TableValues
  BY <1>1 DEF TableValues, Null
<1> QED BY <1>2, PathInvInit DEF MapInv

LEMMA MapInvNext == ~Recycle /\ MapInv /\ Tame /\ Tame' /\ [Next]_vars => MapInv'
<1> SUFFICES ASSUME ~Recycle, MapInv, Tame, Tame', [Next]_vars PROVE MapInv'
  OBVIOUS
<1>1. PathInv'
  BY PathInvNext DEF MapInv
<1>2. CASE Next
  BY <1>1, <1>2, PathStep, TableValuesStep DEF MapInv
<1>3. CASE UNCHANGED vars
  <2>1. arr' = arr /\ heap' = heap /\ Published' = Published
    BY <1>3 DEF vars, mem, loc, Published, Private
  <2> QED BY <1>1, <2>1 DEF MapInv, TableValues
<1> QED BY <1>2, <1>3

LEMMA MapInvariant == ~Recycle => (Spec /\ []Tame => []MapInv)
<1>1. CASE ~Recycle
  <2>1. MapInv /\ Tame /\ Tame' /\ [Next]_vars => MapInv'
    BY <1>1, MapInvNext
  <2> QED BY <2>1, MapInvInit, PTL DEF Spec
<1> QED BY <1>1

\* The word a search ends at, and what it means for the hash.
LEMMA LeafSlot ==
  ASSUME TypeOK, NEW lev, NEW rep, Trie(lev, rep), NEW h \in Hash
  PROVE  \E i \in Published : /\ On(lev, rep, h, i) /\ h[lev[i]] \in Slots
                              /\ LeafWord(h) = arr[i][h[lev[i]]] /\ ~is_array(LeafWord(h))
<1>1. Shape(arr, Published, lev, rep) /\ h \in [Levels -> Slots]
  BY HashAssumption DEF Trie
<1>2. PICK i \in Published : On(lev, rep, h, i) /\ ~is_array(arr[i][h[lev[i]]])
  BY <1>1, LeafExists
<1>3. lev[i] \in Levels
  BY <1>1 DEF Shape
<1>4. Leaf(arr, h) = arr[i][h[lev[i]]]
  BY <1>1, <1>2, LeafAt
<1> QED BY <1>1, <1>2, <1>3, <1>4, LeafWordIsLeaf

\* The search for the hash of a node in the table ends at its word.
LEMMA LeafOfNode ==
  ASSUME TypeOK, NEW lev, NEW rep, Trie(lev, rep), NEW i \in Published, NEW s \in Slots,
         arr[i][s].kind = "node"
  PROVE  /\ heap[arr[i][s].ref].hash \in Hash
         /\ LeafWord(heap[arr[i][s].ref].hash) = arr[i][s]
<1> DEFINE g == heap[arr[i][s].ref].hash
<1>1. arr[i][s].ref \in Addr
  BY DEF TypeOK, Published, Word
<1>2. g \in Hash
  BY <1>1 DEF TypeOK, Node
<1>3. On(lev, rep, g, i) /\ g[lev[i]] = s
  BY DEF Trie
<1>4. Shape(arr, Published, lev, rep) /\ g \in [Levels -> Slots] /\ ~is_array(arr[i][s])
  BY <1>2, HashAssumption DEF Trie, is_array
<1> HIDE DEF g
<1>5. Leaf(arr, g) = arr[i][g[lev[i]]]
  BY <1>3, <1>4, LeafAt
<1>6. LeafWord(g) = arr[i][s]
  BY <1>3, <1>5, LeafWordIsLeaf
<1> QED BY <1>2, <1>6 DEF g

\* There are finitely many hashes: digits of finitely many levels.
LEMMA HashFinite == IsFiniteSet(Hash)
<1> DEFINE graph == [h \in Hash |-> {<<l, h[l]>> : l \in Levels}]
           Graphs_ == SUBSET (Levels \X Slots)
<1>1. IsFiniteSet(Graphs_)
  <2>1. IsFiniteSet(Levels) /\ IsFiniteSet(Slots)
    BY FS_Interval, SizesAssumption DEF Levels, Slots
  <2> QED BY <2>1, FS_Product, FS_SUBSET
<1>2. graph \in [Hash -> Graphs_]
  BY HashAssumption
<1>3. ASSUME NEW h \in Hash, NEW k \in Hash, graph[h] = graph[k]
      PROVE  h = k
  <2>1. h \in [Levels -> Slots] /\ k \in [Levels -> Slots]
    BY HashAssumption
  <2>2. ASSUME NEW l \in Levels PROVE h[l] = k[l]
    <3>1. <<l, h[l]>> \in graph[k]
      BY <1>3
    <3>2. PICK m \in Levels : <<l, h[l]>> = <<m, k[m]>>
      BY <3>1
    <3> QED BY <3>2
  <2> QED BY <2>1, <2>2
<1> HIDE DEF graph, Graphs_
<1>4. graph \in Injection(Hash, Graphs_)
  BY <1>2, <1>3 DEF Injection, IsInjective
<1> QED BY <1>1, <1>4, FS_Injection

-----------------------------------------------------------------------------
(* The walk of wtf_table_for_each, where the arrays are a trie.            *)

IsLayering(F) ==
  F = [d \in Depths |->
         IF d = 0 THEN {HeadArr}
         ELSE {i \in ArrId : \E j \in F[d - 1], s \in Visited(d - 1) : arr[j][s] = ArrayWord(i)}]
Layers == CHOOSE F : IsLayering(F)

LEMMA ForEachByLayers == wtf_table_for_each = UNION {Layers[d] \X Visited(d) : d \in Depths}
BY DEF wtf_table_for_each, Layers, IsLayering

\* There are at least as many arrays as there are levels down to one of them.
LEMMA LevelsAreDepths ==
  ASSUME NEW A, NEW P, NEW lev, NEW rep, Shape(A, P, lev, rep), NEW i \in P
  PROVE  lev[i] \in Depths
<1>0. lev[i] \in Nat /\ \A j \in P : lev[j] \in Nat /\ j \in ArrId
  BY SizesAssumption DEF Shape, Levels
<1> DEFINE N == {n \in Nat : n <= lev[i] => \E j \in P : lev[j] = lev[i] - n}
<1>1. 0 \in N
  BY <1>0
<1>2. ASSUME NEW n \in Nat, n \in N PROVE n + 1 \in N
  <2>1. SUFFICES ASSUME n + 1 <= lev[i] PROVE \E j \in P : lev[j] = lev[i] - (n + 1)
    OBVIOUS
  <2>2. PICK j \in P : lev[j] = lev[i] - n
    BY <1>0, <1>2, <2>1
  <2>3. j # HeadArr
    BY <1>0, <2>1, <2>2 DEF Shape
  <2>4. PICK k \in P, s \in Slots : is_array(A[k][s]) /\ A[k][s].ref = j
    BY <2>3 DEF Shape
  <2>5. lev[j] = lev[k] + 1 /\ lev[k] \in Nat
    BY <1>0, <2>4 DEF Shape
  <2> QED BY <1>0, <2>2, <2>5
<1>3. Nat \subseteq N
  <2> HIDE DEF N
  <2> QED BY <1>1, <1>2, NatInductionSet
<1>4. ASSUME NEW l \in 0 .. lev[i] PROVE \E j \in P : lev[j] = l
  <2>1. lev[i] - l \in N /\ lev[i] - l <= lev[i] /\ lev[i] - (lev[i] - l) = l
    BY <1>0, <1>3
  <2> QED BY <2>1
<1> DEFINE g == [l \in 0 .. lev[i] |-> CHOOSE j \in P : lev[j] = l]
<1>5. \A l \in 0 .. lev[i] : g[l] \in P /\ lev[g[l]] = l
  BY <1>4
<1>6. g \in Injection(0 .. lev[i], ArrId)
  <2>1. g \in [0 .. lev[i] -> ArrId]
    BY <1>0, <1>5
  <2>2. \A k, l \in 0 .. lev[i] : g[k] = g[l] => k = l
    <3> HIDE DEF g
    <3> QED BY <1>5
  <2> HIDE DEF g
  <2> QED BY <2>1, <2>2 DEF Injection, IsInjective
<1> HIDE DEF g
<1>7. Cardinality(0 .. lev[i]) <= Cardinality(ArrId)
  BY <1>6, MemoryAssumption, FS_Injection
<1>8. Cardinality(0 .. lev[i]) = lev[i] + 1
  BY <1>0, FS_Interval
<1>9. Cardinality(ArrId) \in Nat
  BY MemoryAssumption, FS_CardinalityType
<1> QED BY <1>0, <1>7, <1>8, <1>9 DEF Depths

\* The arrays the walk has come to after d words are those of level d.
LEMMA LayersAreLevels ==
  ASSUME TypeOK, NoMarks, NEW lev, NEW rep, Shape(arr, Published, lev, rep)
  PROVE  Layers = [d \in Depths |-> {i \in Published : lev[i] = d}]
<1> DEFINE L == [d \in Depths |-> {i \in Published : lev[i] = d}]
           B(F, d) == IF d = 0 THEN {HeadArr}
                      ELSE {i \in ArrId : \E j \in F[d - 1], s \in Visited(d - 1) :
                                             arr[j][s] = ArrayWord(i)}
<1>0. /\ Depths \subseteq Nat /\ Published \subseteq ArrId
      /\ \A d \in Depths : d # 0 => d - 1 \in Depths
      /\ \A i \in Published : lev[i] \in Nat
  <2>1. Cardinality(ArrId) \in Nat
    BY MemoryAssumption, FS_CardinalityType
  <2> QED BY <2>1, SizesAssumption DEF Depths, Published, Shape, Levels
<1>1. {i \in Published : lev[i] = 0} = {HeadArr}
  <2>1. ASSUME NEW i \in Published, lev[i] = 0, i # HeadArr PROVE FALSE
    <3>1. PICK j \in Published, s \in Slots : is_array(arr[j][s]) /\ arr[j][s].ref = i
      BY <2>1 DEF Shape
    <3>2. lev[i] = lev[j] + 1
      BY <3>1 DEF Shape
    <3> QED BY <1>0, <2>1, <3>2
  <2> QED BY <2>1 DEF Shape
<1>2. ASSUME NEW d \in Depths, d # 0
      PROVE  {i \in Published : lev[i] = d} = B(L, d)
  <2>1. d - 1 \in Depths /\ d \in Nat /\ L[d - 1] = {i \in Published : lev[i] = d - 1}
    BY <1>0, <1>2
  <2>2. ASSUME NEW i \in Published, lev[i] = d PROVE i \in B(L, d)
    <3>1. i # HeadArr /\ i \in ArrId
      BY <1>0, <1>2, <2>2 DEF Shape
    <3>2. PICK j \in Published, s \in Slots : is_array(arr[j][s]) /\ arr[j][s].ref = i
      BY <3>1 DEF Shape
    <3>3. lev[j] < MAX_LVL /\ lev[i] = lev[j] + 1
      BY <3>2 DEF Shape
    <3>4. lev[j] = d - 1 /\ s \in Visited(d - 1)
      BY <1>0, <2>2, <3>3 DEF Visited, CUR_ARR_SZ, Slots
    <3>5. arr[j][s] = ArrayWord(i)
      <4>1. arr[j][s] \in Word /\ ~arr[j][s].mark
        BY DEF TypeOK, NoMarks, Published
      <4> QED BY <3>2, <4>1 DEF Word, is_array, ArrayWord
    <3> QED BY <1>2, <2>1, <3>1, <3>4, <3>5
  <2>3. ASSUME NEW i \in B(L, d) PROVE i \in Published /\ lev[i] = d
    <3>1. PICK j \in L[d - 1], s \in Visited(d - 1) : arr[j][s] = ArrayWord(i)
      BY <1>2, <2>3
    <3>2. j \in Published /\ lev[j] = d - 1
      BY <2>1
    <3>3. s \in Slots
      BY SizesAssumption DEF Visited, CUR_ARR_SZ, Slots
    <3>4. is_array(arr[j][s]) /\ arr[j][s].ref = i
      BY <3>1 DEF ArrayWord, is_array
    <3>5. i \in Published /\ lev[i] = lev[j] + 1
      BY <3>2, <3>3, <3>4 DEF Shape
    <3> QED BY <2>1, <3>2, <3>5
  <2> HIDE DEF L, B
  <2> QED BY <2>2, <2>3
<1>3. \A d \in Depths : L[d] = B(L, d)
  <2>1. ASSUME NEW d \in Depths PROVE L[d] = B(L, d)
    <3>1. L[d] = {i \in Published : lev[i] = d}
      OBVIOUS
    <3> HIDE DEF L
    <3> QED BY <1>1, <1>2, <3>1
  <2> QED BY <2>1
<1>4. IsLayering(L)
  <2>1. L = [d \in Depths |-> L[d]]
    OBVIOUS
  <2> HIDE DEF L
  <2>2. L = [d \in Depths |-> B(L, d)]
    <3> HIDE DEF B
    <3> QED BY <1>3, <2>1
  <2> QED BY <2>2 DEF IsLayering
<1>5. IsLayering(Layers)
  <2> HIDE DEF L
  <2> QED BY <1>4 DEF Layers
<1>6. Layers = [d \in Depths |-> B(Layers, d)]
  BY <1>5 DEF IsLayering
<1> HIDE DEF L
<1> DEFINE N == {n \in Nat : n \in Depths => Layers[n] = L[n]}
<1>7. 0 \in N
  <2>1. 0 \in Depths => Layers[0] = B(Layers, 0) /\ L[0] = B(L, 0)
    BY <1>3, <1>6
  <2> QED BY <2>1
<1>8. ASSUME NEW n \in Nat, n \in N PROVE n + 1 \in N
  <2>1. SUFFICES ASSUME n + 1 \in Depths PROVE Layers[n + 1] = L[n + 1]
    OBVIOUS
  <2>2. n \in Depths /\ (n + 1) - 1 = n /\ n + 1 # 0
    BY <1>0, <2>1
  <2>3. Layers[n] = L[n]
    BY <1>8, <2>2
  <2>4. Layers[n + 1] = B(Layers, n + 1) /\ L[n + 1] = B(L, n + 1)
    BY <1>3, <1>6, <2>1
  <2> QED BY <2>2, <2>3, <2>4
<1>9. Nat \subseteq N
  <2> HIDE DEF N
  <2> QED BY <1>7, <1>8, NatInductionSet
<1>10. \A d \in Depths : Layers[d] = L[d]
  BY <1>0, <1>9
<1>11. Layers = [d \in Depths |-> Layers[d]]
  BY <1>6
<1>12. L = [d \in Depths |-> L[d]]
  BY DEF L
<1> QED BY <1>10, <1>11, <1>12 DEF L

\* wtf_table_for_each comes to every node, in a slot that its depth has.
LEMMA ForEachMeetsNodes ==
  ASSUME TypeOK, NoMarks, NEW lev, NEW rep, Trie(lev, rep)
  PROVE  {c \in wtf_table_for_each : arr[c[1]][c[2]].kind = "node"} =
         {c \in Cells : arr[c[1]][c[2]].kind = "node"}
<1>1. Shape(arr, Published, lev, rep)
  BY DEF Trie
<1>2. Layers = [d \in Depths |-> {i \in Published : lev[i] = d}]
  BY <1>1, LayersAreLevels
<1>3. ASSUME NEW c \in wtf_table_for_each PROVE c \in Cells
  <2>1. PICK d \in Depths : c \in Layers[d] \X Visited(d)
    BY ForEachByLayers
  <2>2. Visited(d) \subseteq Slots /\ Layers[d] \subseteq Published
    BY <1>2, SizesAssumption DEF Visited, CUR_ARR_SZ, Slots
  <2> QED BY <2>1, <2>2 DEF Cells
<1>4. ASSUME NEW c \in Cells, arr[c[1]][c[2]].kind = "node"
      PROVE  c \in wtf_table_for_each
  <2>1. PICK i \in Published, s \in Slots : c = <<i, s>> /\ c[1] = i /\ c[2] = s
    BY DEF Cells
  <2>2. arr[i][s].kind = "node" /\ arr[i][s].ref \in Addr
    BY <1>4, <2>1 DEF TypeOK, Published, Word
  <2>3. heap[arr[i][s].ref].hash \in Hash
    BY <2>2 DEF TypeOK, Node
  <2>4. heap[arr[i][s].ref].hash[lev[i]] = s /\ lev[i] \in Levels
    BY <2>2 DEF Trie, Shape, Published
  <2>5. s \in Visited(lev[i])
    <3>1. lev[i] < MAX_LVL \/ lev[i] = MAX_LVL
      BY <2>4, SizesAssumption DEF Levels
    <3>2. CASE lev[i] < MAX_LVL
      BY <2>4, <3>2, SizesAssumption DEF Visited, CUR_ARR_SZ, Slots
    <3>3. CASE lev[i] = MAX_LVL
      BY <2>3, <2>4, <3>3, HashAssumption, SizesAssumption DEF Visited, CUR_ARR_SZ, Slots
    <3> QED BY <3>1, <3>2, <3>3
  <2>6. lev[i] \in Depths
    BY <1>1, LevelsAreDepths
  <2>7. c \in Layers[lev[i]] \X Visited(lev[i])
    BY <1>2, <2>1, <2>5, <2>6
  <2> QED BY <2>6, <2>7, ForEachByLayers
<1> QED BY <1>3, <1>4

\* One node for every hash that is held.
LEMMA CountIsHeld ==
  ASSUME MapInv
  PROVE  wtf_table_count = Cardinality(Held)
<1> DEFINE N == {c \in Cells : arr[c[1]][c[2]].kind = "node"}
           f == [c \in N |-> heap[arr[c[1]][c[2]].ref].hash]
<1>0. TypeOK /\ OneOwner
  BY DEF MapInv, PathInv, NodesInv, TableInv, NodesOwned
<1>1. PICK lev, rep : Trie(lev, rep)
  BY DEF MapInv, PathInv
<1>2. \A c \in N : c = <<c[1], c[2]>> /\ c[1] \in Published /\ c[2] \in Slots /\ arr[c[1]][c[2]].kind = "node"
  BY DEF Cells
<1>3. ASSUME NEW c \in N
      PROVE  f[c] \in Hash /\ LeafWord(f[c]) = arr[c[1]][c[2]]
  BY <1>0, <1>1, <1>2, LeafOfNode
<1>4. ASSUME NEW c \in N PROVE f[c] \in Held
  <2>1. heap[arr[c[1]][c[2]].ref].value \in Value
    BY <1>2 DEF MapInv, TableValues
  <2>2. Lookup(f[c]) = heap[arr[c[1]][c[2]].ref].value
    BY <1>2, <1>3 DEF Lookup
  <2>3. \A v \in Value : v # NoValue
    BY SizesAssumption DEF Value, NoValue
  <2> HIDE DEF N, f
  <2> QED BY <1>3, <2>1, <2>2, <2>3 DEF Held
<1>5. ASSUME NEW c \in N, NEW d \in N, f[c] = f[d] PROVE c = d
  <2>1. c \in Cells /\ d \in Cells
    OBVIOUS
  <2> HIDE DEF N, f
  <2>2. arr[c[1]][c[2]] = arr[d[1]][d[2]]
    BY <1>3, <1>5
  <2>3. arr[c[1]][c[2]] # Null
    BY <1>2 DEF Null
  <2> QED BY <1>0, <2>1, <2>2, <2>3 DEF OneOwner
<1>6. ASSUME NEW h \in Held PROVE \E c \in N : f[c] = h
  <2>1. /\ h \in Hash /\ LeafWord(h).kind = "node" /\ heap[LeafWord(h).ref].hash = h
    BY DEF Held, Lookup
  <2>2. PICK i \in Published : h[lev[i]] \in Slots /\ LeafWord(h) = arr[i][h[lev[i]]]
    BY <1>0, <1>1, <2>1, LeafSlot
  <2>3. <<i, h[lev[i]]>> \in N
    BY <2>1, <2>2 DEF Cells
  <2> QED BY <2>1, <2>2, <2>3
<1>7. IsFiniteSet(Held)
  BY HashFinite, FS_Subset DEF Held
<1> HIDE DEF N, f
<1>8. f \in Injection(N, Held) /\ f \in Surjection(N, Held)
  <2>1. f \in [N -> Held]
    BY <1>4 DEF f
  <2> QED BY <2>1, <1>5, <1>6 DEF Injection, IsInjective, Surjection
<1>9. Cardinality(N) = Cardinality(Held)
  BY <1>7, <1>8, FS_Injection
<1>10. {c \in wtf_table_for_each : arr[c[1]][c[2]].kind = "node"} = N
  BY <1>0, <1>1, ForEachMeetsNodes DEF MapInv, PathInv, N
<1> QED BY <1>9, <1>10 DEF wtf_table_count

\* The nodes wtf_table_destroy frees are those of the table.
LEMMA DestroysTable ==
  ASSUME MapInv
  PROVE  DestroyedNodes = Tab
<1>1. TypeOK /\ NoMarks
  BY DEF MapInv, PathInv, NodesInv, TableInv
<1>2. PICK lev, rep : Trie(lev, rep)
  BY DEF MapInv, PathInv
<1>3. DestroyedNodes = {arr[c[1]][c[2]].ref : c \in {d \in Cells : arr[d[1]][d[2]].kind = "node"}}
  BY <1>1, <1>2, ForEachMeetsNodes DEF DestroyedNodes
<1>4. \A i \in Published, s \in Slots : arr[i][s].kind = "node" => arr[i][s].ref \in Addr
  BY <1>1 DEF TypeOK, Published, Word
<1>5. ASSUME NEW a \in DestroyedNodes PROVE a \in Tab
  <2>1. PICK c \in Cells : arr[c[1]][c[2]].kind = "node" /\ a = arr[c[1]][c[2]].ref
    BY <1>3
  <2> QED BY <1>4, <2>1 DEF Tab, Cells
<1>6. ASSUME NEW a \in Tab PROVE a \in DestroyedNodes
  <2>1. PICK i \in Published, s \in Slots : arr[i][s].kind = "node" /\ arr[i][s].ref = a
    BY DEF Tab
  <2>2. <<i, s>> \in Cells
    BY DEF Cells
  <2> QED BY <1>3, <2>1, <2>2
<1> QED BY <1>5, <1>6

\* Between calls the nodes that are allocated are those wtf_table_destroy frees on
\* its walk through the sub-arrays, and wtf_table_count counts every hash the
\* table holds once, as long as no thread gives up on a slot and no expansion
\* loads an array: no array is marked then, and none hangs a level too deep.
THEOREM NodesAccountedForCorrect ==
  ~Recycle => (Spec /\ []Tame => []NodesAccountedFor)
<1>1. MapInv => /\ Quiet /\ "node" \notin leaked =>
                     {a \in Addr : heap[a].st = "live"} = DestroyedNodes
                /\ "node" \notin leaked /\ wtf_table_count = Cardinality(Held)
  BY LiveNodesInTable, CountIsHeld, DestroysTable DEF MapInv, PathInv
<1>2. MapInv => NodesAccountedFor
  BY <1>1 DEF NodesAccountedFor
<1> QED
  BY <1>2, MapInvariant, PTL

-----------------------------------------------------------------------------
(* What a search finds after a step.                                       *)

\* The word at which a search for h ends after the step.
LEMMA LeafNow ==
  ASSUME NEW P, P = Published', NEW lev, NEW rep, Shape(arr', P, lev, rep),
         NEW h \in [Levels -> Slots], NEW i \in P, On(lev, rep, h, i),
         ~is_array(arr'[i][h[lev[i]]])
  PROVE  LeafWord(h)' = arr'[i][h[lev[i]]]
<1>1. PICK B : B = arr'
  OBVIOUS
<1>2. Leaf(B, h) = B[i][h[lev[i]]]
  BY <1>1, LeafAt
<1>3. LeafWord(h)' = Leaf(B, h)
  BY <1>1 DEF LeafWord, Leaf, IsWalk, Levels
<1> QED BY <1>1, <1>2, <1>3

\* A hash whose search ends at the same node, or at none, has the same value.
LEMMA SameLookup ==
  ASSUME TypeOK, NodesOwned, HeapKept, NEW h, LeafWord(h)' = LeafWord(h),
         LeafWord(h).kind = "node" =>
           \E i \in Published, s \in Slots : LeafWord(h) = arr[i][s]
  PROVE  Lookup(h)' = Lookup(h)
<1>1. CASE LeafWord(h).kind = "node"
  <2>1. PICK i \in Published, s \in Slots : LeafWord(h) = arr[i][s]
    BY <1>1
  <2>2. /\ heap'[arr[i][s].ref].hash = heap[arr[i][s].ref].hash
        /\ heap'[arr[i][s].ref].value = heap[arr[i][s].ref].value
    BY <1>1, <2>1, TableHeap
  <2> QED BY <2>1, <2>2 DEF Lookup
<1>2. CASE LeafWord(h).kind # "node"
  BY <1>2 DEF Lookup
<1> QED BY <1>1, <1>2

LEMMA ContentStill ==
  ASSUME MapInv, NEW t \in Threads, Leaves(t), Still
  PROVE  Content' = Content
<1>0. TypeOK /\ NodesOwned /\ HeapKept
  BY DEF MapInv, PathInv, NodesInv, TableInv, Leaves
<1>1. PICK lev, rep : Trie(lev, rep)
  BY DEF MapInv, PathInv
<1>2. Published' = Published /\ \A i \in Published : arr'[i] = arr[i]
  BY DEF Still
<1>3. Shape(arr', Published, lev, rep)
  BY <1>1, <1>2, ShapeStore DEF Trie
<1>4. ASSUME NEW h \in Hash PROVE Lookup(h)' = Lookup(h)
  <2>1. PICK i \in Published : /\ On(lev, rep, h, i) /\ h[lev[i]] \in Slots
                               /\ LeafWord(h) = arr[i][h[lev[i]]] /\ ~is_array(LeafWord(h))
    BY <1>0, <1>1, LeafSlot
  <2>2. h \in [Levels -> Slots] /\ arr'[i][h[lev[i]]] = arr[i][h[lev[i]]]
    BY <1>2, HashAssumption
  <2>3. LeafWord(h)' = arr'[i][h[lev[i]]]
    BY <1>2, <1>3, <2>1, <2>2, LeafNow
  <2> QED BY <1>0, <2>1, <2>2, <2>3, SameLookup
<1> QED BY <1>4 DEF Content

\* The store of a node changes the value of its hash only.
LEMMA ContentStore ==
  ASSUME MapInv, NEW t \in Threads, Leaves(t), Stores(t)
  PROVE  Content' = [Content EXCEPT ![arg[t].hash] = arg[t].value]
<1>0. TypeOK /\ ArraysOwned /\ NodesOwned /\ HeapKept /\ Calls(t) /\ Knows(t)
  BY DEF MapInv, PathInv, NodesInv, TableInv, NodesOwned, Leaves
<1>1. PICK lev, rep : Trie(lev, rep)
  BY DEF MapInv, PathInv
<1> DEFINE i == at[t].arr
           s == Pos(t)
<1>k. PICK k : k = arg[t].hash
  OBVIOUS
<1>2. /\ arg[t].node.kind = "node" /\ heap[arg[t].node.ref].hash = k /\ ~is_array(Slot(t))
      /\ i \in Published /\ s \in Slots /\ Slot(t) = arr[i][s]
      /\ \A j \in ArrId, r \in Slots :
           arr'[j][r] = IF j = i /\ r = s THEN arg[t].node ELSE arr[j][r]
  BY <1>0, <1>k, StoredSlot DEF Slot
<1>3. Published' = Published /\ heap' = heap /\ Published \subseteq ArrId
  BY DEF Stores, Published
<1>4. heap[arg[t].node.ref].value = arg[t].value
  BY <1>0 DEF Calls, Stores, InsertPCs
<1>5. s = k[lev[i]] /\ On(lev, rep, k, i) /\ k \in Hash
  BY <1>0, <1>1, <1>k DEF Trie, Pos, TypeOK, Call
<1>6. Slot(t) = Null \/ (Slot(t).kind = "node" /\ heap[Slot(t).ref].hash = k)
  BY <1>0, <1>k DEF Stores, Knows
<1> HIDE DEF i, s
<1>7. Shape(arr', Published, lev, rep)
  <2>1. \A j \in Published, r \in Slots :
          arr[j][r] = arr'[j][r] \/ (~is_array(arr[j][r]) /\ ~is_array(arr'[j][r]))
    BY <1>2, <1>3 DEF is_array
  <2> QED BY <1>1, <2>1, ShapeStore DEF Trie
<1>8. Lookup(k)' = arg[t].value
  <2>1. k \in [Levels -> Slots] /\ arr'[i][k[lev[i]]] = arg[t].node /\ ~is_array(arg[t].node)
    BY <1>2, <1>3, <1>5, HashAssumption DEF is_array
  <2>2. LeafWord(k)' = arg[t].node
    BY <1>2, <1>3, <1>5, <1>7, <2>1, LeafNow
  <2> QED BY <1>2, <1>3, <1>4, <2>2 DEF Lookup
<1>9. ASSUME NEW h \in Hash, h # k PROVE Lookup(h)' = Lookup(h)
  <2>1. PICK j \in Published : /\ On(lev, rep, h, j) /\ h[lev[j]] \in Slots
                               /\ LeafWord(h) = arr[j][h[lev[j]]] /\ ~is_array(LeafWord(h))
    BY <1>0, <1>1, LeafSlot
  <2>2. h \in [Levels -> Slots]
    BY HashAssumption
  <2>3. CASE j = i /\ h[lev[j]] = s
    <3>1. LeafWord(h) = Slot(t)
      BY <1>2, <2>1, <2>3
    <3>2. arr'[j][h[lev[j]]] = arg[t].node /\ ~is_array(arg[t].node)
      BY <1>2, <1>3, <2>3 DEF is_array
    <3>3. LeafWord(h)' = arg[t].node
      BY <1>3, <1>7, <2>1, <2>2, <3>2, LeafNow
    <3>4. Lookup(h) = NoValue
      BY <1>6, <1>9, <3>1 DEF Lookup, Null
    <3>5. Lookup(h)' = NoValue
      BY <1>2, <1>3, <1>9, <3>3 DEF Lookup
    <3> QED BY <3>4, <3>5
  <2>4. CASE ~(j = i /\ h[lev[j]] = s)
    <3>1. arr'[j][h[lev[j]]] = arr[j][h[lev[j]]]
      BY <1>2, <1>3, <2>1, <2>4
    <3>2. LeafWord(h)' = LeafWord(h)
      BY <1>3, <1>7, <2>1, <2>2, <3>1, LeafNow
    <3> QED BY <1>0, <2>1, <3>2, SameLookup
  <2> QED BY <2>3, <2>4
<1> QED BY <1>5, <1>8, <1>9, <1>k DEF Content

\* The publication of an array changes no value.
LEMMA ContentExpand ==
  ASSUME MapInv, NEW t \in Threads, Leaves(t), Expands(t)
  PROVE  Content' = Content
<1>0. TypeOK /\ ArraysOwned /\ NodesOwned /\ HeapKept /\ Reads(t)
  BY DEF MapInv, PathInv, NodesInv, TableInv, NodesOwned, Leaves
<1>1. PICK lev, rep : Trie(lev, rep)
  BY DEF MapInv, PathInv
<1> DEFINE i == at[t].arr
           s == Pos(t)
           new == exp[t].arr
           w == Slot(t)
           g == heap[w.ref].hash
           n == lev[i]
<1>2. /\ w = arr[i][s] /\ w.kind = "node"
      /\ new \in ArrId \ Published /\ i \in Published /\ s \in Slots
      /\ \A j \in ArrId, r \in Slots :
           arr'[j][r] = IF j = i /\ r = s THEN ArrayWord(new) ELSE arr[j][r]
      /\ arr'[new] = [Empty EXCEPT ![g[at[t].lvl + 1]] = w]
  BY <1>0, ExpandedSlot DEF Slot, Saw
<1>3. Published' = Published \cup {new} /\ heap' = heap /\ Published \subseteq ArrId
  BY DEF Expands, Published
<1>4. at[t].lvl = n /\ n < MAX_LVL /\ n + 1 \in Levels
  <2>1. at[t].lvl = n /\ n < MAX_LVL
    BY <1>0, <1>1, ExpandedSlot DEF Trie
  <2> QED BY <1>0, <2>1, SizesAssumption DEF Levels, TypeOK, Place
<1>5. \A r \in Slots : arr'[new][r] = IF r = g[n + 1] THEN w ELSE Null
  BY <1>2, <1>4 DEF Empty
<1>6. PICK lev2, rep2 : /\ Shape(arr', Published', lev2, rep2)
                        /\ Grows(Published, lev, rep, lev2, rep2, i, s, new)
  BY <1>0, <1>1, ExpandShape DEF MapInv, PathInv
<1> HIDE DEF i, s, new, w, g, n
<1>7. ASSUME NEW h \in Hash PROVE Lookup(h)' = Lookup(h)
  <2>1. PICK j \in Published : /\ On(lev, rep, h, j) /\ h[lev[j]] \in Slots
                               /\ LeafWord(h) = arr[j][h[lev[j]]] /\ ~is_array(LeafWord(h))
    BY <1>0, <1>1, LeafSlot
  <2>2. h \in [Levels -> Slots]
    BY HashAssumption
  <2>3. j \in Published' /\ new \in Published' /\ lev2[j] = lev[j] /\ On(lev2, rep2, h, j)
    BY <1>3, <1>6, <2>1 DEF Grows
  <2>4. CASE j = i /\ h[lev[j]] = s
    <3>1. LeafWord(h) = w
      BY <1>2, <2>1, <2>4
    <3>2. lev2[new] = n + 1 /\ On(lev2, rep2, h, new)
      BY <1>6, <2>1, <2>4 DEF Grows, n
    <3>3. h[n + 1] \in Slots
      BY <1>4, <2>2
    <3>4. arr'[new][h[n + 1]] = IF h[n + 1] = g[n + 1] THEN w ELSE Null
      BY <1>5, <3>3
    <3>5. ~is_array(arr'[new][h[n + 1]])
      BY <1>2, <3>4 DEF is_array, Null
    <3>6. LeafWord(h)' = arr'[new][h[n + 1]]
      BY <1>6, <2>2, <2>3, <3>2, <3>5, LeafNow
    <3>7. CASE h[n + 1] = g[n + 1]
      BY <1>0, <1>2, <3>1, <3>4, <3>6, <3>7, SameLookup
    <3>8. CASE h[n + 1] # g[n + 1]
      <4>1. h # heap[w.ref].hash
        BY <3>8 DEF g
      <4>2. Lookup(h) = NoValue
        BY <3>1, <4>1 DEF Lookup
      <4>3. Lookup(h)' = NoValue
        BY <3>4, <3>6, <3>8 DEF Lookup, Null
      <4> QED BY <4>2, <4>3
    <3> QED BY <3>7, <3>8
  <2>5. CASE ~(j = i /\ h[lev[j]] = s)
    <3>1. arr'[j][h[lev[j]]] = arr[j][h[lev[j]]]
      BY <1>2, <1>3, <2>1, <2>5
    <3>2. LeafWord(h)' = LeafWord(h)
      BY <1>6, <2>1, <2>2, <2>3, <3>1, LeafNow
    <3> QED BY <1>0, <2>1, <3>2, SameLookup
  <2> QED BY <2>4, <2>5
<1> QED BY <1>7 DEF Content

-----------------------------------------------------------------------------
(* What a writer may rely on where each hash has one writer.               *)

OneWriter == \A t, u \in Inserters : t # u => HashesOf[t] \cap HashesOf[u] = {}

\* Nobody else brings in the hash of t, replaces the node t is about to
\* replace, or removes an array.
Absent(t) == \A i \in Published, s \in Slots :
               arr[i][s].kind = "node" => heap[arr[i][s].ref].hash # arg[t].hash
Owns(t) ==
  /\ pc[t] \in {"cas_null", "reload_null", "cmp_null"} => Absent(t)
  /\ pc[t] = "cmp_null" => heap[cur[t].ref].hash # arg[t].hash
  /\ pc[t] \in {"cmp", "cas_upd"} /\ heap[cur[t].ref].hash = arg[t].hash =>
       Slot(t) = cur[t] \/ is_array(Slot(t))
  /\ pc[t] = "reload_upd" => is_array(Slot(t))

\* The nodes of the table after a step are those it had and the one a thread
\* has stored.
LEMMA NewNodes ==
  ASSUME MapInv, NEW t \in Threads, Effect(t), NEW i \in Published', NEW s \in Slots,
         arr'[i][s].kind = "node"
  PROVE  \/ \E j \in Published, r \in Slots : arr'[i][s] = arr[j][r]
         \/ Stores(t) /\ arr'[i][s] = arg[t].node
<1>0. /\ TypeOK /\ ArraysOwned /\ NodesOwned /\ Reads(t)
  BY DEF MapInv, PathInv, NodesInv, TableInv
<1>1. CASE Still
  BY <1>1 DEF Still
<1>2. CASE Stores(t)
  <2>1. /\ arr'[i][s] = IF i = at[t].arr /\ s = Pos(t) THEN arg[t].node ELSE arr[i][s]
        /\ i \in Published
    BY <1>0, <1>2, StoredSlot DEF Stores, Published
  <2> QED BY <1>2, <2>1
<1>3. CASE Expands(t)
  <2> DEFINE new == exp[t].arr
  <2>1. /\ at[t].arr \in Published /\ Pos(t) \in Slots
        /\ \A j \in ArrId, r \in Slots :
             arr'[j][r] = IF j = at[t].arr /\ r = Pos(t) THEN ArrayWord(new) ELSE arr[j][r]
        /\ arr'[new] = [Empty EXCEPT ![heap[Slot(t).ref].hash[at[t].lvl + 1]] = Slot(t)]
    BY <1>0, <1>3, ExpandedSlot
  <2>2. Published' = Published \cup {new} /\ Published \subseteq ArrId
    BY <1>3 DEF Expands, Published
  <2>3. CASE i = new
    <3>1. arr'[new][s] = Slot(t) \/ arr'[new][s] = Null
      BY <2>1 DEF Empty
    <3>2. arr'[new][s] = arr[at[t].arr][Pos(t)]
      BY <2>3, <3>1 DEF Null, Slot
    <3> QED BY <2>1, <2>3, <3>2
  <2>4. CASE i # new
    <3>1. ArrayWord(new).kind # "node"
      BY DEF ArrayWord
    <3> QED BY <2>1, <2>2, <2>4, <3>1
  <2> QED BY <2>3, <2>4
<1> QED BY <1>1, <1>2, <1>3 DEF Effect

\* Two writers insert different hashes.
LEMMA Writers ==
  ASSUME OneWriter, NEW t \in Threads, NEW u \in Threads \ {t}, Calls(t), Calls(u),
         pc[t] \in InsertPCs, pc[u] \in InsertPCs
  PROVE  arg[t].hash # arg[u].hash
<1>1. /\ t \in Inserters /\ arg[t].hash \in HashesOf[t]
      /\ u \in Inserters /\ arg[u].hash \in HashesOf[u]
  BY DEF Calls
<1> QED BY <1>1 DEF OneWriter

\* The slot of a thread when another thread takes a step.
LEMMA SlotOfOther ==
  ASSUME MapInv, NEW t \in Threads, Effect(t), NEW u \in Threads \ {t}
  PROVE  /\ Pos(u)' = Pos(u)
         /\ \/ Slot(u)' = Slot(u)
            \/ is_array(Slot(u)')
            \/ Stores(t) /\ at[t].arr = at[u].arr /\ Pos(t) = Pos(u)
         /\ is_array(Slot(u)) => is_array(Slot(u)')
<1>0. /\ TypeOK /\ ArraysOwned /\ NodesOwned /\ Reads(t)
  BY DEF MapInv, PathInv, NodesInv, TableInv
<1>1. at'[u] = at[u] /\ arg'[u] = arg[u]
  BY DEF Effect, Leaves, Others
<1>2. Pos(u)' = Pos(u) /\ Slot(u)' = arr'[at[u].arr][Pos(u)]
  BY <1>1 DEF Pos, Slot
<1>3. at[u].arr \in Published /\ at[u].arr \in ArrId /\ Pos(u) \in Slots
  BY <1>0, SlotType DEF ArraysOwned, Published
<1>4. CASE Still
  BY <1>2, <1>3, <1>4 DEF Still, Slot
<1>5. CASE Stores(t)
  <2>1. /\ ~is_array(Slot(t))
        /\ Slot(u)' = IF at[u].arr = at[t].arr /\ Pos(u) = Pos(t) THEN arg[t].node ELSE Slot(u)
    BY <1>0, <1>2, <1>3, <1>5, StoredSlot DEF Slot
  <2>2. at[u].arr = at[t].arr /\ Pos(u) = Pos(t) => Slot(u) = Slot(t)
    BY DEF Slot
  <2> QED BY <1>2, <1>5, <2>1, <2>2
<1>6. CASE Expands(t)
  <2>1. Slot(u)' = IF at[u].arr = at[t].arr /\ Pos(u) = Pos(t) THEN ArrayWord(exp[t].arr)
                                                               ELSE Slot(u)
    <3>1. \A i \in ArrId, s \in Slots :
            arr'[i][s] = IF i = at[t].arr /\ s = Pos(t) THEN ArrayWord(exp[t].arr)
                                                        ELSE arr[i][s]
      BY <1>0, <1>6, ExpandedSlot
    <3> QED BY <1>2, <1>3, <3>1 DEF Slot
  <2> QED BY <1>2, <2>1 DEF is_array, ArrayWord
<1> QED BY <1>4, <1>5, <1>6 DEF Effect

LEMMA OthersOwn ==
  ASSUME OneWriter, MapInv, NEW t \in Threads, Effect(t), NEW u \in Threads \ {t}, Owns(u)
  PROVE  Owns(u)'
<1>0. /\ TypeOK /\ ArraysOwned /\ NodesOwned /\ HeapKept
      /\ Calls(t) /\ Calls(u) /\ Reads(u) /\ Knows(t) /\ Knows(u)
  BY DEF MapInv, PathInv, NodesInv, TableInv, NodesOwned, Effect, Leaves
<1>1. /\ pc'[u] = pc[u] /\ at'[u] = at[u] /\ cur'[u] = cur[u] /\ arg'[u] = arg[u]
  BY DEF Effect, Leaves, Others
<1>2. ASSUME pc[u] \in {"cas_null", "reload_null", "cmp_null"} PROVE Absent(u)'
  <2> SUFFICES ASSUME NEW i \in Published', NEW s \in Slots, arr'[i][s].kind = "node"
               PROVE  heap'[arr'[i][s].ref].hash # arg[u].hash
    BY <1>1 DEF Absent
  <2>1. CASE \E j \in Published, r \in Slots : arr'[i][s] = arr[j][r]
    <3>1. PICK j \in Published, r \in Slots : arr'[i][s] = arr[j][r]
      BY <2>1
    <3>2. heap'[arr[j][r].ref].hash = heap[arr[j][r].ref].hash
      BY <1>0, <3>1, TableHeap
    <3> QED BY <1>2, <3>1, <3>2 DEF Owns, Absent
  <2>2. CASE Stores(t) /\ arr'[i][s] = arg[t].node
    <3>1. heap'[arg[t].node.ref].hash = arg[t].hash
      BY <1>0, <2>2, StoredSlot DEF Stores
    <3>2. pc[t] \in InsertPCs /\ pc[u] \in InsertPCs
      BY <1>2, <2>2 DEF Stores, InsertPCs
    <3> QED BY <1>0, <2>2, <3>1, <3>2, Writers
  <2> QED BY <2>1, <2>2, NewNodes
<1>3. ASSUME pc[u] \in {"cmp_null", "cmp", "cas_upd"}
      PROVE  heap'[cur[u].ref].hash = heap[cur[u].ref].hash /\ cur[u].kind = "node"
  <2>1. cur[u].kind = "node" /\ heap[cur[u].ref].st # "free" /\ cur[u] \in Word
    BY <1>0, <1>3 DEF Reads, Saw, Knows, TypeOK
  <2>2. cur[u].ref \in Addr
    BY <2>1 DEF Word
  <2> QED BY <1>0, <2>1, <2>2 DEF HeapKept
<1>4. ASSUME pc[u] \in {"cmp", "cas_upd"}, heap[cur[u].ref].hash = arg[u].hash
      PROVE  Slot(u)' = cur[u] \/ is_array(Slot(u)')
  <2>1. Slot(u) = cur[u] \/ is_array(Slot(u))
    BY <1>4 DEF Owns
  <2>2. CASE is_array(Slot(u))
    BY <2>2, SlotOfOther
  <2>3. CASE Slot(u) = cur[u] /\ Stores(t) /\ at[t].arr = at[u].arr /\ Pos(t) = Pos(u)
    <3>1. Slot(t) = cur[u]
      BY <2>3 DEF Slot
    <3>2. cur[u] # Null
      BY <1>3, <1>4 DEF Null
    <3>3. pc[t] = "cas_upd" /\ cur[t] = cur[u]
      BY <2>3, <3>1, <3>2 DEF Stores
    <3>4. arg[t].hash = arg[u].hash
      BY <1>0, <1>4, <3>3 DEF Knows
    <3>5. pc[t] \in InsertPCs /\ pc[u] \in InsertPCs
      BY <1>4, <3>3 DEF InsertPCs
    <3> QED BY <1>0, <3>4, <3>5, Writers
  <2> QED BY <2>1, <2>2, <2>3, SlotOfOther
<1>5. pc[u] = "reload_upd" => is_array(Slot(u)')
  BY SlotOfOther DEF Owns
<1>6. (pc[u] \in {"cas_null", "reload_null", "cmp_null"} => Absent(u))'
  BY <1>1, <1>2
<1>7. pc'[u] = "cmp_null" => heap'[cur'[u].ref].hash # arg'[u].hash
  BY <1>1, <1>3 DEF Owns
<1>8. pc'[u] \in {"cmp", "cas_upd"} /\ heap'[cur'[u].ref].hash = arg'[u].hash =>
        Slot(u)' = cur'[u] \/ is_array(Slot(u)')
  BY <1>1, <1>3, <1>4
<1>9. pc'[u] = "reload_upd" => is_array(Slot(u)')
  BY <1>1, <1>5
<1> QED BY <1>6, <1>7, <1>8, <1>9 DEF Owns, is_array

\* The search for the hash of a call goes through the slot of the thread.
LEMMA LeafOfCall ==
  ASSUME TypeOK, ArraysOwned, NEW lev, NEW rep, Trie(lev, rep), NEW t \in Threads
  PROVE  LeafWord(arg[t].hash) = Slot(t) \/ is_array(Slot(t))
<1> DEFINE i == at[t].arr
           h == arg[t].hash
<1>1. Shape(arr, Published, lev, rep) /\ h \in [Levels -> Slots] /\ i \in Published
  BY HashAssumption DEF Trie, TypeOK, Call, ArraysOwned
<1>2. On(lev, rep, h, i) /\ Slot(t) = arr[i][h[lev[i]]]
  BY DEF Trie, Slot, Pos
<1> HIDE DEF i, h
<1>3. ~is_array(Slot(t)) => Leaf(arr, h) = Slot(t)
  BY <1>1, <1>2, LeafAt
<1> QED BY <1>3, LeafWordIsLeaf DEF h

\* An empty slot on the path of a hash: no node of the table has the hash.
LEMMA NullAbsent ==
  ASSUME MapInv, NEW t \in Threads, Slot(t) = Null
  PROVE  Absent(t)
<1>0. TypeOK /\ ArraysOwned
  BY DEF MapInv, PathInv, NodesInv, TableInv
<1>1. PICK lev, rep : Trie(lev, rep)
  BY DEF MapInv, PathInv
<1>2. LeafWord(arg[t].hash) = Slot(t) \/ is_array(Slot(t))
  BY <1>0, <1>1, LeafOfCall
<1>3. LeafWord(arg[t].hash) = Null
  BY <1>2 DEF Null, is_array
<1> SUFFICES ASSUME NEW i \in Published, NEW s \in Slots, arr[i][s].kind = "node",
                    heap[arr[i][s].ref].hash = arg[t].hash
             PROVE  FALSE
  BY DEF Absent
<1>4. LeafWord(heap[arr[i][s].ref].hash) = arr[i][s]
  BY <1>0, <1>1, LeafOfNode
<1> QED BY <1>3, <1>4 DEF Null

LEMMA SameSlot ==
  ASSUME NEW t \in Threads, Others(t), UNCHANGED <<arr, pool, heap, arg, at>>,
         pc[t] # "exp_cas", pc'[t] # "exp_cas"
  PROVE  Slot(t)' = Slot(t) /\ Absent(t)' = Absent(t)
<1>1. Published' = Published
  BY PublishedSame
<1> QED BY <1>1 DEF Slot, Pos, Absent

\* A walk down a word goes on at the next level.
LEMMA FollowLoads ==
  ASSUME TypeOK, NEW t \in Threads, Follow(t, Slot(t)), ~Slot(t).mark, at[t].lvl < MAX_LVL
  PROVE  pc'[t] = "load" /\ res' = res
BY DEF Follow, Descend, Goto, is_node_marked, TypeOK

LEMMA OwnStep ==
  ASSUME ~Recycle, MapInv, NEW t \in Threads, Owns(t), InsertStep(t)
  PROVE  Owns(t)'
<1>0. /\ TypeOK /\ ArraysOwned /\ SlotsStayFull /\ NodesOwned /\ Full(t) /\ Knows(t) /\ Reads(t)
  BY DEF MapInv, PathInv, NodesInv, TableInv, SlotsStayFull, NodesOwned
<1>a. PICK lev, rep : Trie(lev, rep)
  BY DEF MapInv, PathInv
<1>s. /\ ~Slot(t).mark /\ Slot(t).kind \in {"null", "node", "array"}
      /\ Slot(t).kind = "null" => Slot(t) = Null
      /\ is_array(Slot(t)) => at[t].lvl < MAX_LVL
      /\ Slot(t) = arr[at[t].arr][Pos(t)] /\ at[t].arr \in Published /\ Pos(t) \in Slots
  BY <1>0, <1>a, SlotSeen, SlotType DEF MapInv, PathInv, ArraysOwned, Slot
<1>b. ASSUME pc'[t] \notin {"cas_null", "reload_null", "cmp_null", "cmp", "cas_upd", "reload_upd"}
      PROVE  Owns(t)'
  BY <1>b DEF Owns
<1>1. CASE LoadSlot(t)
  <2>1. CASE is_array(Slot(t)) /\ Follow(t, Slot(t))
    BY <1>0, <1>s, <1>b, <2>1, FollowLoads
  <2>2. CASE ~is_array(Slot(t))
    <3>1. /\ UNCHANGED <<arr, pool, heap, arg, at>> /\ cur'[t] = Slot(t) /\ Others(t)
          /\ pc'[t] = "cmp" \/ (pc'[t] = "cas_null" /\ Slot(t) = Null)
          /\ pc[t] = "load"
      BY <1>0, <1>1, <1>s, <2>2 DEF LoadSlot, Goto, See, TypeOK, is_node_marked, Others
    <3>2. Slot(t)' = Slot(t) /\ Absent(t)' = Absent(t)
      BY <3>1, SameSlot
    <3>3. pc'[t] = "cas_null" => Absent(t)
      BY <3>1, NullAbsent
    <3> QED BY <3>1, <3>2, <3>3 DEF Owns
  <2> QED BY <1>1, <2>1, <2>2 DEF LoadSlot
<1>2. CASE CasNull(t)
  <2>1. CASE Ret(t, 1)
    BY <1>0, <1>b, <2>1, RetLeaves
  <2>2. CASE Goto(t, "reload_null") /\ UNCHANGED <<arr, at, cur, exp, res>>
    <3>1. pc[t] = "cas_null" /\ pc'[t] = "reload_null" /\ Others(t)
          /\ UNCHANGED <<arr, pool, heap, arg, at>>
      BY <1>0, <1>2, <2>2 DEF CasNull, Goto, TypeOK, Others
    <3>2. Absent(t)' = Absent(t)
      BY <3>1, SameSlot
    <3> QED BY <3>1, <3>2 DEF Owns
  <2> QED BY <1>2, <2>1, <2>2 DEF CasNull
<1>3. CASE ReloadNull(t)
  <2>1. CASE is_array(Slot(t)) /\ Follow(t, Slot(t))
    BY <1>0, <1>s, <1>b, <2>1, FollowLoads
  <2>2. CASE ~is_array(Slot(t))
    <3>1. /\ UNCHANGED <<arr, pool, heap, arg, at>> /\ cur'[t] = Slot(t) /\ Others(t)
          /\ pc'[t] = "cmp_null" /\ pc[t] = "reload_null" /\ Slot(t) # Null
      BY <1>0, <1>3, <1>s, <2>2 DEF ReloadNull, Goto, See, TypeOK, is_node_marked, Others, Full
    <3>2. Absent(t) /\ Absent(t)' = Absent(t)
      BY <3>1, SameSlot DEF Owns
    <3>3. heap[Slot(t).ref].hash # arg[t].hash
      BY <1>s, <2>2, <3>1, <3>2 DEF Absent, is_array
    <3> QED BY <3>1, <3>2, <3>3 DEF Owns
  <2> QED BY <1>3, <2>1, <2>2 DEF ReloadNull
<1>4. CASE CmpNull(t)
  <2>1. CASE DropNew(t)
    BY <1>0, <1>b, <2>1, RetLeaves DEF DropNew
  <2>2. CASE Fail(t)
    BY <1>0, <1>b, <2>2, FailLeaves
  <2> QED BY <1>4, <2>1, <2>2 DEF CmpNull
<1>5. CASE CmpHash(t)
  <2>1. /\ pc'[t] \in {"cas_upd", "exp_load"} /\ pc[t] = "cmp" /\ Others(t)
        /\ UNCHANGED <<arr, pool, heap, arg, at>> /\ cur' = cur
    BY <1>0, <1>5 DEF CmpHash, Goto, TypeOK, Others, mem, loc
  <2>2. Slot(t)' = Slot(t)
    BY <2>1, SameSlot
  <2> QED BY <2>1, <2>2 DEF Owns
<1>6. CASE CasUpdate(t)
  <2>1. CASE Slot(t) = cur[t]
    <3>1. pc'[t] = "free"
      BY <1>0, <1>6, <2>1 DEF CasUpdate, Goto, TypeOK
    <3> QED BY <1>b, <3>1
  <2>2. CASE Slot(t) # cur[t]
    <3>1. /\ pc'[t] = "reload_upd" /\ pc[t] = "cas_upd" /\ Others(t)
          /\ UNCHANGED <<arr, pool, heap, arg, at>>
      BY <1>0, <1>6, <2>2 DEF CasUpdate, Goto, See, TypeOK, Others
    <3>2. Slot(t)' = Slot(t)
      BY <3>1, SameSlot
    <3>3. is_array(Slot(t))
      BY <1>0, <2>2, <3>1 DEF Owns, Knows
    <3> QED BY <3>1, <3>2, <3>3 DEF Owns, is_array
  <2> QED BY <2>1, <2>2
<1>7. CASE ReloadUpdate(t)
  <2>1. CASE is_array(Slot(t)) /\ Follow(t, Slot(t))
    BY <1>0, <1>s, <1>b, <2>1, FollowLoads
  <2>2. CASE DropNew(t)
    BY <1>0, <1>b, <2>2, RetLeaves DEF DropNew
  <2>3. CASE Goto(t, "exp_load")
    <3>1. pc'[t] = "exp_load"
      BY <1>0, <2>3 DEF Goto, TypeOK
    <3> QED BY <1>b, <3>1
  <2> QED BY <1>7, <2>1, <2>2, <2>3 DEF ReloadUpdate
<1>8. CASE FreeOld(t)
  BY <1>0, <1>b, <1>8, RetLeaves DEF FreeOld
<1>9. CASE ExpandLoad(t)
  <2>1. pc'[t] = "exp_fill"
    BY <1>0, <1>9 DEF ExpandLoad, Goto, TypeOK
  <2> QED BY <1>b, <2>1
<1>10. CASE ExpandFill(t)
  <2>1. CASE Fail(t)
    BY <1>0, <1>b, <2>1, FailLeaves
  <2>2. CASE Goto(t, "exp_cas")
    <3>1. pc'[t] = "exp_cas"
      BY <1>0, <2>2 DEF Goto, TypeOK
    <3> QED BY <1>b, <3>1
  <2> QED BY <1>10, <2>1, <2>2 DEF ExpandFill
<1>11. CASE ExpandCas(t)
  <2>1. CASE Fail(t)
    BY <1>0, <1>b, <2>1, FailLeaves
  <2>2. CASE Descend(t, exp[t].arr)
    <3>1. pc'[t] \in {"load", "ret"}
      BY <1>0, <2>2 DEF Descend, Ret, Goto, TypeOK
    <3> QED BY <1>b, <3>1
  <2> QED BY <1>11, <2>1, <2>2 DEF ExpandCas
<1>12. CASE MarkSlot(t)
  <2>1. pc'[t] = "load"
    BY <1>0, <1>12 DEF MarkSlot, Goto, TypeOK
  <2> QED BY <1>b, <2>1
<1> QED
  BY <1>1, <1>2, <1>3, <1>4, <1>5, <1>6, <1>7, <1>8, <1>9, <1>10, <1>11, <1>12 DEF InsertStep

\* The steps that do not insert.
LEMMA OwnOther ==
  ASSUME TypeOK, NEW t \in Threads, NEW h \in Hash,
         FindStep(t) \/ Return(t) \/ InvokeFind(t, h) \/ InvokeInsert(t, h)
  PROVE  Owns(t)'
<1>1. pc'[t] \in {"idle", "load", "ret"} \cup FindPCs
  BY RetLeaves DEF FindStep, FindLoad, FindCmp, FindValue, Return, InvokeFind, InvokeInsert,
                   Goto, See, TypeOK, FindPCs
<1> QED BY <1>1 DEF Owns, FindPCs

-----------------------------------------------------------------------------
(* Every step of the table is a step of the abstract map.                  *)

calls == [u \in Threads |-> CallOf(u)]

\* A step changes the call of its own thread only.
LEMMA CallsStep ==
  ASSUME MapInv, NEW t \in Threads, Effect(t)
  PROVE  calls' = [calls EXCEPT ![t] = CallOf(t)']
<1>0. TypeOK /\ HeapKept
  BY DEF MapInv, PathInv, NodesInv, TableInv, Effect, Leaves
<1>1. ASSUME NEW u \in Threads, u # t PROVE CallOf(u)' = CallOf(u)
  <2>1. /\ pc'[u] = pc[u] /\ cur'[u] = cur[u] /\ arg'[u] = arg[u] /\ res'[u] = res[u]
    BY <1>1 DEF Effect, Leaves, Others
  <2>2. ASSUME pc[u] \in {"f_cmp", "f_val"}
        PROVE  /\ heap'[cur[u].ref].hash = heap[cur[u].ref].hash
               /\ heap'[cur[u].ref].value = heap[cur[u].ref].value
    <3>1. Saw(u, cur[u])
      BY <2>2 DEF MapInv, PathInv, Reads
    <3> QED BY <1>0, <3>1 DEF Saw, HeapKept
  <2> QED BY <2>1, <2>2 DEF CallOf
<1> QED BY <1>1 DEF calls

\* What a call is at the pcs where it has taken nothing from the table yet, or
\* has its result.
LEMMA PlainCall ==
  ASSUME NEW t \in Threads, pc[t] \notin {"f_cmp", "f_val"}
  PROVE  CallOf(t) = [op |-> arg[t].op, hash |-> arg[t].hash, value |-> arg[t].value,
                      res |-> res[t]]
BY DEF CallOf

LEMMA PlainCallNext ==
  ASSUME NEW t \in Threads, pc'[t] \notin {"f_cmp", "f_val"}
  PROVE  CallOf(t)' = [op |-> arg'[t].op, hash |-> arg'[t].hash, value |-> arg'[t].value,
                       res |-> res'[t]]
BY DEF CallOf

Stutter == Content' = Content /\ calls' = calls
AbsStep == Stutter \/ Map!Next

\* A step of a call that is not seen.
LEMMA StutterStep ==
  ASSUME MapInv, NEW t \in Threads, Effect(t), ~Stores(t), CallOf(t)' = CallOf(t)
  PROVE  Stutter
<1>1. Content' = Content
  BY ContentStill, ContentExpand DEF Effect
<1>2. calls' = calls
  BY CallsStep DEF calls
<1> QED BY <1>1, <1>2 DEF Stutter

\* The store of a node.
LEMMA StoreStep ==
  ASSUME MapInv, NEW t \in Threads, Effect(t), Stores(t), res'[t] = 1,
         pc'[t] \notin {"f_cmp", "f_val"}
  PROVE  Map!Store(t)
<1>1. pc[t] \in InsertPCs /\ pc[t] \notin {"f_cmp", "f_val"}
  BY DEF Stores, InsertPCs
<1>2. arg[t].op = "insert" /\ res[t] = Pending
  BY <1>1 DEF MapInv, PathInv, Calls
<1>3. Content' = [Content EXCEPT ![arg[t].hash] = arg[t].value]
  BY ContentStore DEF Effect
<1>4. CallOf(t) = [op |-> "insert", hash |-> arg[t].hash, value |-> arg[t].value,
                   res |-> Pending]
  BY <1>1, <1>2, PlainCall
<1>5. CallOf(t)' = [op |-> "insert", hash |-> arg[t].hash, value |-> arg[t].value, res |-> 1]
  BY <1>2, PlainCallNext DEF Stores
<1>6. calls' = [calls EXCEPT ![t] = CallOf(t)']
  BY CallsStep
<1>7. CallOf(t)' = [CallOf(t) EXCEPT !.res = 1]
  BY <1>4, <1>5
<1>8. calls[t] = CallOf(t)
  BY DEF calls
<1>9. calls' = [calls EXCEPT ![t].res = 1]
  BY <1>6, <1>7, <1>8 DEF calls
<1>10. /\ calls[t].op = "insert" /\ calls[t].res = Pending
       /\ calls[t].hash = arg[t].hash /\ calls[t].value = arg[t].value
  BY <1>4, <1>8
<1>11. Content' = [Content EXCEPT ![calls[t].hash] = calls[t].value]
  BY <1>3, <1>10
<1> QED BY <1>9, <1>10, <1>11 DEF Map!Store, calls

\* The load that gives a find its answer.
LEMMA FetchStep ==
  ASSUME MapInv, NEW t \in Threads, Effect(t), ~Stores(t), pc[t] = "f_load", arg' = arg,
         CallOf(t)'.res = Lookup(arg[t].hash)
  PROVE  Map!Fetch(t)
<1>1. pc[t] \in FindPCs /\ pc[t] \notin {"f_cmp", "f_val"}
  BY DEF FindPCs
<1>2. arg[t].op = "find" /\ res[t] = Pending /\ arg[t].hash \in Hash
  BY <1>1 DEF MapInv, PathInv, Calls, NodesInv, TableInv, TypeOK, Call
<1>3. Content' = Content /\ Content[arg[t].hash] = Lookup(arg[t].hash)
  BY <1>2, ContentStill, ContentExpand DEF Effect, Content
<1>4. CallOf(t) = [op |-> "find", hash |-> arg[t].hash, value |-> arg[t].value,
                   res |-> Pending]
  BY <1>1, <1>2, PlainCall
<1>5. CallOf(t)' = [op |-> "find", hash |-> arg[t].hash, value |-> arg[t].value,
                    res |-> Lookup(arg[t].hash)]
  BY <1>2 DEF CallOf
<1>6. calls' = [calls EXCEPT ![t] = CallOf(t)']
  BY CallsStep
<1>7. CallOf(t)' = [CallOf(t) EXCEPT !.res = Content[arg[t].hash]]
  BY <1>3, <1>4, <1>5
<1>8. calls[t] = CallOf(t)
  BY DEF calls
<1>9. calls[t].op = "find" /\ calls[t].res = Pending /\ calls[t].hash = arg[t].hash
  BY <1>4, <1>8
<1>10. CallOf(t)' = [calls[t] EXCEPT !.res = Content[calls[t].hash]]
  BY <1>7, <1>8, <1>9
<1>11. calls' = [calls EXCEPT ![t].res = Content[calls[t].hash]]
  BY <1>6, <1>10 DEF calls
<1> QED BY <1>3, <1>9, <1>11 DEF Map!Fetch, calls

\* A step that stores the node of its thread is a store.
LEMMA StoreHappens ==
  ASSUME TypeOK, NEW t \in Threads, InsertStep(t),
         \/ pc[t] = "cas_null" /\ Slot(t) = Null
         \/ pc[t] = "cas_upd" /\ Slot(t) = cur[t]
  PROVE  Stores(t) /\ res'[t] = 1 /\ pc'[t] \notin {"f_cmp", "f_val"}
<1>1. CASE CasNull(t) /\ Slot(t) = Null
  <2>1. /\ arr' = SetSlot(t, arg[t].node) /\ Ret(t, 1) /\ pc[t] = "cas_null"
        /\ UNCHANGED <<pool, heap, arg>>
    BY <1>1 DEF CasNull
  <2>2. Others(t) /\ pc'[t] = "ret" /\ res'[t] = 1
    BY <2>1, RetMoves, RetLeaves DEF Moves
  <2>3. Published' = Published
    BY <2>1, <2>2, PublishedSame
  <2> QED BY <1>1, <2>1, <2>2, <2>3 DEF Stores
<1>2. CASE CasUpdate(t) /\ Slot(t) = cur[t]
  <2>1. /\ arr' = SetSlot(t, arg[t].node) /\ pc[t] = "cas_upd" /\ pc'[t] = "free"
        /\ UNCHANGED <<pool, heap, arg>> /\ Others(t) /\ res'[t] = 1
    BY <1>2 DEF CasUpdate, Others, Goto, TypeOK
  <2>2. Published' = Published
    BY <2>1, PublishedSame
  <2> QED BY <1>2, <2>1, <2>2 DEF Stores
<1> QED
  BY <1>1, <1>2 DEF InsertStep, MarkSlot, LoadSlot, CasNull, ReloadNull, CmpNull, CmpHash,
     CasUpdate, ReloadUpdate, FreeOld, ExpandLoad, ExpandFill, ExpandCas

\* Any other step of an insert leaves its result alone: with one writer per
\* hash no insert finds its hash brought in by another and drops its node.
LEMMA QuietInsertStep ==
  ASSUME ~Recycle, MapInv, NEW t \in Threads, Owns(t), InsertStep(t),
         ~(pc[t] = "cas_null" /\ Slot(t) = Null), ~(pc[t] = "cas_upd" /\ Slot(t) = cur[t])
  PROVE  res'[t] = res[t] /\ arg' = arg /\ pc[t] \notin FindPCs /\ pc'[t] \notin FindPCs
<1>0. /\ TypeOK /\ ArraysOwned /\ NodesOwned /\ Knows(t) /\ Reads(t) /\ Calls(t)
  BY DEF MapInv, PathInv, NodesInv, TableInv, NodesOwned
<1>a. PICK lev, rep : Trie(lev, rep)
  BY DEF MapInv, PathInv
<1>s. ~Slot(t).mark /\ (is_array(Slot(t)) => at[t].lvl < MAX_LVL)
  BY <1>0, <1>a, SlotSeen DEF MapInv, PathInv
<1>1. ASSUME pc[t] \in InsertPCs \cup {"free"}, arg' = arg, res'[t] = res[t],
             pc'[t] \in {"load", "mark", "reload_null", "reload_upd", "cmp_null", "cmp", "cas_null",
                         "cas_upd", "exp_load", "exp_fill", "exp_cas", "ret"}
      PROVE  res'[t] = res[t] /\ arg' = arg /\ pc[t] \notin FindPCs /\ pc'[t] \notin FindPCs
  BY <1>1 DEF InsertPCs, FindPCs
<1>2. CASE LoadSlot(t)
  <2>1. CASE is_array(Slot(t)) /\ Follow(t, Slot(t))
    BY <1>0, <1>1, <1>2, <1>s, <2>1, FollowLoads DEF LoadSlot, InsertPCs
  <2>2. CASE ~is_array(Slot(t))
    <3>1. pc'[t] \in {"exp_load", "cas_null", "cmp"} /\ res' = res /\ arg' = arg /\ pc[t] = "load"
      BY <1>0, <1>2, <2>2 DEF LoadSlot, Goto, TypeOK
    <3> QED BY <1>1, <3>1 DEF InsertPCs
  <2> QED BY <1>2, <2>1, <2>2 DEF LoadSlot
<1>3. CASE CasNull(t)
  <2>1. pc'[t] = "reload_null" /\ res' = res /\ arg' = arg /\ pc[t] = "cas_null"
    BY <1>0, <1>3 DEF CasNull, Goto, TypeOK
  <2> QED BY <1>1, <2>1 DEF InsertPCs
<1>4. CASE ReloadNull(t)
  <2>1. CASE is_array(Slot(t)) /\ Follow(t, Slot(t))
    BY <1>0, <1>1, <1>4, <1>s, <2>1, FollowLoads DEF ReloadNull, InsertPCs
  <2>2. CASE ~is_array(Slot(t))
    <3>1. /\ pc'[t] \in {"exp_load", "cmp_null"} /\ res' = res /\ arg' = arg
          /\ pc[t] = "reload_null"
      BY <1>0, <1>4, <2>2 DEF ReloadNull, Goto, TypeOK
    <3> QED BY <1>1, <3>1 DEF InsertPCs
  <2> QED BY <1>4, <2>1, <2>2 DEF ReloadNull
<1>5. CASE CmpNull(t)
  <2>1. pc[t] = "cmp_null" /\ Saw(t, cur[t]) /\ arg' = arg
    BY <1>0, <1>5 DEF CmpNull, Reads
  <2>2. HashEquals(cur[t], arg[t].hash) = {heap[cur[t].ref].hash = arg[t].hash}
    BY <2>1, ExactHash DEF Saw
  <2>3. heap[cur[t].ref].hash # arg[t].hash
    BY <2>1 DEF Owns
  <2>4. Fail(t)
    BY <1>5, <2>2, <2>3 DEF CmpNull
  <2> QED BY <1>0, <1>1, <2>1, <2>4, FailLeaves DEF InsertPCs
<1>6. CASE CmpHash(t)
  <2>1. pc'[t] \in {"cas_upd", "exp_load"} /\ res' = res /\ arg' = arg /\ pc[t] = "cmp"
    BY <1>0, <1>6 DEF CmpHash, Goto, TypeOK, loc
  <2> QED BY <1>1, <2>1 DEF InsertPCs
<1>7. CASE CasUpdate(t)
  <2>1. pc'[t] = "reload_upd" /\ res' = res /\ arg' = arg /\ pc[t] = "cas_upd"
    BY <1>0, <1>7 DEF CasUpdate, Goto, TypeOK
  <2> QED BY <1>1, <2>1 DEF InsertPCs
<1>8. CASE ReloadUpdate(t)
  <2>1. pc[t] = "reload_upd" /\ is_array(Slot(t)) /\ arg' = arg
    BY <1>8 DEF ReloadUpdate, Owns
  <2>2. Follow(t, Slot(t))
    BY <1>8, <2>1 DEF ReloadUpdate
  <2> QED BY <1>0, <1>1, <1>s, <2>1, <2>2, FollowLoads DEF InsertPCs
<1>9. CASE FreeOld(t)
  <2>1. pc[t] = "free" /\ res[t] = 1 /\ arg' = arg /\ Ret(t, 1)
    BY <1>0, <1>9 DEF FreeOld, Calls
  <2> QED BY <1>0, <1>1, <2>1, RetLeaves
<1>10. CASE ExpandLoad(t)
  <2>1. pc'[t] = "exp_fill" /\ res' = res /\ arg' = arg /\ pc[t] = "exp_load"
    BY <1>0, <1>10 DEF ExpandLoad, Goto, TypeOK
  <2> QED BY <1>1, <2>1 DEF InsertPCs
<1>11. CASE ExpandFill(t)
  <2>1. pc[t] = "exp_fill" /\ arg' = arg
    BY <1>11 DEF ExpandFill
  <2>2. CASE Fail(t)
    BY <1>0, <1>1, <2>1, <2>2, FailLeaves DEF InsertPCs
  <2>3. CASE Goto(t, "exp_cas") /\ UNCHANGED <<at, cur, res>>
    <3>1. pc'[t] = "exp_cas" /\ res' = res
      BY <1>0, <2>3 DEF Goto, TypeOK
    <3> QED BY <1>1, <2>1, <3>1 DEF InsertPCs
  <2> QED BY <1>11, <2>2, <2>3 DEF ExpandFill
<1>12. CASE ExpandCas(t)
  <2>1. pc[t] = "exp_cas" /\ arg' = arg /\ at[t].lvl < MAX_LVL
    BY <1>0, <1>12 DEF ExpandCas, Reads
  <2>2. CASE Fail(t)
    BY <1>0, <1>1, <2>1, <2>2, FailLeaves DEF InsertPCs
  <2>3. CASE Descend(t, exp[t].arr)
    <3>1. pc'[t] = "load" /\ res' = res
      BY <1>0, <2>1, <2>3 DEF Descend, Goto, TypeOK
    <3> QED BY <1>1, <2>1, <3>1 DEF InsertPCs
  <2> QED BY <1>12, <2>2, <2>3 DEF ExpandCas
<1>13. CASE MarkSlot(t)
  <2>1. pc'[t] = "load" /\ res' = res /\ arg' = arg /\ pc[t] = "mark"
    BY <1>0, <1>13 DEF MarkSlot, Goto, TypeOK, loc
  <2> QED BY <1>1, <2>1 DEF InsertPCs
<1> QED
  BY <1>2, <1>3, <1>4, <1>5, <1>6, <1>7, <1>8, <1>9, <1>10, <1>11, <1>12, <1>13 DEF InsertStep

\* An insert stores, or is not seen.
LEMMA InsertMaps ==
  ASSUME ~Recycle, MapInv, NEW t \in Threads, Owns(t), InsertStep(t), Effect(t)
  PROVE  AbsStep
<1>0. TypeOK
  BY DEF MapInv, PathInv, NodesInv, TableInv
<1>1. CASE \/ pc[t] = "cas_null" /\ Slot(t) = Null
           \/ pc[t] = "cas_upd" /\ Slot(t) = cur[t]
  <2>1. Map!Store(t)
    BY <1>0, <1>1, StoreHappens, StoreStep
  <2> QED BY <2>1 DEF AbsStep, Map!Next
<1>2. CASE ~(\/ pc[t] = "cas_null" /\ Slot(t) = Null
             \/ pc[t] = "cas_upd" /\ Slot(t) = cur[t])
  <2>1. res'[t] = res[t] /\ arg' = arg /\ pc[t] \notin FindPCs /\ pc'[t] \notin FindPCs
    BY <1>2, QuietInsertStep
  <2>2. CallOf(t)' = CallOf(t)
    BY <2>1, PlainCall, PlainCallNext DEF FindPCs
  <2>3. ~Stores(t)
    BY <1>2 DEF Stores
  <2> QED BY <2>2, <2>3, StutterStep DEF AbsStep
<1> QED BY <1>1, <1>2

\* A find takes its answer with its last load.
LEMMA FindMaps ==
  ASSUME ~Recycle, MapInv, NEW t \in Threads, FindStep(t), Effect(t)
  PROVE  AbsStep
<1>0. /\ TypeOK /\ ArraysOwned /\ NodesOwned /\ Reads(t) /\ Calls(t)
  BY DEF MapInv, PathInv, NodesInv, TableInv
<1>a. PICK lev, rep : Trie(lev, rep)
  BY DEF MapInv, PathInv
<1>b. Map!Fetch(t) => AbsStep
  BY DEF AbsStep, Map!Next
<1>c. CallOf(t)' = CallOf(t) /\ ~Stores(t) => AbsStep
  BY StutterStep DEF AbsStep
<1>d. ~Stores(t) /\ arg' = arg /\ heap' = heap
  BY DEF FindStep, FindLoad, FindCmp, FindValue, Stores, mem
<1>1. CASE FindLoad(t)
  <2>0. pc[t] = "f_load" /\ res[t] = Pending
    BY <1>0, <1>1 DEF FindLoad, Calls, FindPCs
  <2>1. /\ ~Slot(t).mark /\ Slot(t).kind \in {"null", "node", "array"}
        /\ is_array(Slot(t)) => at[t].lvl < MAX_LVL
        /\ LeafWord(arg[t].hash) = Slot(t) \/ is_array(Slot(t))
    BY <1>0, <1>a, SlotSeen, LeafOfCall DEF MapInv, PathInv
  <2>2. get_unmarked_node(Slot(t)) = Slot(t)
    BY <1>0, <2>1, SlotType DEF get_unmarked_node, Word
  <2>3. CASE UNCHANGED <<pc, cur, exp, res>>
    <3>1. CallOf(t)' = CallOf(t)
      BY <1>d, <2>0, <2>3, PlainCall, PlainCallNext
    <3> QED BY <1>c, <1>d, <3>1
  <2>4. CASE Slot(t) = Null /\ Ret(t, NoValue)
    <3>1. CallOf(t)'.res = NoValue
      BY <1>0, <2>4, RetLeaves, PlainCallNext
    <3>2. Lookup(arg[t].hash) = NoValue
      BY <2>1, <2>4 DEF Lookup, is_array, Null
    <3> QED BY <1>b, <1>d, <2>0, <3>1, <3>2, FetchStep
  <2>5. CASE Slot(t).kind = "node" /\ See(t, Slot(t)) /\ Goto(t, "f_cmp")
    <3>1. pc'[t] = "f_cmp" /\ cur'[t] = Slot(t)
      BY <1>0, <2>5 DEF See, Goto, TypeOK
    <3>2. LeafWord(arg[t].hash) = Slot(t)
      BY <2>1, <2>5 DEF is_array
    <3>3. CallOf(t)'.res = Lookup(arg[t].hash)
      BY <1>d, <2>5, <3>1, <3>2 DEF CallOf, Lookup
    <3> QED BY <1>b, <1>d, <2>0, <3>3, FetchStep
  <2>6. ~(is_array(Slot(t)) /\ at[t].lvl = MAX_LVL)
    BY <2>1, SizesAssumption
  <2>7. LET w == Slot(t) IN
        \/ is_array(w) /\ at[t].lvl < MAX_LVL /\ UNCHANGED <<pc, cur, exp, res>>
        \/ (w = Null \/ (is_array(w) /\ at[t].lvl = MAX_LVL)) /\ Ret(t, NoValue)
        \/ w.kind = "node" /\ See(t, w) /\ Goto(t, "f_cmp")
    BY <1>1, <2>2 DEF FindLoad
  <2> QED BY <2>3, <2>4, <2>5, <2>6, <2>7
<1>2. CASE FindCmp(t)
  <2>1. Saw(t, cur[t]) /\ pc[t] = "f_cmp"
    BY <1>0, <1>2 DEF FindCmp, Reads
  <2>2. HashEquals(cur[t], arg[t].hash) = {heap[cur[t].ref].hash = arg[t].hash}
    BY <2>1, ExactHash DEF Saw
  <2>3. CASE heap[cur[t].ref].hash = arg[t].hash
    <3>1. Goto(t, "f_val") /\ UNCHANGED <<at, cur, exp, res>>
      BY <1>2, <2>2, <2>3 DEF FindCmp
    <3>2. pc'[t] = "f_val"
      BY <1>0, <3>1 DEF Goto, TypeOK
    <3>3. CallOf(t)' = CallOf(t)
      BY <1>d, <2>1, <3>1, <3>2 DEF CallOf
    <3> QED BY <1>c, <1>d, <3>3
  <2>4. CASE heap[cur[t].ref].hash # arg[t].hash
    <3>1. Ret(t, NoValue)
      BY <1>2, <2>2, <2>4 DEF FindCmp
    <3>2. pc'[t] = "ret" /\ res'[t] = NoValue
      BY <1>0, <3>1, RetLeaves
    <3>3. CallOf(t)' = CallOf(t)
      BY <1>d, <2>1, <2>4, <3>2 DEF CallOf
    <3> QED BY <1>c, <1>d, <3>3
  <2> QED BY <2>3, <2>4
<1>3. CASE FindValue(t)
  <2>1. pc[t] = "f_val" /\ Saw(t, cur[t]) /\ heap[cur[t].ref].hash = arg[t].hash
    BY <1>0, <1>3 DEF FindValue, Reads
  <2>2. ReadValue(cur[t]) = {heap[cur[t].ref].value}
    BY <2>1 DEF ReadValue, Readable, Saw
  <2>3. Ret(t, heap[cur[t].ref].value)
    BY <1>3, <2>2 DEF FindValue
  <2>4. pc'[t] = "ret" /\ res'[t] = heap[cur[t].ref].value
    BY <1>0, <2>3, RetLeaves
  <2>5. CallOf(t)' = CallOf(t)
    BY <1>d, <2>1, <2>4 DEF CallOf
  <2> QED BY <1>c, <1>d, <2>5
<1> QED BY <1>1, <1>2, <1>3 DEF FindStep

\* A call begins, or returns.
LEMMA CallMaps ==
  ASSUME MapInv, NEW t \in Threads, NEW h \in Hash, Effect(t), Calls(t)',
         Return(t) \/ InvokeFind(t, h) \/ InvokeInsert(t, h)
  PROVE  AbsStep
<1>0. TypeOK /\ Calls(t)
  BY DEF MapInv, PathInv, NodesInv, TableInv
<1>1. pc[t] \in {"idle", "ret"} /\ pc'[t] \notin {"f_cmp", "f_val"} /\ ~Stores(t)
  BY <1>0 DEF Return, InvokeFind, InvokeInsert, Stores, Goto, TypeOK
<1>2. Content' = Content
  BY <1>1, ContentStill, ContentExpand DEF Effect
<1>3. calls' = [calls EXCEPT ![t] = CallOf(t)'] /\ calls[t] = CallOf(t)
  BY CallsStep DEF calls
<1>4. CallOf(t) = [op |-> arg[t].op, hash |-> arg[t].hash, value |-> arg[t].value,
                   res |-> res[t]]
  BY <1>1, PlainCall
<1>5. CallOf(t)' = [op |-> arg'[t].op, hash |-> arg'[t].hash, value |-> arg'[t].value,
                    res |-> res'[t]]
  BY <1>1, PlainCallNext
<1>6. arg[t] = NoArg /\ res[t] = Pending => calls[t] = Map!None
  BY <1>3, <1>4 DEF NoArg, Map!None
<1>7. CASE Return(t)
  <2>1. pc[t] = "ret" /\ pc'[t] = "idle" /\ arg'[t] = NoArg /\ res'[t] = Pending
    BY <1>0, <1>7 DEF Return, Goto, TypeOK
  <2>2. arg[t].op # "none" /\ res[t] # Pending
    BY <1>0, <2>1 DEF Calls
  <2>3. calls[t] # Map!None /\ calls[t].res # Pending
    BY <1>3, <1>4, <2>2 DEF Map!None
  <2>4. calls' = [calls EXCEPT ![t] = Map!None]
    BY <1>3, <1>5, <2>1 DEF NoArg, Map!None
  <2>5. Map!Return(t)
    BY <1>2, <2>3, <2>4 DEF Map!Return, calls
  <2> QED BY <2>5 DEF AbsStep, Map!Next
<1>8. CASE InvokeFind(t, h)
  <2>1. /\ pc[t] = "idle" /\ res' = res
        /\ arg'[t] = [op |-> "find", hash |-> h, value |-> NoValue, node |-> Null]
    BY <1>0, <1>8 DEF InvokeFind, TypeOK
  <2>2. arg[t] = NoArg /\ res[t] = Pending
    BY <1>0, <2>1 DEF Calls
  <2>3. calls' = [calls EXCEPT ![t] = [op |-> "find", hash |-> h, value |-> NoValue,
                                       res |-> Pending]]
    BY <1>3, <1>5, <2>1, <2>2
  <2>4. Map!InvokeFind(t, h)
    BY <1>2, <1>6, <2>2, <2>3 DEF Map!InvokeFind, calls
  <2> QED BY <2>4 DEF AbsStep, Map!Next
<1>9. CASE InvokeInsert(t, h)
  <2>1. pc[t] = "idle" /\ ops + 1 \in Value
    BY <1>0, <1>9, SizesAssumption DEF InvokeInsert, TypeOK, Value
  <2>2. arg[t] = NoArg /\ res[t] = Pending
    BY <1>0, <2>1 DEF Calls
  <2>3. /\ arg'[t].op = "insert" /\ arg'[t].hash = h /\ arg'[t].value = ops + 1
        /\ res'[t] \in {Pending, 0}
    BY <1>0, <1>9, <2>2 DEF InvokeInsert, TypeOK
  <2>4. PICK v \in Value, r \in {Pending, 0} : v = ops + 1 /\ r = res'[t]
    BY <2>1, <2>3
  <2>5. calls' = [calls EXCEPT ![t] = [op |-> "insert", hash |-> h, value |-> v, res |-> r]]
    BY <1>3, <1>5, <2>3, <2>4
  <2>6. Map!InvokeInsert(t, h, v)
    BY <1>2, <1>6, <2>2, <2>5 DEF Map!InvokeInsert, calls
  <2> QED BY <2>6 DEF AbsStep, Map!Next
<1> QED BY <1>7, <1>8, <1>9

\* The inductive invariant of those executions with one writer per hash.
OwnInv == MapInv /\ \A t \in Threads : Owns(t)

\* A step takes the table through one step of the abstract map, or none.
LEMMA OwnInvStep ==
  ASSUME ~Recycle, OneWriter, OwnInv, Tame, Tame', Next
  PROVE  (\A t \in Threads : Owns(t)') /\ AbsStep
<1>1. /\ MapInv /\ PathInv /\ NodesInv /\ NoMarks /\ (\E lev, rep : Trie(lev, rep))
      /\ \A t \in Threads : Owns(t) /\ Calls(t) /\ Reads(t)
      /\ TypeOK /\ ArraysOwned /\ \A t \in Threads : pc[t] # "mark"
  BY DEF OwnInv, MapInv, PathInv, NodesInv, TableInv, Tame
<1>2. ASSUME NEW t \in Threads, Effect(t), Owns(t)' PROVE \A u \in Threads : Owns(u)'
  <2> SUFFICES ASSUME NEW u \in Threads PROVE Owns(u)'
    OBVIOUS
  <2>1. CASE u = t
    BY <1>2, <2>1
  <2>2. CASE u # t
    BY <1>1, <1>2, <2>2, OthersOwn
  <2> QED BY <2>1, <2>2
<1>3. ASSUME NEW t \in Threads, NEW h \in Hash,
             \/ Return(t) \/ InvokeFind(t, h)
             \/ t \in Inserters /\ h \in HashesOf[t] /\ InvokeInsert(t, h)
      PROVE  (\A u \in Threads : Owns(u)') /\ AbsStep
  <2>1. Effect(t)
    BY <1>1, <1>3, OtherEffect
  <2>2. Calls(t)'
    BY <1>1, <1>3, LocalInvoke DEF Local
  <2>3. Owns(t)'
    BY <1>1, <1>3, OwnOther
  <2>4. AbsStep
    BY <1>1, <1>3, <2>1, <2>2, CallMaps
  <2> QED BY <1>2, <2>1, <2>3, <2>4
<1>4. CASE \E t \in Inserters : \E h \in HashesOf[t] : InvokeInsert(t, h)
  <2>1. PICK t \in Inserters : \E h \in HashesOf[t] : InvokeInsert(t, h)
    BY <1>4
  <2>2. PICK h \in HashesOf[t] : InvokeInsert(t, h)
    BY <2>1
  <2>3. t \in Threads /\ h \in Hash
    BY HashAssumption DEF Threads
  <2> QED BY <1>3, <2>2, <2>3
<1>5. CASE \E t \in Finders, h \in Hash : InvokeFind(t, h)
  <2>1. PICK t \in Finders, h \in Hash : InvokeFind(t, h)
    BY <1>5
  <2>2. t \in Threads
    BY DEF Threads
  <2> QED BY <1>3, <2>1, <2>2
<1>6. CASE \E t \in Threads : InsertStep(t)
  <2>1. PICK t \in Threads : InsertStep(t)
    BY <1>6
  <2>2. Effect(t)
    BY <1>1, <2>1, InsertEffect
  <2>3. Owns(t)'
    BY <1>1, <2>1, OwnStep
  <2>4. AbsStep
    BY <1>1, <2>1, <2>2, InsertMaps
  <2> QED BY <1>2, <2>2, <2>3, <2>4
<1>7. CASE \E t \in Threads : FindStep(t)
  <2>1. PICK t \in Threads : FindStep(t)
    BY <1>7
  <2>2. PICK h \in Hash : TRUE
    BY HashAssumption
  <2>3. Effect(t)
    BY <1>1, <2>1, <2>2, OtherEffect
  <2>4. Owns(t)'
    BY <1>1, <2>1, <2>2, OwnOther
  <2>5. AbsStep
    BY <1>1, <2>1, <2>3, FindMaps
  <2> QED BY <1>2, <2>3, <2>4, <2>5
<1>8. CASE \E t \in Threads : Return(t)
  <2>1. PICK t \in Threads : Return(t)
    BY <1>8
  <2>2. PICK h \in Hash : TRUE
    BY HashAssumption
  <2> QED BY <1>3, <2>1, <2>2
<1> QED BY <1>4, <1>5, <1>6, <1>7, <1>8 DEF Next

LEMMA OwnSame ==
  ASSUME UNCHANGED vars
  PROVE  (\A t \in Threads : Owns(t)' = Owns(t)) /\ Stutter
<1>1. arr' = arr /\ pool' = pool /\ heap' = heap /\ pc' = pc
      /\ arg' = arg /\ at' = at /\ cur' = cur /\ exp' = exp /\ res' = res
  BY DEF vars, mem, loc
<1>2. Published' = Published
  BY <1>1 DEF Published, Private
<1>3. \A t \in Threads : Slot(t)' = Slot(t) /\ Absent(t)' = Absent(t)
  BY <1>1, <1>2 DEF Slot, Pos, Absent
<1>4. \A t \in Threads : Owns(t)' = Owns(t)
  BY <1>1, <1>3 DEF Owns, is_array
<1>5. calls' = calls
  BY <1>1 DEF calls, CallOf
<1>6. Content' = Content
  BY <1>1 DEF Content, Lookup, LeafWord
<1> QED BY <1>4, <1>5, <1>6 DEF Stutter

LEMMA MapInit == ASSUME Init, MapInv PROVE Map!Init
<1>1. Published = {HeadArr} /\ \A s \in Slots : arr[HeadArr][s] = Null
  BY MemoryAssumption DEF Init, Private, Published, Empty
<1>2. TypeOK /\ \E lev, rep : Trie(lev, rep)
  BY DEF MapInv, PathInv, NodesInv, TableInv
<1>3. ASSUME NEW h \in Hash PROVE Lookup(h) = NoValue
  <2>1. LeafWord(h) = Null
    BY <1>1, <1>2, LeafSlot
  <2> QED BY <2>1 DEF Lookup, Null
<1>4. ASSUME NEW t \in Threads PROVE CallOf(t) = Map!None
  BY DEF Init, CallOf, NoArg, Map!None
<1> QED BY <1>3, <1>4 DEF Map!Init, Content

\* Where each hash has one writer, every execution in which no thread gives up
\* on a slot and no expansion loads an array is one of a map on which inserts
\* and finds are atomic: an insert takes effect with its successful exchange
\* (wtf_table.h:206, :230), a find with its last load (:292).
THEOREM ImplementsAtomicMapCorrect ==
  ~Recycle /\ OneWriter => (Spec /\ []Tame => ImplementsAtomicMap)
<1>1. CASE ~Recycle /\ OneWriter
  <2>1. Init => OwnInv /\ Map!Init
    <3> SUFFICES ASSUME Init PROVE OwnInv /\ Map!Init
      OBVIOUS
    <3>1. MapInv
      BY MapInvInit
    <3>2. \A t \in Threads : Owns(t)
      BY DEF Init, Owns
    <3> QED BY <3>1, <3>2, MapInit DEF OwnInv
  <2>2. OwnInv /\ Tame /\ Tame' /\ [Next]_vars => OwnInv' /\ AbsStep
    <3> SUFFICES ASSUME OwnInv, Tame, Tame', [Next]_vars PROVE OwnInv' /\ AbsStep
      OBVIOUS
    <3>1. MapInv'
      BY <1>1, MapInvNext DEF OwnInv
    <3>2. CASE Next
      BY <1>1, <3>1, <3>2, OwnInvStep DEF OwnInv
    <3>3. CASE UNCHANGED vars
      BY <3>1, <3>3, OwnSame DEF OwnInv, AbsStep
    <3> QED BY <3>2, <3>3
  <2>3. AbsStep => [Map!Next]_<<Content, [t \in Threads |-> CallOf(t)]>>
    BY DEF AbsStep, Stutter, calls
  <2> QED
    BY <2>1, <2>2, <2>3, PTL DEF Spec, ImplementsAtomicMap, Map!Spec
<1> QED BY <1>1

-----------------------------------------------------------------------------
(* One writer, and memory for every array: then no exchange of the writer  *)
(* fails, and the condition Tame holds of every execution.                 *)

SoleWriter == \A t, u \in Inserters : t = u

\* The writer finds in its slot what it has read there.
Steady(t) ==
  /\ pc[t] \in InsertPCs \cup {"free"} => t \in Inserters
  /\ pc[t] \notin {"mark", "reload_null", "cmp_null", "reload_upd"}
  /\ pc[t] = "cas_null" => Slot(t) = Null
  /\ pc[t] \in {"cmp", "cas_upd"} => Slot(t) = cur[t] /\ ~is_array(cur[t])
  /\ pc[t] = "exp_load" => ~is_array(Slot(t))
  /\ pc[t] \in {"exp_fill", "exp_cas"} => Slot(t) = exp[t].node
  /\ ~is_array(exp[t].node)
SteadyInv == TableInv /\ \A t \in Threads : Steady(t)

LEMMA SteadyOther ==
  ASSUME NEW t \in Threads, Leaves(t), NEW u \in Threads \ {t}, Steady(u),
         arr' = arr \/ pc[u] \notin InsertPCs
  PROVE  Steady(u)'
<1>1. pc'[u] = pc[u] /\ at'[u] = at[u] /\ cur'[u] = cur[u] /\ exp'[u] = exp[u] /\ arg'[u] = arg[u]
  BY DEF Leaves, Others
<1>2. arr' = arr => Slot(u)' = Slot(u)
  BY <1>1 DEF Slot, Pos
<1> QED BY <1>1, <1>2 DEF Steady, InsertPCs, is_array

\* A step to a place where nothing has been read.
LEMMA SteadyFresh ==
  ASSUME NEW t \in Threads, pc'[t] \in {"load", "ret", "idle", "wild", "free"} \cup FindPCs,
         exp'[t] = NoExp \/ exp'[t] = exp[t], Steady(t),
         pc'[t] \in {"load", "free"} => t \in Inserters
  PROVE  Steady(t)'
<1>1. ~is_array(exp'[t].node)
  BY DEF Steady, NoExp, Null, is_array
<1> QED BY <1>1 DEF Steady, InsertPCs, FindPCs, is_array

LEMMA SteadyInsertStep ==
  ASSUME TableInv, pool # {}, NEW t \in Threads, Steady(t), InsertStep(t)
  PROVE  Steady(t)'
<1>0. /\ TypeOK /\ ArraysOwned /\ pc[t] \notin {"mark", "reload_null", "cmp_null", "reload_upd"}
  BY DEF TableInv, Steady
<1>i. t \in Inserters
  BY DEF Steady, InsertPCs, InsertStep, MarkSlot, LoadSlot, CasNull, ReloadNull, CmpNull, CmpHash,
     CasUpdate, ReloadUpdate, FreeOld, ExpandLoad, ExpandFill, ExpandCas
<1>r. ASSUME NEW r, Ret(t, r) PROVE Steady(t)'
  <2>1. pc'[t] = "ret" /\ exp'[t] = NoExp
    BY <1>0, <1>r DEF Ret, Goto, TypeOK
  <2> QED BY <2>1, SteadyFresh
<1>d. ASSUME NEW i, Descend(t, i) PROVE Steady(t)'
  <2>1. CASE at[t].lvl < MAX_LVL
    <3>1. pc'[t] = "load" /\ exp'[t] = NoExp
      BY <1>0, <1>d, <2>1 DEF Descend, Goto, TypeOK
    <3> QED BY <1>i, <3>1, SteadyFresh
  <2> QED BY <1>d, <1>r, <2>1 DEF Descend
<1>s. ASSUME UNCHANGED <<arr, arg, at>> PROVE Slot(t)' = Slot(t)
  BY <1>s DEF Slot, Pos
<1>1. CASE LoadSlot(t)
  <2>1. CASE Follow(t, Slot(t))
    <3>1. CASE Goto(t, "wild") /\ exp' = exp
      <4>1. pc'[t] = "wild" /\ exp'[t] = exp[t]
        BY <1>0, <3>1 DEF Goto, TypeOK
      <4> QED BY <4>1, SteadyFresh
    <3> QED BY <1>d, <2>1, <3>1 DEF Follow
  <2>2. CASE ~is_array(Slot(t)) /\ See(t, Slot(t)) /\ UNCHANGED <<at, exp, leaked, res>>
    <3>1. /\ pc'[t] = "exp_load" \/ (pc'[t] = "cas_null" /\ Slot(t) = Null) \/ pc'[t] = "cmp"
          /\ cur'[t] = Slot(t) /\ exp' = exp /\ UNCHANGED <<arr, arg, at>>
      BY <1>0, <1>1, <2>2 DEF LoadSlot, Goto, See, TypeOK, is_array
    <3>2. Slot(t)' = Slot(t)
      BY <1>s, <3>1
    <3> QED BY <1>i, <2>2, <3>1, <3>2 DEF Steady, is_array, InsertPCs
  <2> QED BY <1>1, <2>1, <2>2 DEF LoadSlot
<1>2. CASE CasNull(t)
  <2>1. Slot(t) = Null
    BY <1>2 DEF CasNull, Steady
  <2> QED BY <1>2, <1>r, <2>1 DEF CasNull
<1>3. CASE CmpHash(t)
  <2>1. /\ pc'[t] \in {"cas_upd", "exp_load"} /\ pc[t] = "cmp" /\ cur' = cur /\ exp' = exp
        /\ UNCHANGED <<arr, arg, at>>
    BY <1>0, <1>3 DEF CmpHash, Goto, TypeOK, mem, loc
  <2>2. Slot(t)' = Slot(t)
    BY <1>s, <2>1
  <2> QED BY <1>i, <2>1, <2>2 DEF Steady, is_array
<1>4. CASE CasUpdate(t)
  <2>1. Slot(t) = cur[t] /\ exp' = exp
    BY <1>4 DEF CasUpdate, Steady
  <2>2. pc'[t] = "free"
    BY <1>0, <1>4, <2>1 DEF CasUpdate, Goto, TypeOK
  <2> QED BY <1>i, <2>1, <2>2, SteadyFresh
<1>5. CASE FreeOld(t)
  BY <1>5, <1>r DEF FreeOld
<1>6. CASE ExpandLoad(t)
  <2>1. /\ pc'[t] = "exp_fill" /\ exp'[t].node = Slot(t) /\ UNCHANGED <<arr, arg, at>>
        /\ pc[t] = "exp_load"
    BY <1>0, <1>6 DEF ExpandLoad, Goto, TypeOK, mem, Expansion
  <2>2. Slot(t)' = Slot(t) /\ ~is_array(Slot(t))
    BY <1>s, <2>1 DEF Steady
  <2> QED BY <1>i, <2>1, <2>2 DEF Steady, is_array
<1>7. CASE ExpandFill(t)
  <2>1. PICK i \in pool, p \in NewPos(exp[t].node, at[t].lvl) :
          /\ arr' = [arr EXCEPT ![i] = [Empty EXCEPT ![p] = exp[t].node]]
          /\ exp' = [exp EXCEPT ![t].arr = i]
          /\ Goto(t, "exp_cas")
          /\ UNCHANGED <<at, cur, res>>
    BY <1>7 DEF ExpandFill
  <2>2. /\ pc'[t] = "exp_cas" /\ exp'[t].node = exp[t].node /\ arg' = arg /\ at' = at
        /\ pc[t] = "exp_fill"
    BY <1>0, <1>7, <2>1 DEF ExpandFill, Goto, TypeOK, Expansion
  <2>3. at[t].arr # i /\ at[t].arr \in ArrId
    BY <1>0 DEF ArraysOwned, Published
  <2>4. Slot(t)' = Slot(t)
    BY <1>0, <2>1, <2>2, <2>3 DEF Slot, Pos, TypeOK
  <2> QED BY <1>i, <2>2, <2>4 DEF Steady, is_array
<1>8. CASE ExpandCas(t)
  <2>1. Slot(t) = exp[t].node
    BY <1>8 DEF ExpandCas, Steady
  <2> QED BY <1>8, <1>d, <2>1 DEF ExpandCas
<1> QED
  BY <1>0, <1>1, <1>2, <1>3, <1>4, <1>5, <1>6, <1>7, <1>8
  DEF InsertStep, MarkSlot, ReloadNull, CmpNull, ReloadUpdate

LEMMA SteadyOtherStep ==
  ASSUME TypeOK, NEW t \in Threads, NEW h \in Hash, Steady(t),
         \/ FindStep(t) \/ Return(t) \/ InvokeFind(t, h)
         \/ t \in Inserters /\ InvokeInsert(t, h)
  PROVE  Steady(t)'
<1>r. ASSUME NEW r, Ret(t, r) PROVE Steady(t)'
  <2>1. pc'[t] = "ret" /\ exp'[t] = NoExp
    BY <1>r DEF Ret, Goto, TypeOK
  <2> QED BY <2>1, SteadyFresh
<1>1. CASE FindStep(t)
  <2>1. CASE \E r : Ret(t, r)
    BY <1>r, <2>1
  <2>2. CASE ~\E r : Ret(t, r)
    <3>1. pc'[t] \in FindPCs /\ exp'[t] = exp[t]
      BY <1>1, <2>2 DEF FindStep, FindLoad, FindCmp, FindValue, FindPCs, Goto, TypeOK
    <3> QED BY <3>1, SteadyFresh DEF FindPCs
  <2> QED BY <2>1, <2>2
<1>2. CASE Return(t)
  <2>1. pc'[t] = "idle" /\ exp'[t] = exp[t]
    BY <1>2 DEF Return, Goto, TypeOK
  <2> QED BY <2>1, SteadyFresh
<1>3. CASE InvokeFind(t, h)
  <2>1. pc'[t] = "f_load" /\ exp'[t] = exp[t]
    BY <1>3 DEF InvokeFind, Goto, TypeOK
  <2> QED BY <2>1, SteadyFresh DEF FindPCs
<1>4. CASE t \in Inserters /\ InvokeInsert(t, h)
  <2>1. pc'[t] \in {"load", "ret"} /\ exp'[t] = exp[t]
    BY <1>4 DEF InvokeInsert, Goto, TypeOK
  <2> QED BY <1>4, <2>1, SteadyFresh
<1> QED BY <1>1, <1>2, <1>3, <1>4

LEMMA SteadyNext ==
  ASSUME ~Recycle, SoleWriter, SteadyInv, pool # {}, [Next]_vars
  PROVE  SteadyInv'
<1>0. TableInv /\ TableInv' /\ TypeOK /\ ArraysOwned /\ \A t \in Threads : Steady(t)
  BY TableInvNext DEF SteadyInv, TableInv
<1>1. CASE \E t \in Threads : InsertStep(t)
  <2>1. PICK t \in Threads : InsertStep(t)
    BY <1>1
  <2>2. Steady(t)' /\ pc[t] # "mark"
    BY <1>0, <2>1, SteadyInsertStep DEF Steady
  <2>3. Leaves(t)
    BY <1>0, <2>1, <2>2, InsertEffect DEF Effect
  <2>4. pc[t] \in InsertPCs \cup {"free"}
    BY <2>1 DEF InsertPCs, InsertStep, MarkSlot, LoadSlot, CasNull, ReloadNull, CmpNull, CmpHash,
       CasUpdate, ReloadUpdate, FreeOld, ExpandLoad, ExpandFill, ExpandCas
  <2>5. \A u \in Threads \ {t} : pc[u] \notin InsertPCs
    BY <1>0, <2>4 DEF Steady, SoleWriter
  <2>6. \A u \in Threads \ {t} : Steady(u)'
    BY <1>0, <2>3, <2>5, SteadyOther
  <2> QED BY <1>0, <2>2, <2>6 DEF SteadyInv
<1>2. ASSUME NEW t \in Threads, NEW h \in Hash,
             \/ FindStep(t) \/ Return(t) \/ InvokeFind(t, h)
             \/ t \in Inserters /\ InvokeInsert(t, h)
      PROVE  SteadyInv'
  <2>1. Leaves(t) /\ arr' = arr
    BY <1>0, <1>2, OtherEffect DEF Effect
  <2>2. Steady(t)'
    BY <1>0, <1>2, SteadyOtherStep
  <2>3. \A u \in Threads \ {t} : Steady(u)'
    BY <1>0, <2>1, SteadyOther
  <2> QED BY <1>0, <2>2, <2>3 DEF SteadyInv
<1>3. CASE UNCHANGED vars
  <2>1. \A t \in Threads : Steady(t)'
    BY <1>0, <1>3 DEF vars, mem, loc, Steady, Slot, Pos, is_array
  <2> QED BY <1>0, <2>1 DEF SteadyInv
<1>4. PICK g \in Hash : TRUE
  BY HashAssumption
<1>5. CASE \E t \in Inserters : \E h \in HashesOf[t] : InvokeInsert(t, h)
  <2>1. PICK t \in Inserters : \E h \in HashesOf[t] : InvokeInsert(t, h)
    BY <1>5
  <2>2. PICK h \in HashesOf[t] : InvokeInsert(t, h)
    BY <2>1
  <2>3. t \in Threads /\ h \in Hash
    BY HashAssumption DEF Threads
  <2> QED BY <1>2, <2>2, <2>3
<1>6. CASE \E t \in Finders, h \in Hash : InvokeFind(t, h)
  <2>1. PICK t \in Finders, h \in Hash : InvokeFind(t, h)
    BY <1>6
  <2>2. t \in Threads
    BY DEF Threads
  <2> QED BY <1>2, <2>1, <2>2
<1>7. CASE \E t \in Threads : FindStep(t) \/ Return(t)
  BY <1>2, <1>4, <1>7
<1> QED BY <1>1, <1>3, <1>5, <1>6, <1>7 DEF Next

\* With one writer, any number of readers and memory for every array no thread
\* gives up on a slot and no expansion loads an array.
THEOREM SoleWriterTame ==
  ~Recycle /\ SoleWriter => (Spec /\ [](pool # {}) => []Tame)
<1>1. CASE ~Recycle /\ SoleWriter
  <2>1. Init => SteadyInv
    <3> SUFFICES ASSUME Init PROVE SteadyInv
      OBVIOUS
    <3>1. \A t \in Threads : Steady(t)
      BY DEF Init, Steady, InsertPCs, NoExp, Null, is_array
    <3> QED BY <3>1, TableInvInit DEF SteadyInv
  <2>2. SteadyInv /\ pool # {} /\ [Next]_vars => SteadyInv'
    BY <1>1, SteadyNext
  <2>3. SteadyInv => Tame
    BY DEF SteadyInv, Steady, Tame
  <2> QED BY <2>1, <2>2, <2>3, PTL DEF Spec
<1> QED BY <1>1

\* So one writer and any number of readers see an atomic map.
THEOREM SoleWriterAtomic ==
  ~Recycle /\ SoleWriter => (Spec /\ [](pool # {}) => ImplementsAtomicMap)
<1>1. SoleWriter => OneWriter
  BY DEF SoleWriter, OneWriter
<1> QED BY <1>1, SoleWriterTame, ImplementsAtomicMapCorrect, PTL

-----------------------------------------------------------------------------
(* No key is lost, whoever else inserts it, as long as no thread gives up  *)
(* and marks a slot and no expansion loads an array.                       *)

\* A thread that has seen its hash in the table, or stored it, still finds it.
Added(t) ==
  /\ pc[t] \in {"cmp", "cmp_null"} /\ heap[cur[t].ref].hash = arg[t].hash =>
       arg[t].hash \in Held
  /\ pc[t] \in {"cas_upd", "reload_upd", "free"} => arg[t].hash \in Held
  /\ pc[t] = "ret" /\ arg[t].op = "insert" /\ res[t] = 1 => arg[t].hash \in Held
AddedInv == MapInv /\ \A t \in Threads : Added(t)

LEMMA HeldGrows ==
  ASSUME MapInv, NEW t \in Threads, Effect(t)
  PROVE  Held \subseteq Held' /\ (Stores(t) => arg[t].hash \in Held')
<1>0. TypeOK /\ arg[t].hash \in Hash
  BY DEF MapInv, PathInv, NodesInv, TableInv, TypeOK, Call
<1>1. CASE ~Stores(t)
  <2>0. Content' = Content
    BY <1>1, ContentStill, ContentExpand DEF Effect
  <2>1. \A h \in Hash : Lookup(h)' = Lookup(h)
    BY <2>0 DEF Content
  <2> QED BY <1>1, <2>1 DEF Held
<1>2. CASE Stores(t)
  <2>1. Content' = [Content EXCEPT ![arg[t].hash] = arg[t].value]
    BY <1>2, ContentStore DEF Effect
  <2>2. arg[t].value # NoValue
    BY <1>2, SizesAssumption DEF MapInv, PathInv, Calls, Stores, InsertPCs, Value, NoValue
  <2>3. \A h \in Hash : Lookup(h)' = IF h = arg[t].hash THEN arg[t].value ELSE Lookup(h)
    BY <1>0, <2>1 DEF Content
  <2> QED BY <1>0, <2>2, <2>3 DEF Held
<1> QED BY <1>1, <1>2

\* The node in the slot of a thread holds its hash, or it is another hash's.
LEMMA SlotHeld ==
  ASSUME MapInv, NEW t \in Threads, Slot(t).kind = "node",
         heap[Slot(t).ref].hash = arg[t].hash
  PROVE  arg[t].hash \in Held
<1>0. TypeOK /\ ArraysOwned
  BY DEF MapInv, PathInv, NodesInv, TableInv
<1>1. PICK lev, rep : Trie(lev, rep)
  BY DEF MapInv, PathInv
<1>2. PICK i \in Published, s \in Slots : Slot(t) = arr[i][s]
  BY <1>0, SlotType DEF ArraysOwned, Slot
<1>3. arg[t].hash \in Hash /\ LeafWord(arg[t].hash) = arr[i][s]
  BY <1>0, <1>1, <1>2, LeafOfNode
<1>4. Lookup(arg[t].hash) \in Value
  BY <1>2, <1>3 DEF Lookup, MapInv, TableValues
<1> QED BY <1>3, <1>4, SizesAssumption DEF Held, Value, NoValue

LEMMA AddedOther ==
  ASSUME MapInv, NEW t \in Threads, Effect(t), NEW u \in Threads \ {t}, Added(u)
  PROVE  Added(u)'
<1>1. /\ pc'[u] = pc[u] /\ cur'[u] = cur[u] /\ arg'[u] = arg[u] /\ res'[u] = res[u]
      /\ Held \subseteq Held'
  BY HeldGrows DEF Effect, Leaves, Others
<1>2. ASSUME pc[u] \in {"cmp", "cmp_null"}
      PROVE  heap'[cur[u].ref].hash = heap[cur[u].ref].hash
  <2>1. Saw(u, cur[u])
    BY <1>2 DEF MapInv, PathInv, Reads
  <2> QED BY <2>1 DEF Saw, Effect, Leaves, HeapKept
<1>3. (pc[u] \in {"cmp", "cmp_null"} /\ heap[cur[u].ref].hash = arg[u].hash =>
         arg[u].hash \in Held)'
  BY <1>1, <1>2 DEF Added
<1>4. (pc[u] \in {"cas_upd", "reload_upd", "free"} => arg[u].hash \in Held)'
  BY <1>1 DEF Added
<1>5. (pc[u] = "ret" /\ arg[u].op = "insert" /\ res[u] = 1 => arg[u].hash \in Held)'
  BY <1>1 DEF Added
<1> QED BY <1>3, <1>4, <1>5 DEF Added

LEMMA AddedInsertStep ==
  ASSUME ~Recycle, MapInv, NEW t \in Threads, Effect(t), Added(t), InsertStep(t)
  PROVE  Added(t)'
<1>0. /\ TypeOK /\ SlotsStayFull /\ Full(t) /\ Reads(t)
      /\ Held \subseteq Held' /\ (Stores(t) => arg[t].hash \in Held')
  BY HeldGrows DEF MapInv, PathInv, NodesInv, TableInv, SlotsStayFull
<1>a. PICK lev, rep : Trie(lev, rep)
  BY DEF MapInv, PathInv
<1>s. /\ ~Slot(t).mark /\ Slot(t).kind \in {"null", "node", "array"}
      /\ Slot(t).kind = "null" => Slot(t) = Null
      /\ is_array(Slot(t)) => at[t].lvl < MAX_LVL
  BY <1>a, SlotSeen DEF MapInv, PathInv, NodesInv, TableInv
<1>b. ASSUME pc'[t] \in {"load", "cas_null", "reload_null", "exp_load", "exp_fill", "exp_cas",
                         "mark"}
      PROVE  Added(t)'
  BY <1>b DEF Added
<1>h. ASSUME arg' = arg, arg[t].hash \in Held' PROVE Added(t)'
  BY <1>h DEF Added
<1>1. CASE LoadSlot(t)
  <2>1. CASE is_array(Slot(t)) /\ Follow(t, Slot(t))
    BY <1>0, <1>s, <1>b, <2>1, FollowLoads
  <2>2. CASE ~is_array(Slot(t))
    <3>1. /\ UNCHANGED <<heap, arg>> /\ cur'[t] = Slot(t)
          /\ pc'[t] = "cas_null" \/ (pc'[t] = "cmp" /\ Slot(t).kind = "node")
      BY <1>0, <1>1, <1>s, <2>2 DEF LoadSlot, Goto, See, TypeOK, is_node_marked, is_array
    <3> QED BY <1>0, <1>b, <3>1, SlotHeld DEF Added
  <2> QED BY <1>1, <2>1, <2>2 DEF LoadSlot
<1>2. CASE CasNull(t)
  <2>1. CASE Slot(t) = Null
    <3>1. Stores(t) /\ arg' = arg
      BY <1>0, <1>2, <2>1, StoreHappens DEF CasNull, InsertStep
    <3> QED BY <1>0, <1>h, <3>1
  <2>2. CASE Slot(t) # Null
    <3>1. pc'[t] = "reload_null"
      BY <1>0, <1>2, <2>2 DEF CasNull, Goto, TypeOK
    <3> QED BY <1>b, <3>1
  <2> QED BY <2>1, <2>2
<1>3. CASE ReloadNull(t)
  <2>1. CASE is_array(Slot(t)) /\ Follow(t, Slot(t))
    BY <1>0, <1>s, <1>b, <2>1, FollowLoads
  <2>2. CASE ~is_array(Slot(t))
    <3>1. /\ UNCHANGED <<heap, arg>> /\ cur'[t] = Slot(t)
          /\ pc'[t] = "cmp_null" /\ pc[t] = "reload_null" /\ Slot(t) # Null
      BY <1>0, <1>3, <1>s, <2>2 DEF ReloadNull, Goto, See, TypeOK, is_node_marked, Full
    <3>2. Slot(t).kind = "node"
      BY <1>s, <2>2, <3>1 DEF is_array
    <3> QED BY <1>0, <3>1, <3>2, SlotHeld DEF Added
  <2> QED BY <1>3, <2>1, <2>2 DEF ReloadNull
<1>4. CASE CmpNull(t)
  <2>1. pc[t] = "cmp_null" /\ Saw(t, cur[t]) /\ arg' = arg
    BY <1>0, <1>4 DEF CmpNull, Reads
  <2>2. HashEquals(cur[t], arg[t].hash) = {heap[cur[t].ref].hash = arg[t].hash}
    BY <2>1, ExactHash DEF Saw
  <2>3. CASE heap[cur[t].ref].hash = arg[t].hash
    BY <1>0, <1>h, <2>1, <2>3 DEF Added
  <2>4. CASE heap[cur[t].ref].hash # arg[t].hash
    <3>1. Fail(t)
      BY <1>4, <2>2, <2>4 DEF CmpNull
    <3> QED BY <1>0, <1>b, <3>1, FailLeaves
  <2> QED BY <2>3, <2>4
<1>5. CASE CmpHash(t)
  <2>1. pc[t] = "cmp" /\ Saw(t, cur[t]) /\ arg' = arg
    BY <1>0, <1>5 DEF CmpHash, Reads, loc
  <2>2. HashEquals(cur[t], arg[t].hash) = {heap[cur[t].ref].hash = arg[t].hash}
    BY <2>1, ExactHash DEF Saw
  <2>3. CASE heap[cur[t].ref].hash = arg[t].hash
    BY <1>0, <1>h, <2>1, <2>3 DEF Added
  <2>4. CASE heap[cur[t].ref].hash # arg[t].hash
    <3>1. pc'[t] = "exp_load"
      BY <1>0, <1>5, <2>2, <2>4 DEF CmpHash, Goto, TypeOK
    <3> QED BY <1>b, <3>1
  <2> QED BY <2>3, <2>4
<1>6. CASE CasUpdate(t) \/ ReloadUpdate(t) \/ FreeOld(t)
  <2>1. pc[t] \in {"cas_upd", "reload_upd", "free"} /\ arg' = arg
    BY <1>6 DEF CasUpdate, ReloadUpdate, FreeOld
  <2> QED BY <1>0, <1>h, <2>1 DEF Added
<1>7. CASE ExpandLoad(t)
  BY <1>0, <1>b, <1>7 DEF ExpandLoad, Goto, TypeOK
<1>8. CASE ExpandFill(t)
  <2>1. CASE Fail(t)
    BY <1>0, <1>b, <2>1, FailLeaves
  <2>2. CASE Goto(t, "exp_cas")
    BY <1>0, <1>b, <2>2 DEF Goto, TypeOK
  <2> QED BY <1>8, <2>1, <2>2 DEF ExpandFill
<1>9. CASE ExpandCas(t)
  <2>1. pc[t] = "exp_cas" /\ at[t].lvl < MAX_LVL
    BY <1>0, <1>9 DEF ExpandCas, Reads
  <2>2. CASE Fail(t)
    BY <1>0, <1>b, <2>2, FailLeaves
  <2>3. CASE Descend(t, exp[t].arr)
    BY <1>0, <1>b, <2>1, <2>3 DEF Descend, Goto, TypeOK
  <2> QED BY <1>9, <2>2, <2>3 DEF ExpandCas
<1>10. CASE MarkSlot(t)
  BY <1>0, <1>b, <1>10 DEF MarkSlot, Goto, TypeOK
<1> QED
  BY <1>1, <1>2, <1>3, <1>4, <1>5, <1>6, <1>7, <1>8, <1>9, <1>10 DEF InsertStep

LEMMA AddedOtherStep ==
  ASSUME TypeOK, NEW t \in Threads, NEW h \in Hash, Calls(t),
         FindStep(t) \/ Return(t) \/ InvokeFind(t, h) \/ InvokeInsert(t, h)
  PROVE  Added(t)'
<1>1. \/ pc'[t] \in {"idle", "load"} \cup FindPCs
      \/ pc'[t] = "ret" /\ (arg'[t].op = "find" \/ res'[t] = 0)
  <2>1. CASE FindStep(t)
    <3>1. arg[t].op = "find" /\ arg' = arg
      BY <2>1 DEF Calls, FindPCs, FindStep, FindLoad, FindCmp, FindValue
    <3>2. pc'[t] \in {"ret"} \cup FindPCs
      BY <2>1, RetLeaves DEF FindStep, FindLoad, FindCmp, FindValue, Goto, See, TypeOK, FindPCs
    <3> QED BY <3>1, <3>2
  <2>2. CASE Return(t) \/ InvokeFind(t, h) \/ InvokeInsert(t, h)
    BY <2>2 DEF Return, InvokeFind, InvokeInsert, Goto, TypeOK, FindPCs
  <2> QED BY <2>1, <2>2
<1>2. 0 # 1
  OBVIOUS
<1> QED BY <1>1, <1>2 DEF Added, FindPCs

LEMMA AddedStep ==
  ASSUME ~Recycle, AddedInv, Tame, Tame', Next
  PROVE  (\A t \in Threads : Added(t)') /\ Held \subseteq Held'
<1>1. /\ MapInv /\ TypeOK /\ ArraysOwned
      /\ \A t \in Threads : Added(t) /\ Calls(t) /\ pc[t] # "mark"
  BY DEF AddedInv, MapInv, PathInv, NodesInv, TableInv, Tame
<1>2. ASSUME NEW t \in Threads, Effect(t), Added(t)'
      PROVE  (\A u \in Threads : Added(u)') /\ Held \subseteq Held'
  <2>1. ASSUME NEW u \in Threads PROVE Added(u)'
    <3>1. CASE u = t
      BY <1>2, <3>1
    <3>2. CASE u # t
      BY <1>1, <1>2, <3>2, AddedOther
    <3> QED BY <3>1, <3>2
  <2> QED BY <1>1, <1>2, <2>1, HeldGrows
<1>3. ASSUME NEW t \in Threads, NEW h \in Hash,
             FindStep(t) \/ Return(t) \/ InvokeFind(t, h) \/ InvokeInsert(t, h)
      PROVE  (\A u \in Threads : Added(u)') /\ Held \subseteq Held'
  BY <1>1, <1>2, <1>3, OtherEffect, AddedOtherStep
<1>4. CASE \E t \in Inserters : \E h \in HashesOf[t] : InvokeInsert(t, h)
  <2>1. PICK t \in Inserters : \E h \in HashesOf[t] : InvokeInsert(t, h)
    BY <1>4
  <2>2. PICK h \in HashesOf[t] : InvokeInsert(t, h)
    BY <2>1
  <2>3. t \in Threads /\ h \in Hash
    BY HashAssumption DEF Threads
  <2> QED BY <1>3, <2>2, <2>3
<1>5. CASE \E t \in Finders, h \in Hash : InvokeFind(t, h)
  BY <1>3, <1>5 DEF Threads
<1>6. CASE \E t \in Threads : InsertStep(t)
  <2>1. PICK t \in Threads : InsertStep(t)
    BY <1>6
  <2>2. Effect(t)
    BY <1>1, <2>1, InsertEffect
  <2>3. Added(t)'
    BY <1>1, <2>1, <2>2, AddedInsertStep
  <2> QED BY <1>2, <2>2, <2>3
<1>7. CASE \E t \in Threads : FindStep(t) \/ Return(t)
  <2>1. PICK h \in Hash : TRUE
    BY HashAssumption
  <2> QED BY <1>3, <1>7, <2>1
<1> QED BY <1>4, <1>5, <1>6, <1>7 DEF Next

LEMMA AddedInvNext ==
  ~Recycle /\ AddedInv /\ Tame /\ Tame' /\ [Next]_vars => AddedInv' /\ Held \subseteq Held'
<1> SUFFICES ASSUME ~Recycle, AddedInv, Tame, Tame', [Next]_vars
             PROVE  AddedInv' /\ Held \subseteq Held'
  OBVIOUS
<1>1. MapInv'
  BY MapInvNext DEF AddedInv
<1>2. CASE Next
  BY <1>1, <1>2, AddedStep DEF AddedInv
<1>3. CASE UNCHANGED vars
  <2>1. arr' = arr /\ heap' = heap /\ pc' = pc /\ arg' = arg /\ cur' = cur /\ res' = res
    BY <1>3 DEF vars, mem, loc
  <2>2. Held' = Held
    BY <2>1 DEF Held, Lookup, LeafWord
  <2>3. \A t \in Threads : Added(t)' = Added(t)
    BY <2>1, <2>2 DEF Added
  <2> QED BY <1>1, <2>2, <2>3 DEF AddedInv
<1> QED BY <1>2, <1>3

LEMMA AddedInvInit == Init => AddedInv
<1>1. Init => \A t \in Threads : Added(t)
  BY DEF Init, Added
<1> QED BY <1>1, MapInvInit DEF AddedInv

\* No step takes a key out of the table, or hides it, whichever threads insert
\* and update the same keys, as long as no thread gives up on a slot and no
\* expansion loads an array.
THEOREM HeldOnlyGrows ==
  ~Recycle => (Spec /\ []Tame => [][Held \subseteq Held']_vars)
<1>1. CASE ~Recycle
  <2>1. AddedInv /\ Tame /\ Tame' /\ [Next]_vars => AddedInv' /\ Held \subseteq Held'
    BY <1>1, AddedInvNext
  <2> QED BY <2>1, AddedInvInit, PTL DEF Spec
<1> QED BY <1>1

\* In such an execution the key of an insert that returns true is in the table,
\* also where the insert has dropped its node for that of another thread
\* (wtf_table.h:157, :222, :248): InsertAdds needs a mark or the array of
\* another expansion to fail.
THEOREM InsertedIsHeld ==
  ~Recycle => (Spec /\ []Tame =>
    [](\A t \in Threads : pc[t] = "ret" /\ arg[t].op = "insert" /\ res[t] = 1 =>
                            arg[t].hash \in Held))
<1>1. CASE ~Recycle
  <2>1. AddedInv /\ Tame /\ Tame' /\ [Next]_vars => AddedInv'
    BY <1>1, AddedInvNext
  <2>2. AddedInv => \A t \in Threads : pc[t] = "ret" /\ arg[t].op = "insert" /\ res[t] = 1 =>
                                         arg[t].hash \in Held
    BY DEF AddedInv, Added
  <2> QED BY <2>1, <2>2, AddedInvInit, PTL DEF Spec
<1> QED BY <1>1
=============================================================================
