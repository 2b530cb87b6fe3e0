------------------------------ MODULE AtomicMap ------------------------------
(***************************************************************************)
(* What wtf_table.h promises its callers: a map from hashes to values on   *)
(* which every insert and every find takes effect at one instant between   *)
(* its call and its return.  An insert that finds no memory returns false  *)
(* and changes nothing.                                                    *)
(***************************************************************************)
EXTENDS Integers

CONSTANTS Threads, Hash, Value, NoValue, Pending

VARIABLES map,   \* the value of every hash, or NoValue
          call   \* the call each thread is in

None == [op |-> "none", hash |-> CHOOSE h \in Hash : TRUE, value |-> NoValue,
         res |-> Pending]

Init == /\ map  = [h \in Hash |-> NoValue]
        /\ call = [t \in Threads |-> None]

InvokeInsert(t, h, v) ==
  /\ call[t] = None
  /\ \E r \in {Pending, 0} :
       call' = [call EXCEPT ![t] = [op |-> "insert", hash |-> h, value |-> v,
                                    res |-> r]]
  /\ UNCHANGED map

InvokeFind(t, h) ==
  /\ call[t] = None
  /\ call' = [call EXCEPT ![t] = [op |-> "find", hash |-> h,
                                  value |-> NoValue, res |-> Pending]]
  /\ UNCHANGED map

Store(t) ==
  /\ call[t].op = "insert" /\ call[t].res = Pending
  /\ map'  = [map EXCEPT ![call[t].hash] = call[t].value]
  /\ call' = [call EXCEPT ![t].res = 1]

Fetch(t) ==
  /\ call[t].op = "find" /\ call[t].res = Pending
  /\ call' = [call EXCEPT ![t].res = map[call[t].hash]]
  /\ UNCHANGED map

Return(t) ==
  /\ call[t] # None /\ call[t].res # Pending
  /\ call' = [call EXCEPT ![t] = None]
  /\ UNCHANGED map

Next == \E t \in Threads :
          \/ \E h \in Hash : InvokeFind(t, h) \/ \E v \in Value : InvokeInsert(t, h, v)
          \/ Store(t) \/ Fetch(t) \/ Return(t)

Spec == Init /\ [][Next]_<<map, call>>
=============================================================================
