------------------------------ MODULE MCWtfTable ------------------------------
(***************************************************************************)
(* Instances of the table with slots of two words and three levels.  kA    *)
(* and kB share their slot at level 0 only; kA and kC share the slots of   *)
(* levels 0 and 1 and part at the last level.                              *)
(***************************************************************************)
EXTENDS WtfTable

CONSTANTS w1, w2, r1

kA == [l \in 0 .. MAX_LVL |-> 0]
kB == [l \in 0 .. MAX_LVL |-> IF l = 1 THEN 1 ELSE 0]
kC == [l \in 0 .. MAX_LVL |-> IF l = 2 THEN 1 ELSE 0]

OneKey    == {kA}
TwoKeys   == {kA, kB}
DeepKeys  == {kA, kC}
ThreeKeys == {kA, kB, kC}

\* Who inserts what.
EveryoneAll == [t \in Inserters |-> Hash]
OwnKey      == [t \in Inserters |-> IF t = w1 THEN {kA} ELSE {kB}]
OwnDeepKey  == [t \in Inserters |-> IF t = w1 THEN {kA} ELSE {kC}]
=============================================================================
