------------------------------ MODULE MCHashMap ------------------------------
(* Words and hash values for TLC.                                          *)
EXTENDS HashMap, TLC

CONSTANTS kA, kB, kC, kD, kE

FourWords == {kA, kB, kC, kD}
FiveWords == {kA, kB, kC, kD, kE}

\* All four collide in a map of four nodes, three still do among eight and
\* three of the four have the slot 0 of sixteen; every probe sequence visits
\* all the slots.
Colliding == (kA :> 0) @@ (kB :> 15) @@ (kC :> 45) @@ (kD :> 21)

\* Among sixteen nodes (count = 15) the step of these four is 5: their probes
\* visit three slots.
ThreeSlots == (kA :> 60) @@ (kB :> 200) @@ (kC :> 130) @@ (kD :> 270)

\* Among 28 nodes (count = 27) the step of the first four is 9.  The slots of the
\* fifth among 14 nodes are 6 and 0 at its first two attempts.
ThreeSlotsOf28 == (kA :> 216) @@ (kB :> 684) @@ (kC :> 450) @@ (kD :> 918) @@ (kE :> 6)
==============================================================================
