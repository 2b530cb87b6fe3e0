---------------------------- MODULE FrequencyDict ----------------------------
(***************************************************************************)
(* What frequency_dict.h promises of the hash map it fills: a word is      *)
(* handed over, and before the next one its count has grown by exactly    *)
(* one, no other count having moved.                                       *)
(***************************************************************************)
EXTENDS Naturals

CONSTANTS Key, Nobody

VARIABLES counts,   \* how often each word was seen
          word      \* the word being counted, Nobody between two words

dvars == <<counts, word>>

Init == counts = [k \in Key |-> 0] /\ word = Nobody

Take(k) == word = Nobody /\ word' = k /\ UNCHANGED counts

Count == /\ word # Nobody
         /\ counts' = [counts EXCEPT ![word] = @ + 1]
         /\ word' = Nobody

Next == Count \/ \E k \in Key : Take(k)

Spec == Init /\ [][Next]_dvars
==============================================================================
