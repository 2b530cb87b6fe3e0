------------------------------- MODULE AsmList -------------------------------
(***************************************************************************)
(* asm/c: the program of the assembly sandbox in C: builds a linked list,  *)
(* prints it, filters the odd values into a second list, prints that and   *)
(* frees both.                                                             *)
(*                                                                         *)
(* malloc returns any address that is free, that of a freed node at once.  *)
(***************************************************************************)
EXTENDS Integers, SequencesExt

CONSTANTS data,      \* the values
          Address,   \* what malloc may return
          NULL

\* what is assumed of the constants
DataAssumption == data \in Seq(Int) /\ data # <<>> /\ NULL \notin Address

VARIABLES heap,          \* nodes by their address
          list, odd_list,
          num,           \* values not in the list yet
          n,             \* the node a loop is at
          printed,
          pc             \* the loop main is in

vars == <<heap, list, odd_list, num, n, printed, pc>>

Node == [val : Int, next : Address \cup {NULL}]

is_odd(val) == val % 2 = 1

----------------------------------------------------------------------------
Init == /\ heap = << >>
        /\ list = NULL /\ odd_list = NULL
        /\ num = Len(data)
        /\ n = NULL
        /\ printed = <<>>
        /\ pc = "build"

\* the heap with a node more, at an address that malloc returns
add_element(a, val, next) ==
    [b \in DOMAIN heap \cup {a} |-> IF b = a THEN [val |-> val, next |-> next] ELSE heap[b]]
Free == Address \ DOMAIN heap

\* no memory: abort
NoMemory == /\ pc = "build" \/ (pc = "filter" /\ n \in DOMAIN heap /\ is_odd(heap[n].val))
            /\ pc' = "abort"
            /\ UNCHANGED <<heap, list, odd_list, num, n, printed>>

\* the last value first
Build == /\ pc = "build"
         /\ \E a \in Free : heap' = add_element(a, data[num], list) /\ list' = a
         /\ num' = num - 1
         /\ IF num = 1 THEN pc' = "print" /\ n' = list' ELSE UNCHANGED <<pc, n>>
         /\ UNCHANGED <<odd_list, printed>>

\* m: prints the node and goes on
m == /\ pc \in {"print", "print_odd"} /\ n \in DOMAIN heap
     /\ printed' = Append(printed, heap[n].val)
     /\ n' = heap[n].next
     /\ UNCHANGED <<heap, list, odd_list, num, pc>>

\* mutant: the node itself is the head of the result, as nothing is copied
f_Shared == /\ pc = "filter" /\ n \in DOMAIN heap
            /\ odd_list' = IF is_odd(heap[n].val) THEN n ELSE odd_list
            /\ n' = heap[n].next
            /\ UNCHANGED <<heap, list, num, printed, pc>>

\* f: a copy of an odd node goes in front of the result
f == /\ pc = "filter" /\ n \in DOMAIN heap
     /\ IF is_odd(heap[n].val)
        THEN \E a \in Free : heap' = add_element(a, heap[n].val, odd_list) /\ odd_list' = a
        ELSE UNCHANGED <<heap, odd_list>>
     /\ n' = heap[n].next
     /\ UNCHANGED <<list, num, printed, pc>>

\* remove_list: the next node is read before this one is freed
remove_list == /\ pc \in {"remove", "remove_odd"} /\ n \in DOMAIN heap
               /\ heap' = [b \in DOMAIN heap \ {n} |-> heap[b]]
               /\ n' = heap[n].next
               /\ UNCHANGED <<list, odd_list, num, printed, pc>>

\* the loop main runs next, and the list it starts at
After(p) == CASE p = "print"      -> <<"filter", list>>
              [] p = "filter"     -> <<"print_odd", odd_list>>
              [] p = "print_odd"  -> <<"remove", list>>
              [] p = "remove"     -> <<"remove_odd", odd_list>>
              [] p = "remove_odd" -> <<"end", NULL>>

EndOfLoop == /\ pc \notin {"build", "end", "abort"} /\ n = NULL
             /\ pc' = After(pc)[1] /\ n' = After(pc)[2]
             /\ UNCHANGED <<heap, list, odd_list, num, printed>>

Next == NoMemory \/ Build \/ m \/ f \/ remove_list \/ EndOfLoop

Spec == Init /\ [][Next]_vars /\ WF_vars(Next)

----------------------------------------------------------------------------
(* Properties.                                                             *)

TypeOK == /\ heap \in [DOMAIN heap -> Node] /\ DOMAIN heap \subseteq Address
          /\ {list, odd_list, n} \subseteq Address \cup {NULL}
          /\ num \in 0..Len(data)
          /\ printed \in Seq(Int)
          /\ pc \in {"build", "print", "filter", "print_odd", "remove", "remove_odd",
                     "end", "abort"}

\* the odd ones of some values
Odd(vs) == FlattenSeq([k \in DOMAIN vs |-> IF is_odd(vs[k]) THEN <<vs[k]>> ELSE <<>>])

\* The program prints the values in their order and then the odd ones, last one
\* first.
PrintsLists == pc = "end" => printed = data \o Reverse(Odd(data))

\* No loop uses a node that was freed, and at the end none is left ("fixed
\* memory leaks", asm/README.md:7).
NoWildNode    == n \in DOMAIN heap \cup {NULL}
NothingLeaked == pc = "end" => DOMAIN heap = {}

\* The program has ended.
Ended == pc \in {"end", "abort"}
=============================================================================
