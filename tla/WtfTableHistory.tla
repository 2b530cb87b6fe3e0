--------------------------- MODULE WtfTableHistory ---------------------------
(***************************************************************************)
(* The table with a record of what its callers were told.  The variables   *)
(* added here only observe: they restrict no step of WtfTable.             *)
(***************************************************************************)
EXTENDS WtfTable, FiniteSetsExt

VARIABLES
  poss,    \* the abstract maps, with the results of the calls in progress,
           \* that some order of the calls so far explains
  stored,  \* hashes for which an insert has returned true
  sure     \* threads whose find was called with its hash in stored

hvars == <<vars, poss, stored, sure>>

Config0 == [map |-> [h \in Hash |-> NoValue], res |-> [t \in Threads |-> Pending]]

HInit == Init /\ poss = {Config0} /\ stored = {} /\ sure = {}

\* The calls in progress that may take effect now.
Store(c, t) == [c EXCEPT !.map[arg[t].hash] = arg[t].value, !.res[t] = 1]
Fetch(c, t) == [c EXCEPT !.res[t] = c.map[arg[t].hash]]
Refuse(c, t) == [c EXCEPT !.res[t] = 0]

Effects(c, t) ==
  CASE c.res[t] # Pending \/ pc[t] = "idle" -> {}
    [] arg[t].op = "find"  -> {Fetch(c, t)}
    [] arg[t].node = Null  -> {Refuse(c, t)}
    [] OTHER               -> {Store(c, t), Refuse(c, t)}

\* Every pending call takes effect at most once, so |Threads| rounds suffice.
Closure(S) ==
  LET round(n, X) == X \cup UNION {Effects(c, t) : c \in X, t \in Threads}
  IN  FoldSet(round, S, 1 .. Cardinality(Threads))

Explained(t) == {[c EXCEPT !.res[t] = Pending] :
                   c \in {d \in Closure(poss) : d.res[t] = res[t]}}

Returning == {t \in Threads : pc[t] = "ret" /\ pc'[t] = "idle"}

HNext ==
  /\ Next
  /\ poss' = IF Returning = {} THEN poss
             ELSE Explained(CHOOSE t \in Threads : t \in Returning)
  /\ stored' = stored \cup {arg[t].hash : t \in
                 {u \in Returning : arg[u].op = "insert" /\ res[u] = 1}}
  /\ sure' = {t \in Threads : IF pc[t] = "idle"
                              THEN arg'[t].op = "find" /\ arg'[t].hash \in stored
                              ELSE t \in sure /\ pc'[t] # "idle"}

HSpec == HInit /\ [][HNext]_hvars

-----------------------------------------------------------------------------
\* Properties.

\* Every call behaves as if it took effect at one instant between its call and
\* its return (the comments "LP" of wtf_table.h:199-236 mark these instants):
\* some order of the calls, respecting the order of calls that do not overlap,
\* explains every result returned so far.
Linearizable == poss # {}

\* Between calls the table holds what one of these orders leaves in it.
ContentExplained == Quiet => \E c \in poss : c.map = Content

\* A key whose insert has returned true is in the table
\* (wtf_table.h:157, "Otherwise, key value pair is added to the table").
InsertAdds == Quiet => stored \subseteq Held

\* A find called after such an insert returned does not return NULL
\* (wtf_table.h:274, "if the table doesn't hold the key, return NULL").
FindFindsStored ==
  \A t \in sure : pc[t] = "ret" => res[t] # NoValue
=============================================================================
