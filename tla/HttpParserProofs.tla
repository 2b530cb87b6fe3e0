-------------------------- MODULE HttpParserProofs --------------------------
(***************************************************************************)
(* Proofs about HttpParser for any directory, logs and number of threads.  *)
(*                                                                         *)
(* Inv is inductive: types, what the list of files holds (ListInv), which  *)
(* threads exist and which cell each one holds (ThreadInv).  On it rests   *)
(* CountInv: at every moment the maps of the threads, added up, hold       *)
(* exactly the lines counted so far, each one once.                        *)
(***************************************************************************)
EXTENDS HttpParser, SumTheorems

----------------------------------------------------------------------------
(* Types, the list of files and the threads.                               *)

Typed == /\ main \in {"list", "create", "join", "reported", "exited"}
         /\ left \subseteq File \cup Other
         /\ f_idx \in Nat /\ files_list_sz \in Nat /\ f_idx < files_list_sz
         /\ list \in [0..files_list_sz -> File \cup {Null}]
         /\ joined \in 0..NumThreads
         /\ iter \in 0..f_idx
         /\ pc \in [Worker -> {"none", "load", "claim", "open", "read", "done"}]
         /\ loc \in [Worker -> Nat]
         /\ at \in [Worker -> Nat]
         /\ rec \in [Worker -> Record]
         /\ url \in [Worker -> [Url \cup {Blank} -> Nat]]
         /\ ref \in [Worker -> [Ref \cup {Blank} -> Nat]]

\* The first f_idx cells hold the files read so far, each one once, and the
\* others the NULL at which the workers stop.
ListInv == /\ \A c \in 0..f_idx - 1 : list[c] \in File \ left
           /\ \A c \in f_idx..files_list_sz : list[c] = Null
           /\ \A c, d \in 0..f_idx - 1 : list[c] = list[d] => c = d
           /\ \A e \in File \ left : \E c \in 0..f_idx - 1 : list[c] = e
           /\ main \notin {"list", "exited"} => left = {} /\ f_idx > 0

Holds(w) == pc[w] \in {"open", "read"}

\* Which threads exist and which are joined, and what each knows of the
\* iterator: it holds a cell that the iterator has passed and no other holds,
\* and when it ends the iterator has passed them all.
ThreadInv == /\ main = "list" => iter = 0 /\ joined = 0 /\ \A w \in Worker : pc[w] = "none"
             /\ main = "create" => /\ joined < num_threads
                                   /\ \A w \in Worker : pc[w] = "none" <=> w >= joined
             /\ main \in {"join", "reported"} =>
                   /\ joined <= num_threads
                   /\ \A w \in Worker : /\ pc[w] = "none" <=> w >= num_threads
                                        /\ w < joined => pc[w] = "done"
             /\ main = "reported" => joined = num_threads
             /\ \A w \in Worker : loc[w] <= iter /\ (Holds(w) => loc[w] < iter)
             /\ \A v, w \in Worker : Holds(v) /\ Holds(w) /\ loc[v] = loc[w] => v = w
             /\ \A w \in Worker : pc[w] = "done" => iter = f_idx
             /\ \A w \in Worker : pc[w] = "read" => at[w] <= Len(Lines[list[loc[w]]])
             /\ \A w \in Worker : pc[w] = "none" => url[w] = EmptyUrls /\ ref[w] = EmptyRefs

LEMMA MaxUpto == ASSUME NEW n \in Nat PROVE Max(0..n) = n
<1>1. n \in 0..n /\ \A y \in 0..n : n >= y
  OBVIOUS
<1>2. \A x \in 0..n : (\A y \in 0..n : x >= y) => x = n
  BY <1>1
<1> QED BY <1>1, <1>2 DEF Max

LEMMA NumThreadsIn ==
  ASSUME f_idx \in Nat, f_idx > 0
  PROVE  num_threads \in 1..NumThreads
<1> DEFINE S == {NumThreads, f_idx}
<1>1. \E m \in S : \A x \in S : m <= x
  BY ThreadsAssumption
<1>2. num_threads \in S /\ \A x \in S : num_threads <= x
  BY <1>1 DEF num_threads, Min
<1> QED BY <1>2, ThreadsAssumption

LEMMA WorkerIn == Worker \subseteq Nat /\ 0 \in Worker /\ \A w \in Worker : w <= NumThreads - 1
  BY ThreadsAssumption DEF Worker

\* A cell of the list that a worker finds full is one of the files'.
LEMMA CellOf ==
  ASSUME Typed, ListInv, ThreadInv, NEW w \in Worker
  PROVE  /\ loc[w] \in 0..f_idx
         /\ list[loc[w]] # Null => loc[w] \in 0..f_idx - 1
         /\ loc[w] \in 0..f_idx - 1 => /\ list[loc[w]] \in File
                                       /\ Lines[list[loc[w]]] \in Seq(Line)
         /\ Holds(w) => loc[w] \in 0..f_idx - 1
<1>1. loc[w] \in Nat /\ loc[w] <= iter /\ iter \in 0..f_idx /\ f_idx \in Nat
      /\ (Holds(w) => loc[w] < iter) /\ f_idx < files_list_sz /\ files_list_sz \in Nat
  BY DEF Typed, ThreadInv
<1>2. loc[w] \in 0..f_idx /\ (Holds(w) => loc[w] \in 0..f_idx - 1)
  BY <1>1
<1>3. ASSUME loc[w] \notin 0..f_idx - 1 PROVE list[loc[w]] = Null
  <2>1. loc[w] \in f_idx..files_list_sz
    BY <1>1, <1>3
  <2> QED BY <2>1 DEF ListInv
<1>4. loc[w] \in 0..f_idx - 1 => list[loc[w]] \in File
  BY DEF ListInv
<1> QED BY <1>2, <1>3, <1>4, LinesAssumption

LEMMA InvInit == Init => Typed /\ ListInv /\ ThreadInv
<1> SUFFICES ASSUME Init PROVE Typed /\ ListInv /\ ThreadInv
  OBVIOUS
<1> USE DEF Init
<1>1. DOMAIN list = 0..ListInitSz /\ files_list_sz = ListInitSz /\ ListInitSz \in Nat /\ 0 < ListInitSz
  BY ListAssumption, MaxUpto DEF files_list_sz
<1>2. list \in [0..files_list_sz -> File \cup {Null}] /\ \A c \in 0..files_list_sz : list[c] = Null
  BY <1>1
<1>3. NewRecord \in Record /\ EmptyUrls \in [Url \cup {Blank} -> Nat] /\ EmptyRefs \in [Ref \cup {Blank} -> Nat]
  BY DEF NewRecord, Record, EmptyUrls, EmptyRefs
<1>4. Typed
  BY <1>1, <1>2, <1>3, ThreadsAssumption DEF Typed
<1>5. File \ left = {} /\ 0..f_idx - 1 = {}
  OBVIOUS
<1>6. ListInv
  BY <1>1, <1>2, <1>5 DEF ListInv
<1>7. ThreadInv
  BY DEF ThreadInv, Holds
<1> QED BY <1>4, <1>6, <1>7

\* A file is added to the list.
LEMMA AddFile ==
  ASSUME Typed, ListInv, NEW e \in left, e \in File, ReadEntry(e)
  PROVE  /\ files_list_sz' \in Nat /\ f_idx' < files_list_sz'
         /\ list' \in [0..files_list_sz' -> File \cup {Null}]
         /\ \A c \in 0..f_idx - 1 : list'[c] = list[c]
         /\ list'[f_idx] = e
         /\ \A c \in f_idx + 1..files_list_sz' : list'[c] = Null
<1>0. /\ f_idx \in Nat /\ files_list_sz \in Nat /\ f_idx < files_list_sz
      /\ list \in [0..files_list_sz -> File \cup {Null}]
      /\ f_idx' = f_idx + 1
  BY DEF Typed, ReadEntry
<1> DEFINE n == files_list_sz
<1>1. CASE f_idx + 1 >= n
  <2> DEFINE body(c) == IF c = f_idx THEN e ELSE IF c < f_idx THEN list[c] ELSE Null
  <2>1. list' = [c \in 0..2 * n |-> body(c)]
    BY <1>1 DEF ReadEntry
  <2>2. 2 * n \in Nat /\ f_idx + 1 < 2 * n
    BY <1>0
  <2>3. files_list_sz' = 2 * n
    <3>1. DOMAIN list' = 0..2 * n
      BY <2>1
    <3> QED BY <2>2, <3>1, MaxUpto DEF files_list_sz
  <2>4. \A c \in 0..2 * n : body(c) \in File \cup {Null}
    BY <1>0
  <2>5. list' \in [0..2 * n -> File \cup {Null}]
    <3> HIDE DEF body
    <3> QED BY <2>1, <2>4
  <2>6. \A c \in 0..2 * n : list'[c] = body(c)
    <3> HIDE DEF body
    <3> QED BY <2>1
  <2>7. \A c \in 0..f_idx - 1 : c \in 0..2 * n /\ c < f_idx /\ c # f_idx
    BY <1>0
  <2>8. \A c \in f_idx + 1..2 * n : c \in 0..2 * n /\ ~(c < f_idx) /\ c # f_idx
    BY <1>0
  <2>9. f_idx \in 0..2 * n
    BY <1>0
  <2> QED BY <1>0, <2>2, <2>3, <2>5, <2>6, <2>7, <2>8, <2>9
<1>2. CASE ~(f_idx + 1 >= n)
  <2>1. list' = [list EXCEPT ![f_idx] = e]
    BY <1>2 DEF ReadEntry
  <2>2. DOMAIN list' = DOMAIN list /\ files_list_sz' = n
    BY <2>1 DEF files_list_sz
  <2>3. list' \in [0..n -> File \cup {Null}]
    BY <1>0, <2>1
  <2>4. \A c \in f_idx + 1..n : list'[c] = Null
    <3> TAKE c \in f_idx + 1..n
    <3>1. c \in f_idx..n /\ c # f_idx /\ c \in 0..n
      BY <1>0
    <3> QED BY <1>0, <2>1, <3>1 DEF ListInv
  <2>5. \A c \in 0..f_idx - 1 : c \in 0..n /\ c # f_idx
    BY <1>0
  <2> QED BY <1>0, <1>2, <2>1, <2>2, <2>3, <2>4, <2>5
<1> QED BY <1>1, <1>2

LEMMA InvReadEntry ==
  ASSUME Typed, ListInv, ThreadInv, NEW e \in left, ReadEntry(e)
  PROVE  Typed' /\ ListInv' /\ ThreadInv'
<1>0. /\ main = "list" /\ left' = left \ {e} /\ iter = 0
      /\ UNCHANGED <<main, joined, iter, pc, loc, at, rec, url, ref>>
      /\ f_idx \in Nat
  BY DEF ReadEntry, ThreadInv, wvars, Typed
<1>1. CASE e \in File
  <2>0. f_idx' = f_idx + 1
    BY <1>1 DEF ReadEntry
  <2>1. /\ files_list_sz' \in Nat /\ f_idx' < files_list_sz'
        /\ list' \in [0..files_list_sz' -> File \cup {Null}]
        /\ \A c \in 0..f_idx - 1 : list'[c] = list[c]
        /\ list'[f_idx] = e
        /\ \A c \in f_idx + 1..files_list_sz' : list'[c] = Null
    BY <1>1, AddFile
  <2>2. Typed'
    <3>1. f_idx' \in Nat /\ iter' \in 0..f_idx'
      BY <1>0, <2>0
    <3>2. left' \subseteq File \cup Other
      BY <1>0 DEF Typed
    <3> QED BY <1>0, <2>1, <3>1, <3>2 DEF Typed
  <2>3. \A c \in 0..f_idx' - 1 : c = f_idx \/ c \in 0..f_idx - 1
    BY <1>0, <2>0
  <2>4. \A c \in 0..f_idx - 1 : list[c] \in File \ left
    BY DEF ListInv
  <2>5. \A c \in 0..f_idx' - 1 : list'[c] \in File \ left'
    BY <1>0, <1>1, <2>1, <2>3, <2>4
  <2>6. \A c, d \in 0..f_idx' - 1 : list'[c] = list'[d] => c = d
    BY <2>1, <2>3, <2>4 DEF ListInv
  <2>7. \A g \in File \ left' : \E c \in 0..f_idx' - 1 : list'[c] = g
    <3> TAKE g \in File \ left'
    <3>1. CASE g = e
      BY <1>0, <2>0, <2>1, <3>1
    <3>2. CASE g # e
      <4>1. PICK c \in 0..f_idx - 1 : list[c] = g
        BY <1>0, <3>2 DEF ListInv
      <4>2. c \in 0..f_idx' - 1
        BY <1>0, <2>0
      <4> QED BY <2>1, <4>1, <4>2
    <3> QED BY <3>1, <3>2
  <2>8. ListInv'
    BY <1>0, <2>0, <2>1, <2>5, <2>6, <2>7 DEF ListInv
  <2>9. ThreadInv'
    BY <1>0 DEF ThreadInv, Holds
  <2> QED BY <2>2, <2>8, <2>9
<1>2. CASE e \notin File
  <2>1. UNCHANGED <<list, f_idx>> /\ files_list_sz' = files_list_sz /\ num_threads' = num_threads
    BY <1>2 DEF ReadEntry, files_list_sz, num_threads
  <2>2. File \ left' = File \ left
    BY <1>0, <1>2
  <2>3. Typed'
    BY <1>0, <2>1 DEF Typed
  <2>4. ListInv'
    BY <1>0, <2>1, <2>2 DEF ListInv
  <2>5. ThreadInv'
    BY <1>0, <2>1 DEF ThreadInv, Holds
  <2> QED BY <2>3, <2>4, <2>5
<1> QED BY <1>1, <1>2

\* The main thread's other steps.
LEMMA InvMain ==
  ASSUME Typed, ListInv, ThreadInv, EndOfDirectory \/ Create \/ Join \/ JoinFails \/ Report
  PROVE  Typed' /\ ListInv' /\ ThreadInv'
<1>0. /\ f_idx \in Nat /\ files_list_sz \in Nat /\ f_idx < files_list_sz
      /\ list \in [0..files_list_sz -> File \cup {Null}] /\ joined \in Nat
      /\ UNCHANGED <<iter, left, f_idx, loc, at, rec>>
      /\ num_threads' = num_threads
  <2>1. UNCHANGED <<iter, left, f_idx, loc, at, rec>>
    BY DEF EndOfDirectory, Create, Join, JoinFails, Report, wvars, mvars
  <2>2. num_threads' = num_threads
    BY <2>1 DEF num_threads
  <2>3. joined \in Nat
    BY ThreadsAssumption DEF Typed
  <2> QED BY <2>1, <2>2, <2>3 DEF Typed
<1>1. CASE EndOfDirectory
  <2>1. list' = [list EXCEPT ![f_idx] = Null] /\ list[f_idx] = Null /\ f_idx \in DOMAIN list
    BY <1>0, <1>1 DEF EndOfDirectory, ListInv
  <2>2. list' = list
    BY <1>0, <2>1
  <2>3. /\ main = "list" /\ left = {} /\ UNCHANGED <<joined, pc, url, ref>>
        /\ main' \in {"exited", "create"} /\ (main' = "create" => f_idx > 0)
        /\ files_list_sz' = files_list_sz
    BY <1>0, <1>1, <2>2 DEF EndOfDirectory, wvars, files_list_sz
  <2>4. Typed'
    BY <1>0, <2>2, <2>3 DEF Typed
  <2>5. ListInv'
    BY <1>0, <2>2, <2>3 DEF ListInv
  <2>6. joined = 0 /\ \A w \in Worker : pc[w] = "none" /\ w >= joined
    BY <2>3, WorkerIn DEF ThreadInv
  <2>7. main' = "create" => joined < num_threads
    BY <1>0, <2>3, <2>6, NumThreadsIn
  <2>8. ThreadInv'
    BY <1>0, <2>2, <2>3, <2>6, <2>7 DEF ThreadInv, Holds
  <2> QED BY <2>4, <2>5, <2>8
<1> DEFINE n == num_threads
<1>2. ASSUME main # "list", UNCHANGED list
      PROVE  /\ f_idx > 0 /\ n \in 1..NumThreads /\ n \in Nat
             /\ files_list_sz' = files_list_sz
             /\ main # "exited" => (main' # "list" => ListInv')
  <2>1. main # "exited" => f_idx > 0
    BY <1>2 DEF ListInv
  <2>2. main # "exited"
    BY <1>2 DEF EndOfDirectory, Create, Join, JoinFails, Report
  <2>3. f_idx > 0 /\ n \in 1..NumThreads
    BY <1>0, <2>1, <2>2, NumThreadsIn
  <2>4. files_list_sz' = files_list_sz
    BY <1>2 DEF files_list_sz
  <2>5. ListInv'
    BY <1>0, <1>2, <2>2, <2>4 DEF ListInv
  <2> QED BY <2>3, <2>4, <2>5, ThreadsAssumption
<1>3. CASE Create
  <2>1. /\ main = "create" /\ joined < n /\ UNCHANGED <<list, url, ref>>
        /\ pc' = [pc EXCEPT ![joined] = "load"]
        /\ \A w \in Worker : pc[w] = "none" <=> w >= joined
    BY <1>3 DEF Create, mvars, wvars, ThreadInv
  <2>2. n \in 1..NumThreads /\ n \in Nat /\ files_list_sz' = files_list_sz /\ f_idx > 0
    BY <1>2, <2>1
  <2>3. joined \in Worker /\ NumThreads \in Nat
    BY <1>0, <2>1, <2>2, ThreadsAssumption DEF Worker
  <2>4. \A w \in Worker : (w >= joined + 1 <=> w >= joined /\ w # joined) /\ w \in Nat
    BY <1>0, WorkerIn
  <2>5. \A w \in Worker : (pc'[w] = "none" <=> w >= joined + 1) /\ (pc'[w] = pc[w] \/ pc'[w] = "load")
    BY <2>1, <2>3, <2>4 DEF Typed
  <2>6. pc' \in [Worker -> {"none", "load", "claim", "open", "read", "done"}]
    BY <2>1 DEF Typed
  <2>7. CASE joined + 1 < n
    <3>1. joined' = joined + 1 /\ main' = main
      BY <1>3, <2>7 DEF Create
    <3>2. joined' \in 0..NumThreads
      BY <1>0, <2>2, <2>3, <2>7, <3>1
    <3>3. Typed'
      BY <1>0, <2>1, <2>2, <2>6, <3>1, <3>2 DEF Typed
    <3>4. ThreadInv'
      BY <1>0, <2>1, <2>5, <2>7, <3>1 DEF ThreadInv, Holds
    <3> QED BY <1>2, <2>1, <3>1, <3>3, <3>4
  <2>8. CASE ~(joined + 1 < n)
    <3>1. joined' = 0 /\ main' = "join" /\ joined + 1 = n
      BY <1>0, <1>3, <2>1, <2>2, <2>8 DEF Create
    <3>2. joined' \in 0..NumThreads /\ joined' <= n
      BY <2>2, <2>3, <3>1
    <3>3. Typed'
      BY <1>0, <2>1, <2>2, <2>6, <3>1, <3>2 DEF Typed
    <3>4. \A w \in Worker : ~(w < joined')
      BY <2>4, <3>1
    <3>5. ThreadInv'
      BY <1>0, <2>1, <2>5, <3>1, <3>2, <3>4 DEF ThreadInv, Holds
    <3> QED BY <1>2, <2>1, <3>1, <3>3, <3>5
  <2> QED BY <2>7, <2>8
<1>4. CASE Join
  <2>1. /\ main = "join" /\ joined < n /\ UNCHANGED <<main, list, pc>>
        /\ pc[joined] = "done" /\ joined' = joined + 1
    BY <1>4 DEF Join, mvars
  <2>2. n \in 1..NumThreads /\ n \in Nat /\ files_list_sz' = files_list_sz
    BY <1>2, <2>1
  <2>3. joined \in Worker /\ NumThreads \in Nat /\ joined' \in 0..NumThreads /\ joined' <= n
    BY <1>0, <2>1, <2>2, ThreadsAssumption DEF Worker
  <2>4. \A w \in Worker : w < joined' => w < joined \/ w = joined
    BY <1>0, <2>1, WorkerIn
  <2>5. /\ url \in [Worker -> [Url \cup {Blank} -> Nat]]
        /\ ref \in [Worker -> [Ref \cup {Blank} -> Nat]]
    BY DEF Typed
  <2>6. /\ hash_map_add(url[0], url[joined]) \in [Url \cup {Blank} -> Nat]
        /\ hash_map_add(ref[0], ref[joined]) \in [Ref \cup {Blank} -> Nat]
    BY <2>3, <2>5, WorkerIn DEF hash_map_add
  <2>7. /\ url' \in [Worker -> [Url \cup {Blank} -> Nat]]
        /\ ref' \in [Worker -> [Ref \cup {Blank} -> Nat]]
    <3>1. /\ url' = [url EXCEPT ![0] = IF joined = 0 THEN url[0] ELSE hash_map_add(url[0], url[joined])]
          /\ ref' = [ref EXCEPT ![0] = IF joined = 0 THEN ref[0] ELSE hash_map_add(ref[0], ref[joined])]
      BY <1>4 DEF Join
    <3> QED BY <2>5, <2>6, <3>1
  <2>8. \A w \in Worker : pc[w] = "none" => url'[w] = url[w] /\ ref'[w] = ref[w]
    <3> SUFFICES ASSUME NEW w \in Worker, pc[w] = "none"
                 PROVE  url'[w] = url[w] /\ ref'[w] = ref[w]
      OBVIOUS
    <3>1. w >= n /\ w \in Nat
      BY <2>1, WorkerIn DEF ThreadInv
    <3>2. w # 0
      BY <2>2, <3>1
    <3> QED BY <1>4, <2>5, <3>2 DEF Join
  <2>9. Typed'
    BY <1>0, <2>1, <2>2, <2>3, <2>7 DEF Typed
  <2>10. ThreadInv'
    BY <1>0, <2>1, <2>3, <2>4, <2>8 DEF ThreadInv, Holds
  <2> QED BY <1>2, <2>1, <2>9, <2>10
<1>5. CASE Report
  <2>1. main = "join" /\ joined = n /\ main' = "reported" /\ UNCHANGED <<joined, list, pc, url, ref>>
    BY <1>5 DEF Report, mvars, wvars
  <2>2. files_list_sz' = files_list_sz
    BY <2>1 DEF files_list_sz
  <2>3. Typed'
    BY <1>0, <2>1, <2>2 DEF Typed
  <2>4. ThreadInv'
    BY <1>0, <2>1 DEF ThreadInv, Holds
  <2> QED BY <1>2, <2>1, <2>3, <2>4
<1>6. CASE JoinFails
  <2>1. main = "join" /\ main' = "exited" /\ UNCHANGED <<joined, list, pc, url, ref>>
    BY <1>6 DEF JoinFails, mvars, wvars
  <2>2. files_list_sz' = files_list_sz
    BY <2>1 DEF files_list_sz
  <2>3. Typed'
    BY <1>0, <2>1, <2>2 DEF Typed
  <2>4. ThreadInv'
    BY <1>0, <2>1 DEF ThreadInv, Holds
  <2> QED BY <1>2, <2>1, <2>3, <2>4
<1> QED BY <1>1, <1>3, <1>4, <1>5, <1>6

\* What http_record_get makes of a record is one.
LEMMA RecordOf ==
  ASSUME NEW line \in Line, NEW r \in Record
  PROVE  /\ http_record_get(line, r) \in Record
         /\ Parsed(line) => /\ http_record_get(line, r).url = line.url
                            /\ http_record_get(line, r).bytes = line.bytes
         /\ http_record_get(line, r).referer = IF Parsed(line) /\ line.referer # Dash
                                               THEN line.referer ELSE r.referer
  BY DEF http_record_get, Record, Line, Parsed

\* The steps of a thread.
LEMMA InvWork ==
  ASSUME Typed, ListInv, ThreadInv, NEW w \in Worker, Work(w)
  PROVE  Typed' /\ ListInv' /\ ThreadInv'
<1>0. /\ f_idx \in Nat /\ iter \in 0..f_idx /\ iter \in Nat
      /\ loc \in [Worker -> Nat] /\ at \in [Worker -> Nat]
      /\ pc \in [Worker -> {"none", "load", "claim", "open", "read", "done"}]
      /\ \A v \in Worker : pc[v] = "read" => at[v] <= Len(Lines[list[loc[v]]])
  BY DEF Typed, ThreadInv
<1>1. UNCHANGED <<list, left, f_idx, joined>>
  BY DEF Work, Load, ClaimOk, ClaimFail, WorkerEnd, Open, OpenFails, ReadLine, InsertFails, EndOfFile, mvars
<1>2. files_list_sz' = files_list_sz /\ num_threads' = num_threads
  BY <1>1 DEF files_list_sz, num_threads
<1>3. pc[w] \notin {"none", "done"} /\ main \notin {"exited", "reported", "list"} /\ main' \in {main, "exited"}
  BY DEF Work, Load, ClaimOk, ClaimFail, WorkerEnd, Open, OpenFails, ReadLine, InsertFails, EndOfFile, Alive, ThreadInv
<1>4. ListInv'
  BY <1>1, <1>2, <1>3 DEF ListInv
<1>5. /\ loc[w] \in 0..f_idx
      /\ list[loc[w]] # Null => loc[w] \in 0..f_idx - 1
      /\ loc[w] \in 0..f_idx - 1 => list[loc[w]] \in File /\ Lines[list[loc[w]]] \in Seq(Line)
      /\ Holds(w) => loc[w] \in 0..f_idx - 1
  BY CellOf
\* which threads exist, and which have ended
<1> DEFINE Threads == /\ main' = "create" => /\ joined' < num_threads'
                                            /\ \A v \in Worker : pc'[v] = "none" <=> v >= joined'
                      /\ main' \in {"join", "reported"} =>
                            /\ joined' <= num_threads'
                            /\ \A v \in Worker : /\ pc'[v] = "none" <=> v >= num_threads'
                                                 /\ v < joined' => pc'[v] = "done"
                      /\ main' = "list" => iter' = 0 /\ joined' = 0 /\ \A v \in Worker : pc'[v] = "none"
                      /\ main' = "reported" => joined' = num_threads'
<1>6. ASSUME NEW p, p # "none", pc' = [pc EXCEPT ![w] = p], main' = main
      PROVE  Threads
  <2>1. \A v \in Worker : pc'[v] = IF v = w THEN p ELSE pc[v]
    BY <1>0, <1>6
  <2> QED BY <1>1, <1>2, <1>3, <1>6, <2>1 DEF ThreadInv
<1>7. ASSUME pc' = pc
      PROVE  Threads
  BY <1>1, <1>2, <1>3, <1>7 DEF ThreadInv
<1> HIDE DEF Threads
<1>8. CASE Load(w) \/ ClaimFail(w)
  <2>1. /\ loc' = [loc EXCEPT ![w] = iter] /\ UNCHANGED <<iter, main, at, rec, url, ref>>
        /\ pc' = pc \/ pc' = [pc EXCEPT ![w] = "claim"]
        /\ pc[w] \in {"load", "claim"}
    BY <1>8 DEF Load, ClaimFail
  <2>2. Threads
    BY <1>6, <1>7, <2>1
  <2>3. loc' \in [Worker -> Nat] /\ pc' \in [Worker -> {"none", "load", "claim", "open", "read", "done"}]
    BY <1>0, <2>1
  <2>4. \A v \in Worker : /\ v = w => loc'[v] = iter /\ pc'[v] \in {"load", "claim"}
                          /\ v # w => loc'[v] = loc[v] /\ pc'[v] = pc[v]
    BY <1>0, <2>1
  <2>5. Typed'
    BY <1>1, <1>2, <2>1, <2>3 DEF Typed
  <2>6. ThreadInv'
    BY <1>0, <1>1, <2>1, <2>2, <2>4 DEF ThreadInv, Threads, Holds
  <2> QED BY <1>4, <2>5, <2>6
<1>9. CASE ClaimOk(w)
  <2>1. /\ pc' = [pc EXCEPT ![w] = "open"] /\ iter' = iter + 1 /\ loc[w] = iter /\ pc[w] = "claim"
        /\ list[loc[w]] # Null
        /\ UNCHANGED <<main, loc, at, rec, url, ref>>
    BY <1>9 DEF ClaimOk, wvars
  <2>2. Threads
    BY <1>6, <2>1
  <2>3. iter' \in 0..f_idx /\ iter < f_idx
    BY <1>0, <1>5, <2>1
  <2>4. pc' \in [Worker -> {"none", "load", "claim", "open", "read", "done"}]
    BY <1>0, <2>1
  <2>5. Typed'
    BY <1>1, <1>2, <2>1, <2>3, <2>4 DEF Typed
  <2>6. \A v \in Worker : loc[v] <= iter /\ loc[v] \in Nat /\ (Holds(v) => loc[v] < iter)
    BY <1>0 DEF ThreadInv
  <2>7. \A v \in Worker : pc'[v] = IF v = w THEN "open" ELSE pc[v]
    BY <1>0, <2>1
  <2>8. \A v \in Worker : loc[v] <= iter + 1 /\ loc[v] < iter + 1
    BY <1>0, <2>6
  <2>9. \A u, v \in Worker : Holds(u)' /\ Holds(v)' /\ loc[u] = loc[v] => u = v
    BY <1>0, <2>1, <2>6, <2>7 DEF ThreadInv, Holds
  <2>10. \A v \in Worker : pc'[v] # "done"
    <3>1. \A v \in Worker : pc[v] # "done"
      BY <1>0, <2>3 DEF ThreadInv
    <3> QED BY <2>7, <3>1
  <2>11. ThreadInv'
    BY <1>0, <1>1, <2>1, <2>2, <2>7, <2>8, <2>9, <2>10 DEF ThreadInv, Threads, Holds
  <2> QED BY <1>4, <2>5, <2>11
<1>10. CASE WorkerEnd(w) \/ EndOfFile(w)
  <2>1. /\ UNCHANGED <<main, iter, loc, at, rec, url, ref>>
        /\ \/ pc' = [pc EXCEPT ![w] = "load"]
           \/ pc' = [pc EXCEPT ![w] = "done"] /\ list[loc[w]] = Null
    BY <1>10 DEF WorkerEnd, EndOfFile, wvars
  <2>2. Threads
    BY <1>6, <2>1
  <2>3. pc' \in [Worker -> {"none", "load", "claim", "open", "read", "done"}]
    BY <1>0, <2>1
  <2>4. Typed'
    BY <1>1, <1>2, <2>1, <2>3 DEF Typed
  <2>5. \A v \in Worker : /\ v = w => pc'[v] \in {"load", "done"}
                          /\ v # w => pc'[v] = pc[v]
    BY <1>0, <2>1
  <2>6. pc'[w] = "done" => iter = f_idx
    <3> SUFFICES ASSUME pc'[w] = "done" PROVE iter = f_idx
      OBVIOUS
    <3>1. list[loc[w]] = Null
      BY <1>0, <2>1
    <3>2. loc[w] \notin 0..f_idx - 1
      BY <1>5, <3>1, NamesAssumption
    <3>3. loc[w] <= iter
      BY DEF ThreadInv
    <3> QED BY <1>0, <1>5, <3>2, <3>3
  <2>7. ThreadInv'
    BY <1>0, <1>1, <2>1, <2>2, <2>5, <2>6 DEF ThreadInv, Threads, Holds
  <2> QED BY <1>4, <2>4, <2>7
<1>11. CASE Open(w)
  <2>1. /\ pc' = [pc EXCEPT ![w] = "read"] /\ at' = [at EXCEPT ![w] = 0]
        /\ rec' = [rec EXCEPT ![w] = NewRecord] /\ pc[w] = "open"
        /\ UNCHANGED <<main, iter, loc, url, ref>>
    BY <1>11 DEF Open
  <2>2. Threads
    BY <1>6, <2>1
  <2>3. NewRecord \in Record
    BY DEF NewRecord, Record
  <2>4. Typed'
    BY <1>1, <1>2, <2>1, <2>3 DEF Typed
  <2>5. \A v \in Worker : /\ v = w => pc'[v] = "read" /\ at'[v] = 0
                          /\ v # w => pc'[v] = pc[v] /\ at'[v] = at[v]
    BY <1>0, <2>1
  <2>6. 0 <= Len(Lines[list[loc[w]]])
    BY <1>5, <2>1 DEF Holds
  <2>7. \A v \in Worker : Holds(v)' <=> Holds(v)
    BY <2>1, <2>5 DEF Holds
  <2>8. \A v \in Worker : pc'[v] \in {"none", "done"} => pc'[v] = pc[v] /\ v # w
    BY <2>5
  <2>9. \A v \in Worker : pc'[v] = "read" => at'[v] <= Len(Lines[list[loc[v]]])
    BY <1>0, <2>5, <2>6
  <2>10. ThreadInv'
    BY <1>1, <2>1, <2>2, <2>7, <2>8, <2>9 DEF ThreadInv, Threads
  <2> QED BY <1>4, <2>4, <2>10
<1>12. CASE OpenFails(w) \/ InsertFails(w)
  <2>1. main' = "exited" /\ UNCHANGED <<iter, pc, loc, at, rec, url, ref>>
    BY <1>12 DEF OpenFails, InsertFails, wvars
  <2>2. Typed'
    BY <1>1, <1>2, <2>1 DEF Typed
  <2>3. ThreadInv'
    BY <1>1, <2>1 DEF ThreadInv, Holds
  <2> QED BY <1>4, <2>2, <2>3
<1>13. CASE ReadLine(w)
  <2> DEFINE line == Lines[list[loc[w]]][at[w] + 1]
             r == http_record_get(line, rec[w])
  <2>1. /\ pc[w] = "read" /\ UNCHANGED <<main, iter, pc, loc>>
        /\ at' = [at EXCEPT ![w] = at[w] + 1] /\ at[w] < Len(Lines[list[loc[w]]])
        /\ rec' = [rec EXCEPT ![w] = r]
        /\ url' = url \/ url' = [url EXCEPT ![w] = [url[w] EXCEPT ![r.url] = url[w][r.url] + r.bytes]]
        /\ ref' = ref \/ ref' = [ref EXCEPT ![w] = [ref[w] EXCEPT ![r.referer] = ref[w][r.referer] + 1]]
    BY <1>13 DEF ReadLine
  <2>2. Lines[list[loc[w]]] \in Seq(Line) /\ at[w] \in Nat /\ rec[w] \in Record
    BY <1>0, <1>5, <2>1 DEF Holds, Typed
  <2>3. line \in Line
    <3> DEFINE s == Lines[list[loc[w]]]
    <3>1. s \in Seq(Line) /\ at[w] < Len(s)
      BY <2>1, <2>2
    <3> HIDE DEF Line, s
    <3>2. at[w] + 1 \in 1..Len(s)
      BY <2>2, <3>1
    <3>3. s[at[w] + 1] \in Line
      BY <3>1, <3>2
    <3> QED BY <3>3 DEF s
  <2> HIDE DEF line
  <2>4. r \in Record
    BY <2>2, <2>3, RecordOf
  <2> HIDE DEF r
  <2>5. r.url \in Url \cup {Blank} /\ r.bytes \in Nat /\ r.referer \in Ref \cup {Blank}
    BY <2>4 DEF Record
  <2>6. url[w] \in [Url \cup {Blank} -> Nat] /\ ref[w] \in [Ref \cup {Blank} -> Nat]
    BY DEF Typed
  <2>7. [url[w] EXCEPT ![r.url] = url[w][r.url] + r.bytes] \in [Url \cup {Blank} -> Nat]
    BY <2>5, <2>6
  <2>8. [ref[w] EXCEPT ![r.referer] = ref[w][r.referer] + 1] \in [Ref \cup {Blank} -> Nat]
    BY <2>5, <2>6
  <2>9. /\ url' \in [Worker -> [Url \cup {Blank} -> Nat]]
        /\ ref' \in [Worker -> [Ref \cup {Blank} -> Nat]]
    <3>1. /\ url \in [Worker -> [Url \cup {Blank} -> Nat]]
          /\ ref \in [Worker -> [Ref \cup {Blank} -> Nat]]
      BY DEF Typed
    <3>2. url' \in [Worker -> [Url \cup {Blank} -> Nat]]
      BY <2>1, <2>7, <3>1
    <3>3. ref' \in [Worker -> [Ref \cup {Blank} -> Nat]]
      BY <2>1, <2>8, <3>1
    <3> QED BY <3>2, <3>3
  <2>10. rec' \in [Worker -> Record] /\ at' \in [Worker -> Nat]
    <3> HIDE DEF Record
    <3> QED BY <1>0, <2>1, <2>4 DEF Typed
  <2>11. Typed'
    BY <1>1, <1>2, <2>1, <2>9, <2>10 DEF Typed
  <2>12. Threads
    BY <1>7, <2>1
  <2>13. \A v \in Worker : pc[v] = "read" => at'[v] <= Len(Lines[list[loc[v]]])
    <3> TAKE v \in Worker
    <3>1. CASE v = w
      <4>1. at'[w] = at[w] + 1 /\ at[w] + 1 <= Len(Lines[list[loc[w]]])
        BY <1>0, <2>1, <2>2
      <4> QED BY <3>1, <4>1
    <3>2. CASE v # w
      BY <1>0, <2>1, <3>2
    <3> QED BY <3>1, <3>2
  <2>14. \A v \in Worker : pc[v] = "none" => url'[v] = EmptyUrls /\ ref'[v] = EmptyRefs
    <3> SUFFICES ASSUME NEW v \in Worker, pc[v] = "none"
                 PROVE  url'[v] = url[v] /\ ref'[v] = ref[v]
      BY DEF ThreadInv
    <3>1. v # w
      BY <2>1
    <3> QED BY <2>1, <3>1 DEF Typed
  <2>15. ThreadInv'
    BY <1>1, <2>1, <2>12, <2>13, <2>14 DEF ThreadInv, Threads, Holds
  <2> QED BY <1>4, <2>11, <2>15
<1> QED BY <1>8, <1>9, <1>10, <1>11, <1>12, <1>13 DEF Work

Inv == Typed /\ ListInv /\ ThreadInv

LEMMA InvNext == Inv /\ [Next]_vars => Inv'
<1> SUFFICES ASSUME Typed, ListInv, ThreadInv, [Next]_vars PROVE Typed' /\ ListInv' /\ ThreadInv'
  BY DEF Inv
<1>1. CASE Main
  BY <1>1, InvMain, InvReadEntry DEF Main
<1>2. CASE \E w \in Worker : Work(w)
  BY <1>2, InvWork
<1>3. CASE UNCHANGED vars
  <2>1. files_list_sz' = files_list_sz /\ num_threads' = num_threads
    BY <1>3 DEF vars, mvars, files_list_sz, num_threads
  <2> QED BY <1>3, <2>1 DEF vars, mvars, wvars, Typed, ListInv, ThreadInv, Holds
<1> QED BY <1>1, <1>2, <1>3 DEF Next

LEMMA InvAlways == Spec => []Inv
<1>1. Init => Inv
  BY InvInit DEF Inv
<1> QED BY <1>1, InvNext, PTL DEF Spec

\* Every variable has its type, for any directory and number of threads: the
\* iterator and the threads' copies of it stay inside the list, and every cell
\* of the list has been written.
THEOREM TypeCorrect == Spec => []TypeOK
<1>1. Inv => TypeOK
  <2> SUFFICES ASSUME Typed, ListInv, ThreadInv PROVE TypeOK
    BY DEF Inv
  <2>1. DOMAIN list = 0..files_list_sz
    BY DEF Typed
  <2>2. f_idx \in DOMAIN list
    BY <2>1 DEF Typed
  <2>3. loc \in [Worker -> 0..f_idx]
    BY CellOf DEF Typed
  <2> QED BY <2>2, <2>3 DEF Typed, TypeOK
<1> QED BY <1>1, InvAlways, PTL

\* However the threads interleave, and however often a weak compare-exchange
\* fails, no two of them read the same file at a time.
THEOREM OneWorkerPerFileCorrect == Spec => []OneWorkerPerFile
<1>1. Inv => OneWorkerPerFile
  BY DEF Inv, ThreadInv, OneWorkerPerFile, Holds
<1> QED BY <1>1, InvAlways, PTL

----------------------------------------------------------------------------
(* The lines that have been counted.                                       *)

\* The thread that holds a cell has read so many lines of its file; the file
\* of a cell that the iterator has passed and none holds was read.
Done(c, n) == \/ \E w \in Worker : pc[w] = "read" /\ loc[w] = c /\ n <= at[w]
              \/ c < iter /\ \A w \in Worker : Holds(w) => loc[w] # c

Counted == {fn \in Parsable : \E c \in 0..f_idx - 1 : list[c] = fn[1] /\ Done(c, fn[2])}

\* Only the first thread's maps hold what those already joined have found.
Merged(w) == main \in {"join", "reported"} /\ w # 0 /\ w < joined
Share(m, k) == [w \in Worker |-> IF Merged(w) THEN 0 ELSE m[w][k]]

UrlLines(u) == {fn \in Counted : LineOf(fn).url = u}
RefLines(r) == {fn \in Counted : CountedUnder(fn) = r}

\* The threads' maps together hold the lines counted, and a record holds the
\* referer of the last line read that has one.
CountInv == /\ IsFiniteSet(Counted)
            /\ main # "exited" =>
                  /\ \A u \in Url : SumOver(Share(url, u), Worker) = SumOver(Bytes, UrlLines(u))
                  /\ \A r \in Ref \cup {Blank} : SumOver(Share(ref, r), Worker) = Cardinality(RefLines(r))
            /\ \A w \in Worker : pc[w] = "read" =>
                  rec[w].referer = CountedUnder(<<list[loc[w]], at[w]>>)

LEMMA WorkersFinite == IsFiniteSet(Worker)
  BY ThreadsAssumption, FS_Interval DEF Worker

LEMMA ParsableIs ==
  /\ \A fn \in Parsable : /\ fn = <<fn[1], fn[2]>> /\ fn[1] \in File
                          /\ fn[2] \in 1..Len(Lines[fn[1]]) /\ fn[2] \in Nat
                          /\ LineOf(fn) \in Line /\ Parsed(LineOf(fn))
  /\ \A f \in File : \A n \in 1..Len(Lines[f]) : Parsed(Lines[f][n]) => <<f, n>> \in Parsable
<1>1. ASSUME NEW fn \in Parsable
      PROVE  /\ fn = <<fn[1], fn[2]>> /\ fn[1] \in File
             /\ fn[2] \in 1..Len(Lines[fn[1]]) /\ fn[2] \in Nat
             /\ LineOf(fn) \in Line /\ Parsed(LineOf(fn))
  <2>1. PICK f \in File : fn \in {f} \X {n \in 1..Len(Lines[f]) : Parsed(Lines[f][n])}
    BY DEF Parsable
  <2>2. fn = <<fn[1], fn[2]>> /\ fn[1] = f /\ fn[2] \in 1..Len(Lines[f]) /\ Parsed(Lines[f][fn[2]])
    BY <2>1
  <2>3. Lines[f] \in Seq(Line)
    BY LinesAssumption
  <2>4. Lines[f][fn[2]] \in Line
    <3> HIDE DEF Line
    <3> QED BY <2>2, <2>3
  <2> QED BY <2>2, <2>4 DEF LineOf
<1>2. ASSUME NEW f \in File, NEW n \in 1..Len(Lines[f]), Parsed(Lines[f][n])
      PROVE  <<f, n>> \in Parsable
  BY <1>2 DEF Parsable
<1> QED BY <1>1, <1>2

LEMMA BytesIn == \A fn \in Parsable : Bytes[fn] \in Nat /\ Bytes[fn] = LineOf(fn).bytes
  BY ParsableIs DEF Bytes, Line

\* The referer of the last named line, one line on.
LEMMA CountedUnderNext ==
  ASSUME NEW f \in File, NEW n \in Nat, n + 1 \in 1..Len(Lines[f])
  PROVE  LET line == Lines[f][n + 1]
         IN  CountedUnder(<<f, n + 1>>) = IF Parsed(line) /\ line.referer # Dash
                                          THEN line.referer ELSE CountedUnder(<<f, n>>)
<1> DEFINE line == Lines[f][n + 1]
           named(k) == {m \in 1..k : Parsed(Lines[f][m]) /\ Lines[f][m].referer # Dash}
<1>1. \A k : CountedUnder(<<f, k>>) = IF named(k) = {} THEN Blank ELSE Lines[f][Max(named(k))].referer
  BY DEF CountedUnder
<1>2. 1..n + 1 = 1..n \cup {n + 1}
  OBVIOUS
<1>3. CASE Parsed(line) /\ line.referer # Dash
  <2>1. n + 1 \in named(n + 1)
    BY <1>2, <1>3
  <2>2. \A x \in named(n + 1) : x \in Nat /\ n + 1 >= x
    OBVIOUS
  <2> HIDE DEF named
  <2>3. \A x \in named(n + 1) : (\A y \in named(n + 1) : x >= y) => x = n + 1
    BY <2>1, <2>2
  <2>4. Max(named(n + 1)) = n + 1
    BY <2>1, <2>2, <2>3 DEF Max
  <2> QED BY <1>1, <1>3, <2>1, <2>4
<1>4. CASE ~(Parsed(line) /\ line.referer # Dash)
  <2>1. named(n + 1) = named(n)
    BY <1>2, <1>4
  <2> HIDE DEF named
  <2> QED BY <1>1, <1>4, <2>1
<1> QED BY <1>3, <1>4

LEMMA CountedUnderFirst == \A f : CountedUnder(<<f, 0>>) = Blank
  BY DEF CountedUnder

LEMMA ShareIn ==
  ASSUME Typed, NEW u \in Url \cup {Blank}, NEW r \in Ref \cup {Blank}
  PROVE  Share(url, u) \in [Worker -> Nat] /\ Share(ref, r) \in [Worker -> Nat]
<1>1. \A w \in Worker : url[w][u] \in Nat /\ ref[w][r] \in Nat
  BY DEF Typed
<1> QED BY <1>1 DEF Share

\* One thread's share grows.
LEMMA ShareAdd ==
  ASSUME NEW g \in [Worker -> Nat], NEW h \in [Worker -> Nat], NEW w \in Worker, NEW d \in Nat,
         h[w] = g[w] + d, \A v \in Worker \ {w} : g[v] = h[v]
  PROVE  SumOver(h, Worker) = SumOver(g, Worker) + d
<1>1. SumOver(h, Worker) + g[w] = SumOver(g, Worker) + h[w]
  BY WorkersFinite, SumChange
<1>2. SumOver(h, Worker) \in Nat /\ SumOver(g, Worker) \in Nat /\ g[w] \in Nat
  BY WorkersFinite, SumNat
<1> HIDE DEF SumOver
<1> QED BY <1>1, <1>2

\* One thread's share is given to the first.
LEMMA ShareMove ==
  ASSUME NEW g \in [Worker -> Nat], NEW h \in [Worker -> Nat], NEW w \in Worker, w # 0,
         h[0] = g[0] + g[w], h[w] = 0, \A v \in Worker \ {0, w} : g[v] = h[v]
  PROVE  SumOver(h, Worker) = SumOver(g, Worker)
<1> DEFINE k == [g EXCEPT ![0] = g[0] + g[w]]
<1>0. 0 \in Worker
  BY WorkerIn
<1>1. k \in [Worker -> Nat] /\ k[0] = g[0] + g[w] /\ (\A v \in Worker \ {0} : k[v] = g[v]) /\ g[w] \in Nat
  BY <1>0
<1> HIDE DEF k
<1>2. SumOver(k, Worker) = SumOver(g, Worker) + g[w]
  BY <1>0, <1>1, ShareAdd
<1>3. SumOver(h, Worker) + k[w] = SumOver(k, Worker) + h[w]
  <2>1. \A v \in Worker \ {w} : k[v] = h[v]
    BY <1>0, <1>1
  <2> QED BY <1>1, <2>1, WorkersFinite, SumChange
<1>4. k[w] = g[w] /\ h[w] = 0
  BY <1>1
<1>5. SumOver(h, Worker) \in Nat /\ SumOver(g, Worker) \in Nat
  BY WorkersFinite, SumNat
<1> HIDE DEF SumOver
<1> QED BY <1>1, <1>2, <1>3, <1>4, <1>5

LEMMA CountInit == Init => CountInv
<1> SUFFICES ASSUME Init PROVE CountInv
  OBVIOUS
<1>1. 0..f_idx - 1 = {} /\ main = "list"
  BY DEF Init
<1>2. Counted = {}
  BY <1>1 DEF Counted
<1>3. (\A u : UrlLines(u) = {}) /\ \A r : RefLines(r) = {}
  BY <1>2 DEF UrlLines, RefLines
<1>4. \A u \in Url : SumOver(Share(url, u), Worker) = 0 /\ SumOver(Bytes, {}) = 0
  <2> TAKE u \in Url
  <2>1. \A w \in Worker : Share(url, u)[w] = 0
    BY DEF Init, Share, Merged, EmptyUrls
  <2> QED BY <2>1, WorkersFinite, FS_EmptySet, SumZero
<1>5. \A r \in Ref \cup {Blank} : SumOver(Share(ref, r), Worker) = 0
  <2> TAKE r \in Ref \cup {Blank}
  <2>1. \A w \in Worker : Share(ref, r)[w] = 0
    BY DEF Init, Share, Merged, EmptyRefs
  <2> QED BY <2>1, WorkersFinite, SumZero
<1>6. \A w \in Worker : pc[w] # "read"
  BY DEF Init
<1> HIDE DEF SumOver
<1> QED BY <1>1, <1>2, <1>3, <1>4, <1>5, <1>6, FS_EmptySet DEF CountInv

LEMMA CountedSame ==
  ASSUME list' = list, f_idx' = f_idx,
         \A c \in 0..f_idx - 1 : \A n \in 1..Len(Lines[list[c]]) : Done(c, n)' <=> Done(c, n)
  PROVE  Counted' = Counted
<1>1. \A fn \in Parsable : \A c \in 0..f_idx - 1 : list[c] = fn[1] => (Done(c, fn[2])' <=> Done(c, fn[2]))
  BY ParsableIs
<1>2. \A fn \in Parsable : fn \in Counted' <=> fn \in Counted
  BY <1>1 DEF Counted
<1>3. Counted \subseteq Parsable /\ Counted' \subseteq Parsable
  BY DEF Counted
<1> QED BY <1>2, <1>3

\* Nothing is counted by a step that leaves the threads that hold a cell as
\* they are.
LEMMA DoneSame ==
  ASSUME iter' = iter,
         \A w \in Worker : /\ Holds(w)' <=> Holds(w)
                           /\ Holds(w) => loc'[w] = loc[w] /\ (pc'[w] = "read" <=> pc[w] = "read")
                           /\ pc[w] = "read" => at'[w] = at[w]
  PROVE  \A c, n : Done(c, n)' <=> Done(c, n)
<1>1. \A w \in Worker : pc'[w] = "read" <=> pc[w] = "read"
  BY DEF Holds
<1>2. \A w \in Worker : pc[w] = "read" => loc'[w] = loc[w] /\ at'[w] = at[w]
  BY DEF Holds
<1>3. \A w \in Worker : \A c : (Holds(w) => loc[w] # c) <=> (Holds(w)' => loc'[w] # c)
  OBVIOUS
<1>4. \A c, n : (\E w \in Worker : pc[w] = "read" /\ loc[w] = c /\ n <= at[w])
                  <=> (\E w \in Worker : pc'[w] = "read" /\ loc'[w] = c /\ n <= at'[w])
  BY <1>1, <1>2
<1> QED BY <1>3, <1>4 DEF Done

LEMMA CountSame ==
  ASSUME CountInv, Counted' = Counted, UNCHANGED <<url, ref>>,
         main' # "exited" => main # "exited" /\ \A w \in Worker : Merged(w)' <=> Merged(w),
         \A w \in Worker : pc'[w] = "read" => rec'[w].referer = CountedUnder(<<list'[loc'[w]], at'[w]>>)
  PROVE  CountInv'
<1>1. \A u, r : UrlLines(u)' = UrlLines(u) /\ RefLines(r)' = RefLines(r)
  BY DEF UrlLines, RefLines, CountedUnder, LineOf
<1>2. ASSUME main' # "exited"
      PROVE  /\ main # "exited"
             /\ \A u, r : Share(url, u)' = Share(url, u) /\ Share(ref, r)' = Share(ref, r)
  BY <1>2 DEF Share
<1> HIDE DEF SumOver
<1> QED BY <1>1, <1>2 DEF CountInv

LEMMA CountMain ==
  ASSUME Typed, ListInv, ThreadInv, CountInv, Main
  PROVE  CountInv'
<1>0. /\ UNCHANGED <<iter, loc, at, rec>>
      /\ \A w \in Worker : Holds(w)' <=> Holds(w)
      /\ \A w \in Worker : pc'[w] = "read" <=> pc[w] = "read"
  <2>1. CASE Create
    <3>1. pc[joined] = "none" /\ pc' = [pc EXCEPT ![joined] = "load"] /\ UNCHANGED <<iter, loc, at, rec>>
      <4>1. joined \in Nat /\ joined < num_threads /\ num_threads \in 1..NumThreads
        BY <2>1, NumThreadsIn, ThreadsAssumption DEF Create, ThreadInv, Typed, ListInv
      <4>2. joined \in Worker
        BY <4>1, ThreadsAssumption DEF Worker
      <4> QED BY <2>1, <4>1, <4>2 DEF Create, ThreadInv, wvars
    <3> QED BY <3>1 DEF Typed, Holds
  <2>2. CASE EndOfDirectory \/ Join \/ JoinFails \/ Report \/ \E e \in left : ReadEntry(e)
    <3>1. UNCHANGED <<iter, loc, at, rec, pc>>
      BY <2>2 DEF EndOfDirectory, Join, JoinFails, Report, ReadEntry, wvars
    <3> QED BY <3>1 DEF Holds
  <2> QED BY <2>1, <2>2 DEF Main
<1>1. \A c, n : Done(c, n)' <=> Done(c, n)
  BY <1>0, DoneSame
<1>2. \A w \in Worker : pc[w] = "read" => list'[loc[w]] = list[loc[w]]
  <2>1. CASE \E e \in left : ReadEntry(e)
    BY <2>1 DEF ReadEntry, ThreadInv
  <2>2. CASE EndOfDirectory
    BY <2>2 DEF EndOfDirectory, ThreadInv
  <2>3. CASE Create \/ Join \/ JoinFails \/ Report
    BY <2>3 DEF Create, Join, JoinFails, Report, mvars
  <2> QED BY <2>1, <2>2, <2>3 DEF Main
<1>3. \A w \in Worker : pc'[w] = "read" => rec'[w].referer = CountedUnder(<<list'[loc'[w]], at'[w]>>)
  BY <1>0, <1>2 DEF CountInv
<1>4. Counted' = Counted
  <2>1. CASE main = "list"
    <3>1. iter = 0 /\ \A w \in Worker : pc[w] # "read"
      BY <2>1 DEF ThreadInv
    <3>2. \A c \in Nat : \A n : ~Done(c, n)
      BY <3>1 DEF Done
    <3>3. 0..f_idx - 1 \subseteq Nat /\ 0..f_idx' - 1 \subseteq Nat
      OBVIOUS
    <3>4. \A fn : fn \notin Counted
      BY <3>2, <3>3 DEF Counted
    <3>5. \A fn : fn \notin Counted'
      BY <1>1, <3>2, <3>3 DEF Counted
    <3> QED BY <3>4, <3>5
  <2>2. CASE main # "list"
    <3>1. list' = list /\ f_idx' = f_idx
      BY <2>2 DEF Main, EndOfDirectory, Create, Join, JoinFails, Report, ReadEntry, mvars
    <3> QED BY <1>1, <3>1, CountedSame
  <2> QED BY <2>1, <2>2
<1>5. CASE EndOfDirectory \/ Report \/ \E e \in left : ReadEntry(e)
  <2>1. /\ UNCHANGED <<url, ref, joined>>
        /\ main' # "exited" => main # "exited"
        /\ main' \in {"join", "reported"} <=> main \in {"join", "reported"}
    BY <1>5 DEF EndOfDirectory, Report, ReadEntry, wvars
  <2> QED BY <1>3, <1>4, <2>1, CountSame DEF Merged
<1>6. CASE Create
  <2>1. /\ UNCHANGED <<url, ref>> /\ main = "create"
        /\ main' = "create" \/ (main' = "join" /\ joined' = 0)
    BY <1>6 DEF Create, wvars
  <2>2. \A w \in Worker : Merged(w)' <=> Merged(w)
    BY <2>1, WorkerIn DEF Merged
  <2> QED BY <1>3, <1>4, <2>1, <2>2, CountSame
<1>7. CASE Join
  <2>0. /\ main = "join" /\ main' = main /\ joined' = joined + 1 /\ joined < num_threads
        /\ joined \in Nat
    BY <1>7, ThreadsAssumption DEF Join, Typed
  <2>1. num_threads \in 1..NumThreads
    BY <2>0, NumThreadsIn DEF Typed, ListInv
  <2>2. joined \in Worker /\ 0 \in Worker
    BY <2>0, <2>1, WorkerIn, ThreadsAssumption DEF Worker
  <2>3. CASE joined = 0
    <3>1. UNCHANGED <<url, ref>>
      BY <1>7, <2>2, <2>3 DEF Join, Typed
    <3>2. \A w \in Worker : Merged(w)' <=> Merged(w)
      BY <2>0, <2>3, WorkerIn DEF Merged
    <3> QED BY <1>3, <1>4, <2>0, <3>1, <3>2, CountSame
  <2>4. CASE joined # 0
    <3>1. /\ url' = [url EXCEPT ![0] = hash_map_add(url[0], url[joined])]
          /\ ref' = [ref EXCEPT ![0] = hash_map_add(ref[0], ref[joined])]
      BY <1>7, <2>4 DEF Join
    <3>2. \A w \in Worker : w < joined + 1 <=> w < joined \/ w = joined
      BY <2>0, WorkerIn
    <3>3. \A w \in Worker : Merged(w)' <=> Merged(w) \/ w = joined
      BY <2>0, <2>4, <3>2 DEF Merged
    <3>4. ~Merged(0) /\ \A w \in Worker : w = joined => ~Merged(w) /\ Merged(w)'
      <4>1. ~(joined < joined)
        BY <2>0
      <4> QED BY <3>3, <4>1 DEF Merged
    <3>5. Typed'
      BY <1>7, InvMain
    <3>6. ASSUME NEW u \in Url
          PROVE  SumOver(Share(url, u), Worker)' = SumOver(Share(url, u), Worker)
      <4> DEFINE g == Share(url, u)
                 h == Share(url, u)'
      <4>1. g \in [Worker -> Nat] /\ h \in [Worker -> Nat]
        <5>1. \A w \in Worker : url'[w][u] \in Nat
          BY <3>5 DEF Typed
        <5> QED BY <5>1, ShareIn DEF Share
      <4>2. url'[0][u] = url[0][u] + url[joined][u] /\ \A w \in Worker \ {0} : url'[w] = url[w]
        BY <2>2, <3>1 DEF hash_map_add, Typed
      <4>3. h[0] = g[0] + g[joined] /\ h[joined] = 0 /\ \A v \in Worker \ {0, joined} : g[v] = h[v]
        BY <2>2, <2>4, <3>3, <3>4, <4>2 DEF Share
      <4> HIDE DEF g, h
      <4>4. SumOver(h, Worker) = SumOver(g, Worker)
        BY <2>2, <2>4, <4>1, <4>3, ShareMove
      <4> QED BY <4>4 DEF g, h
    <3>7. ASSUME NEW r \in Ref \cup {Blank}
          PROVE  SumOver(Share(ref, r), Worker)' = SumOver(Share(ref, r), Worker)
      <4> DEFINE g == Share(ref, r)
                 h == Share(ref, r)'
      <4>1. g \in [Worker -> Nat] /\ h \in [Worker -> Nat]
        <5>1. \A w \in Worker : ref'[w][r] \in Nat
          BY <3>5 DEF Typed
        <5> QED BY <5>1, ShareIn DEF Share
      <4>2. ref'[0][r] = ref[0][r] + ref[joined][r] /\ \A w \in Worker \ {0} : ref'[w] = ref[w]
        BY <2>2, <3>1 DEF hash_map_add, Typed
      <4>3. h[0] = g[0] + g[joined] /\ h[joined] = 0 /\ \A v \in Worker \ {0, joined} : g[v] = h[v]
        BY <2>2, <2>4, <3>3, <3>4, <4>2 DEF Share
      <4> HIDE DEF g, h
      <4>4. SumOver(h, Worker) = SumOver(g, Worker)
        BY <2>2, <2>4, <4>1, <4>3, ShareMove
      <4> QED BY <4>4 DEF g, h
    <3>8. \A u, r : UrlLines(u)' = UrlLines(u) /\ RefLines(r)' = RefLines(r)
      BY <1>4 DEF UrlLines, RefLines, CountedUnder, LineOf
    <3> HIDE DEF SumOver
    <3> QED BY <1>3, <1>4, <2>0, <3>6, <3>7, <3>8 DEF CountInv
  <2> QED BY <2>3, <2>4
<1>8. CASE JoinFails
  <2>1. main' = "exited"
    BY <1>8 DEF JoinFails
  <2>2. IsFiniteSet(Counted)'
    BY <1>4 DEF CountInv
  <2> QED BY <1>3, <2>1, <2>2 DEF CountInv
<1> QED BY <1>5, <1>6, <1>7, <1>8 DEF Main

\* A thread's steps that count nothing: the file it claims has no line
\* counted, the one it leaves has all of them.
LEMMA CountQuiet ==
  ASSUME Typed, ListInv, ThreadInv, CountInv, NEW w \in Worker,
         \/ Load(w) \/ ClaimOk(w) \/ ClaimFail(w) \/ WorkerEnd(w)
         \/ Open(w) \/ OpenFails(w) \/ InsertFails(w) \/ EndOfFile(w)
  PROVE  CountInv'
<1>0. /\ UNCHANGED <<list, f_idx, url, ref, joined>>
      /\ main' = main \/ main' = "exited"
      /\ main # "exited"
  BY DEF Load, ClaimOk, ClaimFail, WorkerEnd, Open, OpenFails, InsertFails, EndOfFile, mvars, wvars, Alive
<1>1. \A v \in Worker : main' # "exited" => (Merged(v)' <=> Merged(v))
  BY <1>0 DEF Merged
<1>2. /\ pc \in [Worker -> {"none", "load", "claim", "open", "read", "done"}]
      /\ loc \in [Worker -> Nat] /\ at \in [Worker -> Nat] /\ rec \in [Worker -> Record]
      /\ iter \in 0..f_idx /\ iter \in Nat
      /\ \A v \in Worker : pc[v] = "read" => rec[v].referer = CountedUnder(<<list[loc[v]], at[v]>>)
      /\ \A v \in Worker : Holds(v) => loc[v] < iter
      /\ \A u, v \in Worker : Holds(u) /\ Holds(v) /\ loc[u] = loc[v] => u = v
  BY DEF Typed, CountInv, ThreadInv
<1>3. ASSUME Counted' = Counted,
             \A v \in Worker : pc'[v] = "read" =>
                 \/ rec'[v].referer = CountedUnder(<<list[loc'[v]], at'[v]>>)
                 \/ pc[v] = "read" /\ UNCHANGED <<loc, at, rec>>
      PROVE  CountInv'
  <2>1. \A v \in Worker : pc'[v] = "read" => rec'[v].referer = CountedUnder(<<list'[loc'[v]], at'[v]>>)
    BY <1>0, <1>2, <1>3
  <2> QED BY <1>0, <1>1, <1>3, <2>1, CountSame
<1>4. CASE Load(w) \/ ClaimFail(w) \/ WorkerEnd(w) \/ OpenFails(w) \/ InsertFails(w)
  <2>1. /\ UNCHANGED <<iter, at, rec>> /\ (Holds(w) => UNCHANGED <<loc, pc>>)
        /\ loc' = loc \/ loc' = [loc EXCEPT ![w] = iter]
        /\ pc' = pc \/ pc' = [pc EXCEPT ![w] = "claim"] \/ pc' = [pc EXCEPT ![w] = "done"]
    BY <1>4 DEF Load, ClaimFail, WorkerEnd, OpenFails, InsertFails, wvars, Holds
  <2>2. \A v \in Worker : /\ pc'[v] \in {"open", "read"} \/ pc[v] \in {"open", "read"} =>
                                pc'[v] = pc[v] /\ loc'[v] = loc[v]
    BY <1>2, <2>1 DEF Holds
  <2>3. \A c, n : Done(c, n)' <=> Done(c, n)
    BY <2>1, <2>2, DoneSame DEF Holds
  <2>4. Counted' = Counted
    BY <1>0, <2>3, CountedSame
  <2> QED BY <1>2, <1>3, <2>1, <2>2, <2>4
<1>5. CASE ClaimOk(w)
  <2>1. /\ pc' = [pc EXCEPT ![w] = "open"] /\ iter' = iter + 1 /\ loc[w] = iter /\ pc[w] = "claim"
        /\ UNCHANGED <<loc, at, rec>>
    BY <1>5 DEF ClaimOk, wvars
  <2>2. \A v \in Worker : pc'[v] = IF v = w THEN "open" ELSE pc[v]
    BY <1>2, <2>1
  <2>3. \A v \in Worker : (pc'[v] = "read" <=> pc[v] = "read") /\ (Holds(v)' <=> Holds(v) \/ v = w)
    BY <2>1, <2>2 DEF Holds
  <2>4. \A c \in 0..f_idx - 1 : \A n : Done(c, n)' <=> Done(c, n)
    <3> TAKE c \in 0..f_idx - 1
    <3> TAKE n
    <3>1. (\E v \in Worker : pc'[v] = "read" /\ loc'[v] = c /\ n <= at'[v])
             <=> (\E v \in Worker : pc[v] = "read" /\ loc[v] = c /\ n <= at[v])
      BY <2>1, <2>3
    <3>2. CASE c = iter
      <4>1. ~(c < iter)
        BY <1>2, <3>2
      <4>2. Holds(w)' /\ loc'[w] = c
        BY <2>1, <2>3, <3>2
      <4> QED BY <3>1, <4>1, <4>2 DEF Done
    <3>3. CASE c # iter
      <4>1. c < iter' <=> c < iter
        BY <1>2, <2>1, <3>3
      <4>2. (\A v \in Worker : Holds(v)' => loc'[v] # c) <=> (\A v \in Worker : Holds(v) => loc[v] # c)
        BY <2>1, <2>3, <3>3
      <4> QED BY <3>1, <4>1, <4>2 DEF Done
    <3> QED BY <3>2, <3>3
  <2>5. Counted' = Counted
    BY <1>0, <2>4, CountedSame
  <2> QED BY <1>2, <1>3, <2>1, <2>3, <2>5
<1>6. CASE Open(w)
  <2>1. /\ pc' = [pc EXCEPT ![w] = "read"] /\ at' = [at EXCEPT ![w] = 0]
        /\ rec' = [rec EXCEPT ![w] = NewRecord] /\ pc[w] = "open"
        /\ UNCHANGED <<iter, loc>>
    BY <1>6 DEF Open
  <2>2. \A v \in Worker : /\ v = w => pc'[v] = "read" /\ at'[v] = 0 /\ rec'[v] = NewRecord
                          /\ v # w => pc'[v] = pc[v] /\ at'[v] = at[v] /\ rec'[v] = rec[v]
    BY <1>2, <2>1
  <2>3. \A v \in Worker : Holds(v)' <=> Holds(v)
    BY <2>1, <2>2 DEF Holds
  <2>4. \A c : \A n \in Nat \ {0} : Done(c, n)' <=> Done(c, n)
    <3> TAKE c
    <3> TAKE n \in Nat \ {0}
    <3>1. \A v \in Worker : pc'[v] = "read" /\ loc'[v] = c /\ n <= at'[v]
                               <=> pc[v] = "read" /\ loc[v] = c /\ n <= at[v]
      <4> TAKE v \in Worker
      <4>1. CASE v = w
        <5>1. ~(n <= 0)
          OBVIOUS
        <5> QED BY <2>1, <2>2, <4>1, <5>1
      <4>2. CASE v # w
        BY <2>1, <2>2, <4>2
      <4> QED BY <4>1, <4>2
    <3>2. (c < iter /\ \A v \in Worker : Holds(v) => loc[v] # c)
             <=> (c < iter' /\ \A v \in Worker : Holds(v)' => loc'[v] # c)
      BY <2>1, <2>3
    <3> QED BY <3>1, <3>2 DEF Done
  <2>5. Counted' = Counted
    <3>1. \A k : \A n \in 1..k : n \in Nat \ {0}
      OBVIOUS
    <3> QED BY <1>0, <2>4, <3>1, CountedSame
  <2>6. \A v \in Worker : pc'[v] = "read" => rec'[v].referer = CountedUnder(<<list[loc'[v]], at'[v]>>)
    <3>1. NewRecord.referer = Blank
      BY DEF NewRecord
    <3> QED BY <1>2, <2>1, <2>2, <3>1, CountedUnderFirst
  <2> QED BY <1>3, <2>5, <2>6
<1>7. CASE EndOfFile(w)
  <2>1. /\ pc' = [pc EXCEPT ![w] = "load"] /\ pc[w] = "read" /\ at[w] = Len(Lines[list[loc[w]]])
        /\ UNCHANGED <<iter, loc, at, rec>>
    BY <1>7 DEF EndOfFile, wvars
  <2>2. \A v \in Worker : /\ v = w => pc'[v] = "load"
                          /\ v # w => pc'[v] = pc[v]
    BY <1>2, <2>1
  <2>3. \A v \in Worker : Holds(v)' <=> Holds(v) /\ v # w
    BY <2>1, <2>2 DEF Holds
  <2>4. Holds(w)
    BY <2>1 DEF Holds
  <2>5. \A c \in 0..f_idx - 1 : \A n \in 1..Len(Lines[list[c]]) : Done(c, n)' <=> Done(c, n)
    <3> TAKE c \in 0..f_idx - 1
    <3> TAKE n \in 1..Len(Lines[list[c]])
    <3>1. CASE c = loc[w]
      <4>1. n <= at[w]
        BY <2>1, <3>1
      <4>2. c < iter /\ \A v \in Worker : Holds(v)' => loc'[v] # c
        BY <1>2, <2>1, <2>3, <2>4, <3>1
      <4> QED BY <2>1, <3>1, <4>1, <4>2 DEF Done
    <3>2. CASE c # loc[w]
      <4>1. \A v \in Worker : pc'[v] = "read" /\ loc'[v] = c /\ n <= at'[v]
                                 <=> pc[v] = "read" /\ loc[v] = c /\ n <= at[v]
        BY <2>1, <2>2, <3>2
      <4>2. (\A v \in Worker : Holds(v) => loc[v] # c)
               <=> (\A v \in Worker : Holds(v)' => loc'[v] # c)
        BY <2>1, <2>3, <3>2
      <4> QED BY <2>1, <4>1, <4>2 DEF Done
    <3> QED BY <3>1, <3>2
  <2>6. Counted' = Counted
    BY <1>0, <2>5, CountedSame
  <2> QED BY <1>2, <1>3, <2>1, <2>2, <2>6
<1> QED BY <1>4, <1>5, <1>6, <1>7

\* The line a thread reads is counted from then on, if it can be parsed.
LEMMA CountedMore ==
  ASSUME Typed, ListInv, ThreadInv, NEW w \in Worker, ReadLine(w)
  PROVE  LET f == list[loc[w]]
             n == at[w] + 1
         IN  /\ f \in File /\ n \in 1..Len(Lines[f]) /\ n \in Nat
             /\ <<f, n>> \notin Counted
             /\ Counted' = IF Parsed(Lines[f][n]) THEN Counted \cup {<<f, n>>} ELSE Counted
<1> DEFINE f == list[loc[w]]
           n == at[w] + 1
<1>0. /\ pc[w] = "read" /\ at' = [at EXCEPT ![w] = n] /\ at[w] < Len(Lines[f])
      /\ UNCHANGED <<list, f_idx, loc, pc, iter>>
      /\ at \in [Worker -> Nat] /\ at[w] \in Nat
  BY DEF ReadLine, mvars, Typed
<1>1. /\ loc[w] \in 0..f_idx - 1 /\ f \in File /\ Lines[f] \in Seq(Line)
  BY <1>0, CellOf DEF Holds
<1>2. n \in 1..Len(Lines[f]) /\ n \in Nat
  <2>1. Len(Lines[f]) \in Nat
    BY <1>1
  <2> HIDE DEF f
  <2> QED BY <1>0, <2>1
<1>3. \A v \in Worker : Holds(v) /\ loc[v] = loc[w] => v = w
  BY <1>0 DEF ThreadInv, Holds
<1> HIDE DEF n
<1>4. \A m \in Nat : Done(loc[w], m) <=> m <= at[w]
  <2>1. Holds(w)
    BY <1>0 DEF Holds
  <2> QED BY <1>0, <1>3, <2>1 DEF Done, Holds
<1>5. ASSUME NEW c, NEW m \in Nat
      PROVE  Done(c, m)' <=> Done(c, m) \/ (c = loc[w] /\ m = n)
  <2>0. /\ \A v \in Worker : v # w => at'[v] = at[v]
        /\ at'[w] = n
        /\ \A v \in Worker : Holds(v)' <=> Holds(v)
    BY <1>0 DEF Holds
  <2>1. CASE c # loc[w]
    <3>1. \A v \in Worker : pc'[v] = "read" /\ loc'[v] = c /\ m <= at'[v]
                               <=> pc[v] = "read" /\ loc[v] = c /\ m <= at[v]
      BY <1>0, <2>0, <2>1
    <3>2. (\A v \in Worker : Holds(v) => loc[v] # c)
             <=> (\A v \in Worker : Holds(v)' => loc'[v] # c)
      BY <1>0, <2>0
    <3> QED BY <1>0, <2>1, <3>1, <3>2 DEF Done
  <2>2. CASE c = loc[w]
    <3>1. Done(c, m)' <=> m <= n
      <4>1. \A v \in Worker : pc'[v] = "read" /\ loc'[v] = c <=> v = w
        BY <1>0, <1>3, <2>2 DEF Holds
      <4>2. ~(\A v \in Worker : Holds(v)' => loc'[v] # c)
        BY <1>0, <2>0, <2>2 DEF Holds
      <4>3. (\E v \in Worker : pc'[v] = "read" /\ loc'[v] = c /\ m <= at'[v]) <=> m <= n
        BY <2>0, <4>1
      <4> QED BY <4>2, <4>3 DEF Done
    <3>2. m <= n <=> m <= at[w] \/ m = n
      BY <1>0 DEF n
    <3> QED BY <1>4, <2>2, <3>1, <3>2
  <2> QED BY <2>1, <2>2
<1>6. \A c \in 0..f_idx - 1 : list[c] = f => c = loc[w]
  BY <1>1 DEF ListInv
<1> HIDE DEF f
<1>7. <<f, n>> \notin Counted
  <2>1. ~(n <= at[w])
    BY <1>0 DEF n
  <2> QED BY <1>2, <1>4, <1>6, <2>1 DEF Counted
<1>8. \A fn \in Parsable : fn \in Counted' <=> fn \in Counted \/ fn = <<f, n>>
  <2> TAKE fn \in Parsable
  <2>1. fn[2] \in Nat /\ fn = <<fn[1], fn[2]>>
    BY ParsableIs
  <2>2. \A c \in 0..f_idx - 1 : Done(c, fn[2])' <=> Done(c, fn[2]) \/ (c = loc[w] /\ fn[2] = n)
    BY <1>5, <2>1
  <2>3. fn \in Counted' <=> \E c \in 0..f_idx - 1 : list[c] = fn[1] /\ Done(c, fn[2])'
    BY <1>0 DEF Counted
  <2>4. fn \in Counted <=> \E c \in 0..f_idx - 1 : list[c] = fn[1] /\ Done(c, fn[2])
    BY DEF Counted
  <2>5. list[loc[w]] = f
    BY DEF f
  <2>6. fn = <<f, n>> <=> fn[1] = f /\ fn[2] = n
    BY <2>1
  <2> QED BY <1>1, <1>6, <2>2, <2>3, <2>4, <2>5, <2>6
<1>9. <<f, n>> \in Parsable <=> Parsed(Lines[f][n])
  BY <1>1, <1>2, ParsableIs DEF LineOf, f
<1>10. Counted \subseteq Parsable /\ Counted' \subseteq Parsable
  <2>1. Parsable' = Parsable
    BY DEF Parsable, Parsed
  <2> QED BY <2>1 DEF Counted
<1>11. Counted' = IF Parsed(Lines[f][n]) THEN Counted \cup {<<f, n>>} ELSE Counted
  BY <1>8, <1>9, <1>10
<1> QED BY <1>1, <1>2, <1>7, <1>11 DEF f, n

LEMMA CountReadLine ==
  ASSUME Typed, ListInv, ThreadInv, CountInv, NEW w \in Worker, ReadLine(w)
  PROVE  CountInv'
<1> DEFINE f == list[loc[w]]
           n == at[w] + 1
           line == Lines[f][n]
           rc == http_record_get(line, rec[w])
           fn == <<f, n>>
<1>0. /\ pc[w] = "read" /\ at' = [at EXCEPT ![w] = n] /\ rec' = [rec EXCEPT ![w] = rc]
      /\ url' = IF Parsed(line) THEN [url EXCEPT ![w] = [url[w] EXCEPT ![rc.url] = url[w][rc.url] + rc.bytes]] ELSE url
      /\ ref' = IF Parsed(line) THEN [ref EXCEPT ![w] = [ref[w] EXCEPT ![rc.referer] = ref[w][rc.referer] + 1]] ELSE ref
      /\ UNCHANGED <<list, f_idx, loc, pc, iter, main, joined>>
      /\ main \notin {"exited", "reported"}
  BY DEF ReadLine, mvars, Alive
<1>1. /\ f \in File /\ n \in 1..Len(Lines[f]) /\ n \in Nat
      /\ fn \notin Counted
      /\ Counted' = IF Parsed(line) THEN Counted \cup {fn} ELSE Counted
  BY CountedMore
<1>2. line \in Line /\ rec[w] \in Record
  <2>1. Lines[f] \in Seq(Line)
    BY <1>1, LinesAssumption
  <2> HIDE DEF f, n, Line
  <2>2. Lines[f][n] \in Line
    BY <1>1, <2>1
  <2> QED BY <2>2 DEF Typed
<1>3. /\ rc \in Record
      /\ Parsed(line) => rc.url = line.url /\ rc.bytes = line.bytes
      /\ rc.referer = IF Parsed(line) /\ line.referer # Dash THEN line.referer ELSE rec[w].referer
  <2> HIDE DEF line
  <2> QED BY <1>2, RecordOf
<1>4. rc.referer = CountedUnder(fn)
  <2>1. rec[w].referer = CountedUnder(<<f, at[w]>>) /\ at[w] \in Nat
    BY <1>0 DEF CountInv, Typed
  <2>2. CountedUnder(<<f, at[w] + 1>>) = IF Parsed(line) /\ line.referer # Dash
                                         THEN line.referer ELSE CountedUnder(<<f, at[w]>>)
    <3> HIDE DEF f
    <3> QED BY <1>1, <2>1, CountedUnderNext DEF f
  <2> HIDE DEF rc, line
  <2> QED BY <1>3, <2>1, <2>2
<1>5. \A v \in Worker : pc'[v] = "read" => rec'[v].referer = CountedUnder(<<list'[loc'[v]], at'[v]>>)
  <2> SUFFICES ASSUME NEW v \in Worker, pc'[v] = "read"
               PROVE  rec'[v].referer = CountedUnder(<<list'[loc'[v]], at'[v]>>)
    OBVIOUS
  <2>0. at \in [Worker -> Nat] /\ rec \in [Worker -> Record]
    BY DEF Typed
  <2> HIDE DEF rc, line
  <2>1. CASE v = w
    <3>1. at'[v] = n /\ rec'[v] = rc
      BY <1>0, <2>0, <2>1
    <3>2. list'[loc'[v]] = f
      BY <1>0, <2>1
    <3> QED BY <1>4, <3>1, <3>2
  <2>2. CASE v # w
    <3>1. at'[v] = at[v] /\ rec'[v] = rec[v] /\ pc[v] = "read" /\ list'[loc'[v]] = list[loc[v]]
      BY <1>0, <2>0, <2>2
    <3> QED BY <3>1 DEF CountInv
  <2> QED BY <2>1, <2>2
<1>6. \A v \in Worker : Merged(v)' <=> Merged(v)
  BY <1>0 DEF Merged
<1>7. CASE ~Parsed(line)
  BY <1>0, <1>1, <1>5, <1>6, <1>7, CountSame
<1>8. CASE Parsed(line)
  <2>0. /\ url \in [Worker -> [Url \cup {Blank} -> Nat]]
        /\ ref \in [Worker -> [Ref \cup {Blank} -> Nat]]
        /\ rc.url \in Url \cup {Blank} /\ rc.bytes \in Nat /\ rc.referer \in Ref \cup {Blank}
    BY <1>3 DEF Typed, Record
  <2>1. fn \in Parsable /\ LineOf(fn) = line
    BY <1>1, <1>8, ParsableIs DEF LineOf
  <2>2. Bytes[fn] = rc.bytes /\ LineOf(fn).url = rc.url
    BY <1>3, <1>8, <2>1, BytesIn
  <2>3. ~Merged(w)
    BY <1>0 DEF ThreadInv, Merged
  <2> HIDE DEF rc, line, fn
  <2>4. Counted' = Counted \cup {fn} /\ fn \notin Counted /\ IsFiniteSet(Counted) /\ Counted \subseteq Parsable
    BY <1>1, <1>8 DEF CountInv, Counted
  <2>5. IsFiniteSet(Counted')
    BY <2>4, FS_AddElement
  <2>6. \A v \in Worker : /\ v # w => url'[v] = url[v] /\ ref'[v] = ref[v]
                          /\ v = w => /\ url'[v] = [url[w] EXCEPT ![rc.url] = url[w][rc.url] + rc.bytes]
                                      /\ ref'[v] = [ref[w] EXCEPT ![rc.referer] = ref[w][rc.referer] + 1]
    BY <1>0, <1>8, <2>0
  <2>7. \A u : UrlLines(u)' = UrlLines(u) \cup {x \in {fn} : LineOf(fn).url = u}
    <3>1. \A x : LineOf(x)' = LineOf(x)
      BY DEF LineOf
    <3> QED BY <2>4, <3>1 DEF UrlLines
  <2>8. \A r : RefLines(r)' = RefLines(r) \cup {x \in {fn} : CountedUnder(fn) = r}
    <3>1. \A x : CountedUnder(x)' = CountedUnder(x)
      BY DEF CountedUnder, Parsed
    <3> QED BY <2>4, <3>1 DEF RefLines
  <2>9. \A u, r : /\ IsFiniteSet(UrlLines(u)) /\ UrlLines(u) \subseteq Counted
                  /\ IsFiniteSet(RefLines(r)) /\ RefLines(r) \subseteq Counted
    <3>1. \A u, r : UrlLines(u) \subseteq Counted /\ RefLines(r) \subseteq Counted
      BY DEF UrlLines, RefLines
    <3> QED BY <2>4, <3>1, FS_Subset
  <2>10. ASSUME NEW u \in Url
         PROVE  SumOver(Share(url, u), Worker)' = SumOver(Bytes, UrlLines(u))'
    <3> DEFINE g == Share(url, u)
               h == Share(url, u)'
    <3>1. g \in [Worker -> Nat] /\ h \in [Worker -> Nat]
      <4>1. \A v \in Worker : url'[v][u] \in Nat
        BY <2>0, <2>6
      <4> QED BY <4>1, ShareIn DEF Share
    <3>2. \A v \in Worker \ {w} : g[v] = h[v]
      BY <1>6, <2>6 DEF Share
    <3>3. SumOver(g, Worker) = SumOver(Bytes, UrlLines(u))
      BY <1>0 DEF CountInv
    <3>4. SumOver(Bytes, UrlLines(u))' = SumOver(Bytes, UrlLines(u)')
      <4>1. Bytes' = Bytes
        BY DEF Bytes, Parsable, Parsed, LineOf
      <4> HIDE DEF SumOver
      <4> QED BY <4>1
    <3>5. CASE u = rc.url
      <4>1. h[w] = g[w] + rc.bytes
        BY <1>6, <2>0, <2>3, <2>6, <3>5 DEF Share
      <4>2. UrlLines(u)' = UrlLines(u) \cup {fn} /\ fn \notin UrlLines(u)
        BY <2>2, <2>4, <2>7, <2>9, <3>5
      <4> HIDE DEF g, h
      <4>3. SumOver(h, Worker) = SumOver(g, Worker) + rc.bytes
        BY <2>0, <3>1, <3>2, <4>1, ShareAdd
      <4>4. SumOver(Bytes, UrlLines(u) \cup {fn}) = SumOver(Bytes, UrlLines(u)) + rc.bytes
        <5>1. \A x \in UrlLines(u) \cup {fn} : Bytes[x] \in Nat
          BY <2>1, <2>4, <2>9, BytesIn
        <5> QED BY <2>2, <2>9, <4>2, <5>1, SumAdd
      <4> HIDE DEF SumOver
      <4>5. SumOver(h, Worker) = SumOver(Bytes, UrlLines(u)')
        BY <3>3, <4>2, <4>3, <4>4
      <4> QED BY <3>4, <4>5 DEF h
    <3>6. CASE u # rc.url
      <4>1. h[w] = g[w]
        BY <1>6, <2>0, <2>6, <3>6 DEF Share
      <4>2. UrlLines(u)' = UrlLines(u)
        BY <2>2, <2>7, <3>6
      <4>3. \A v \in Worker : g[v] = h[v]
        BY <3>2, <4>1
      <4> HIDE DEF g, h
      <4>4. SumOver(h, Worker) = SumOver(g, Worker)
        BY <4>3, WorkersFinite, SumSame
      <4> HIDE DEF SumOver
      <4>5. SumOver(h, Worker) = SumOver(Bytes, UrlLines(u)')
        BY <3>3, <4>2, <4>4
      <4> QED BY <3>4, <4>5 DEF h
    <3> QED BY <3>5, <3>6
  <2>11. ASSUME NEW r \in Ref \cup {Blank}
         PROVE  SumOver(Share(ref, r), Worker)' = Cardinality(RefLines(r))'
    <3> DEFINE g == Share(ref, r)
               h == Share(ref, r)'
    <3>1. g \in [Worker -> Nat] /\ h \in [Worker -> Nat]
      <4>1. \A v \in Worker : ref'[v][r] \in Nat
        BY <2>0, <2>6
      <4> QED BY <4>1, ShareIn DEF Share
    <3>2. \A v \in Worker \ {w} : g[v] = h[v]
      BY <1>6, <2>6 DEF Share
    <3>3. SumOver(g, Worker) = Cardinality(RefLines(r))
      BY <1>0 DEF CountInv
    <3>4. CASE r = rc.referer
      <4>1. h[w] = g[w] + 1
        BY <1>6, <2>0, <2>3, <2>6, <3>4 DEF Share
      <4>2. RefLines(r)' = RefLines(r) \cup {fn} /\ fn \notin RefLines(r)
        BY <1>4, <2>4, <2>8, <2>9, <3>4
      <4> HIDE DEF g, h
      <4>3. SumOver(h, Worker) = SumOver(g, Worker) + 1
        BY <3>1, <3>2, <4>1, ShareAdd
      <4>4. Cardinality(RefLines(r)') = Cardinality(RefLines(r)) + 1
        BY <2>9, <4>2, FS_AddElement
      <4> HIDE DEF SumOver
      <4>5. SumOver(h, Worker) = Cardinality(RefLines(r)')
        BY <3>3, <4>3, <4>4
      <4> QED BY <4>5 DEF h
    <3>5. CASE r # rc.referer
      <4>1. h[w] = g[w]
        BY <1>6, <2>0, <2>6, <3>5 DEF Share
      <4>2. RefLines(r)' = RefLines(r)
        BY <1>4, <2>8, <3>5
      <4>3. \A v \in Worker : g[v] = h[v]
        BY <3>2, <4>1
      <4> HIDE DEF g, h
      <4>4. SumOver(h, Worker) = SumOver(g, Worker)
        BY <4>3, WorkersFinite, SumSame
      <4> HIDE DEF SumOver
      <4>5. SumOver(h, Worker) = Cardinality(RefLines(r)')
        BY <3>3, <4>2, <4>4
      <4> QED BY <4>5 DEF h
    <3> QED BY <3>4, <3>5
  <2> HIDE DEF SumOver
  <2> QED BY <1>5, <2>5, <2>10, <2>11 DEF CountInv
<1> QED BY <1>7, <1>8

LEMMA CountNext == Inv /\ CountInv /\ [Next]_vars => CountInv'
<1> SUFFICES ASSUME Typed, ListInv, ThreadInv, CountInv, [Next]_vars PROVE CountInv'
  BY DEF Inv
<1>1. CASE Main
  BY <1>1, CountMain
<1>2. CASE \E w \in Worker : Work(w)
  <2>1. PICK w \in Worker : Work(w)
    BY <1>2
  <2> QED BY <2>1, CountQuiet, CountReadLine DEF Work
<1>3. CASE UNCHANGED vars
  <2>1. UNCHANGED <<main, joined, iter, pc, left, list, f_idx, loc, at, rec, url, ref>>
    BY <1>3 DEF vars, mvars, wvars
  <2>2. \A c, n : Done(c, n)' <=> Done(c, n)
    BY <2>1 DEF Done, Holds
  <2>3. Counted' = Counted
    BY <2>1, <2>2, CountedSame
  <2>4. \A w \in Worker : Merged(w)' <=> Merged(w)
    BY <2>1 DEF Merged
  <2>5. \A w \in Worker : pc'[w] = "read" => rec'[w].referer = CountedUnder(<<list'[loc'[w]], at'[w]>>)
    BY <2>1 DEF CountInv
  <2> QED BY <2>1, <2>3, <2>4, <2>5, CountSame
<1> QED BY <1>1, <1>2, <1>3 DEF Next

\* When all threads have been joined, every line has been counted, and the
\* first thread's maps hold them all.
LEMMA ReportedAll ==
  ASSUME Typed, ListInv, ThreadInv, main = "reported"
  PROVE  /\ Counted = Parsable
         /\ \A u \in Url : SumOver(Share(url, u), Worker) = url[0][u]
         /\ \A r \in Ref \cup {Blank} : SumOver(Share(ref, r), Worker) = ref[0][r]
<1>0. /\ left = {} /\ f_idx > 0 /\ joined = num_threads /\ f_idx \in Nat
      /\ \A w \in Worker : (pc[w] = "none" <=> w >= num_threads) /\ (w < joined => pc[w] = "done")
  BY DEF Typed, ListInv, ThreadInv
<1>1. num_threads \in 1..NumThreads /\ num_threads \in Nat
  BY <1>0, NumThreadsIn, ThreadsAssumption
<1>2. \A w \in Worker : IF w < num_threads THEN pc[w] = "done" ELSE pc[w] = "none"
  BY <1>0, <1>1, WorkerIn
<1>3. 0 \in Worker /\ pc[0] = "done" /\ iter = f_idx
  BY <1>1, <1>2, WorkerIn DEF ThreadInv
<1>4. \A c \in 0..f_idx - 1 : \A n : Done(c, n)
  <2> TAKE c \in 0..f_idx - 1
  <2> TAKE n
  <2>1. c < iter
    BY <1>0, <1>3
  <2>2. \A w \in Worker : ~Holds(w)
    BY <1>2 DEF Holds
  <2> QED BY <2>1, <2>2 DEF Done
<1>5. Counted = Parsable
  <2>1. \A fn \in Parsable : \E c \in 0..f_idx - 1 : list[c] = fn[1]
    BY <1>0, ParsableIs DEF ListInv
  <2> QED BY <1>4, <2>1 DEF Counted
<1>6. \A w \in Worker : w # 0 => Merged(w) \/ (url[w] = EmptyUrls /\ ref[w] = EmptyRefs)
  BY <1>0, <1>2 DEF Merged, ThreadInv
<1>7. ~Merged(0)
  BY DEF Merged
<1>8. ASSUME NEW g \in [Worker -> Nat], \A w \in Worker \ {0} : g[w] = 0
      PROVE  SumOver(g, Worker) = g[0]
  <2> DEFINE z == [w \in Worker |-> 0]
  <2>1. z \in [Worker -> Nat] /\ (\A w \in Worker : z[w] = 0) /\ \A w \in Worker \ {0} : g[w] = z[w]
    BY <1>8
  <2> HIDE DEF z
  <2>2. SumOver(z, Worker) = 0
    BY <2>1, WorkersFinite, SumZero
  <2>3. SumOver(z, Worker) + g[0] = SumOver(g, Worker) + z[0]
    BY <1>3, <2>1, WorkersFinite, SumChange
  <2>4. SumOver(g, Worker) \in Nat /\ g[0] \in Nat /\ z[0] = 0
    BY <1>3, <2>1, WorkersFinite, SumNat
  <2> HIDE DEF SumOver
  <2> QED BY <2>2, <2>3, <2>4
<1>9. ASSUME NEW u \in Url
      PROVE  SumOver(Share(url, u), Worker) = url[0][u]
  <2>1. Share(url, u) \in [Worker -> Nat]
    BY ShareIn
  <2>2. \A w \in Worker \ {0} : Share(url, u)[w] = 0
    BY <1>6 DEF Share, EmptyUrls
  <2>3. Share(url, u)[0] = url[0][u]
    BY <1>3, <1>7 DEF Share
  <2> QED BY <1>8, <2>1, <2>2, <2>3
<1>10. ASSUME NEW r \in Ref \cup {Blank}
      PROVE  SumOver(Share(ref, r), Worker) = ref[0][r]
  <2>1. Share(ref, r) \in [Worker -> Nat]
    BY ShareIn
  <2>2. \A w \in Worker \ {0} : Share(ref, r)[w] = 0
    BY <1>6 DEF Share, EmptyRefs
  <2>3. Share(ref, r)[0] = ref[0][r]
    BY <1>3, <1>7 DEF Share
  <2> QED BY <1>8, <2>1, <2>2, <2>3
<1> QED BY <1>5, <1>9, <1>10

\* Whatever the number of threads, the order in which the directory lists its
\* files and the interleaving of the threads, the traffic of every URL and the
\* count of every referer are those that one thread computes.
THEOREM ReportIsSequentialCorrect == Spec => []ReportIsSequential
<1>1. Inv /\ CountInv => ReportIsSequential
  <2> SUFFICES ASSUME Typed, ListInv, ThreadInv, CountInv, main = "reported"
               PROVE  /\ \A u \in Url : url[0][u] = TrafficOf(u)
                      /\ \A r \in Ref \cup {Blank} :
                            ref[0][r] = Cardinality({fn \in Parsable : CountedUnder(fn) = r})
    BY DEF Inv, ReportIsSequential
  <2>1. \A u : TrafficOf(u) = SumOver(Bytes, {fn \in Parsable : LineOf(fn).url = u})
    BY DEF TrafficOf, SumOver
  <2>2. /\ Counted = Parsable
        /\ \A u \in Url : SumOver(Share(url, u), Worker) = url[0][u]
        /\ \A r \in Ref \cup {Blank} : SumOver(Share(ref, r), Worker) = ref[0][r]
    BY ReportedAll
  <2>3. \A u \in Url : url[0][u] = SumOver(Bytes, UrlLines(u))
    <3> HIDE DEF SumOver
    <3> QED BY <2>2 DEF CountInv
  <2>4. \A r \in Ref \cup {Blank} : ref[0][r] = Cardinality(RefLines(r))
    <3> HIDE DEF SumOver
    <3> QED BY <2>2 DEF CountInv
  <2> HIDE DEF SumOver
  <2> QED BY <2>1, <2>2, <2>3, <2>4 DEF UrlLines, RefLines
<1>2. Init => Inv /\ CountInv
  BY InvInit, CountInit DEF Inv
<1>3. (Inv /\ CountInv) /\ [Next]_vars => (Inv /\ CountInv)'
  BY InvNext, CountNext
<1> QED BY <1>1, <1>2, <1>3, PTL DEF Spec
=============================================================================
