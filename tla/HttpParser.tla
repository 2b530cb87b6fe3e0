----------------------------- MODULE HttpParser -----------------------------
(***************************************************************************)
(* http_parser: the main thread lists the files of a directory, starts at  *)
(* most one worker per file, and joins them in order, adding their         *)
(* statistics to those of the first.  The workers share the list and one   *)
(* atomic iterator over it; each claims a file by advancing the iterator   *)
(* with a weak compare-exchange and reads it into maps of its own.         *)
(*                                                                         *)
(* A line of a log is what http_record_get finds in it: a URL, a number of *)
(* bytes, a referer, and how far the line goes before a token is missing.  *)
(* The hash maps are functions here (module HashMap is about them).        *)
(***************************************************************************)
EXTENDS Integers, Sequences, FiniteSetsExt

CONSTANTS File,        \* regular files of the directory
          Other,       \* its other entries
          Lines,       \* the lines of each file
          Unreadable,  \* files fopen may fail on
          Url, Ref,    \* what the lines name
          Blank,       \* the 255 NUL characters of a record just created
          Dash,        \* an empty referer, or "-"
          Null,        \* the NULL after the last file name
          Garbage,     \* memory malloc or realloc returned, not yet written
          ListInitSz,  \* FILES_LIST_INIT_SZ
          NumThreads   \* -t

Line == [url : Url, bytes : Nat, referer : Ref \cup {Dash},
         upto : {"nothing", "url", "bytes", "all"}]

ASSUME LinesAssumption == Lines \in [File -> Seq(Line)]
ASSUME ListAssumption == ListInitSz \in Nat \ {0}
ASSUME ThreadsAssumption == NumThreads \in Nat \ {0}
ASSUME NamesAssumption == /\ {Null, Garbage} \cap (File \cup Other) = {}
                          /\ Null # Garbage /\ File \cap Other = {}
                          /\ Unreadable \subseteq File
                          /\ Blank \notin Url \cup Ref /\ Dash \notin Ref \cup {Blank}

Worker == 0..NumThreads - 1

VARIABLES main,     \* where get_stat is
          left,     \* directory entries not read yet
          list,     \* files_list: its cells
          f_idx,    \* number of files in it
          joined,   \* loop counter of get_stat: workers created, then joined
          iter,     \* files_iter: the shared, atomic iterator
          pc,       \* where each worker is
          loc,      \* its own copy of the iterator
          at,       \* lines of its file it has read
          rec,      \* its http_record
          url, ref  \* its hash maps

mvars == <<left, list, f_idx>>
wvars == <<loc, at, rec, url, ref>>
vars == <<main, joined, iter, pc, mvars, wvars>>

----------------------------------------------------------------------------
(* http_record.h                                                           *)

\* http_rec_create
NewRecord == [url |-> Blank, bytes |-> 0, referer |-> Blank]

\* http_record_get keeps the fields of the previous line that it does not
\* reach in this one
http_record_get(line, r) ==
    [url     |-> IF line.upto = "nothing" THEN r.url ELSE line.url,
     bytes   |-> IF line.upto \in {"bytes", "all"} THEN line.bytes ELSE r.bytes,
     referer |-> IF line.upto = "all" /\ line.referer # Dash THEN line.referer ELSE r.referer]

\* it returns 0
Parsed(line) == line.upto = "all"

EmptyUrls == [u \in Url \cup {Blank} |-> 0]
EmptyRefs == [r \in Ref \cup {Blank} |-> 0]

\* hash_map_add
hash_map_add(dst, src) == [k \in DOMAIN dst |-> dst[k] + src[k]]

----------------------------------------------------------------------------
(* get_stat, in the main thread                                            *)

Init == /\ main = "list" /\ joined = 0
        /\ left = File \cup Other
        /\ list = [c \in 0..ListInitSz |-> Null]
        /\ f_idx = 0
        /\ iter = 0
        /\ pc = [w \in Worker |-> "none"]
        /\ loc = [w \in Worker |-> 0]
        /\ at = [w \in Worker |-> 0]
        /\ rec = [w \in Worker |-> NewRecord]
        /\ url = [w \in Worker |-> EmptyUrls]
        /\ ref = [w \in Worker |-> EmptyRefs]

\* the last cell of the list, reserved for the NULL
files_list_sz == Max(DOMAIN list)

\* mutant: realloc's new cells are left as they are, and no cell is reserved
ReadEntry_NoRoom(e) ==
    /\ main = "list" /\ e \in left
    /\ left' = left \ {e}
    /\ IF e \in File
       THEN /\ f_idx' = f_idx + 1
            /\ list' = IF f_idx + 1 > files_list_sz
                       THEN [c \in 0..2 * files_list_sz |->
                                IF c = f_idx THEN e
                                ELSE IF c \in DOMAIN list THEN list[c] ELSE Garbage]
                       ELSE [list EXCEPT ![f_idx] = e]
       ELSE UNCHANGED <<list, f_idx>>
    /\ UNCHANGED <<main, joined, iter, pc, wvars>>

\* readdir returns the entries in any order; a regular file is added, and a
\* list that is full is doubled, its new cells set to NULL
ReadEntry(e) ==
    /\ main = "list" /\ e \in left
    /\ left' = left \ {e}
    /\ IF e \in File
       THEN /\ f_idx' = f_idx + 1
            /\ list' = IF f_idx + 1 >= files_list_sz
                       THEN [c \in 0..2 * files_list_sz |->
                                IF c = f_idx THEN e ELSE IF c < f_idx THEN list[c] ELSE Null]
                       ELSE [list EXCEPT ![f_idx] = e]
       ELSE UNCHANGED <<list, f_idx>>
    /\ UNCHANGED <<main, joined, iter, pc, wvars>>

\* num_threads = MIN(num_threads, files_count)
num_threads == Min({NumThreads, f_idx})

\* readdir returns NULL; an empty list ends the program
EndOfDirectory ==
    /\ main = "list" /\ left = {}
    /\ list' = [list EXCEPT ![f_idx] = Null]
    /\ main' = IF f_idx = 0 THEN "exited" ELSE "create"
    /\ UNCHANGED <<joined, iter, pc, left, f_idx, wvars>>

\* mutant: the loop ends one worker early
Create_OneLess ==
    /\ main = "create"
    /\ pc' = [pc EXCEPT ![joined] = "load"]
    /\ IF joined + 2 < num_threads
       THEN joined' = joined + 1 /\ UNCHANGED main
       ELSE joined' = 0 /\ main' = "join"
    /\ UNCHANGED <<iter, mvars, wvars>>

\* worker_param_create and thrd_create, one worker after the other
Create == /\ main = "create"
          /\ pc' = [pc EXCEPT ![joined] = "load"]
          /\ IF joined + 1 < num_threads
             THEN joined' = joined + 1 /\ UNCHANGED main
             ELSE joined' = 0 /\ main' = "join"
          /\ UNCHANGED <<iter, mvars, wvars>>

\* mutant: the results are added before the worker is joined
Join_Early == /\ main = "join" /\ joined < num_threads
              /\ url' = [url EXCEPT ![0] = IF joined = 0 THEN @ ELSE hash_map_add(@, url[joined])]
              /\ ref' = [ref EXCEPT ![0] = IF joined = 0 THEN @ ELSE hash_map_add(@, ref[joined])]
              /\ joined' = joined + 1
              /\ UNCHANGED <<main, iter, pc, mvars, loc, at, rec>>

\* thrd_join; the maps of every worker but the first are added to the first's
Join == /\ main = "join" /\ joined < num_threads
        /\ pc[joined] = "done"
        /\ url' = [url EXCEPT ![0] = IF joined = 0 THEN @ ELSE hash_map_add(@, url[joined])]
        /\ ref' = [ref EXCEPT ![0] = IF joined = 0 THEN @ ELSE hash_map_add(@, ref[joined])]
        /\ joined' = joined + 1
        /\ UNCHANGED <<main, iter, pc, mvars, loc, at, rec>>

\* hash_map_insert returns no node for a key of the worker's (module HashMap
\* says when): an assertion of hash_map_add ends the program
JoinFails == /\ main = "join" /\ joined \in 1..num_threads - 1
             /\ pc[joined] = "done"
             /\ main' = "exited"
             /\ UNCHANGED <<joined, iter, pc, mvars, wvars>>

\* the statistics are printed, everything is freed
Report == /\ main = "join" /\ joined = num_threads
          /\ main' = "reported"
          /\ UNCHANGED <<joined, iter, pc, mvars, wvars>>

----------------------------------------------------------------------------
(* worker_func                                                             *)

\* exit or abort in any thread ends them all
Alive == main \notin {"exited", "reported"}

Load(w) == /\ Alive /\ pc[w] = "load"
           /\ loc' = [loc EXCEPT ![w] = iter]
           /\ pc' = [pc EXCEPT ![w] = "claim"]
           /\ UNCHANGED <<main, joined, iter, mvars, at, rec, url, ref>>

\* mutant: a plain store instead of the compare-exchange
ClaimOk_Store(w) ==
    /\ Alive /\ pc[w] = "claim" /\ list[loc[w]] # Null
    /\ iter' = loc[w] + 1
    /\ pc' = [pc EXCEPT ![w] = "open"]
    /\ UNCHANGED <<main, joined, mvars, wvars>>

\* the compare-exchange succeeds: the file at loc is this worker's
ClaimOk(w) == /\ Alive /\ pc[w] = "claim" /\ list[loc[w]] # Null
              /\ iter = loc[w]
              /\ iter' = loc[w] + 1
              /\ pc' = [pc EXCEPT ![w] = "open"]
              /\ UNCHANGED <<main, joined, mvars, wvars>>

\* it fails, because of another worker or spuriously, and reloads loc
ClaimFail(w) == /\ Alive /\ pc[w] = "claim" /\ list[loc[w]] # Null
                /\ loc' = [loc EXCEPT ![w] = iter]
                /\ UNCHANGED <<main, joined, iter, pc, mvars, at, rec, url, ref>>

\* the NULL is reached
WorkerEnd(w) == /\ Alive /\ pc[w] = "claim" /\ list[loc[w]] = Null
                /\ pc' = [pc EXCEPT ![w] = "done"]
                /\ UNCHANGED <<main, joined, iter, mvars, wvars>>

\* file_data_read: fopen, and no record yet
Open(w) == /\ Alive /\ pc[w] = "open"
           /\ at' = [at EXCEPT ![w] = 0]
           /\ rec' = [rec EXCEPT ![w] = NewRecord]
           /\ pc' = [pc EXCEPT ![w] = "read"]
           /\ UNCHANGED <<main, joined, iter, mvars, loc, url, ref>>

\* fopen fails: exit(EXIT_FAILURE)
OpenFails(w) == /\ Alive /\ pc[w] = "open" /\ list[loc[w]] \in Unreadable
                /\ main' = "exited"
                /\ UNCHANGED <<joined, iter, pc, mvars, wvars>>

\* getline returns a line; its record is counted unless it has an error
ReadLine(w) ==
    /\ Alive /\ pc[w] = "read" /\ at[w] < Len(Lines[list[loc[w]]])
    /\ LET line == Lines[list[loc[w]]][at[w] + 1]
           r    == http_record_get(line, rec[w])
       IN  /\ rec' = [rec EXCEPT ![w] = r]
           /\ url' = IF Parsed(line) THEN [url EXCEPT ![w][r.url] = @ + r.bytes] ELSE url
           /\ ref' = IF Parsed(line) THEN [ref EXCEPT ![w][r.referer] = @ + 1] ELSE ref
    /\ at' = [at EXCEPT ![w] = @ + 1]
    /\ UNCHANGED <<main, joined, iter, pc, mvars, loc>>

\* hash_map_insert returns no node for the URL or the referer of a line: an
\* assertion ends the program
InsertFails(w) == /\ Alive /\ pc[w] = "read" /\ at[w] < Len(Lines[list[loc[w]]])
                  /\ Parsed(Lines[list[loc[w]]][at[w] + 1])
                  /\ main' = "exited"
                  /\ UNCHANGED <<joined, iter, pc, mvars, wvars>>

\* the end of the file: the record is removed, the loop goes on
EndOfFile(w) == /\ Alive /\ pc[w] = "read" /\ at[w] = Len(Lines[list[loc[w]]])
                /\ pc' = [pc EXCEPT ![w] = "load"]
                /\ UNCHANGED <<main, joined, iter, mvars, wvars>>

Main == EndOfDirectory \/ Create \/ Join \/ JoinFails \/ Report \/ \E e \in left : ReadEntry(e)

Work(w) == \/ Load(w) \/ ClaimOk(w) \/ ClaimFail(w) \/ WorkerEnd(w)
           \/ Open(w) \/ OpenFails(w) \/ ReadLine(w) \/ InsertFails(w) \/ EndOfFile(w)

Next == Main \/ \E w \in Worker : Work(w)

Spec == Init /\ [][Next]_vars

\* Threads are scheduled.  A weak compare-exchange that fails spuriously
\* reloads what it had: a stutter, which must not go on for ever either.
FairSpec == Spec /\ WF_vars(Main) /\ \A w \in Worker : WF_vars(Work(w))

----------------------------------------------------------------------------
(* Properties.                                                             *)

Record == [url : Url \cup {Blank}, bytes : Nat, referer : Ref \cup {Blank}]

TypeOK == /\ main \in {"list", "create", "join", "reported", "exited"}
          /\ left \subseteq File \cup Other
          /\ f_idx \in DOMAIN list
          /\ list \in [0..files_list_sz -> File \cup {Null}]
          /\ joined \in 0..NumThreads
          /\ iter \in 0..f_idx
          /\ pc \in [Worker -> {"none", "load", "claim", "open", "read", "done"}]
          /\ loc \in [Worker -> 0..f_idx]
          /\ at \in [Worker -> Nat]
          /\ rec \in [Worker -> Record]
          /\ url \in [Worker -> [Url \cup {Blank} -> Nat]]
          /\ ref \in [Worker -> [Ref \cup {Blank} -> Nat]]

\* A file is read by one worker, "1 file per thread" (README.md:2): two
\* workers never hold the same cell of the list, and the cells claimed are
\* those the iterator has passed.
OneWorkerPerFile ==
    \A w \in Worker : pc[w] \in {"open", "read"} =>
        /\ loc[w] < iter
        /\ \A v \in Worker \ {w} : pc[v] \in {"open", "read"} => loc[v] # loc[w]

Parsable == UNION {{f} \X {n \in 1..Len(Lines[f]) : Parsed(Lines[f][n])} : f \in File}
LineOf(fn) == Lines[fn[1]][fn[2]]

\* the bytes of a URL over all the lines of all the files
Bytes == [fn \in Parsable |-> LineOf(fn).bytes]
TrafficOf(u) == MapThenSumSet(LAMBDA fn : Bytes[fn], {fn \in Parsable : LineOf(fn).url = u})

\* the referer a line is counted under: its own, or that of the last line
\* before it in the file that has one
CountedUnder(fn) ==
    LET named == {n \in 1..fn[2] : /\ Parsed(Lines[fn[1]][n])
                                   /\ Lines[fn[1]][n].referer # Dash}
    IN  IF named = {} THEN Blank ELSE Lines[fn[1]][Max(named)].referer

\* Whatever the number of workers and their interleaving, what is reported
\* is what one thread computes: each line of each file counted once, under a
\* referer that depends on its own file only.
ReportIsSequential ==
    main = "reported" =>
        /\ \A u \in Url : url[0][u] = TrafficOf(u)
        /\ \A r \in Ref \cup {Blank} :
               ref[0][r] = Cardinality({fn \in Parsable : CountedUnder(fn) = r})

\* Every referer is reported with the number of lines that name it
\* ("TIMES: [%d], REFERER: [%s]", main.c:270).
ReferersAsLogged ==
    main = "reported" =>
        \A r \in Ref : ref[0][r] = Cardinality({fn \in Parsable : LineOf(fn).referer = r})

\* The program ends: with a report, or because a file cannot be opened, the
\* directory holds none or a hash map takes no more keys.
Terminates == <>(main \in {"reported", "exited"})
=============================================================================
