-------------------------------- MODULE Logger --------------------------------
(***************************************************************************)
(* logger: loggers that write to the console or append to files, used by   *)
(* one thread ("not thread safe", README.md).                              *)
(*                                                                         *)
(* A logger is a stream of the C library, which keeps what was printed in  *)
(* a buffer and hands some of it to the descriptor when it likes.  An      *)
(* error is printed with a backtrace, which goes to the descriptor         *)
(* directly.  A record is a line or a backtrace; the process may be killed *)
(* at any time.                                                            *)
(***************************************************************************)
EXTENDS Integers, FiniteSetsExt, SequencesExt

CONSTANTS Loggers,   \* loggers the program opens, each once
          Dest,      \* for each logger, the console or a file
          Console,
          None,      \* no destination, no logger
          BufSz,     \* lines a stream's buffer holds
          MaxLines   \* bound on what the program logs

Files == {Dest[l] : l \in Loggers} \ {Console}

\* descriptors: 1 is standard output, the others are free at first
Fds == 1..Cardinality(Loggers) + 1

\* what a logger's descriptor is when fopen failed
NULL == 0

\* what is assumed of the constants
LoggerAssumption == IsFiniteSet(Loggers) /\ {None, Console} \cap Loggers = {}
                           /\ None \notin {Dest[l] : l \in Loggers} \cup {Console}
BoundAssumption == BufSz \in Nat /\ MaxLines \in Nat

VARIABLES fds,       \* destination each descriptor is open on
          state,     \* of each logger: "none", "open" or "closed"
          fd,        \* descriptor of each logger's stream
          buf,       \* what is in its buffer
          written,   \* contents of the destinations
          said,      \* lines each logger was given: their numbers
          reported,  \* errors whose LOG_ERR has returned
          pc,        \* where the program is in LOG_ERR, or how it ended
          cur        \* the logger LOG_ERR is about

vars == <<fds, state, fd, buf, written, said, reported, pc, cur>>

Lines == 1..MaxLines
Record == [by : Loggers, n : Lines, what : {"line", "trace"}]

Total(count) == MapThenSumSet(LAMBDA l : count[l], Loggers)
NoOfLines == Total([l \in Loggers |-> Len(said[l])])

----------------------------------------------------------------------------
Init == /\ fds = [d \in Fds |-> IF d = 1 THEN Console ELSE None]
        /\ state = [l \in Loggers |-> "none"]
        /\ fd = [l \in Loggers |-> NULL]
        /\ buf = [l \in Loggers |-> <<>>]
        /\ written = [f \in Files \cup {Console} |-> <<>>]
        /\ said = [l \in Loggers |-> <<>>]
        /\ reported = {}
        /\ pc = "ready" /\ cur = None

\* fdopen(STDOUT_FILENO), which fails when it is not open
logger_open_stdout(l) ==
    /\ pc = "ready" /\ state[l] = "none" /\ Dest[l] = Console
    /\ state' = [state EXCEPT ![l] = "open"]
    /\ fd' = [fd EXCEPT ![l] = IF fds[1] = None THEN NULL ELSE 1]
    /\ UNCHANGED <<fds, buf, written, said, reported, pc, cur>>

\* fopen takes the least descriptor that is free
logger_open_file(l) ==
    /\ pc = "ready" /\ state[l] = "none" /\ Dest[l] # Console
    /\ state' = [state EXCEPT ![l] = "open"]
    /\ LET d == Min({e \in Fds : fds[e] = None})
       IN  /\ fds' = [fds EXCEPT ![d] = Dest[l]]
           /\ fd' = [fd EXCEPT ![l] = d]
    /\ UNCHANGED <<buf, written, said, reported, pc, cur>>

\* or fails: there is a logger, and it has no stream
open_file_fails(l) ==
    /\ pc = "ready" /\ state[l] = "none" /\ Dest[l] # Console
    /\ state' = [state EXCEPT ![l] = "open"]
    /\ UNCHANGED <<fds, fd, buf, written, said, reported, pc, cur>>

\* what records rs written to a descriptor do to the destinations: nothing
\* when it is closed
Write(d, rs) == IF d = NULL \/ fds[d] = None THEN written
                ELSE [written EXCEPT ![fds[d]] = @ \o rs]

\* logger_print of the next line: the stream hands over what does not fit in
\* its buffer, and perhaps more.
logger_print(l) == LET n   == NoOfLines + 1
                all == Append(buf[l], [by |-> l, n |-> n, what |-> "line"])
            IN  /\ n <= MaxLines
                /\ \E k \in 0..Len(all) :
                     /\ Len(all) - k <= BufSz
                     /\ written' = Write(fd[l], SubSeq(all, 1, k))
                     /\ buf' = [buf EXCEPT ![l] = SubSeq(all, k + 1, Len(all))]
                /\ said' = [said EXCEPT ![l] = Append(@, n)]

\* LOG_INFO, LOG_WARN, LOG_DEBUG
Log(l) == /\ pc = "ready" /\ state[l] = "open" /\ fd[l] # NULL
          /\ logger_print(l)
          /\ UNCHANGED <<fds, state, fd, reported, pc, cur>>

\* mutant: the line is written to the descriptor, ahead of the buffer
LogErr_Direct(l) ==
    LET n == NoOfLines + 1
    IN  /\ pc = "ready" /\ state[l] = "open" /\ fd[l] # NULL /\ n <= MaxLines
        /\ written' = Write(fd[l], <<[by |-> l, n |-> n, what |-> "line"]>>)
        /\ said' = [said EXCEPT ![l] = Append(@, n)]
        /\ pc' = "seek" /\ cur' = l
        /\ UNCHANGED <<fds, state, fd, buf, reported>>

\* LOG_ERR: the line
LogErr(l) == /\ pc = "ready" /\ state[l] = "open" /\ fd[l] # NULL
             /\ logger_print(l)
             /\ pc' = "seek" /\ cur' = l
             /\ UNCHANGED <<fds, state, fd, reported>>

\* mutant: the descriptor is used without a seek in the stream
Seek_Not == /\ pc = "seek"
            /\ pc' = "trace"
            /\ UNCHANGED <<fds, state, fd, buf, written, said, reported, cur>>

\* fseek to the end writes what is in the buffer
Seek == /\ pc = "seek"
        /\ written' = Write(fd[cur], buf[cur])
        /\ buf' = [buf EXCEPT ![cur] = <<>>]
        /\ pc' = "trace"
        /\ UNCHANGED <<fds, state, fd, said, reported, cur>>

\* backtrace_symbols_fd writes to the descriptor
Trace == /\ pc = "trace"
         /\ written' = Write(fd[cur], <<[by |-> cur, n |-> Last(said[cur]), what |-> "trace"]>>)
         /\ pc' = "flush"
         /\ UNCHANGED <<fds, state, fd, buf, said, reported, cur>>

\* fflush, and LOG_ERR is done
Flush == /\ pc = "flush"
         /\ written' = Write(fd[cur], buf[cur])
         /\ buf' = [buf EXCEPT ![cur] = <<>>]
         /\ reported' = reported \cup {Last(said[cur])}
         /\ pc' = "ready" /\ cur' = None
         /\ UNCHANGED <<fds, state, fd, said>>

\* fclose writes the buffer and closes the descriptor
logger_close(l) ==
    /\ pc = "ready" /\ state[l] = "open" /\ fd[l] # NULL
    /\ written' = Write(fd[l], buf[l])
    /\ buf' = [buf EXCEPT ![l] = <<>>]
    /\ fds' = [fds EXCEPT ![fd[l]] = None]
    /\ fd' = [fd EXCEPT ![l] = NULL]
    /\ state' = [state EXCEPT ![l] = "closed"]
    /\ UNCHANGED <<said, reported, pc, cur>>

\* the stream that is missing is used
UseNull(l) == /\ pc = "ready" /\ state[l] = "open" /\ fd[l] = NULL
              /\ pc' = "killed"
              /\ UNCHANGED <<fds, state, fd, buf, written, said, reported, cur>>

\* The process is killed: the buffers are lost.
Kill == /\ pc # "killed"
        /\ pc' = "killed"
        /\ buf' = [l \in Loggers |-> <<>>]
        /\ UNCHANGED <<fds, state, fd, written, said, reported, cur>>

Next == \/ \E l \in Loggers : \/ logger_open_stdout(l) \/ logger_open_file(l) \/ open_file_fails(l)
                              \/ Log(l) \/ LogErr(l) \/ logger_close(l) \/ UseNull(l)
        \/ Seek \/ Trace \/ Flush \/ Kill

Spec == Init /\ [][Next]_vars

----------------------------------------------------------------------------
(* Properties.                                                             *)

TypeOK == /\ fds \in [Fds -> Files \cup {Console, None}]
          /\ state \in [Loggers -> {"none", "open", "closed"}]
          /\ fd \in [Loggers -> Fds \cup {NULL}]
          /\ buf \in [Loggers -> Seq(Record)]
          /\ written \in [Files \cup {Console} -> Seq(Record)]
          /\ said \in [Loggers -> Seq(Lines)] /\ reported \subseteq Lines
          /\ pc \in {"ready", "seek", "trace", "flush", "killed"}
          /\ cur \in Loggers \cup {None}

\* the lines of l among some records: their numbers, in the order of the records
Numbers(rs, l) ==
    LET upto[n \in 0..Len(rs)] ==
            IF n = 0 THEN <<>>
            ELSE IF rs[n].by = l /\ rs[n].what = "line" THEN Append(upto[n - 1], rs[n].n)
            ELSE upto[n - 1]
    IN  upto[Len(rs)]

\* the lines of a logger that are in its destination
LinesOf(l) == Numbers(written[Dest[l]], l)

\* A destination holds the first lines a logger was given, in their order,
\* whoever else writes to it; all of them when the logger was closed.
LinesInOrder == \A l \in Loggers : /\ IsPrefix(LinesOf(l), said[l])
                                   /\ state[l] = "closed" => LinesOf(l) = said[l]

\* Once LOG_ERR has returned, the error and every line the logger was given
\* before it are in its destination, also when the process is killed.
ErrorsSurvive == \A l \in Loggers : \A k \in DOMAIN said[l] :
                     said[l][k] \in reported => Len(LinesOf(l)) >= k

\* A backtrace follows the line of its error, in whatever file.
TraceBehindLine == \A d \in DOMAIN written : \A k \in DOMAIN written[d] :
                       LET r == written[d][k]
                       IN  r.what = "trace" =>
                             k > 1 /\ written[d][k - 1] = [r EXCEPT !.what = "line"]
=============================================================================
