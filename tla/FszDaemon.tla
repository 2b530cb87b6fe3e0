------------------------------ MODULE FszDaemon ------------------------------
(***************************************************************************)
(* fszd, the file size daemon: instances of it on one machine, the clients *)
(* that connect to its UNIX socket, and the administrator who edits the    *)
(* configuration file, sends SIGHUP and SIGINT, kills and restarts.        *)
(*                                                                         *)
(* A signal handler sets a flag, so a signal is a step between any two     *)
(* steps of the daemon.  A configuration file is the sequence of the       *)
(* scalar tokens libyaml finds in it; path names are model values.         *)
(***************************************************************************)
EXTENDS Integers, SequencesExt

CONSTANTS Daemon,       \* instances of the program
          Client,       \* clients, each of which connects at most once
          Path,         \* files that may be watched
          Sock,         \* socket names
          FileToken,    \* the scalars "file_name" and "sock_name"
          SockToken,
          Config,       \* what the configuration file may hold
          Malformed,    \* a file libyaml cannot scan
          FirstConfig,  \* what it holds first
          Missing,      \* paths no file is at
          None,         \* nothing: no path, no socket file, no client
          Stale,        \* a socket file whose socket was closed
          Backlog,      \* the argument of listen
          MaxStarts,    \* bound: starts of the program
          MaxSignals,   \* bound: SIGHUPs
          MaxEdits,     \* bound: edits of the configuration file
          MaxKills,     \* bound: instances killed
          MaxLeaves     \* bound: clients that do not wait

Scalars == Seq(Path \cup Sock \cup {FileToken, SockToken})

\* a file libyaml can scan; what follows a token is a name of its kind
ASSUME ConfigAssumption ==
    /\ FirstConfig \in Config
    /\ \A f \in Config \ {Malformed} :
          /\ f \in Scalars
          /\ \A n \in 1..Len(f) - 1 : /\ f[n] = FileToken => f[n + 1] \in Path
                                      /\ f[n] = SockToken => f[n + 1] \in Sock
ASSUME NamesAssumption == /\ None \notin Client \cup Daemon \cup Path \cup Sock
                          /\ Stale \notin Daemon \cup {None}
ASSUME BoundAssumption == {Backlog, MaxStarts, MaxSignals, MaxEdits, MaxKills, MaxLeaves} \subseteq Nat

VARIABLES cfg_file,  \* the configuration file
          sockets,   \* the socket file at each name: whose it is
          bound,     \* the socket file each listener was bound to
          pc,        \* where each instance is
          cfg,       \* its configuration
          int_received, hup_received,
          queue,     \* connections accept has not returned yet
          client,    \* the one it is serving
          answer,    \* what each client was sent
          gone,      \* clients that have closed their end
          starts, signals, edits, kills,
          stale,     \* clients accepted since the SIGHUP not acted upon
          failures   \* starts of an instance that failed to bind, in a row

svars == <<sockets, bound>>
dvars == <<pc, cfg, int_received, hup_received, client>>
bounds == <<starts, signals, edits, kills>>
vars == <<cfg_file, sockets, bound, dvars, queue, answer, gone, bounds, stale, failures>>

----------------------------------------------------------------------------
(* config.c                                                                *)

\* a scalar is the value the one before it announced: the last that follows
\* the token counts, and what the file does not set keeps its value
Announced(scalars, token, old) ==
    LET at == {n \in 1..Len(scalars) - 1 : scalars[n] = token}
    IN  IF at = {} THEN old ELSE scalars[Max(at) + 1]

read_yaml(scalars, c) == [file_name |-> Announced(scalars, FileToken, c.file_name),
                          sock_name |-> Announced(scalars, SockToken, c.sock_name)]

NoCfg == [file_name |-> None, sock_name |-> None]

----------------------------------------------------------------------------
Init == /\ cfg_file = FirstConfig
        /\ sockets = [s \in Sock |-> None]
        /\ bound = [d \in Daemon |-> None]
        /\ pc = [d \in Daemon |-> "off"]
        /\ cfg = [d \in Daemon |-> NoCfg]
        /\ int_received = [d \in Daemon |-> 0]
        /\ hup_received = [d \in Daemon |-> 0]
        /\ queue = [d \in Daemon |-> <<>>]
        /\ client = [d \in Daemon |-> None]
        /\ answer = [c \in Client |-> None]
        /\ gone = {}
        /\ starts = 0 /\ signals = 0 /\ edits = 0 /\ kills = 0
        /\ stale = [d \in Daemon |-> 0]
        /\ failures = [d \in Daemon |-> 0]

\* main, up to read_cfg; cfg and the flags are static, so zero
Start(d) == /\ pc[d] = "off" /\ starts < MaxStarts
            /\ pc' = [pc EXCEPT ![d] = "first_cfg"]
            /\ cfg' = [cfg EXCEPT ![d] = NoCfg]
            /\ int_received' = [int_received EXCEPT ![d] = 0]
            /\ hup_received' = [hup_received EXCEPT ![d] = 0]
            /\ stale' = [stale EXCEPT ![d] = 0]
            /\ starts' = starts + 1
            /\ UNCHANGED <<cfg_file, svars, queue, client, answer, gone, signals, edits, kills,
                           failures>>

\* read_cfg
ReadCfg(d) == /\ pc[d] \in {"first_cfg", "read_cfg"} /\ cfg_file # Malformed
              /\ cfg' = [cfg EXCEPT ![d] = read_yaml(cfg_file, @)]
              /\ pc' = [pc EXCEPT ![d] = IF @ = "first_cfg" THEN "bind" ELSE "accept"]
              /\ UNCHANGED <<cfg_file, svars, int_received, hup_received, client, queue, answer,
                             gone, bounds, stale, failures>>

\* libyaml returns an empty token after an error, again and again: the loop of
\* read_yaml, which waits for the end of the stream, never ends
ReadBadCfg(d) == /\ pc[d] \in {"first_cfg", "read_cfg"} /\ cfg_file = Malformed
                 /\ pc' = [pc EXCEPT ![d] = "looping"]
                 /\ UNCHANGED <<cfg_file, svars, cfg, int_received, hup_received, client, queue,
                                answer, gone, bounds, stale, failures>>

\* the listener's end: its socket file stays, its connections are closed
Closed(d) == [s \in Sock |-> IF sockets[s] = d THEN Stale ELSE sockets[s]]

CloseListener(d) == /\ pc' = [pc EXCEPT ![d] = "unlink"]
                    /\ sockets' = Closed(d)
                    /\ bound' = [bound EXCEPT ![d] = None]
                    /\ queue' = [queue EXCEPT ![d] = <<>>]
                    /\ UNCHANGED <<cfg_file, cfg, int_received, hup_received, client, answer, gone,
                                   bounds, stale, failures>>

\* no socket for the listener: the program ends
SocketFails(d) == /\ pc[d] = "bind"
                  /\ pc' = [pc EXCEPT ![d] = "off"]
                  /\ UNCHANGED <<cfg_file, svars, cfg, int_received, hup_received, client, queue,
                                 answer, gone, bounds, stale, failures>>

\* bind finds the name free
BindOk(d) == LET s == cfg[d].sock_name
             IN  /\ pc[d] = "bind" /\ s # None /\ sockets[s] = None
                 /\ sockets' = [sockets EXCEPT ![s] = d]
                 /\ bound' = [bound EXCEPT ![d] = s]
                 /\ pc' = [pc EXCEPT ![d] = "listen"]
                 /\ failures' = [failures EXCEPT ![d] = 0]
                 /\ UNCHANGED <<cfg_file, cfg, int_received, hup_received, client, queue, answer,
                                gone, bounds, stale>>

\* the configuration names no socket: an empty path is an abstract address,
\* to which no file leads
BindNameless(d) == /\ pc[d] = "bind" /\ cfg[d].sock_name = None
                   /\ pc' = [pc EXCEPT ![d] = "listen"]
                   /\ failures' = [failures EXCEPT ![d] = 0]
                   /\ UNCHANGED <<cfg_file, svars, cfg, int_received, hup_received, client, queue,
                                  answer, gone, bounds, stale>>

\* mutant: the name is left as it is when bind fails
BindFails_Keep(d) ==
    /\ pc[d] = "bind" /\ cfg[d].sock_name # None /\ sockets[cfg[d].sock_name] # None
    /\ pc' = [pc EXCEPT ![d] = "off"]
    /\ failures' = [failures EXCEPT ![d] = @ + 1]
    /\ UNCHANGED <<cfg_file, svars, cfg, int_received, hup_received, client, queue, answer,
                   gone, bounds, stale>>

\* bind finds a file at the name: it is removed, whoever's it is, and the
\* program ends
BindFails(d) == LET s == cfg[d].sock_name
                IN  /\ pc[d] = "bind" /\ s # None /\ sockets[s] # None
                    /\ sockets' = [sockets EXCEPT ![s] = None]
                    /\ pc' = [pc EXCEPT ![d] = "off"]
                    /\ failures' = [failures EXCEPT ![d] = @ + 1]
                    /\ UNCHANGED <<cfg_file, bound, cfg, int_received, hup_received, client, queue,
                                   answer, gone, bounds, stale>>

\* mutant: no socket file is to be left behind, so it is removed at once
Listen_NoFile(d) == /\ pc[d] = "listen"
                    /\ pc' = [pc EXCEPT ![d] = "accept"]
                    /\ sockets' = [s \in Sock |-> IF s = cfg[d].sock_name THEN None ELSE sockets[s]]
                    /\ UNCHANGED <<cfg_file, bound, cfg, int_received, hup_received, client, queue,
                                   answer, gone, bounds, stale, failures>>

Listen(d) == /\ pc[d] = "listen"
             /\ pc' = [pc EXCEPT ![d] = "accept"]
             /\ UNCHANGED <<cfg_file, svars, cfg, int_received, hup_received, client, queue,
                            answer, gone, bounds, stale, failures>>

\* listen may fail: the listener is closed, its file removed, the program ends
ListenFails(d) == pc[d] = "listen" /\ CloseListener(d)

\* accept returns a connection (with none, the loop polls: a stutter)
Accept(d) == /\ pc[d] = "accept" /\ int_received[d] = 0 /\ queue[d] # <<>>
             /\ client' = [client EXCEPT ![d] = Head(queue[d])]
             /\ queue' = [queue EXCEPT ![d] = Tail(@)]
             /\ pc' = [pc EXCEPT ![d] = "send"]
             /\ stale' = [stale EXCEPT ![d] = IF hup_received[d] = 1 THEN @ + 1 ELSE @]
             /\ UNCHANGED <<cfg_file, svars, cfg, int_received, hup_received, answer, gone,
                            bounds, failures>>

\* accept fails, and not for want of a connection (no descriptor is left, say):
\* the loop ends as it does on SIGINT
AcceptFails(d) == pc[d] = "accept" /\ int_received[d] = 0 /\ CloseListener(d)

\* get_file_size: the size, or after a failed stat whatever the stack holds
Sizes(p) == IF p \in Missing \cup {None} THEN {"garbage"} \cup {"size"} ELSE {"size"}

\* the size is sent and the connection closed
Send(d) == /\ pc[d] = "send" /\ client[d] \notin gone
           /\ \E n \in Sizes(cfg[d].file_name) :
                 answer' = [answer EXCEPT ![client[d]] =
                               [file_name |-> cfg[d].file_name, size |-> n,
                                accepted_stale |-> stale[d] > 0]]
           /\ client' = [client EXCEPT ![d] = None]
           /\ pc' = [pc EXCEPT ![d] = "hup"]
           /\ UNCHANGED <<cfg_file, svars, cfg, int_received, hup_received, queue, gone,
                          bounds, stale, failures>>

\* everything a dead process leaves: its socket file
Dies(d) == /\ pc' = [pc EXCEPT ![d] = "off"]
           /\ sockets' = Closed(d)
           /\ bound' = [bound EXCEPT ![d] = None]
           /\ queue' = [queue EXCEPT ![d] = <<>>]
           /\ client' = [client EXCEPT ![d] = None]

\* the client has gone: SIGPIPE, which is neither handled nor ignored
SendKills(d) == /\ pc[d] = "send" /\ client[d] \in gone
                /\ Dies(d)
                /\ UNCHANGED <<cfg_file, cfg, int_received, hup_received, answer, gone,
                               bounds, stale, failures>>

\* mutant: the flag is not reset, nor the file read, once the queue is empty
CheckHup_Busy(d) == /\ pc[d] = "hup"
                    /\ IF hup_received[d] = 1 /\ queue[d] = <<>>
                       THEN /\ hup_received' = [hup_received EXCEPT ![d] = 0]
                            /\ stale' = [stale EXCEPT ![d] = 0]
                            /\ pc' = [pc EXCEPT ![d] = "read_cfg"]
                       ELSE pc' = [pc EXCEPT ![d] = "accept"] /\ UNCHANGED <<hup_received, stale>>
                    /\ UNCHANGED <<cfg_file, svars, cfg, int_received, client, queue, answer,
                                   gone, bounds, failures>>

\* hup_received is tested after a client was served, and reset before the
\* file is read
CheckHup(d) == /\ pc[d] = "hup"
               /\ IF hup_received[d] = 1
                  THEN /\ hup_received' = [hup_received EXCEPT ![d] = 0]
                       /\ stale' = [stale EXCEPT ![d] = 0]
                       /\ pc' = [pc EXCEPT ![d] = "read_cfg"]
                  ELSE pc' = [pc EXCEPT ![d] = "accept"] /\ UNCHANGED <<hup_received, stale>>
               /\ UNCHANGED <<cfg_file, svars, cfg, int_received, client, queue, answer,
                              gone, bounds, failures>>

\* mutant: int_received is tested where hup_received is
Close_AfterClient(d) ==
    pc[d] = "hup" /\ int_received[d] = 1 /\ CloseListener(d)

\* int_received is tested between two clients: the listener is closed
Close(d) == pc[d] = "accept" /\ int_received[d] = 1 /\ CloseListener(d)

\* mutant: the program ends without removing its socket file
Unlink_Forget(d) == /\ pc[d] = "unlink"
                    /\ pc' = [pc EXCEPT ![d] = "off"]
                    /\ UNCHANGED <<cfg_file, svars, cfg, int_received, hup_received, client,
                                   queue, answer, gone, bounds, stale, failures>>

\* sock_name points into the configuration, which may have been read again
Unlink(d) == /\ pc[d] = "unlink"
             /\ sockets' = [s \in Sock |-> IF s = cfg[d].sock_name THEN None ELSE sockets[s]]
             /\ pc' = [pc EXCEPT ![d] = "off"]
             /\ UNCHANGED <<cfg_file, bound, cfg, int_received, hup_received, client, queue, answer,
                            gone, bounds, stale, failures>>

----------------------------------------------------------------------------
(* The administrator and the clients.                                      *)

Edit(f) == /\ edits < MaxEdits /\ f # cfg_file
           /\ cfg_file' = f /\ edits' = edits + 1
           /\ UNCHANGED <<svars, dvars, queue, answer, gone, starts, signals, kills,
                           stale, failures>>

\* sig_handler
Hup(d) == /\ pc[d] # "off" /\ signals < MaxSignals
          /\ hup_received' = [hup_received EXCEPT ![d] = 1]
          /\ signals' = signals + 1
          /\ UNCHANGED <<cfg_file, svars, pc, cfg, int_received, client, queue, answer, gone,
                         starts, edits, kills, stale, failures>>

Interrupt(d) == /\ pc[d] # "off" /\ int_received[d] = 0
          /\ int_received' = [int_received EXCEPT ![d] = 1]
          /\ UNCHANGED <<cfg_file, svars, pc, cfg, hup_received, client, queue, answer, gone,
                         bounds, stale, failures>>

\* SIGKILL, or a crash
Kill(d) == /\ pc[d] # "off" /\ kills < MaxKills
           /\ kills' = kills + 1
           /\ Dies(d)
           /\ UNCHANGED <<cfg_file, cfg, int_received, hup_received, answer, gone, starts, signals,
                          edits, stale, failures>>

Serving == {"accept", "send", "hup", "read_cfg", "looping"}

\* connect reaches the instance whose socket file it finds
Connect(c, s) == /\ answer[c] = None /\ c \notin gone
                 /\ \A d \in Daemon : client[d] # c /\ ~Contains(queue[d], c)
                 /\ \E d \in Daemon : /\ sockets[s] = d /\ pc[d] \in Serving
                                      /\ Len(queue[d]) <= Backlog
                                      /\ queue' = [queue EXCEPT ![d] = Append(@, c)]
                 /\ UNCHANGED <<cfg_file, svars, dvars, answer, gone, bounds, stale, failures>>

\* a client that waits gives up
Leave(c) == /\ c \notin gone /\ Cardinality(gone) < MaxLeaves
            /\ \E d \in Daemon : client[d] = c \/ Contains(queue[d], c)
            /\ gone' = gone \cup {c}
            /\ UNCHANGED <<cfg_file, svars, dvars, queue, answer, bounds, stale, failures>>

Run(d) == \/ ReadCfg(d) \/ ReadBadCfg(d) \/ BindOk(d) \/ BindNameless(d) \/ BindFails(d) \/ Listen(d)
          \/ Accept(d) \/ Send(d) \/ SendKills(d) \/ CheckHup(d)
          \/ Close(d) \/ Unlink(d)

\* what the system may refuse
Refused(d) == SocketFails(d) \/ ListenFails(d) \/ AcceptFails(d)

Next == \/ \E d \in Daemon : Run(d) \/ Refused(d) \/ Start(d) \/ Hup(d) \/ Interrupt(d) \/ Kill(d)
        \/ \E f \in Config : Edit(f)
        \/ \E c \in Client : Leave(c) \/ \E s \in Sock : Connect(c, s)

Spec == Init /\ [][Next]_vars

\* an instance that runs is scheduled; no call need fail
FairSpec == Spec /\ \A d \in Daemon : WF_vars(Run(d))

----------------------------------------------------------------------------
(* Properties.                                                             *)

TypeOK ==
    /\ cfg_file \in Config
    /\ sockets \in [Sock -> Daemon \cup {None, Stale}]
    /\ bound \in [Daemon -> Sock \cup {None}]
    /\ pc \in [Daemon -> {"off", "first_cfg", "bind", "listen", "unlink"} \cup Serving]
    /\ \A d \in Daemon : /\ cfg[d].file_name \in Path \cup {None}
                         /\ cfg[d].sock_name \in Sock \cup {None}
                         /\ Len(queue[d]) <= Backlog + 1
                         /\ client[d] \in Client \cup {None}
                         /\ (client[d] = None) = (pc[d] # "send")

\* SIGHUP is late by one client at most: of the clients accepted after it,
\* only the first can be answered from the configuration of before.
HupLateByOneClient == \A d \in Daemon : stale[d] <= 1

\* "rereads configuration on SIGHUP signal" (README.md:8): a client that was
\* accepted after the signal is answered from the configuration read again.
HupReread == \A c \in Client : answer[c] # None => ~answer[c].accepted_stale

\* "awaits incoming requests on fszd.socket" (README.md:7): the socket file an
\* instance was bound to leads to it as long as it awaits requests; and every
\* variable has its type.
AwaitsOnSocket == /\ TypeOK
                  /\ \A d \in Daemon : pc[d] \in Serving /\ bound[d] # None
                                         => sockets[bound[d]] = d

\* Where no instance was killed, and the configuration never renames the
\* socket, no socket file is left once every instance has ended.
StopRemovesSocket ==
    (\A d \in Daemon : pc[d] = "off") /\ kills = 0 /\ gone = {}
        => \A s \in Sock : sockets[s] = None

\* After a kill, a start may fail on the socket file left behind; it removes
\* the file, so the second start does not fail.
SecondStartBinds == \A d \in Daemon : failures[d] <= 1

\* "shows the size of the file specified in configuration" (README.md:2).
AnswersAreSizes == \A c \in Client : answer[c] # None => answer[c].size = "size"

\* SIGINT stops an instance wherever it is in its loop, whether or not clients
\* come, unless it is lost in a configuration file libyaml cannot scan.
StopsUnlessLooping == \A d \in Daemon : int_received[d] = 1 ~> pc[d] \in {"off", "looping"}

\* "stops on SIGINT signal" (README.md:9).
StopsOnInt == \A d \in Daemon : int_received[d] = 1 ~> pc[d] = "off"
=============================================================================
