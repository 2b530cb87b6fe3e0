----------------------------- MODULE HttpServer -----------------------------
(***************************************************************************)
(* http_srv: one thread that waits for epoll events, accepts connections   *)
(* and answers requests, and the clients at the other ends.                *)
(*                                                                         *)
(* Sockets block: set_nonblocking sets O_NONBLOCK among the descriptor     *)
(* flags (F_SETFD), where it means nothing.  Events are edge-triggered: a  *)
(* descriptor joins the ready list when something happens to it, leaves it *)
(* when epoll_wait reports it, and the mask reported is what poll says at  *)
(* that moment.                                                            *)
(*                                                                         *)
(* A request is one segment of a connection, or two.  A file is the        *)
(* numbers of its blocks, one sendfile transfers at most MaxSend of them.  *)
(***************************************************************************)
EXTENDS Integers, SequencesExt

CONSTANTS Client,
          Listener,   \* the listening descriptor
          File,       \* the files of the directory
          NoFile,     \* a name that is not there
          Size,       \* blocks of each file
          Segments,   \* what each client sends, segment by segment
          MaxSend     \* blocks one sendfile transfers at most

\* the segment that names the file, whole or cut before the name ends, and
\* the one that holds the rest
Segment == [file : File \cup {NoFile}, part : {"whole", "first", "rest"}]

ASSUME FileAssumption == Size \in [File -> Nat] /\ NoFile \notin File /\ MaxSend \in Nat \ {0}
ASSUME ClientAssumption == Segments \in [Client -> Seq(Segment)] /\ Listener \notin Client

VARIABLES conn,      \* each connection, as the server's side has it
          sent,      \* segments each client has sent
          inbuf,     \* those the server has not read
          hung_up,   \* clients that have closed their end
          backlog,   \* connections not accepted yet
          ready,     \* epoll's ready list
          events,    \* what epoll_wait returned and is not handled yet
          pc,        \* where run is
          file,      \* the file being sent
          bytes_total, \* the variable of send_file: sendfile's offset, too
          answers    \* what each client was sent: [code, file, body]

cvars == <<conn, sent, inbuf, hung_up, backlog>>
vars == <<cvars, ready, events, pc, file, bytes_total, answers>>

----------------------------------------------------------------------------
Init == /\ conn = [c \in Client |-> "none"]
        /\ sent = [c \in Client |-> 0]
        /\ inbuf = [c \in Client |-> <<>>]
        /\ hung_up = {}
        /\ backlog = <<>>
        /\ ready = <<>>
        /\ events = <<>>
        /\ pc = "wait"
        /\ file = NoFile
        /\ bytes_total = 0
        /\ answers = [c \in Client |-> <<>>]

\* what a list holds of a set, in its order
Only(list, T) ==
    LET upto[n \in 0..Len(list)] ==
            IF n = 0 THEN <<>>
            ELSE IF list[n] \in T THEN Append(upto[n - 1], list[n]) ELSE upto[n - 1]
    IN  upto[Len(list)]

\* something happened to a descriptor epoll watches
Ready(fd) == IF Contains(ready, fd) THEN ready ELSE Append(ready, fd)

----------------------------------------------------------------------------
(* The clients.                                                            *)

Connect(c) == /\ conn[c] = "none"
              /\ conn' = [conn EXCEPT ![c] = "queued"]
              /\ backlog' = Append(backlog, c)
              /\ ready' = Ready(Listener)
              /\ UNCHANGED <<sent, inbuf, hung_up, events, pc, file, bytes_total, answers>>

Transmit(c) == /\ conn[c] # "none" /\ c \notin hung_up
               /\ sent[c] < Len(Segments[c])
               /\ sent' = [sent EXCEPT ![c] = @ + 1]
               /\ IF conn[c] = "closed" THEN UNCHANGED inbuf
                  ELSE inbuf' = [inbuf EXCEPT ![c] = Append(@, Segments[c][sent[c] + 1])]
               /\ ready' = IF conn[c] = "open" THEN Ready(c) ELSE ready
               /\ UNCHANGED <<conn, hung_up, backlog, events, pc, file, bytes_total, answers>>

HangUp(c) == /\ conn[c] # "none" /\ c \notin hung_up
             /\ hung_up' = hung_up \cup {c}
             /\ ready' = IF conn[c] = "open" THEN Ready(c) ELSE ready
             /\ UNCHANGED <<conn, sent, inbuf, backlog, events, pc, file, bytes_total, answers>>

----------------------------------------------------------------------------
(* run                                                                     *)

\* what poll says of a descriptor: an end of file is readable, too
Readable(fd) == IF fd = Listener THEN backlog # <<>> ELSE inbuf[fd] # <<>> \/ fd \in hung_up
Event(fd) == [fd |-> fd, rdhup |-> fd \in hung_up]

\* epoll_wait returns the ready descriptors that have something to report
EpollWait == /\ pc = "wait" /\ ready # <<>>
             /\ LET reported == Only(ready, {fd \in ToSet(ready) : Readable(fd)})
                IN  events' = [n \in DOMAIN reported |-> Event(reported[n])]
             /\ ready' = <<>>
             /\ pc' = IF events' = <<>> THEN "wait" ELSE "event"
             /\ UNCHANGED <<cvars, file, bytes_total, answers>>

\* the next event of the batch, or epoll_wait again
NextEvent == /\ events' = Tail(events)
             /\ pc' = IF Tail(events) = <<>> THEN "wait" ELSE "event"

\* the listener's event (which is reported only when accept will not block,
\* as each connection brings at most one): one connection is accepted and watched; data that
\* has arrived before makes it ready at once
Accept == /\ pc = "event" /\ Head(events).fd = Listener
          /\ backlog # <<>>
          /\ LET c == Head(backlog)
             IN  /\ conn' = [conn EXCEPT ![c] = "open"]
                 /\ ready' = IF Readable(c) THEN Ready(c) ELSE ready
          /\ backlog' = Tail(backlog)
          /\ NextEvent
          /\ UNCHANGED <<sent, inbuf, hung_up, file, bytes_total, answers>>

\* a client's event: its read loop begins
Serve == /\ pc = "event" /\ Head(events).fd # Listener
         /\ pc' = "read"
         /\ UNCHANGED <<cvars, ready, events, file, bytes_total, answers>>

cur == Head(events).fd

\* get_requested_file_name sees the name if what was read holds all of it
Requested(buf) == IF \/ buf[1].part = "whole"
                     \/ buf[1].part = "first" /\ Len(buf) > 1 /\ buf[2].part = "rest"
                  THEN buf[1].file ELSE NoFile

\* mutant: epoll still watches the descriptor
Forget_StillReady(c) == /\ conn' = [conn EXCEPT ![c] = "closed"]
                        /\ inbuf' = [inbuf EXCEPT ![c] = <<>>]
                        /\ UNCHANGED ready

\* close: epoll forgets the descriptor
Forget(c) == /\ conn' = [conn EXCEPT ![c] = "closed"]
             /\ inbuf' = [inbuf EXCEPT ![c] = <<>>]
             /\ ready' = Only(ready, ToSet(ready) \ {c})

Answer(code, f) ==
    answers' = [answers EXCEPT ![cur] = Append(@, [code |-> code, file |-> f, body |-> <<>>])]

\* mutant: bytes_total is not reset after the headers
ReadRequest_NoReset ==
    /\ pc = "read" /\ conn[cur] = "open" /\ inbuf[cur] # <<>>
    /\ Requested(inbuf[cur]) # NoFile
    /\ file' = Requested(inbuf[cur])
    /\ inbuf' = [inbuf EXCEPT ![cur] = <<>>]
    /\ Answer(200, Requested(inbuf[cur]))
    /\ pc' = "send"
    /\ UNCHANGED <<conn, sent, hung_up, backlog, ready, events, bytes_total>>

\* read returns what has arrived, and the name in it is that of a file:
\* the headers of the answer are written
ReadRequest == /\ pc = "read" /\ conn[cur] = "open" /\ inbuf[cur] # <<>>
               /\ Requested(inbuf[cur]) # NoFile
               /\ file' = Requested(inbuf[cur])
               /\ inbuf' = [inbuf EXCEPT ![cur] = <<>>]
               /\ Answer(200, Requested(inbuf[cur]))
               /\ bytes_total' = 0
               /\ pc' = "send"
               /\ UNCHANGED <<conn, sent, hung_up, backlog, ready, events>>

\* no name in it, or open fails: 404 and close; the loop goes on to a read
\* that fails
ReadBadRequest == /\ pc = "read" /\ conn[cur] = "open" /\ inbuf[cur] # <<>>
                  /\ Requested(inbuf[cur]) = NoFile
                  /\ Answer(404, NoFile)
                  /\ Forget(cur)
                  /\ UNCHANGED <<sent, hung_up, backlog, events, pc, file, bytes_total>>

\* a write to a client that has hung up: the connection was reset, and
\* SIGPIPE ends the server
WriteKills == /\ pc \in {"read", "send"} /\ conn[cur] = "open" /\ cur \in hung_up
              /\ pc = "read" => inbuf[cur] # <<>>
              /\ pc' = "killed"
              /\ UNCHANGED <<cvars, ready, events, file, bytes_total, answers>>

\* fstat fails on the file that was opened: send_file answers 500 and so does
\* run (one answer here), and closes
StatFails == /\ pc = "read" /\ conn[cur] = "open" /\ inbuf[cur] # <<>>
             /\ Requested(inbuf[cur]) # NoFile
             /\ Answer(500, NoFile)
             /\ Forget(cur)
             /\ UNCHANGED <<sent, hung_up, backlog, events, pc, file, bytes_total>>

\* the write of the headers or a sendfile returns an error, for a client that
\* has hung up or a "file" that cannot be read, such as a directory: after the
\* headers and what was sent comes a 500, and the connection is closed
SendFails == /\ pc = "send"
             /\ Answer(500, NoFile)
             /\ Forget(cur)
             /\ pc' = "read"
             /\ UNCHANGED <<sent, hung_up, backlog, events, file, bytes_total>>

\* sendfile transfers n blocks from its offset, bytes_total, and advances
\* it; send_file then adds n once more
SendFile == /\ pc = "send"
            /\ LET n == Min({MaxSend, Size[file] - bytes_total})
                   last == Len(answers[cur])
               IN  /\ answers' = [answers EXCEPT ![cur][last].body =
                                     @ \o [b \in 1..n |-> bytes_total + b]]
                   /\ bytes_total' = bytes_total + 2 * n
            /\ pc' = IF bytes_total' < Size[file] THEN "send" ELSE "read"
            /\ UNCHANGED <<cvars, ready, events, file>>

\* mutant: the client's disconnection is not looked at
ReadEnds_Keep == /\ pc = "read"
                 /\ conn[cur] = "closed" \/ (inbuf[cur] = <<>> /\ cur \in hung_up)
                 /\ NextEvent
                 /\ UNCHANGED <<cvars, ready, file, bytes_total, answers>>

\* read returns 0 at the end of file, or fails on a descriptor already
\* closed: the loop ends, and if the event said that the client wants to
\* disconnect, the descriptor is closed
ReadEnds == /\ pc = "read"
            /\ conn[cur] = "closed" \/ (inbuf[cur] = <<>> /\ cur \in hung_up)
            /\ IF Head(events).rdhup /\ conn[cur] = "open"
               THEN Forget(cur)
               ELSE UNCHANGED <<conn, inbuf, ready>>
            /\ NextEvent
            /\ UNCHANGED <<sent, hung_up, backlog, file, bytes_total, answers>>

Server == \/ EpollWait \/ Accept \/ Serve \/ ReadRequest \/ ReadBadRequest
          \/ StatFails \/ WriteKills \/ SendFails \/ SendFile \/ ReadEnds

Next == Server \/ \E c \in Client : Connect(c) \/ Transmit(c) \/ HangUp(c)

Spec == Init /\ [][Next]_vars

\* The server is scheduled; a client that connects sends what it has to
\* send.  It need not hang up.
FairSpec == Spec /\ WF_vars(Server) /\ \A c \in Client : WF_vars(Transmit(c))

\* Here every client hangs up in the end, as one that reads
\* "Connection: close" does.
PoliteSpec == FairSpec /\ \A c \in Client : WF_vars(HangUp(c))

----------------------------------------------------------------------------
(* Properties.                                                             *)

TypeOK == /\ conn \in [Client -> {"none", "queued", "open", "closed"}]
          /\ \A c \in Client : /\ sent[c] \in 0..Len(Segments[c])
                               /\ \A n \in DOMAIN inbuf[c] : inbuf[c][n] \in Segment
          /\ hung_up \subseteq Client
          /\ ToSet(backlog) \subseteq Client /\ ToSet(ready) \subseteq Client \cup {Listener}
          /\ pc \in {"wait", "event", "read", "send", "killed"}
          /\ pc \in {"event", "read", "send"} => events # <<>>
          /\ file \in File \cup {NoFile}
          /\ bytes_total \in Nat

\* A descriptor that run is about to read is one that it has accepted, and
\* no event of the batch is about a descriptor closed since it was reported
\* (its number may belong to another connection by then); and every variable
\* has its type.
NoStaleEvent == /\ TypeOK
                /\ pc = "event" /\ Head(events).fd # Listener => conn[Head(events).fd] = "open"
                /\ \A n \in 2..Len(events) : events[n].fd \in Client => conn[events[n].fd] = "open"

\* The body of an answer that is not being sent any more is the file, block
\* by block ("Content-Length", main.c:158), unless the answer was given up:
\* then a 500 follows it.
Complete(f) == [b \in 1..Size[f] |-> b]
FilesIntact ==
    \A c \in Client : \A n \in DOMAIN answers[c] :
        LET a == answers[c][n]
        IN  \/ a.code # 200 /\ a.body = <<>>
            \/ a.code = 200 /\ a.body = Complete(a.file)
            \/ n < Len(answers[c]) /\ answers[c][n + 1].code = 500
            \/ c \in hung_up
            \/ pc \in {"send", "killed"} /\ cur = c /\ n = Len(answers[c])

\* "no file name passed" (main.c:260): a client is told 404 only if no file
\* has the name it sends.
NotFoundIsTrue == \A c \in Client : \A n \in DOMAIN answers[c] :
                     answers[c][n].code = 404
                        => \E m \in DOMAIN Segments[c] : Segments[c][m].file = NoFile

\* "Waits for clients connection at the specified address" (README.md:3): a
\* client that connects is accepted.
EveryClientAccepted == \A c \in Client : conn[c] = "queued" ~> conn[c] # "queued" \/ pc = "killed"

\* "Shares files via HTTP protocol" (README.md:2): a client that has sent its
\* request is answered, whatever the others do.
EveryRequestAnswered ==
    \A c \in Client : sent[c] = Len(Segments[c]) /\ conn[c] = "open"
                         ~> answers[c] # <<>> \/ c \in hung_up \/ pc = "killed"

\* No descriptor is leaked: a connection whose client hung up is closed.
HungUpIsClosed ==
    \A c \in Client : c \in hung_up /\ conn[c] = "open" ~> conn[c] = "closed" \/ pc = "killed"
=============================================================================
