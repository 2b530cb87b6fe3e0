--------------------------- MODULE HttpServerProofs ---------------------------
(***************************************************************************)
(* Proofs about HttpServer for any clients, requests and files.            *)
(*                                                                         *)
(* Typed strengthens TypeOK with what the handlers rely on: the event that *)
(* is being handled is a client's, and the file that is being sent is one  *)
(* of the directory, of which no more was sent than it has.  Sound says    *)
(* that no list holds a descriptor twice, nor a closed one: closing the    *)
(* descriptor of the current event can thus make no later one stale.       *)
(* BodyUnsent says that an answer is being sent from its first block.      *)
(***************************************************************************)
EXTENDS HttpServer, SumTheorems

----------------------------------------------------------------------------
(* Lists of descriptors.                                                   *)

Distinct(s) == \A m, n \in 1..Len(s) : s[m] = s[n] => m = n

\* The recursion of Only, for the first n elements of a list.
Upto(F, s, T, n) ==
  F = [k \in 0..n |-> IF k = 0 THEN <<>>
                      ELSE IF s[k] \in T THEN Append(F[k - 1], s[k]) ELSE F[k - 1]]

LEMMA UptoExists ==
  ASSUME NEW s, NEW T, NEW n \in Nat
  PROVE  \E F : Upto(F, s, T, n)
<1> DEFINE N == {k \in Nat : \E F : Upto(F, s, T, k)}
<1>1. 0 \in N
  <2>1. Upto([k \in 0..0 |-> <<>>], s, T, 0)
    BY DEF Upto
  <2> QED BY <2>1
<1>2. ASSUME NEW k \in Nat, k \in N
      PROVE  k + 1 \in N
  <2>1. PICK F : Upto(F, s, T, k)
    BY <1>2
  <2> DEFINE G == [j \in 0..k + 1 |-> IF j = 0 THEN <<>>
                                      ELSE IF s[j] \in T THEN Append(F[j - 1], s[j]) ELSE F[j - 1]]
  <2>2. \A j \in 0..k : G[j] = F[j]
    <3> TAKE j \in 0..k
    <3>1. F[j] = IF j = 0 THEN <<>> ELSE IF s[j] \in T THEN Append(F[j - 1], s[j]) ELSE F[j - 1]
      <4> DEFINE body(i) == IF i = 0 THEN <<>>
                            ELSE IF s[i] \in T THEN Append(F[i - 1], s[i]) ELSE F[i - 1]
      <4>1. F = [i \in 0..k |-> body(i)]
        BY <2>1 DEF Upto
      <4> HIDE DEF body
      <4>2. F[j] = body(j)
        BY <4>1
      <4> QED BY <4>2 DEF body
    <3>2. j \in 0..k + 1
      OBVIOUS
    <3> QED BY <3>1, <3>2
  <2>3. \A j \in 0..k + 1 : j # 0 => j - 1 \in 0..k
    OBVIOUS
  <2>4. Upto(G, s, T, k + 1)
    <3>1. \A j \in 0..k + 1 : j # 0 => G[j - 1] = F[j - 1]
      BY <2>2, <2>3
    <3>2. G = [j \in 0..k + 1 |-> IF j = 0 THEN <<>>
                                 ELSE IF s[j] \in T THEN Append(G[j - 1], s[j]) ELSE G[j - 1]]
      BY <3>1
    <3> HIDE DEF G
    <3> QED BY <3>2 DEF Upto
  <2> QED BY <2>4
<1>3. Nat \subseteq N
  <2> HIDE DEF N
  <2> QED BY <1>1, <1>2, NatInductionSet
<1> QED BY <1>3

\* Only keeps the elements of a list that are in T, and none twice that the
\* list holds once.
LEMMA OnlyIn ==
  ASSUME NEW S, NEW s \in Seq(S), NEW T
  PROVE  /\ Only(s, T) \in Seq(S)
         /\ \A m \in 1..Len(Only(s, T)) : Only(s, T)[m] \in T \cap S
         /\ Distinct(s) => Distinct(Only(s, T))
<1> DEFINE F == CHOOSE G : Upto(G, s, T, Len(s))
           Fine(k) == /\ F[k] \in Seq(S)
                      /\ \A m \in 1..Len(F[k]) : /\ F[k][m] \in T
                                                 /\ \E j \in 1..k : F[k][m] = s[j]
                      /\ Distinct(s) => Distinct(F[k])
           N == {k \in Nat : k <= Len(s) => Fine(k)}
<1>0. Only(s, T) = F[Len(s)] /\ Len(s) \in Nat
  BY DEF Only, Upto
<1>1. Upto(F, s, T, Len(s))
  BY <1>0, UptoExists
<1> HIDE DEF F
<1>2. 0 \in N
  <2>1. F[0] = <<>>
    BY <1>0, <1>1 DEF Upto
  <2>2. F[0] \in Seq(S) /\ Len(F[0]) = 0
    BY <2>1
  <2>3. 1..Len(F[0]) = {}
    BY <2>2
  <2>4. Fine(0)
    BY <2>2, <2>3 DEF Distinct
  <2> HIDE DEF Fine
  <2> QED BY <2>4
<1>3. ASSUME NEW k \in Nat, k \in N
      PROVE  k + 1 \in N
  <2> SUFFICES ASSUME k + 1 <= Len(s) PROVE Fine(k + 1)
    OBVIOUS
  <2>1. Fine(k)
    BY <1>0, <1>3
  <2>2. F[k + 1] = IF s[k + 1] \in T THEN Append(F[k], s[k + 1]) ELSE F[k]
    <3>1. k + 1 \in 0..Len(s) /\ k + 1 # 0 /\ (k + 1) - 1 = k
      BY <1>0
    <3> QED BY <1>1, <3>1 DEF Upto
  <2>3. s[k + 1] \in S
    BY <1>0
  <2>4. CASE s[k + 1] \notin T
    BY <2>1, <2>2, <2>4
  <2>5. CASE s[k + 1] \in T
    <3> DEFINE G == Append(F[k], s[k + 1])
    <3>1. F[k + 1] = G /\ F[k] \in Seq(S) /\ Len(F[k]) \in Nat
      BY <2>1, <2>2, <2>5
    <3>2. /\ G \in Seq(S) /\ Len(G) = Len(F[k]) + 1 /\ G[Len(F[k]) + 1] = s[k + 1]
          /\ \A m \in 1..Len(F[k]) : G[m] = F[k][m]
      BY <2>3, <3>1
    <3>3. ASSUME NEW m \in 1..Len(G)
          PROVE  G[m] \in T /\ \E j \in 1..k + 1 : G[m] = s[j]
      <4>1. CASE m = Len(F[k]) + 1
        BY <2>5, <3>2, <4>1
      <4>2. CASE m # Len(F[k]) + 1
        <5>1. m \in 1..Len(F[k])
          BY <3>1, <3>2, <4>2
        <5>2. PICK j \in 1..k : F[k][m] = s[j]
          BY <2>1, <5>1
        <5> QED BY <2>1, <3>2, <5>1, <5>2
      <4> QED BY <4>1, <4>2
    <3>4. ASSUME Distinct(s), NEW m \in 1..Len(G), NEW n \in 1..Len(G), G[m] = G[n]
          PROVE  m = n
      <4>1. \A i \in 1..Len(F[k]) : F[k][i] # s[k + 1]
        <5> TAKE i \in 1..Len(F[k])
        <5>1. PICK j \in 1..k : F[k][i] = s[j]
          BY <2>1
        <5>2. j \in 1..Len(s) /\ k + 1 \in 1..Len(s) /\ j # k + 1
          BY <1>0
        <5> QED BY <3>4, <5>1, <5>2 DEF Distinct
      <4>2. CASE m \in 1..Len(F[k]) /\ n \in 1..Len(F[k])
        <5>1. F[k][m] = F[k][n]
          BY <3>2, <3>4, <4>2
        <5> QED BY <2>1, <3>4, <4>2, <5>1 DEF Distinct
      <4>3. CASE m \in 1..Len(F[k]) /\ n = Len(F[k]) + 1
        BY <3>2, <3>4, <4>1, <4>3
      <4>4. CASE n \in 1..Len(F[k]) /\ m = Len(F[k]) + 1
        BY <3>2, <3>4, <4>1, <4>4
      <4> QED BY <3>1, <3>2, <4>2, <4>3, <4>4
    <3> HIDE DEF G
    <3>5. Distinct(s) => Distinct(G)
      BY <3>4 DEF Distinct
    <3> QED BY <3>1, <3>2, <3>3, <3>5
  <2> QED BY <2>4, <2>5
<1>4. Fine(Len(s))
  <2>1. Nat \subseteq N
    <3> HIDE DEF N
    <3> QED BY <1>2, <1>3, NatInductionSet
  <2> QED BY <1>0, <2>1
<1>5. \A j \in 1..Len(s) : s[j] \in S
  OBVIOUS
<1> QED BY <1>0, <1>4, <1>5

----------------------------------------------------------------------------
(* Types.                                                                  *)

Descriptor == Client \cup {Listener}
Reported == [fd : Descriptor, rdhup : BOOLEAN]
Answered == [code : {200, 404, 500}, file : File \cup {NoFile}, body : Seq(Nat)]

Typed == /\ conn \in [Client -> {"none", "queued", "open", "closed"}]
         /\ sent \in [Client -> Nat] /\ \A c \in Client : sent[c] <= Len(Segments[c])
         /\ inbuf \in [Client -> Seq(Segment)]
         /\ hung_up \subseteq Client
         /\ backlog \in Seq(Client)
         /\ ready \in Seq(Descriptor)
         /\ events \in Seq(Reported)
         /\ pc \in {"wait", "event", "read", "send", "killed"}
         /\ pc \in {"event", "read", "send"} => events # <<>>
         /\ file \in File \cup {NoFile}
         /\ bytes_total \in Nat
         /\ answers \in [Client -> Seq(Answered)]
         /\ pc \in {"read", "send"} => cur \in Client
         /\ pc = "send" => file \in File /\ answers[cur] # <<>> /\ bytes_total <= Size[file]

\* What the list of a descriptor is when something happens to it.
LEMMA ReadyIn ==
  ASSUME ready \in Seq(Descriptor), NEW fd \in Descriptor
  PROVE  /\ Ready(fd) \in Seq(Descriptor)
         /\ \A m \in 1..Len(Ready(fd)) : Ready(fd)[m] = fd \/ \E j \in 1..Len(ready) : Ready(fd)[m] = ready[j]
         /\ Distinct(ready) => Distinct(Ready(fd))
<1>1. CASE Contains(ready, fd)
  BY <1>1 DEF Ready
<1>2. CASE ~Contains(ready, fd)
  <2>1. Ready(fd) = Append(ready, fd) /\ \A j \in 1..Len(ready) : ready[j] # fd
    BY <1>2 DEF Ready, Contains
  <2>2. Len(ready) \in Nat
    OBVIOUS
  <2> QED BY <2>1, <2>2 DEF Distinct
<1> QED BY <1>1, <1>2

LEMMA ListRange ==
  ASSUME NEW S, NEW s \in Seq(S)
  PROVE  ToSet(s) \subseteq S /\ \A n \in 1..Len(s) : s[n] \in ToSet(s)
  BY DEF ToSet

\* The list of a closed descriptor forgets it.
LEMMA ForgetReady ==
  ASSUME ready \in Seq(Descriptor), NEW c \in Client
  PROVE  LET r == Only(ready, ToSet(ready) \ {c})
         IN  /\ r \in Seq(Descriptor)
             /\ \A m \in 1..Len(r) : r[m] # c /\ \E j \in 1..Len(ready) : r[m] = ready[j]
             /\ Distinct(ready) => Distinct(r)
<1> DEFINE r == Only(ready, ToSet(ready) \ {c})
<1>1. /\ r \in Seq(Descriptor)
      /\ \A m \in 1..Len(r) : r[m] \in ToSet(ready) \ {c}
      /\ Distinct(ready) => Distinct(r)
  BY OnlyIn
<1> HIDE DEF r
<1>2. \A x \in ToSet(ready) : \E j \in 1..Len(ready) : x = ready[j]
  BY DEF ToSet
<1>3. /\ r \in Seq(Descriptor)
      /\ \A m \in 1..Len(r) : r[m] # c /\ \E j \in 1..Len(ready) : r[m] = ready[j]
      /\ Distinct(ready) => Distinct(r)
  BY <1>1, <1>2
<1> QED BY <1>3 DEF r

\* What one read returns names a file of the directory, or none.
LEMMA RequestedIn ==
  ASSUME NEW buf \in Seq(Segment), buf # <<>>
  PROVE  Requested(buf) \in File \cup {NoFile}
<1>1. buf[1] \in Segment
  OBVIOUS
<1> QED BY <1>1 DEF Requested, Segment

\* The batch without its first event.
LEMMA TailIn ==
  ASSUME events \in Seq(Reported), events # <<>>
  PROVE  /\ Tail(events) \in Seq(Reported) /\ Len(Tail(events)) = Len(events) - 1
         /\ \A n \in 1..Len(Tail(events)) : n + 1 \in 2..Len(events) /\ Tail(events)[n] = events[n + 1]
         /\ events[1] \in Reported /\ Head(events) = events[1] /\ Len(events) \in Nat \ {0}
  OBVIOUS

LEMMA TypedIsTypeOK == Typed => TypeOK
<1> SUFFICES ASSUME Typed PROVE TypeOK
  OBVIOUS
<1> USE DEF Typed
<1>1. ToSet(backlog) \subseteq Client /\ ToSet(ready) \subseteq Client \cup {Listener}
  BY ListRange DEF Descriptor
<1>2. \A c \in Client : \A n \in DOMAIN inbuf[c] : inbuf[c][n] \in Segment
  <2> TAKE c \in Client
  <2>1. inbuf[c] \in Seq(Segment)
    OBVIOUS
  <2> QED BY <2>1
<1>3. \A c \in Client : sent[c] \in 0..Len(Segments[c])
  <2> TAKE c \in Client
  <2>1. Segments[c] \in Seq(Segment) /\ sent[c] \in Nat /\ sent[c] <= Len(Segments[c])
    BY ClientAssumption
  <2> QED BY <2>1
<1> QED BY <1>1, <1>2, <1>3 DEF TypeOK

LEMMA TypedInit == Init => Typed
<1> SUFFICES ASSUME Init PROVE Typed
  OBVIOUS
<1>1. \A c \in Client : 0 <= Len(Segments[c])
  <2> TAKE c \in Client
  <2>1. Segments[c] \in Seq(Segment)
    BY ClientAssumption
  <2> QED BY <2>1
<1>2. \A c \in Client : sent[c] <= Len(Segments[c])
  BY <1>1 DEF Init
<1>3. /\ sent \in [Client -> Nat] /\ inbuf \in [Client -> Seq(Segment)]
      /\ conn \in [Client -> {"none", "queued", "open", "closed"}]
      /\ answers \in [Client -> Seq(Answered)]
      /\ backlog \in Seq(Client) /\ ready \in Seq(Descriptor) /\ events \in Seq(Reported)
  BY DEF Init
<1> QED BY <1>2, <1>3 DEF Typed, Init

LEMMA TypedClient ==
  ASSUME Typed, NEW c \in Client, Connect(c) \/ Transmit(c) \/ HangUp(c)
  PROVE  Typed'
<1> USE DEF Typed
<1>0. /\ Ready(Listener) \in Seq(Descriptor) /\ Ready(c) \in Seq(Descriptor)
      /\ Segments[c] \in Seq(Segment)
  BY ReadyIn, ClientAssumption DEF Descriptor
<1>1. /\ UNCHANGED <<events, pc, file, bytes_total, answers>> /\ cur' = cur
      /\ ready' \in Seq(Descriptor)
  BY <1>0 DEF Connect, Transmit, HangUp, cur
<1>2. CASE Connect(c)
  <2>1. Append(backlog, c) \in Seq(Client)
    OBVIOUS
  <2> QED BY <1>1, <1>2, <2>1 DEF Connect
<1>3. CASE Transmit(c)
  <2>1. sent[c] + 1 \in 1..Len(Segments[c]) /\ Segments[c][sent[c] + 1] \in Segment
    <3>1. sent[c] \in Nat /\ sent[c] < Len(Segments[c]) /\ Len(Segments[c]) \in Nat
      BY <1>0, <1>3 DEF Transmit
    <3> QED BY <1>0, <3>1
  <2>2. Append(inbuf[c], Segments[c][sent[c] + 1]) \in Seq(Segment)
    BY <2>1
  <2>3. /\ sent' \in [Client -> Nat] /\ \A d \in Client : sent'[d] <= Len(Segments[d])
        /\ inbuf' \in [Client -> Seq(Segment)]
        /\ UNCHANGED <<conn, backlog, hung_up>>
    <3>1. sent' = [sent EXCEPT ![c] = sent[c] + 1] /\ sent[c] + 1 <= Len(Segments[c])
      BY <1>3, <2>1 DEF Transmit
    <3>2. sent' \in [Client -> Nat] /\ \A d \in Client : sent'[d] <= Len(Segments[d])
      BY <3>1
    <3>3. \/ inbuf' = inbuf
          \/ inbuf' = [inbuf EXCEPT ![c] = Append(inbuf[c], Segments[c][sent[c] + 1])]
      BY <1>3 DEF Transmit
    <3>4. inbuf' \in [Client -> Seq(Segment)]
      BY <2>2, <3>3
    <3> QED BY <1>3, <3>2, <3>4 DEF Transmit
  <2> QED BY <1>1, <2>3
<1>4. CASE HangUp(c)
  BY <1>1, <1>4 DEF HangUp
<1> QED BY <1>2, <1>3, <1>4

LEMMA AppendIn ==
  ASSUME NEW S, NEW s \in Seq(S), NEW e \in S
  PROVE  Append(s, e) \in Seq(S) /\ Append(s, e) # <<>> /\ Len(Append(s, e)) = Len(s) + 1
<1>1. Append(s, e) \in Seq(S) /\ Len(Append(s, e)) = Len(s) + 1 /\ Len(s) \in Nat
  OBVIOUS
<1>2. Len(Append(s, e)) # 0
  BY <1>1
<1> QED BY <1>1, <1>2

LEMMA JoinIn ==
  ASSUME NEW S, NEW s \in Seq(S), NEW t \in Seq(S)
  PROVE  s \o t \in Seq(S)
  OBVIOUS

\* The server's steps that leave the lists of events and descriptors alone.
LEMMA TypedAnswer ==
  ASSUME Typed, Serve \/ ReadRequest \/ WriteKills \/ SendFile
  PROVE  Typed'
<1> USE DEF Typed
<1>0. UNCHANGED <<conn, sent, hung_up, backlog, ready, events>> /\ cur' = cur
  BY DEF Serve, ReadRequest, WriteKills, SendFile, cvars, cur
<1>1. CASE Serve
  <2>1. events # <<>> /\ cur # Listener /\ pc' = "read"
    BY <1>1 DEF Serve, cur
  <2>2. events[1] \in Reported /\ cur = events[1].fd
    BY <2>1, TailIn DEF cur
  <2>3. cur \in Client
    BY <2>1, <2>2 DEF Reported, Descriptor
  <2> QED BY <1>0, <1>1, <2>1, <2>3 DEF Serve, cvars
<1>2. CASE ReadRequest
  <2> DEFINE f == Requested(inbuf[cur])
             a == [code |-> 200, file |-> f, body |-> <<>>]
  <2>1. /\ cur \in Client /\ pc' = "send" /\ file' = f /\ f # NoFile /\ bytes_total' = 0
        /\ inbuf' = [inbuf EXCEPT ![cur] = <<>>] /\ inbuf[cur] # <<>>
        /\ answers' = [answers EXCEPT ![cur] = Append(answers[cur], a)]
    BY <1>2 DEF ReadRequest, Answer
  <2>2. f \in File /\ Size[f] \in Nat
    BY <2>1, RequestedIn, FileAssumption
  <2> HIDE DEF f
  <2>3. a \in Answered
    <3>1. <<>> \in Seq(Nat)
      OBVIOUS
    <3> QED BY <2>2, <3>1 DEF Answered
  <2> HIDE DEF a
  <2>4. Append(answers[cur], a) \in Seq(Answered) /\ Append(answers[cur], a) # <<>>
    <3>1. answers[cur] \in Seq(Answered)
      BY <2>1
    <3> QED BY <2>3, <3>1, AppendIn
  <2>5. answers' \in [Client -> Seq(Answered)] /\ answers'[cur] # <<>>
    BY <2>1, <2>4
  <2>6. inbuf' \in [Client -> Seq(Segment)]
    BY <2>1
  <2>7. file' \in File /\ bytes_total' \in Nat /\ bytes_total' <= Size[file']
    BY <2>1, <2>2
  <2>8. pc' = "send" => file' \in File /\ answers'[cur'] # <<>> /\ bytes_total' <= Size[file']
    BY <1>0, <2>5, <2>7
  <2>9. pc' \in {"event", "read", "send"} => events' # <<>>
    BY <1>0, <1>2 DEF ReadRequest
  <2> QED BY <1>0, <2>1, <2>5, <2>6, <2>7, <2>8, <2>9
<1>3. CASE WriteKills
  BY <1>0, <1>3 DEF WriteKills, cvars
<1>4. CASE SendFile
  <2> DEFINE k == Min({MaxSend, Size[file] - bytes_total})
             last == Len(answers[cur])
             body == answers[cur][last].body \o [b \in 1..k |-> bytes_total + b]
  <2>1. /\ cur \in Client /\ file \in File /\ answers[cur] # <<>> /\ pc = "send"
        /\ answers' = [answers EXCEPT ![cur] = [answers[cur] EXCEPT ![last] =
                                                   [answers[cur][last] EXCEPT !.body = body]]]
        /\ bytes_total' = bytes_total + 2 * k
        /\ pc' = IF bytes_total' < Size[file] THEN "send" ELSE "read"
        /\ UNCHANGED <<cvars, ready, events, file>>
    BY <1>4 DEF SendFile
  <2>2. k \in Nat
    <3>1. MaxSend \in Nat /\ Size[file] - bytes_total \in Nat
      BY <2>1, FileAssumption
    <3> DEFINE S == {MaxSend, Size[file] - bytes_total}
    <3>2. \E m \in S : \A x \in S : m <= x
      BY <3>1
    <3>3. k \in S
      BY <3>2 DEF Min
    <3> QED BY <3>1, <3>3
  <2> HIDE DEF k
  <2>3. last \in 1..Len(answers[cur]) /\ answers[cur] \in Seq(Answered)
    BY <2>1
  <2>4. answers[cur][last] \in Answered
    <3> HIDE DEF Answered, last
    <3> QED BY <2>3
  <2>5. [b \in 1..k |-> bytes_total + b] \in Seq(Nat)
    BY <2>2
  <2>6. answers[cur][last].body \in Seq(Nat)
    BY <2>4 DEF Answered
  <2>7. body \in Seq(Nat)
    <3> DEFINE more == [b \in 1..k |-> bytes_total + b]
    <3> HIDE DEF more
    <3> QED BY <2>5, <2>6, JoinIn DEF more
  <2> HIDE DEF body
  <2> DEFINE a == [answers[cur][last] EXCEPT !.body = body]
  <2>8. a \in Answered
    BY <2>4, <2>7 DEF Answered
  <2> HIDE DEF a, last
  <2> DEFINE all == [answers[cur] EXCEPT ![last] = a]
  <2>9. all \in Seq(Answered) /\ all # <<>>
    <3> HIDE DEF Answered
    <3>1. all \in Seq(Answered) /\ Len(all) = Len(answers[cur])
      BY <2>3, <2>8
    <3> HIDE DEF all
    <3> QED BY <2>3, <3>1
  <2>10. answers' = [answers EXCEPT ![cur] = all]
    BY <2>1 DEF a
  <2> HIDE DEF all
  <2>11. answers' \in [Client -> Seq(Answered)] /\ answers'[cur] # <<>>
    BY <2>1, <2>9, <2>10
  <2>12. bytes_total' \in Nat
    BY <2>1, <2>2
  <2>13. pc' = "send" => bytes_total' <= Size[file']
    <3>1. Size[file] \in Nat
      BY <2>1, FileAssumption
    <3> QED BY <2>1, <2>12, <3>1
  <2>14. pc' \in {"send", "read"} /\ inbuf' = inbuf
    BY <2>1 DEF cvars
  <2> QED BY <1>0, <2>1, <2>11, <2>12, <2>13, <2>14
<1> QED BY <1>1, <1>2, <1>3, <1>4

\* A closed connection.
LEMMA TypedForget ==
  ASSUME Typed, NEW c \in Client, Forget(c)
  PROVE  /\ conn' \in [Client -> {"none", "queued", "open", "closed"}]
         /\ inbuf' \in [Client -> Seq(Segment)]
         /\ ready' \in Seq(Descriptor)
<1>1. conn \in [Client -> {"none", "queued", "open", "closed"}] /\ inbuf \in [Client -> Seq(Segment)]
  BY DEF Typed
<1>2. ready \in Seq(Descriptor)
  BY DEF Typed
<1>3. ready' \in Seq(Descriptor)
  BY <1>2, ForgetReady DEF Forget
<1>4. conn' \in [Client -> {"none", "queued", "open", "closed"}]
  BY <1>1 DEF Forget
<1>5. inbuf' \in [Client -> Seq(Segment)]
  BY <1>1 DEF Forget
<1> QED BY <1>3, <1>4, <1>5

\* The steps between two events of a batch, and between two batches.
LEMMA TypedNextEvent ==
  ASSUME Typed, NextEvent, events # <<>>
  PROVE  /\ events' \in Seq(Reported)
         /\ pc' \in {"wait", "event"} /\ (pc' = "event" => events' # <<>>)
  BY TailIn DEF Typed, NextEvent

\* What epoll_wait reports are events of descriptors that were ready.
LEMMA ReportedIn ==
  ASSUME Typed, EpollWait
  PROVE  LET T == {fd \in ToSet(ready) : Readable(fd)}
         IN  /\ Only(ready, T) \in Seq(Descriptor)
             /\ \A m \in 1..Len(Only(ready, T)) : Only(ready, T)[m] \in T
             /\ Distinct(ready) => Distinct(Only(ready, T))
             /\ events' = [n \in 1..Len(Only(ready, T)) |-> Event(Only(ready, T)[n])]
             /\ Len(events') = Len(Only(ready, T))
             /\ events' \in Seq(Reported)
<1> DEFINE T == {fd \in ToSet(ready) : Readable(fd)}
           r == Only(ready, T)
<1>1. ready \in Seq(Descriptor)
  BY DEF Typed
<1>2. r \in Seq(Descriptor) /\ (\A m \in 1..Len(r) : r[m] \in T) /\ (Distinct(ready) => Distinct(r))
  BY <1>1, OnlyIn
<1>3. events' = [n \in DOMAIN r |-> Event(r[n])]
  BY DEF EpollWait
<1> HIDE DEF r, T
<1>4. events' = [n \in 1..Len(r) |-> Event(r[n])] /\ Len(r) \in Nat
  BY <1>2, <1>3
<1>5. \A n \in 1..Len(r) : Event(r[n]) \in Reported
  <2> TAKE n \in 1..Len(r)
  <2>1. r[n] \in Descriptor
    BY <1>2
  <2> QED BY <2>1 DEF Event, Reported
<1>6. events' \in Seq(Reported) /\ Len(events') = Len(r)
  <2> DEFINE e(n) == Event(r[n])
  <2> HIDE DEF e, Reported
  <2>1. events' = [n \in 1..Len(r) |-> e(n)] /\ \A n \in 1..Len(r) : e(n) \in Reported
    BY <1>4, <1>5 DEF e
  <2> QED BY <1>4, <2>1
<1> QED BY <1>2, <1>4, <1>6 DEF r, T

LEMMA TypedEvents ==
  ASSUME Typed, EpollWait \/ Accept \/ ReadBadRequest \/ StatFails \/ SendFails \/ ReadEnds
  PROVE  Typed'
<1>0. /\ conn \in [Client -> {"none", "queued", "open", "closed"}]
      /\ ready \in Seq(Descriptor) /\ backlog \in Seq(Client) /\ events \in Seq(Reported)
      /\ pc \in {"event", "read", "send"} => events # <<>>
      /\ pc \in {"read", "send"} => cur \in Client
      /\ answers \in [Client -> Seq(Answered)]
  BY DEF Typed
<1>1. CASE EpollWait
  <2>1. events' \in Seq(Reported)
    BY <1>1, ReportedIn
  <2>2. <<>> \in Seq(Descriptor)
    OBVIOUS
  <2>3. /\ UNCHANGED <<conn, sent, inbuf, hung_up, backlog, file, bytes_total, answers>>
        /\ ready' = <<>> /\ pc' \in {"wait", "event"} /\ (pc' = "event" => events' # <<>>)
    BY <1>1 DEF EpollWait, cvars
  <2> QED BY <2>1, <2>2, <2>3 DEF Typed
<1>2. CASE Accept
  <2>1. Head(backlog) \in Client /\ Tail(backlog) \in Seq(Client)
    BY <1>0, <1>2 DEF Accept
  <2>2. ready' \in Seq(Descriptor)
    <3>1. Ready(Head(backlog)) \in Seq(Descriptor)
      BY <1>0, <2>1, ReadyIn DEF Descriptor
    <3> QED BY <1>0, <1>2, <3>1 DEF Accept
  <2>3. conn' \in [Client -> {"none", "queued", "open", "closed"}]
    BY <1>0, <1>2, <2>1 DEF Accept
  <2>4. /\ events' \in Seq(Reported)
        /\ pc' \in {"wait", "event"} /\ (pc' = "event" => events' # <<>>)
    BY <1>0, <1>2, TypedNextEvent DEF Accept
  <2>5. UNCHANGED <<sent, inbuf, hung_up, file, bytes_total, answers>> /\ backlog' = Tail(backlog)
    BY <1>2 DEF Accept
  <2> QED BY <2>1, <2>2, <2>3, <2>4, <2>5 DEF Typed
<1>3. CASE ReadBadRequest \/ StatFails \/ SendFails
  <2>0. PICK code \in {404, 500} : Answer(code, NoFile)
    BY <1>3 DEF ReadBadRequest, StatFails, SendFails
  <2> DEFINE a == [code |-> code, file |-> NoFile, body |-> <<>>]
  <2>1. /\ cur \in Client /\ pc \in {"read", "send"} /\ pc' = "read" /\ Forget(cur) /\ cur' = cur
        /\ UNCHANGED <<sent, hung_up, backlog, events, file, bytes_total>>
        /\ answers' = [answers EXCEPT ![cur] = Append(answers[cur], a)]
    BY <1>0, <1>3, <2>0 DEF ReadBadRequest, StatFails, SendFails, Answer, cur
  <2>2. a \in Answered
    <3>1. <<>> \in Seq(Nat)
      OBVIOUS
    <3> QED BY <3>1 DEF Answered
  <2> HIDE DEF a
  <2>3. Append(answers[cur], a) \in Seq(Answered)
    <3>1. answers[cur] \in Seq(Answered)
      BY <1>0, <2>1
    <3> QED BY <2>2, <3>1, AppendIn
  <2>4. answers' \in [Client -> Seq(Answered)]
    BY <1>0, <2>1, <2>3
  <2>5. /\ conn' \in [Client -> {"none", "queued", "open", "closed"}]
        /\ inbuf' \in [Client -> Seq(Segment)]
        /\ ready' \in Seq(Descriptor)
    BY <2>1, TypedForget
  <2> QED BY <2>1, <2>4, <2>5 DEF Typed
<1>4. CASE ReadEnds
  <2>1. /\ cur \in Client /\ NextEvent /\ events # <<>>
        /\ Forget(cur) \/ UNCHANGED <<conn, inbuf, ready>>
        /\ UNCHANGED <<sent, hung_up, backlog, file, bytes_total, answers>>
    BY <1>0, <1>4 DEF ReadEnds
  <2>2. /\ events' \in Seq(Reported)
        /\ pc' \in {"wait", "event"} /\ (pc' = "event" => events' # <<>>)
    BY <2>1, TypedNextEvent
  <2>3. /\ conn' \in [Client -> {"none", "queued", "open", "closed"}]
        /\ inbuf' \in [Client -> Seq(Segment)]
        /\ ready' \in Seq(Descriptor)
    <3>1. CASE Forget(cur)
      BY <2>1, <3>1, TypedForget
    <3>2. CASE UNCHANGED <<conn, inbuf, ready>>
      BY <3>2 DEF Typed
    <3> QED BY <2>1, <3>1, <3>2
  <2> QED BY <2>1, <2>2, <2>3 DEF Typed
<1> QED BY <1>1, <1>2, <1>3, <1>4

LEMMA TypedNext == Typed /\ [Next]_vars => Typed'
<1> SUFFICES ASSUME Typed, [Next]_vars PROVE Typed'
  OBVIOUS
<1>1. CASE \E c \in Client : Connect(c) \/ Transmit(c) \/ HangUp(c)
  BY <1>1, TypedClient
<1>2. CASE Server
  BY <1>2, TypedAnswer, TypedEvents DEF Server
<1>3. CASE UNCHANGED vars
  BY <1>3 DEF Typed, vars, cvars, cur
<1> QED BY <1>1, <1>2, <1>3 DEF Next

\* Every variable has its type, for any clients, requests and files.
THEOREM TypeCorrect == Spec => []TypeOK
<1>1. Typed => TypeOK
  BY TypedIsTypeOK
<1> QED BY TypedInit, TypedNext, <1>1, PTL DEF Spec

----------------------------------------------------------------------------
(* No event is about a closed descriptor.                                  *)

\* A descriptor is the listener's, or that of an open connection.
Open(map, fd) == fd \in Client => map[fd] = "open"

\* No list holds a descriptor twice, and none holds one that is not open,
\* but for the event that is being handled, whose descriptor run may close.
Sound == /\ Distinct(ready)
         /\ \A n \in 1..Len(ready) : Open(conn, ready[n])
         /\ \A m, n \in 1..Len(events) : events[m].fd = events[n].fd => m = n
         /\ \A n \in 2..Len(events) : Open(conn, events[n].fd)
         /\ pc = "event" => Open(conn, events[1].fd)

LEMMA SoundInit == Init => Sound
  BY DEF Init, Sound, Distinct

LEMMA SoundClient ==
  ASSUME Typed, Sound, NEW c \in Client, Connect(c) \/ Transmit(c) \/ HangUp(c)
  PROVE  Sound'
<1>0. ready \in Seq(Descriptor) /\ conn \in [Client -> {"none", "queued", "open", "closed"}]
  BY DEF Typed
<1>1. UNCHANGED <<events, pc>>
  BY DEF Connect, Transmit, HangUp
<1>2. \A fd : Open(conn, fd) => Open(conn', fd)
  <2>1. CASE Connect(c)
    BY <1>0, <2>1 DEF Connect, Open
  <2>2. CASE conn' = conn
    BY <2>2 DEF Open
  <2> QED BY <2>1, <2>2 DEF Transmit, HangUp
<1>3. \/ ready' = ready
      \/ ready' = Ready(Listener)
      \/ ready' = Ready(c) /\ Open(conn, c)
  BY DEF Connect, Transmit, HangUp, Open
<1>4. Open(conn, Listener)
  BY ClientAssumption DEF Open
<1>5. ASSUME NEW fd \in Descriptor, Open(conn, fd), ready' = Ready(fd)
      PROVE  Distinct(ready)' /\ \A n \in 1..Len(ready') : Open(conn, ready'[n])
  <2>1. /\ \A m \in 1..Len(ready') : ready'[m] = fd \/ \E j \in 1..Len(ready) : ready'[m] = ready[j]
        /\ Distinct(ready')
    BY <1>0, <1>5, ReadyIn DEF Sound
  <2> QED BY <1>5, <2>1 DEF Sound
<1>6. Distinct(ready') /\ \A n \in 1..Len(ready') : Open(conn, ready'[n])
  <2>1. CASE ready' = ready
    BY <2>1 DEF Sound
  <2>2. Listener \in Descriptor /\ c \in Descriptor
    BY DEF Descriptor
  <2> QED BY <1>3, <1>4, <1>5, <2>1, <2>2
<1>7. \A n \in 1..Len(ready') : Open(conn', ready'[n])
  BY <1>2, <1>6
<1>8. /\ \A n \in 2..Len(events) : Open(conn', events[n].fd)
      /\ pc = "event" => Open(conn', events[1].fd)
  BY <1>2 DEF Sound
<1>9. \A m, n \in 1..Len(events') : events'[m].fd = events'[n].fd => m = n
  BY <1>1 DEF Sound
<1> QED BY <1>1, <1>6, <1>7, <1>8, <1>9 DEF Sound

\* Closing a descriptor takes it off epoll's list, and the list of the batch
\* holds it once only.
LEMMA SoundForget ==
  ASSUME Typed, Sound, pc \in {"read", "send"}, Forget(cur)
  PROVE  /\ Distinct(ready')
         /\ \A n \in 1..Len(ready') : Open(conn', ready'[n])
         /\ \A n \in 2..Len(events) : Open(conn', events[n].fd)
<1>0. /\ ready \in Seq(Descriptor) /\ conn \in [Client -> {"none", "queued", "open", "closed"}]
      /\ events \in Seq(Reported) /\ events # <<>> /\ cur \in Client
  BY DEF Typed
<1>1. \A fd : fd # cur /\ Open(conn, fd) => Open(conn', fd)
  BY <1>0 DEF Forget, Open
<1>2. /\ \A m \in 1..Len(ready') : ready'[m] # cur /\ \E j \in 1..Len(ready) : ready'[m] = ready[j]
      /\ Distinct(ready')
  BY <1>0, ForgetReady DEF Forget, Sound
<1>3. \A m \in 1..Len(ready') : Open(conn, ready'[m])
  BY <1>2 DEF Sound
<1>4. cur = events[1].fd /\ Len(events) \in Nat \ {0}
  BY <1>0, TailIn DEF cur
<1>5. \A n \in 2..Len(events) : events[n].fd # cur
  <2> TAKE n \in 2..Len(events)
  <2>1. n \in 1..Len(events) /\ 1 \in 1..Len(events) /\ n # 1
    BY <1>4
  <2> QED BY <1>4, <2>1 DEF Sound
<1> QED BY <1>1, <1>2, <1>3, <1>5 DEF Sound

\* What the next event of a batch is known to be about.
LEMMA SoundNextEvent ==
  ASSUME Typed, Sound, events # <<>>, NextEvent,
         \A n \in 2..Len(events) : Open(conn', events[n].fd)
  PROVE  /\ \A m, n \in 1..Len(events') : events'[m].fd = events'[n].fd => m = n
         /\ \A n \in 2..Len(events') : Open(conn', events'[n].fd)
         /\ pc' = "event" => Open(conn', events'[1].fd)
<1>1. events' = Tail(events)
  BY DEF NextEvent
<1>2. /\ events' \in Seq(Reported) /\ Len(events') = Len(events) - 1
      /\ \A n \in 1..Len(events') : n + 1 \in 2..Len(events) /\ events'[n] = events[n + 1]
      /\ Len(events) \in Nat \ {0}
  BY <1>1, TailIn DEF Typed
<1>3. \A n \in 1..Len(events') : Open(conn', events'[n].fd)
  BY <1>2
<1>4. ASSUME NEW m \in 1..Len(events'), NEW n \in 1..Len(events'), events'[m].fd = events'[n].fd
      PROVE  m = n
  <2>1. m + 1 \in 1..Len(events) /\ n + 1 \in 1..Len(events)
    BY <1>2
  <2>2. m + 1 = n + 1
    BY <1>2, <1>4, <2>1 DEF Sound
  <2> QED BY <2>2
<1>5. pc' = "event" => 1 \in 1..Len(events')
  BY <1>1, <1>2 DEF NextEvent
<1>6. \A n \in 2..Len(events') : n \in 1..Len(events')
  BY <1>2
<1> QED BY <1>3, <1>4, <1>5, <1>6

LEMMA SoundServer ==
  ASSUME Typed, Sound, Server
  PROVE  Sound'
<1>0. /\ ready \in Seq(Descriptor) /\ conn \in [Client -> {"none", "queued", "open", "closed"}]
      /\ backlog \in Seq(Client)
      /\ pc \in {"event", "read", "send"} => events # <<>>
  BY DEF Typed
<1>1. CASE EpollWait
  <2> DEFINE T == {fd \in ToSet(ready) : Readable(fd)}
             r == Only(ready, T)
  <2>1. /\ \A m \in 1..Len(r) : r[m] \in T
        /\ Distinct(r)
        /\ events' = [n \in 1..Len(r) |-> Event(r[n])]
        /\ Len(events') = Len(r) /\ r \in Seq(Descriptor)
    BY <1>1, ReportedIn DEF Sound
  <2>2. \A x \in T : \E j \in 1..Len(ready) : x = ready[j]
    BY DEF ToSet
  <2> HIDE DEF r, T
  <2>3. \A n \in 1..Len(events') : events'[n].fd = r[n]
    BY <2>1 DEF Event
  <2>4. \A n \in 1..Len(events') : Open(conn, events'[n].fd)
    <3> TAKE n \in 1..Len(events')
    <3>1. PICK j \in 1..Len(ready) : r[n] = ready[j]
      BY <2>1, <2>2
    <3>2. Open(conn, ready[j])
      BY DEF Sound
    <3> QED BY <2>3, <3>1, <3>2
  <2>5. conn' = conn /\ ready' = <<>> /\ (pc' = "event" => events' # <<>>)
    BY <1>1 DEF EpollWait, cvars
  <2>6. \A n \in 1..Len(events') : Open(conn', events'[n].fd)
    BY <2>4, <2>5 DEF Open
  <2>7. \A m, n \in 1..Len(events') : events'[m].fd = events'[n].fd => m = n
    <3> TAKE m, n \in 1..Len(events')
    <3>1. events'[m].fd = r[m] /\ events'[n].fd = r[n] /\ m \in 1..Len(r) /\ n \in 1..Len(r)
      BY <2>1, <2>3
    <3> QED BY <2>1, <3>1 DEF Distinct
  <2>8. Len(events') \in Nat /\ (pc' = "event" => 1 \in 1..Len(events'))
    <3>1. events' \in Seq(Reported)
      BY <1>1, ReportedIn
    <3> QED BY <2>5, <3>1
  <2>9. \A n \in 2..Len(events') : n \in 1..Len(events')
    BY <2>8
  <2> QED BY <2>5, <2>6, <2>7, <2>8, <2>9 DEF Sound, Distinct
<1>2. CASE Accept
  <2> DEFINE c == Head(backlog)
  <2>1. /\ c \in Client /\ conn' = [conn EXCEPT ![c] = "open"] /\ NextEvent /\ events # <<>>
        /\ ready' = ready \/ ready' = Ready(c)
    BY <1>0, <1>2 DEF Accept
  <2> HIDE DEF c
  <2>2. \A fd : Open(conn, fd) => Open(conn', fd)
    BY <1>0, <2>1 DEF Open
  <2>3. Open(conn', c)
    BY <1>0, <2>1 DEF Open
  <2>4. /\ Distinct(ready')
        /\ \A m \in 1..Len(ready') : ready'[m] = c \/ \E j \in 1..Len(ready) : ready'[m] = ready[j]
    <3>1. CASE ready' = ready
      BY <3>1 DEF Sound
    <3>2. CASE ready' = Ready(c)
      BY <1>0, <2>1, <3>2, ReadyIn DEF Sound, Descriptor
    <3> QED BY <2>1, <3>1, <3>2
  <2>5. \A n \in 1..Len(ready') : Open(conn', ready'[n])
    BY <2>2, <2>3, <2>4 DEF Sound
  <2>6. \A n \in 2..Len(events) : Open(conn', events[n].fd)
    BY <2>2 DEF Sound
  <2> QED BY <2>1, <2>4, <2>5, <2>6, SoundNextEvent DEF Sound
<1>3. CASE Serve \/ ReadRequest \/ WriteKills \/ SendFile
  BY <1>3 DEF Serve, ReadRequest, WriteKills, SendFile, cvars, Sound, Open
<1>4. CASE ReadBadRequest \/ StatFails \/ SendFails
  <2>1. Forget(cur) /\ pc \in {"read", "send"} /\ pc' # "event" /\ events' = events
    BY <1>4 DEF ReadBadRequest, StatFails, SendFails
  <2> QED BY <2>1, SoundForget DEF Sound
<1>5. CASE ReadEnds
  <2>1. NextEvent /\ events # <<>> /\ pc = "read"
    BY <1>0, <1>5 DEF ReadEnds
  <2>2. /\ Distinct(ready')
        /\ \A n \in 1..Len(ready') : Open(conn', ready'[n])
        /\ \A n \in 2..Len(events) : Open(conn', events[n].fd)
    <3>1. CASE Forget(cur)
      BY <2>1, <3>1, SoundForget
    <3>2. CASE UNCHANGED <<conn, inbuf, ready>>
      BY <3>2 DEF Sound, Open
    <3> QED BY <1>5, <3>1, <3>2 DEF ReadEnds
  <2> QED BY <2>1, <2>2, SoundNextEvent DEF Sound
<1> QED BY <1>1, <1>2, <1>3, <1>4, <1>5 DEF Server

LEMMA SoundNext == Typed /\ Sound /\ [Next]_vars => Sound'
<1> SUFFICES ASSUME Typed, Sound, [Next]_vars PROVE Sound'
  OBVIOUS
<1>1. CASE \E c \in Client : Connect(c) \/ Transmit(c) \/ HangUp(c)
  BY <1>1, SoundClient
<1>2. CASE Server
  BY <1>2, SoundServer
<1>3. CASE UNCHANGED vars
  BY <1>3 DEF Sound, vars, cvars, Open
<1> QED BY <1>1, <1>2, <1>3 DEF Next

\* run never reads from a descriptor it has closed, nor handles an event
\* about one, whatever the clients send and whenever they hang up.
THEOREM NoStaleEventCorrect == Spec => []NoStaleEvent
<1>1. Typed /\ Sound => NoStaleEvent
  <2> SUFFICES ASSUME Typed, Sound PROVE NoStaleEvent
    OBVIOUS
  <2>1. TypeOK
    BY TypedIsTypeOK
  <2>2. pc = "event" /\ Head(events).fd # Listener => conn[Head(events).fd] = "open"
    <3> SUFFICES ASSUME pc = "event", Head(events).fd # Listener
                 PROVE  conn[Head(events).fd] = "open"
      OBVIOUS
    <3>1. events \in Seq(Reported) /\ events # <<>>
      BY DEF Typed
    <3>2. Head(events) = events[1] /\ events[1] \in Reported
      BY <3>1, TailIn
    <3> QED BY <3>2 DEF Sound, Open, Reported, Descriptor
  <2> QED BY <2>1, <2>2 DEF NoStaleEvent, Sound, Open
<1>2. Typed /\ Sound /\ [Next]_vars => Typed' /\ Sound'
  BY TypedNext, SoundNext
<1> QED BY TypedInit, SoundInit, <1>1, <1>2, PTL DEF Spec

----------------------------------------------------------------------------
(* Answers.                                                                *)

\* One sendfile transfers any file of the directory.
OneSend == \A f \in File : Size[f] <= MaxSend

\* The answer whose body is being sent is the last one of its client, and
\* nothing of it has been sent.
BodyUnsent == pc = "send" => /\ answers[cur][Len(answers[cur])] = [code |-> 200, file |-> file, body |-> <<>>]
                             /\ bytes_total = 0

LEMMA BodyInit == Init => FilesIntact /\ BodyUnsent
  BY DEF Init, FilesIntact, BodyUnsent

\* An answer appended to those a client was sent: one without a body, which is
\* a 500 if the one before is given up, or the beginning of a file.
Appends(a) == /\ pc \in {"read", "send"} /\ a \in Answered
              /\ answers' = [answers EXCEPT ![cur] = Append(answers[cur], a)]
              /\ hung_up' = hung_up /\ cur' = cur
              /\ \/ a.code # 200 /\ a.body = <<>> /\ (pc = "send" => a.code = 500)
                 \/ pc = "read" /\ pc' = "send"

LEMMA AppendAnswer ==
  ASSUME Typed, FilesIntact, NEW a, Appends(a)
  PROVE  /\ FilesIntact'
         /\ answers'[cur][Len(answers'[cur])] = a
<1>a. /\ pc \in {"read", "send"} /\ a \in Answered
      /\ answers' = [answers EXCEPT ![cur] = Append(answers[cur], a)]
      /\ hung_up' = hung_up /\ cur' = cur
      /\ \/ a.code # 200 /\ a.body = <<>> /\ (pc = "send" => a.code = 500)
         \/ pc = "read" /\ pc' = "send"
  BY DEF Appends
<1> USE <1>a
<1>0. cur \in Client /\ answers \in [Client -> Seq(Answered)]
  BY DEF Typed
<1>1. answers[cur] \in Seq(Answered)
  BY <1>0
<1> HIDE DEF Answered
<1>2. /\ Len(Append(answers[cur], a)) = Len(answers[cur]) + 1 /\ Len(answers[cur]) \in Nat
      /\ Append(answers[cur], a)[Len(answers[cur]) + 1] = a
      /\ \A n \in 1..Len(answers[cur]) : Append(answers[cur], a)[n] = answers[cur][n]
      /\ DOMAIN Append(answers[cur], a) = 1..Len(answers[cur]) + 1
      /\ DOMAIN answers[cur] = 1..Len(answers[cur])
  BY <1>1
<1> DEFINE Good(c, all, n) == \/ all[n].code # 200 /\ all[n].body = <<>>
                              \/ all[n].code = 200 /\ all[n].body = Complete(all[n].file)
                              \/ n < Len(all) /\ all[n + 1].code = 500
                              \/ c \in hung_up
<1>3. \A c \in Client : \A n \in DOMAIN answers[c] :
         \/ Good(c, answers[c], n)
         \/ pc = "send" /\ cur = c /\ n = Len(answers[c])
  <2> TAKE c \in Client
  <2> TAKE n \in DOMAIN answers[c]
  <2> DEFINE all == answers[c]
  <2>1. \/ Good(c, all, n)
        \/ pc \in {"send", "killed"} /\ cur = c /\ n = Len(all)
    BY DEF FilesIntact
  <2> HIDE DEF all, Good
  <2>2. pc # "killed"
    OBVIOUS
  <2> QED BY <2>1, <2>2 DEF all
<1>4. ASSUME NEW c \in Client, NEW n \in DOMAIN answers'[c]
      PROVE  \/ Good(c, answers'[c], n)
             \/ pc' = "send" /\ cur = c /\ n = Len(answers'[c])
  <2>1. CASE c # cur
    <3>1. answers'[c] = answers[c]
      BY <1>0, <2>1
    <3> QED BY <1>3, <2>1, <3>1
  <2>2. CASE c = cur
    <3> DEFINE all == Append(answers[cur], a)
    <3>1. answers'[c] = all
      BY <1>0, <2>2
    <3>2. CASE n = Len(answers[cur]) + 1
      BY <1>2, <2>2, <3>1, <3>2
    <3>3. CASE n # Len(answers[cur]) + 1
      <4>1. n \in 1..Len(answers[cur]) /\ n < Len(all)
        BY <1>2, <3>1, <3>3
      <4>2. all[n] = answers[cur][n]
        BY <1>2, <4>1
      <4>3. CASE n = Len(answers[cur]) /\ pc = "send"
        <5>1. all[n + 1] = a /\ a.code = 500
          BY <1>2, <4>3
        <5> HIDE DEF all
        <5> QED BY <3>1, <4>1, <5>1
      <4>4. CASE ~(n = Len(answers[cur]) /\ pc = "send")
        <5>1. Good(cur, answers[cur], n)
          BY <1>0, <1>2, <1>3, <4>1, <4>4
        <5>2. n < Len(answers[cur]) => all[n + 1] = answers[cur][n + 1]
          BY <1>2, <4>1
        <5> HIDE DEF all
        <5> QED BY <2>2, <3>1, <4>1, <4>2, <5>1, <5>2
      <4> QED BY <4>3, <4>4
    <3> QED BY <3>2, <3>3
  <2> QED BY <2>1, <2>2
<1>5. FilesIntact'
  <2> HIDE DEF Good
  <2>1. \A c \in Client : \A n \in DOMAIN answers'[c] :
           \/ Good(c, answers'[c], n)
           \/ pc' = "send" /\ cur' = c /\ n = Len(answers'[c])
    BY <1>4
  <2> USE DEF Good
  <2>2. \A f : Complete(f)' = Complete(f)
    BY DEF Complete
  <2> QED BY <2>1, <2>2 DEF FilesIntact
<1>6. answers'[cur] = Append(answers[cur], a)
  BY <1>0
<1> QED BY <1>2, <1>5, <1>6

\* One sendfile sends all of a file, and the loop ends though it counts
\* twice what was sent.
LEMMA SendAll ==
  ASSUME Typed, FilesIntact, BodyUnsent, OneSend, SendFile
  PROVE  /\ pc' = "read" /\ cur' = cur /\ hung_up' = hung_up
         /\ \A c \in Client : c # cur => answers'[c] = answers[c]
         /\ Len(answers'[cur]) = Len(answers[cur]) /\ Len(answers[cur]) \in Nat
         /\ DOMAIN answers'[cur] = 1..Len(answers[cur]) /\ DOMAIN answers[cur] = 1..Len(answers[cur])
         /\ \A n \in DOMAIN answers[cur] :
               IF n = Len(answers[cur])
               THEN answers'[cur][n].code = 200 /\ answers'[cur][n].body = Complete(answers'[cur][n].file)
               ELSE answers'[cur][n] = answers[cur][n]
<1>0. /\ cur \in Client /\ file \in File /\ answers \in [Client -> Seq(Answered)]
      /\ pc = "send" /\ answers[cur] # <<>>
  BY DEF Typed, SendFile
<1>1. Size[file] \in Nat /\ MaxSend \in Nat /\ Size[file] <= MaxSend
  BY <1>0, FileAssumption DEF OneSend
<1> DEFINE last == Len(answers[cur])
           k == Min({MaxSend, Size[file] - bytes_total})
           more == [b \in 1..k |-> bytes_total + b]
<1>2. bytes_total = 0 /\ answers[cur][last] = [code |-> 200, file |-> file, body |-> <<>>]
  BY <1>0 DEF BodyUnsent
<1>3. k = Size[file]
  <2>1. k = Min({MaxSend, Size[file]})
    <3>1. Size[file] - bytes_total = Size[file]
      BY <1>1, <1>2
    <3> QED BY <3>1
  <2> DEFINE S == {MaxSend, Size[file]}
  <2>2. \E m \in S : \A x \in S : m <= x
    BY <1>1
  <2>3. k \in S /\ \A x \in S : k <= x
    BY <2>1, <2>2 DEF Min
  <2> QED BY <1>1, <2>3
<1>4. more = Complete(file)
  BY <1>1, <1>2, <1>3 DEF Complete
<1>5. <<>> \o more = Complete(file)
  <2>1. Complete(file) \in Seq(Nat)
    BY <1>1 DEF Complete
  <2> HIDE DEF more
  <2>2. \A s \in Seq(Nat) : <<>> \o s = s
    OBVIOUS
  <2> QED BY <1>4, <2>1, <2>2
<1>6. /\ answers' = [answers EXCEPT ![cur] = [answers[cur] EXCEPT ![last] =
                       [answers[cur][last] EXCEPT !.body = answers[cur][last].body \o more]]]
      /\ bytes_total' = bytes_total + 2 * k
      /\ pc' = IF bytes_total' < Size[file] THEN "send" ELSE "read"
      /\ UNCHANGED <<cvars, events>>
  BY DEF SendFile
<1>7. ~(bytes_total' < Size[file])
  <2> HIDE DEF k
  <2> QED BY <1>1, <1>2, <1>3, <1>6
<1> HIDE DEF k, more
<1>8. answers[cur] \in Seq(Answered)
  BY <1>0
<1>9. last \in DOMAIN answers[cur]
  <2> HIDE DEF Answered
  <2> QED BY <1>0, <1>8
<1> HIDE DEF last
<1>10. [answers[cur][last] EXCEPT !.body = answers[cur][last].body \o more]
          = [code |-> 200, file |-> file, body |-> Complete(file)]
  BY <1>2, <1>5
<1>11. answers'[cur] = [answers[cur] EXCEPT ![last] = [code |-> 200, file |-> file, body |-> Complete(file)]]
  BY <1>0, <1>6, <1>10
<1>12. /\ Len(answers'[cur]) = Len(answers[cur]) /\ Len(answers[cur]) \in Nat
       /\ DOMAIN answers'[cur] = 1..Len(answers[cur]) /\ DOMAIN answers[cur] = 1..Len(answers[cur])
  <2> DEFINE b == [code |-> 200, file |-> file, body |-> Complete(file)]
  <2> HIDE DEF b, Answered
  <2>1. answers'[cur] = [answers[cur] EXCEPT ![last] = b]
    BY <1>11 DEF b
  <2> QED BY <1>8, <2>1
<1>13. \A n \in DOMAIN answers[cur] :
         IF n = last
         THEN answers'[cur][n].code = 200 /\ answers'[cur][n].body = Complete(answers'[cur][n].file)
         ELSE answers'[cur][n] = answers[cur][n]
  BY <1>9, <1>11
<1> QED BY <1>0, <1>6, <1>7, <1>11, <1>12, <1>13 DEF cvars, cur, last

LEMMA BodyNext == Typed /\ OneSend /\ FilesIntact /\ BodyUnsent /\ [Next]_vars => FilesIntact' /\ BodyUnsent'
<1> SUFFICES ASSUME Typed, OneSend, FilesIntact, BodyUnsent, [Next]_vars
             PROVE  FilesIntact' /\ BodyUnsent'
  OBVIOUS
<1>0. \A f : Complete(f)' = Complete(f)
  BY DEF Complete
<1>1. CASE UNCHANGED <<answers, file, bytes_total, pc, events>> /\ hung_up \subseteq hung_up'
  <2>1. cur' = cur
    BY <1>1 DEF cur
  <2>2. FilesIntact'
    BY <1>0, <1>1, <2>1 DEF FilesIntact
  <2>3. BodyUnsent'
    BY <1>1, <2>1 DEF BodyUnsent
  <2> QED BY <2>2, <2>3
<1>2. CASE \E c \in Client : Connect(c) \/ Transmit(c) \/ HangUp(c)
  BY <1>1, <1>2 DEF Connect, Transmit, HangUp
<1>3. CASE EpollWait \/ Accept \/ Serve \/ ReadEnds
  <2>1. /\ pc \notin {"send", "killed"} /\ pc' # "send"
        /\ answers' = answers /\ hung_up' = hung_up
    BY <1>3 DEF EpollWait, Accept, Serve, ReadEnds, NextEvent, cvars
  <2>2. FilesIntact'
    BY <1>0, <2>1 DEF FilesIntact
  <2> QED BY <2>1, <2>2 DEF BodyUnsent
<1>4. CASE ReadRequest
  <2> DEFINE f == Requested(inbuf[cur])
             a == [code |-> 200, file |-> f, body |-> <<>>]
  <2>1. /\ pc = "read" /\ pc' = "send" /\ file' = f /\ bytes_total' = 0 /\ cur' = cur /\ hung_up' = hung_up
        /\ answers' = [answers EXCEPT ![cur] = Append(answers[cur], a)]
        /\ inbuf[cur] # <<>>
    BY <1>4 DEF ReadRequest, Answer, cur
  <2>2. inbuf[cur] \in Seq(Segment)
    BY <2>1 DEF Typed
  <2>3. f \in File \cup {NoFile}
    BY <2>1, <2>2, RequestedIn
  <2> HIDE DEF f
  <2>4. a \in Answered
    <3>1. <<>> \in Seq(Nat)
      OBVIOUS
    <3> QED BY <2>3, <3>1 DEF Answered
  <2> HIDE DEF a
  <2>5. FilesIntact' /\ answers'[cur][Len(answers'[cur])] = a
    <3>1. Appends(a)
      BY <2>1, <2>4 DEF Appends
    <3> QED BY <3>1, AppendAnswer
  <2>6. answers'[cur'][Len(answers'[cur'])] = [code |-> 200, file |-> file', body |-> <<>>]
    BY <2>1, <2>5 DEF a
  <2> QED BY <2>1, <2>5, <2>6 DEF BodyUnsent
<1>5. CASE ReadBadRequest \/ StatFails \/ SendFails
  <2>1. PICK code \in {404, 500} : Answer(code, NoFile) /\ (pc = "send" => code = 500)
    BY <1>5 DEF ReadBadRequest, StatFails, SendFails
  <2> DEFINE a == [code |-> code, file |-> NoFile, body |-> <<>>]
  <2>2. /\ pc \in {"read", "send"} /\ pc' = "read" /\ cur' = cur /\ hung_up' = hung_up
        /\ answers' = [answers EXCEPT ![cur] = Append(answers[cur], a)]
    BY <1>5, <2>1 DEF ReadBadRequest, StatFails, SendFails, Answer, cur
  <2>3. a \in Answered /\ a.code = code /\ a.code # 200 /\ a.body = <<>>
    <3>1. <<>> \in Seq(Nat)
      OBVIOUS
    <3> QED BY <3>1 DEF Answered
  <2> HIDE DEF a
  <2>4. FilesIntact'
    <3>1. pc = "send" => a.code = 500
      BY <2>1, <2>3
    <3>2. a.code # 200 /\ a.body = <<>> /\ (pc = "send" => a.code = 500)
      BY <2>3, <3>1
    <3>3. answers' = [answers EXCEPT ![cur] = Append(answers[cur], a)] /\ cur' = cur /\ hung_up' = hung_up
      BY <2>2
    <3>4. a \in Answered /\ pc \in {"read", "send"}
      BY <2>2, <2>3
    <3>5. \/ a.code # 200 /\ a.body = <<>> /\ (pc = "send" => a.code = 500)
          \/ pc = "read" /\ pc' = "send"
      BY <3>2
    <3> HIDE DEF Answered
    <3>6. Appends(a)
      BY <3>3, <3>4, <3>5 DEF Appends
    <3> QED BY <3>6, AppendAnswer
  <2> QED BY <2>2, <2>4 DEF BodyUnsent
<1>6. CASE WriteKills
  <2>1. pc \in {"read", "send"} /\ pc' = "killed" /\ UNCHANGED <<answers, hung_up, events>>
    BY <1>6 DEF WriteKills, cvars
  <2>2. cur' = cur
    BY <2>1 DEF cur
  <2>3. FilesIntact'
    BY <1>0, <2>1, <2>2 DEF FilesIntact
  <2> QED BY <2>1, <2>3 DEF BodyUnsent
<1>7. CASE SendFile
  <2>1. /\ pc' = "read" /\ cur' = cur /\ hung_up' = hung_up
        /\ \A c \in Client : c # cur => answers'[c] = answers[c]
        /\ Len(answers'[cur]) = Len(answers[cur]) /\ Len(answers[cur]) \in Nat
        /\ DOMAIN answers'[cur] = 1..Len(answers[cur]) /\ DOMAIN answers[cur] = 1..Len(answers[cur])
        /\ \A n \in DOMAIN answers[cur] :
              IF n = Len(answers[cur])
              THEN answers'[cur][n].code = 200 /\ answers'[cur][n].body = Complete(answers'[cur][n].file)
              ELSE answers'[cur][n] = answers[cur][n]
    BY <1>7, SendAll
  <2>2. pc = "send"
    BY <1>7 DEF SendFile
  <2>3. ASSUME NEW c \in Client, NEW n \in DOMAIN answers'[c]
        PROVE  \/ answers'[c][n].code # 200 /\ answers'[c][n].body = <<>>
               \/ answers'[c][n].code = 200 /\ answers'[c][n].body = Complete(answers'[c][n].file)
               \/ n < Len(answers'[c]) /\ answers'[c][n + 1].code = 500
               \/ c \in hung_up
    <3>1. CASE c # cur
      <4>1. answers'[c] = answers[c]
        BY <2>1, <3>1
      <4> QED BY <3>1, <4>1 DEF FilesIntact
    <3>2. CASE c = cur /\ n # Len(answers[cur])
      <4> DEFINE old == answers[cur]
      <4>1. answers'[cur][n] = old[n] /\ n \in 1..Len(old) /\ n + 1 \in 1..Len(old)
        BY <2>1, <2>3, <3>2
      <4>2. old[n + 1].code = 500 => n + 1 # Len(old)
        BY <2>2 DEF BodyUnsent
      <4>3. old[n + 1].code = 500 => answers'[cur][n + 1] = old[n + 1]
        BY <2>1, <4>1, <4>2
      <4>4. \/ old[n].code # 200 /\ old[n].body = <<>>
            \/ old[n].code = 200 /\ old[n].body = Complete(old[n].file)
            \/ old[n + 1].code = 500
            \/ cur \in hung_up
        BY <2>1, <3>2, <4>1 DEF FilesIntact
      <4>5. n < Len(answers'[cur])
        BY <2>1, <4>1
      <4> HIDE DEF old
      <4> QED BY <3>2, <4>1, <4>3, <4>4, <4>5
    <3>3. CASE c = cur /\ n = Len(answers[cur])
      BY <2>1, <2>3, <3>3
    <3> QED BY <3>1, <3>2, <3>3
  <2>4. FilesIntact'
    BY <1>0, <2>1, <2>3 DEF FilesIntact
  <2> QED BY <2>1, <2>4 DEF BodyUnsent
<1>8. CASE UNCHANGED vars
  BY <1>1, <1>8 DEF vars, cvars
<1> QED BY <1>2, <1>3, <1>4, <1>5, <1>6, <1>7, <1>8 DEF Next, Server

\* A client that stays gets whole files, provided that one sendfile transfers
\* any file of the directory; run http_big_file shows what happens otherwise.
THEOREM FilesIntactCorrect == OneSend => (Spec => []FilesIntact)
<1> SUFFICES ASSUME OneSend PROVE Spec => []FilesIntact
  OBVIOUS
<1>1. Typed /\ (FilesIntact /\ BodyUnsent) /\ [Next]_vars => Typed' /\ (FilesIntact' /\ BodyUnsent')
  BY TypedNext, BodyNext
<1>2. Init => Typed /\ (FilesIntact /\ BodyUnsent)
  BY TypedInit, BodyInit
<1> QED BY <1>1, <1>2, PTL DEF Spec
=============================================================================
