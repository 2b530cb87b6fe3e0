--------------------------- MODULE FszDaemonProofs ---------------------------
(***************************************************************************)
(* Proofs about FszDaemon for any clients, configurations and bounds, and  *)
(* for as many instances as each theorem says.                             *)
(*                                                                         *)
(* Typed adds to TypeOK the variables it does not name.  On it rest four   *)
(* inductive invariants: HupInv counts the clients accepted since SIGHUP,  *)
(* BoundInv says whose file a bound listener has, StopInv which instance   *)
(* will remove each socket file, SecondInv what a failed start leaves.     *)
(***************************************************************************)
EXTENDS FszDaemon, SumTheorems

Cfgs == [file_name : Path \cup {None}, sock_name : Sock \cup {None}]

\* The types TypeOK names, and those of the other variables.
Typed == /\ TypeOK
         /\ cfg \in [Daemon -> Cfgs]
         /\ int_received \in [Daemon -> {0, 1}]
         /\ hup_received \in [Daemon -> {0, 1}]
         /\ queue \in [Daemon -> Seq(Client)]
         /\ client \in [Daemon -> Client \cup {None}]
         /\ stale \in [Daemon -> Nat]
         /\ failures \in [Daemon -> Nat]
         /\ kills \in Nat

----------------------------------------------------------------------------
(* A configuration.                                                        *)

LEMMA MaxIn ==
  ASSUME NEW n \in Nat, NEW S \in SUBSET (1..n), S # {}
  PROVE  Max(S) \in S
<1> DEFINE T == {n - x : x \in S}
<1>1. T \subseteq Nat /\ T # {}
  <2>1. \A x \in S : x \in 1..n
    OBVIOUS
  <2>2. \A x \in S : n - x \in Nat
    BY <2>1
  <2> QED BY <2>2
<1>2. PICK t \in T : \A u \in T : ~(u < t)
  BY <1>1, SmallestNat, Zenon
<1>3. PICK x \in S : t = n - x
  OBVIOUS
<1>4. \A y \in S : x >= y
  <2> TAKE y \in S
  <2>1. ~(n - y < n - x)
    BY <1>2, <1>3
  <2> QED BY <2>1
<1> QED BY <1>4 DEF Max

\* What a token announces is a name of its kind, or what it was before.
LEMMA AnnouncedIn ==
  ASSUME NEW f \in Scalars, NEW token, NEW S, NEW old,
         \A n \in 1..Len(f) - 1 : f[n] = token => f[n + 1] \in S
  PROVE  Announced(f, token, old) \in S \cup {old} /\ (old \in S => Announced(f, token, old) \in S)
<1> DEFINE at == {n \in 1..Len(f) - 1 : f[n] = token}
<1>1. CASE at = {}
  BY <1>1 DEF Announced
<1>2. CASE at # {}
  <2>1. Len(f) \in Nat
    BY DEF Scalars
  <2>2. CASE Len(f) = 0
    BY <1>2, <2>2
  <2>3. CASE Len(f) # 0
    <3>1. Len(f) - 1 \in Nat /\ at \in SUBSET (1..Len(f) - 1)
      BY <2>1, <2>3
    <3> HIDE DEF at
    <3>2. Max(at) \in at
      BY <1>2, <3>1, MaxIn
    <3> QED BY <1>2, <3>2 DEF Announced, at
  <2> QED BY <2>2, <2>3
<1> QED BY <1>1, <1>2

\* The file and the socket a configuration file leaves, for a new instance or
\* one that reads it again; it never takes the name of the socket away.
LEMMA ReadYaml ==
  ASSUME NEW f \in Config \ {Malformed}, NEW c \in Cfgs
  PROVE  /\ read_yaml(f, c) \in Cfgs
         /\ c.sock_name # None => read_yaml(f, c).sock_name # None
<1>1. /\ f \in Scalars
      /\ \A n \in 1..Len(f) - 1 : f[n] = FileToken => f[n + 1] \in Path
      /\ \A n \in 1..Len(f) - 1 : f[n] = SockToken => f[n + 1] \in Sock
  BY ConfigAssumption
<1>2. Announced(f, FileToken, c.file_name) \in Path \cup {c.file_name}
  BY <1>1, AnnouncedIn
<1>3. /\ Announced(f, SockToken, c.sock_name) \in Sock \cup {c.sock_name}
      /\ c.sock_name \in Sock => Announced(f, SockToken, c.sock_name) \in Sock
  BY <1>1, AnnouncedIn
<1> QED BY <1>2, <1>3, NamesAssumption DEF read_yaml, Cfgs

----------------------------------------------------------------------------
(* Types.                                                                  *)

\* The ends of the loop, and of an instance that cannot listen.
Closes(d) == Close(d) \/ ListenFails(d) \/ AcceptFails(d)

LEMMA ClosesListener ==
  ASSUME NEW d \in Daemon, Closes(d)
  PROVE  CloseListener(d) /\ pc[d] \in {"listen", "accept"}
  BY DEF Closes, Close, ListenFails, AcceptFails

LEMMA TypedInit == Init => Typed
<1> SUFFICES ASSUME Init PROVE Typed
  OBVIOUS
<1>1. <<>> \in Seq(Client) /\ Len(<<>>) <= Backlog + 1
  BY BoundAssumption
<1>2. /\ sockets \in [Sock -> Daemon \cup {None, Stale}]
      /\ bound \in [Daemon -> Sock \cup {None}] /\ cfg \in [Daemon -> Cfgs]
      /\ cfg_file \in Config
  BY ConfigAssumption DEF Init, NoCfg, Cfgs
<1>3. /\ pc \in [Daemon -> {"off", "first_cfg", "bind", "listen", "unlink"} \cup Serving]
      /\ client \in [Daemon -> Client \cup {None}]
      /\ int_received \in [Daemon -> {0, 1}] /\ hup_received \in [Daemon -> {0, 1}]
      /\ stale \in [Daemon -> Nat] /\ failures \in [Daemon -> Nat]
      /\ queue \in [Daemon -> Seq(Client)] /\ kills \in Nat
  BY <1>1 DEF Init, Serving
<1>4. \A d \in Daemon : /\ Len(queue[d]) <= Backlog + 1
                        /\ (client[d] = None) = (pc[d] # "send")
                        /\ cfg[d] = NoCfg
  BY <1>1 DEF Init
<1> QED BY <1>2, <1>3, <1>4 DEF Typed, TypeOK, NoCfg

\* The steps that leave the queue, the client and the configuration alone.
LEMMA TypedBind ==
  ASSUME Typed, NEW d \in Daemon,
         \/ SocketFails(d) \/ BindOk(d) \/ BindNameless(d) \/ BindFails(d)
         \/ Listen(d) \/ Unlink(d) \/ CheckHup(d)
  PROVE  Typed'
<1> USE NamesAssumption DEF Typed, TypeOK, Serving, svars, dvars, bounds
<1>0. cfg[d].sock_name \in Sock \cup {None}
  OBVIOUS
<1>1. CASE BindOk(d)
  BY <1>0, <1>1 DEF BindOk
<1>2. CASE BindNameless(d)
  BY <1>2 DEF BindNameless
<1>3. CASE BindFails(d)
  BY <1>0, <1>3 DEF BindFails
<1>4. CASE Listen(d)
  BY <1>4 DEF Listen
<1>5. CASE SocketFails(d)
  BY <1>5 DEF SocketFails
<1>6. CASE Unlink(d)
  BY <1>6 DEF Unlink
<1>7. CASE CheckHup(d)
  <2>0. \/ hup_received' = [hup_received EXCEPT ![d] = 0] /\ stale' = [stale EXCEPT ![d] = 0]
        \/ UNCHANGED <<hup_received, stale>>
    BY <1>7 DEF CheckHup
  <2>1. /\ hup_received' \in [Daemon -> {0, 1}]
        /\ stale' \in [Daemon -> Nat]
    <3>1. CASE hup_received' = [hup_received EXCEPT ![d] = 0] /\ stale' = [stale EXCEPT ![d] = 0]
      BY <3>1
    <3>2. CASE hup_received' = hup_received /\ stale' = stale
      BY <3>2
    <3> QED BY <2>0, <3>1, <3>2
  <2>2. pc[d] = "hup" /\ \E l \in {"read_cfg", "accept"} : pc' = [pc EXCEPT ![d] = l]
    BY <1>7 DEF CheckHup
  <2>3. /\ pc' \in [Daemon -> {"off", "first_cfg", "bind", "listen", "unlink"} \cup Serving]
        /\ \A e \in Daemon : (pc'[e] # "send") = (pc[e] # "send")
    BY <2>2
  <2>4. UNCHANGED <<cfg_file, sockets, bound, cfg, int_received, client, queue, failures, kills>>
    BY <1>7 DEF CheckHup
  <2> QED BY <2>1, <2>3, <2>4
<1> QED BY <1>1, <1>2, <1>3, <1>4, <1>5, <1>6, <1>7

LEMMA TypedRead ==
  ASSUME Typed, NEW d \in Daemon, Start(d) \/ ReadCfg(d) \/ ReadBadCfg(d)
  PROVE  Typed'
<1> USE NamesAssumption DEF Typed, TypeOK, Serving, svars, dvars, bounds
<1>1. CASE Start(d)
  BY <1>1 DEF Start, NoCfg, Cfgs
<1>2. CASE ReadCfg(d)
  <2>1. read_yaml(cfg_file, cfg[d]) \in Cfgs
    BY <1>2, ReadYaml DEF ReadCfg
  <2> QED BY <1>2, <2>1 DEF ReadCfg, Cfgs
<1>3. CASE ReadBadCfg(d)
  BY <1>3 DEF ReadBadCfg
<1> QED BY <1>1, <1>2, <1>3

LEMMA TypedServe ==
  ASSUME Typed, NEW d \in Daemon,
         Accept(d) \/ Send(d) \/ SendKills(d) \/ Closes(d) \/ Kill(d)
  PROVE  Typed'
<1> USE NamesAssumption, BoundAssumption DEF Typed, TypeOK, Serving, svars, dvars, bounds
<1>1. CASE Accept(d)
  <2>1. /\ Head(queue[d]) \in Client /\ Tail(queue[d]) \in Seq(Client)
        /\ Len(Tail(queue[d])) <= Backlog + 1
    BY <1>1 DEF Accept
  <2>2. Head(queue[d]) # None
    BY <2>1
  <2>3. stale[d] + 1 \in Nat
    OBVIOUS
  <2> QED BY <1>1, <2>1, <2>2, <2>3 DEF Accept
<1>2. CASE Send(d)
  BY <1>2 DEF Send
<1>3. Closed(d) \in [Sock -> Daemon \cup {None, Stale}]
  BY DEF Closed
<1>4. <<>> \in Seq(Client) /\ Len(<<>>) <= Backlog + 1
  OBVIOUS
<1>5. CASE SendKills(d) \/ Kill(d)
  <2>1. /\ Dies(d)
        /\ UNCHANGED <<cfg_file, cfg, int_received, hup_received, stale, failures>>
        /\ kills' \in Nat
    BY <1>5 DEF SendKills, Kill
  <2> QED BY <1>3, <1>4, <2>1 DEF Dies
<1>6. CASE Closes(d)
  <2>1. CloseListener(d) /\ pc[d] # "send"
    BY <1>6, ClosesListener
  <2> QED BY <1>3, <1>4, <2>1 DEF CloseListener
<1> QED BY <1>1, <1>2, <1>5, <1>6

LEMMA TypedOutside ==
  ASSUME Typed,
         \/ \E d \in Daemon : Hup(d) \/ Interrupt(d)
         \/ \E f \in Config : Edit(f)
         \/ \E c \in Client : Leave(c) \/ \E s \in Sock : Connect(c, s)
         \/ UNCHANGED vars
  PROVE  Typed'
<1> USE DEF Typed, TypeOK, svars, dvars, bounds
<1>1. CASE \E d \in Daemon : Hup(d) \/ Interrupt(d)
  <2> PICK d \in Daemon : Hup(d) \/ Interrupt(d)
    BY <1>1
  <2>1. CASE Hup(d)
    BY <2>1 DEF Hup
  <2>2. CASE Interrupt(d)
    BY <2>2 DEF Interrupt
  <2> QED BY <2>1, <2>2
<1>2. CASE \E f \in Config : Edit(f)
  BY <1>2 DEF Edit
<1>3. CASE \E c \in Client : Leave(c)
  BY <1>3 DEF Leave
<1>4. ASSUME NEW c \in Client, NEW s \in Sock, Connect(c, s)
      PROVE  Typed'
  <2>1. PICK d \in Daemon : /\ Len(queue[d]) <= Backlog
                            /\ queue' = [queue EXCEPT ![d] = Append(@, c)]
    BY <1>4 DEF Connect
  <2>2. Append(queue[d], c) \in Seq(Client) /\ Len(Append(queue[d], c)) <= Backlog + 1
    BY <2>1, BoundAssumption
  <2> QED BY <1>4, <2>1, <2>2 DEF Connect
<1>5. CASE UNCHANGED vars
  BY <1>5 DEF vars
<1> QED BY <1>1, <1>2, <1>3, <1>4, <1>5

LEMMA TypedInv == Spec => []Typed
<1>1. Typed /\ [Next]_vars => Typed'
  BY TypedBind, TypedRead, TypedServe, TypedOutside DEF Next, Run, Refused, Closes
<1> QED BY <1>1, TypedInit, PTL DEF Spec

\* Every variable of an instance, of its queue and of the files has its type:
\* the backlog bounds the queue, and an instance holds a client exactly while
\* it answers.
THEOREM TypeCorrect == Spec => []TypeOK
<1>1. Typed => TypeOK
  BY DEF Typed
<1> QED BY <1>1, TypedInv, PTL

----------------------------------------------------------------------------
(* SIGHUP.                                                                 *)

\* A client was accepted since the signal only while it is being answered.
HupInv == \A d \in Daemon : /\ stale[d] \in {0, 1}
                            /\ stale[d] = 1 => /\ hup_received[d] = 1
                                               /\ pc[d] \in {"send", "hup", "off"}

LEMMA HupStep ==
  ASSUME Typed, HupInv, [Next]_vars
  PROVE  HupInv'
<1> USE DEF HupInv, Typed, TypeOK
<1>1. ASSUME NEW d \in Daemon, Accept(d) \/ Send(d) \/ CheckHup(d)
      PROVE  HupInv'
  BY <1>1 DEF Accept, Send, CheckHup
<1>2. ASSUME NEW d \in Daemon, SendKills(d) \/ Kill(d) \/ Closes(d) \/ Unlink(d)
      PROVE  HupInv'
  BY <1>2, ClosesListener DEF SendKills, Kill, Dies, CloseListener, Unlink
<1>3. ASSUME NEW d \in Daemon, Start(d) \/ ReadCfg(d) \/ ReadBadCfg(d) \/ Hup(d) \/ Interrupt(d)
      PROVE  HupInv'
  BY <1>3 DEF Start, ReadCfg, ReadBadCfg, Hup, Interrupt
<1>4. ASSUME NEW d \in Daemon, \/ SocketFails(d) \/ BindOk(d) \/ BindNameless(d)
                                \/ BindFails(d) \/ Listen(d)
      PROVE  HupInv'
  BY <1>4 DEF SocketFails, BindOk, BindNameless, BindFails, Listen
<1>5. CASE \/ \E f \in Config : Edit(f)
           \/ \E c \in Client : Leave(c) \/ \E s \in Sock : Connect(c, s)
           \/ UNCHANGED vars
  BY <1>5 DEF Edit, Leave, Connect, vars, dvars
<1> QED BY <1>1, <1>2, <1>3, <1>4, <1>5 DEF Next, Run, Refused, Closes

\* However SIGHUP interleaves with the loop of run, only one client can be
\* accepted before the configuration is read again, for any number of
\* instances, clients and signals.
THEOREM HupLateByOneClientCorrect == Spec => []HupLateByOneClient
<1>1. Init => HupInv
  BY DEF Init, HupInv
<1>2. HupInv => HupLateByOneClient
  BY DEF HupInv, HupLateByOneClient
<1> QED BY <1>1, <1>2, HupStep, TypedInv, PTL DEF Spec

----------------------------------------------------------------------------
(* The socket file.                                                        *)

\* A listener that was bound is that of an instance that is going to await
\* requests, or does, and no other instance has touched its file.
BoundInv == \A d \in Daemon : bound[d] # None => /\ pc[d] \in {"listen"} \cup Serving
                                                 /\ sockets[bound[d]] = d

\* The instance that a service manager starts.
OneInstance == \E d \in Daemon : Daemon = {d}

LEMMA BoundStep ==
  ASSUME OneInstance, Typed, BoundInv, [Next]_vars
  PROVE  BoundInv'
<1> USE NamesAssumption DEF BoundInv, Typed, TypeOK, Serving, svars
<1>0. \A d, e \in Daemon : d = e
  BY DEF OneInstance
<1>1. ASSUME NEW d \in Daemon, BindOk(d)
      PROVE  BoundInv'
  <2>1. cfg[d].sock_name \in Sock
    BY <1>1 DEF BindOk, Cfgs
  <2> QED BY <1>0, <1>1, <2>1 DEF BindOk
<1>2. ASSUME NEW d \in Daemon, SocketFails(d) \/ BindNameless(d) \/ BindFails(d) \/ Unlink(d)
      PROVE  BoundInv'
  <2>1. bound[d] = None /\ bound' = bound
    BY <1>2 DEF SocketFails, BindNameless, BindFails, Unlink
  <2> QED BY <1>0, <2>1
<1>3. ASSUME NEW d \in Daemon, Closes(d) \/ SendKills(d) \/ Kill(d)
      PROVE  BoundInv'
  <2>1. bound'[d] = None
    BY <1>3, ClosesListener DEF CloseListener, SendKills, Kill, Dies
  <2> QED BY <1>0, <2>1
<1>4. ASSUME NEW d \in Daemon,
             \/ Start(d) \/ ReadCfg(d) \/ ReadBadCfg(d) \/ Listen(d)
             \/ Accept(d) \/ Send(d) \/ CheckHup(d)
      PROVE  BoundInv'
  <2>1. sockets' = sockets /\ bound' = bound
    BY <1>4 DEF Start, ReadCfg, ReadBadCfg, Listen, Accept, Send, CheckHup
  <2>2. pc[d] \in {"listen"} \cup Serving => pc'[d] \in {"listen"} \cup Serving
    BY <1>4 DEF Start, ReadCfg, ReadBadCfg, Listen, Accept, Send, CheckHup
  <2> QED BY <1>0, <2>1, <2>2
<1>5. CASE \/ \E d \in Daemon : Hup(d) \/ Interrupt(d)
           \/ \E f \in Config : Edit(f)
           \/ \E c \in Client : Leave(c) \/ \E s \in Sock : Connect(c, s)
           \/ UNCHANGED vars
  <2>1. UNCHANGED <<sockets, bound, pc>>
    BY <1>5 DEF Hup, Interrupt, Edit, Leave, Connect, vars, dvars
  <2> QED BY <2>1
<1> QED BY <1>1, <1>2, <1>3, <1>4, <1>5 DEF Next, Run, Refused, Closes

\* One instance at a time, whatever the administrator does to it, to its
\* configuration and to the socket files it leaves: while it awaits requests
\* the file it was bound to leads to it.  With two instances it does not
\* (fszd_second_instance).
THEOREM AwaitsOnSocketCorrect == OneInstance => (Spec => []AwaitsOnSocket)
<1>1. Init => BoundInv
  BY DEF Init, BoundInv
<1>2. Typed /\ BoundInv => AwaitsOnSocket
  BY DEF Typed, BoundInv, AwaitsOnSocket
<1>3. OneInstance /\ Typed /\ BoundInv /\ [Next]_vars => BoundInv'
  BY BoundStep
<1>4. CASE OneInstance
  BY <1>1, <1>2, <1>3, <1>4, TypedInv, PTL DEF Spec
<1> QED BY <1>4

----------------------------------------------------------------------------
(* The end of an instance.                                                 *)

\* The configuration never names another socket.
OneSocket == \E s \in Sock : Sock = {s}

\* As long as no instance was killed, a socket file is that of an instance
\* that is going to remove it.
Removes(d, s) == /\ cfg[d].sock_name = s
                 /\ \/ sockets[s] = d /\ pc[d] \in {"listen"} \cup Serving
                    \/ sockets[s] = Stale /\ pc[d] = "unlink"

StopInv == kills = 0 /\ gone = {}
              => \A s \in Sock : sockets[s] # None => \E d \in Daemon : Removes(d, s)

LEMMA StopOwn ==
  ASSUME OneSocket, Typed, StopInv, kills = 0, gone = {}, NEW d \in Daemon,
         BindOk(d) \/ BindFails(d) \/ Closes(d) \/ Unlink(d)
  PROVE  StopInv'
<1> USE NamesAssumption DEF Typed, TypeOK
<1>0. PICK s \in Sock : Sock = {s}
  BY DEF OneSocket
<1>1. cfg[d].sock_name \in {s, None}
  BY <1>0 DEF Cfgs
<1>2. CASE BindOk(d)
  <2>1. sockets'[s] = d /\ cfg'[d].sock_name = s /\ pc'[d] = "listen"
    BY <1>0, <1>1, <1>2 DEF BindOk
  <2> QED BY <1>0, <2>1 DEF StopInv, Removes
<1>3. CASE BindFails(d)
  <2>1. sockets'[s] = None
    BY <1>0, <1>1, <1>3 DEF BindFails
  <2> QED BY <1>0, <2>1 DEF StopInv
<1>4. CASE Closes(d)
  <2>1. /\ sockets'[s] = IF sockets[s] = d THEN Stale ELSE sockets[s]
        /\ cfg' = cfg /\ pc' = [pc EXCEPT ![d] = "unlink"] /\ pc[d] \in {"listen", "accept"}
    BY <1>0, <1>4, ClosesListener DEF CloseListener, Closed
  <2>2. CASE sockets[s] = None
    <3>1. sockets'[s] = None
      BY <2>1, <2>2
    <3> QED BY <1>0, <3>1 DEF StopInv
  <2>3. CASE sockets[s] # None
    <3>1. PICK e \in Daemon : Removes(e, s)
      BY <1>0, <2>3 DEF StopInv
    <3>2. Removes(e, s)'
      <4>1. CASE e = d
        BY <2>1, <3>1, <4>1 DEF Removes, Serving
      <4>2. CASE e # d
        BY <2>1, <3>1, <4>2 DEF Removes
      <4> QED BY <4>1, <4>2
    <3> QED BY <1>0, <3>2 DEF StopInv
  <2> QED BY <2>2, <2>3
<1>5. CASE Unlink(d)
  <2>1. /\ sockets'[s] = IF s = cfg[d].sock_name THEN None ELSE sockets[s]
        /\ cfg' = cfg /\ pc' = [pc EXCEPT ![d] = "off"]
    BY <1>0, <1>5 DEF Unlink
  <2>2. CASE sockets'[s] = None
    BY <1>0, <2>2 DEF StopInv
  <2>3. CASE sockets'[s] # None
    <3>1. sockets[s] # None /\ s # cfg[d].sock_name /\ sockets'[s] = sockets[s]
      BY <2>1, <2>3
    <3>2. PICK e \in Daemon : Removes(e, s)
      BY <1>0, <3>1 DEF StopInv
    <3>3. e # d
      BY <3>1, <3>2 DEF Removes
    <3>4. Removes(e, s)'
      BY <2>1, <3>1, <3>2, <3>3 DEF Removes
    <3> QED BY <1>0, <3>4 DEF StopInv
  <2> QED BY <2>2, <2>3
<1> QED BY <1>2, <1>3, <1>4, <1>5

\* A step that leaves the socket files alone, and of each instance the name it
\* has and the part of the program it is in.
LEMMA StopKeeps ==
  ASSUME StopInv, kills' = 0 /\ gone' = {} => kills = 0 /\ gone = {}, sockets' = sockets,
         \A d \in Daemon : \A s \in Sock :
            /\ cfg[d].sock_name = s => cfg'[d].sock_name = s
            /\ pc[d] \in {"listen"} \cup Serving => pc'[d] \in {"listen"} \cup Serving
            /\ pc[d] = "unlink" => pc'[d] = "unlink"
  PROVE  StopInv'
<1> SUFFICES ASSUME kills = 0, gone = {}, NEW s \in Sock, sockets[s] # None
             PROVE  \E d \in Daemon : Removes(d, s)'
  BY DEF StopInv
<1>1. PICK d \in Daemon : Removes(d, s)
  BY DEF StopInv
<1>2. Removes(d, s)'
  BY <1>1 DEF Removes
<1> QED BY <1>2

LEMMA StopStep ==
  ASSUME OneSocket, Typed, StopInv, [Next]_vars
  PROVE  StopInv'
<1> USE NamesAssumption DEF Typed, TypeOK, Serving, svars, bounds
<1>1. ASSUME NEW d \in Daemon, BindOk(d) \/ BindFails(d) \/ Closes(d) \/ Unlink(d)
      PROVE  StopInv'
  <2>1. CASE kills = 0 /\ gone = {}
    BY <1>1, <2>1, StopOwn
  <2>2. CASE ~(kills = 0 /\ gone = {})
    BY <1>1, <2>2, ClosesListener DEF StopInv, BindOk, BindFails, CloseListener, Unlink
  <2> QED BY <2>1, <2>2
<1>2. ASSUME NEW d \in Daemon, SendKills(d) \/ Kill(d)
      PROVE  StopInv'
  <2>1. CASE SendKills(d)
    <3>1. gone # {} /\ gone' = gone
      BY <2>1 DEF SendKills
    <3> QED BY <3>1 DEF StopInv
  <2>2. CASE Kill(d)
    <3>1. kills' = kills + 1 /\ (kills = 0 => kills' # 0)
      BY <2>2 DEF Kill
    <3> QED BY <2>2, <3>1 DEF StopInv
  <2> QED BY <1>2, <2>1, <2>2
<1>3. ASSUME NEW d \in Daemon, ReadCfg(d)
      PROVE  StopInv'
  <2>1. /\ cfg' = [cfg EXCEPT ![d] = read_yaml(cfg_file, cfg[d])]
        /\ pc' = [pc EXCEPT ![d] = IF @ = "first_cfg" THEN "bind" ELSE "accept"]
        /\ pc[d] \in {"first_cfg", "read_cfg"} /\ cfg_file \in Config \ {Malformed}
        /\ UNCHANGED <<sockets, kills, gone>>
    BY <1>3 DEF ReadCfg
  <2>2. /\ read_yaml(cfg_file, cfg[d]) \in Cfgs
        /\ cfg[d].sock_name # None => read_yaml(cfg_file, cfg[d]).sock_name # None
    BY <2>1, ReadYaml
  <2>3. \A e \in Daemon : \A s \in Sock : cfg[e].sock_name = s => cfg'[e].sock_name = s
    BY <2>1, <2>2 DEF OneSocket, Cfgs
  <2> QED BY <2>1, <2>3, StopKeeps
<1>4. ASSUME NEW d \in Daemon,
             \/ Start(d) \/ ReadBadCfg(d) \/ SocketFails(d) \/ BindNameless(d) \/ Listen(d)
             \/ Accept(d) \/ Send(d) \/ CheckHup(d) \/ Hup(d) \/ Interrupt(d)
      PROVE  StopInv'
  <2>1. UNCHANGED <<sockets, kills, gone>>
    BY <1>4 DEF Start, ReadBadCfg, SocketFails, BindNameless, Listen, Accept, Send, CheckHup, Hup, Interrupt
  <2>2. \A e \in Daemon : /\ pc[e] \in {"listen"} \cup Serving => pc'[e] \in {"listen"} \cup Serving
                          /\ pc[e] = "unlink" => pc'[e] = "unlink"
    BY <1>4 DEF Start, ReadBadCfg, SocketFails, BindNameless, Listen, Accept, Send, CheckHup, Hup, Interrupt
  <2>3. \A e \in Daemon : \A s \in Sock : cfg[e].sock_name = s =>
           \/ cfg'[e].sock_name = s
           \/ pc[e] = "off"
    BY <1>4 DEF Start, ReadBadCfg, SocketFails, BindNameless, Listen, Accept, Send, CheckHup, Hup, Interrupt
  <2>4. CASE ~Start(d)
    <3>1. cfg' = cfg
      BY <1>4, <2>4 DEF ReadBadCfg, SocketFails, BindNameless, Listen, Accept, Send, CheckHup, Hup, Interrupt
    <3> QED BY <2>1, <2>2, <3>1, StopKeeps
  <2>5. CASE Start(d)
    <3>1. /\ pc[d] = "off"
          /\ \A e \in Daemon \ {d} : cfg'[e] = cfg[e] /\ pc'[e] = pc[e]
      BY <2>5 DEF Start
    <3> SUFFICES ASSUME kills = 0, gone = {}, NEW s \in Sock, sockets[s] # None
                 PROVE  \E e \in Daemon : Removes(e, s)'
      BY <2>1 DEF StopInv
    <3>2. PICK e \in Daemon : Removes(e, s)
      BY DEF StopInv
    <3>3. e # d
      BY <3>1, <3>2 DEF Removes
    <3>4. Removes(e, s)'
      BY <2>1, <3>1, <3>2, <3>3 DEF Removes
    <3> QED BY <3>4
  <2> QED BY <2>4, <2>5
<1>5. CASE \/ \E f \in Config : Edit(f)
           \/ \E c \in Client : Leave(c) \/ \E s \in Sock : Connect(c, s)
           \/ UNCHANGED vars
  <2>1. UNCHANGED <<sockets, pc, cfg, kills>> /\ (gone' = {} => gone = {})
    BY <1>5 DEF Edit, Leave, Connect, vars, dvars
  <2> QED BY <2>1, StopKeeps
<1> QED BY <1>1, <1>2, <1>3, <1>4, <1>5 DEF Next, Run, Refused, Closes

\* Any number of instances that remove each other's socket file, bind its name
\* again and stop at any moment leave no socket file, if the configuration
\* never renames it and none of them was killed.
THEOREM StopRemovesSocketCorrect == OneSocket => (Spec => []StopRemovesSocket)
<1>1. Init => StopInv
  BY DEF Init, StopInv
<1>2. Typed /\ StopInv => StopRemovesSocket
  <2> SUFFICES ASSUME Typed, StopInv, \A d \in Daemon : pc[d] = "off", kills = 0, gone = {},
                      NEW s \in Sock, sockets[s] # None
               PROVE  FALSE
    BY DEF StopRemovesSocket
  <2>1. PICK d \in Daemon : Removes(d, s)
    BY DEF StopInv
  <2> QED BY <2>1 DEF Removes, Serving
<1>3. OneSocket /\ Typed /\ StopInv /\ [Next]_vars => StopInv'
  BY StopStep
<1>4. CASE OneSocket
  BY <1>1, <1>2, <1>3, <1>4, TypedInv, PTL DEF Spec
<1> QED BY <1>4

----------------------------------------------------------------------------
(* The start after a failed one.                                           *)

\* After a failed start the name is free, until an instance has bound it.
SecondInv == \A d \in Daemon : failures[d] # 0 =>
                /\ failures[d] = 1
                /\ pc[d] \in {"off", "first_cfg", "looping", "bind"}
                /\ \A s \in Sock : sockets[s] = None

LEMMA SecondStep ==
  ASSUME OneInstance, OneSocket, Typed, SecondInv, [Next]_vars
  PROVE  SecondInv'
<1> USE NamesAssumption DEF SecondInv, Typed, TypeOK, Serving, svars
<1>0. (\A d, e \in Daemon : d = e) /\ (\A s, t \in Sock : s = t)
  BY DEF OneInstance, OneSocket
<1>1. ASSUME NEW d \in Daemon, BindOk(d) \/ BindNameless(d)
      PROVE  SecondInv'
  <2>1. failures'[d] = 0
    BY <1>1 DEF BindOk, BindNameless
  <2> QED BY <1>0, <2>1
<1>2. ASSUME NEW d \in Daemon, BindFails(d)
      PROVE  SecondInv'
  <2>1. cfg[d].sock_name \in Sock /\ sockets[cfg[d].sock_name] # None
    BY <1>2 DEF BindFails, Cfgs
  <2>2. failures[d] = 0
    BY <2>1
  <2>3. failures'[d] = 1 /\ pc'[d] = "off" /\ sockets'[cfg[d].sock_name] = None
    BY <1>2, <2>1, <2>2 DEF BindFails
  <2> QED BY <1>0, <2>1, <2>3
<1>3. ASSUME NEW d \in Daemon, SendKills(d) \/ Kill(d)
      PROVE  SecondInv'
  <2>1. failures' = failures /\ pc'[d] = "off"
    BY <1>3 DEF SendKills, Kill, Dies
  <2>2. \A s \in Sock : sockets[s] = None => sockets'[s] = None
    BY <1>3 DEF SendKills, Kill, Dies, Closed
  <2> QED BY <1>0, <2>1, <2>2
<1>4. ASSUME NEW d \in Daemon,
             \/ Listen(d) \/ Accept(d) \/ Send(d) \/ CheckHup(d) \/ Closes(d) \/ Unlink(d)
      PROVE  SecondInv'
  <2>1. failures' = failures /\ failures[d] = 0
    BY <1>4, ClosesListener DEF Listen, Accept, Send, CheckHup, CloseListener, Unlink
  <2> QED BY <1>0, <2>1
<1>5. ASSUME NEW d \in Daemon, Start(d) \/ ReadCfg(d) \/ ReadBadCfg(d) \/ SocketFails(d)
      PROVE  SecondInv'
  <2>1. failures' = failures /\ sockets' = sockets
    BY <1>5 DEF Start, ReadCfg, ReadBadCfg, SocketFails
  <2>2. pc[d] \in {"off", "first_cfg", "looping", "bind"}
           => pc'[d] \in {"off", "first_cfg", "looping", "bind"}
    BY <1>5 DEF Start, ReadCfg, ReadBadCfg, SocketFails
  <2> QED BY <1>0, <2>1, <2>2
<1>6. CASE \/ \E d \in Daemon : Hup(d) \/ Interrupt(d)
           \/ \E f \in Config : Edit(f)
           \/ \E c \in Client : Leave(c) \/ \E s \in Sock : Connect(c, s)
           \/ UNCHANGED vars
  <2>1. UNCHANGED <<sockets, failures, pc>>
    BY <1>6 DEF Hup, Interrupt, Edit, Leave, Connect, vars, dvars
  <2> QED BY <2>1
<1> QED BY <1>1, <1>2, <1>3, <1>4, <1>5, <1>6 DEF Next, Run, Refused, Closes

\* A start that fails on the socket file of a killed instance removes it, so
\* the next start of that instance does not fail on it: for one instance with
\* one socket name, whatever happens in between.
THEOREM SecondStartBindsCorrect == OneInstance /\ OneSocket => (Spec => []SecondStartBinds)
<1>1. Init => SecondInv
  BY DEF Init, SecondInv
<1>2. Typed /\ SecondInv => SecondStartBinds
  <2> SUFFICES ASSUME Typed, SecondInv, NEW d \in Daemon
               PROVE  failures[d] <= 1
    BY DEF SecondStartBinds
  <2>1. failures[d] \in {0, 1}
    BY DEF SecondInv
  <2> QED BY <2>1
<1>3. OneInstance /\ OneSocket /\ Typed /\ SecondInv /\ [Next]_vars => SecondInv'
  BY SecondStep
<1>4. CASE OneInstance /\ OneSocket
  BY <1>1, <1>2, <1>3, <1>4, TypedInv, PTL DEF Spec
<1> QED BY <1>4
=============================================================================
