----------------------------- MODULE LoggerProofs -----------------------------
(***************************************************************************)
(* Proofs about Logger for any loggers, destinations and sizes of the      *)
(* buffers, where at most one logger is on the console.                    *)
(*                                                                         *)
(* Streams says that a stream's descriptor is open on its logger's         *)
(* destination and is no other stream's: as fopen takes the least free     *)
(* descriptor, this needs that one is always free, which counting shows.   *)
(* With it, Contents says that what a logger was given is what is in its   *)
(* destination followed by what is in its buffer; Numbered, that no number *)
(* is given twice; Behind, that the line of an error is the last record of *)
(* its destination when the backtrace is written.                          *)
(***************************************************************************)
EXTENDS Logger, SumTheorems, SequenceTheorems

----------------------------------------------------------------------------
(* The lines among some records.                                           *)

IsLine(r, l) == r.by = l /\ r.what = "line"

\* The recursion of Numbers, for the first n records.
Upto(F, rs, l, n) ==
  F = [k \in 0..n |-> IF k = 0 THEN <<>>
                      ELSE IF rs[k].by = l /\ rs[k].what = "line" THEN Append(F[k - 1], rs[k].n)
                      ELSE F[k - 1]]

LEMMA UptoExists ==
  ASSUME NEW rs, NEW l, NEW n \in Nat
  PROVE  \E F : Upto(F, rs, l, n)
<1> DEFINE N == {k \in Nat : \E F : Upto(F, rs, l, k)}
<1>1. 0 \in N
  <2>1. Upto([k \in 0..0 |-> <<>>], rs, l, 0)
    BY DEF Upto
  <2> QED BY <2>1
<1>2. ASSUME NEW k \in Nat, k \in N
      PROVE  k + 1 \in N
  <2>1. PICK F : Upto(F, rs, l, k)
    BY <1>2
  <2> DEFINE body(i) == IF i = 0 THEN <<>>
                        ELSE IF rs[i].by = l /\ rs[i].what = "line" THEN Append(F[i - 1], rs[i].n)
                        ELSE F[i - 1]
             G == [j \in 0..k + 1 |-> body(j)]
  <2>2. \A j \in 0..k : G[j] = F[j]
    <3> TAKE j \in 0..k
    <3>1. F = [i \in 0..k |-> body(i)]
      BY <2>1 DEF Upto
    <3>2. j \in 0..k + 1
      OBVIOUS
    <3> HIDE DEF body
    <3> QED BY <3>1, <3>2
  <2>3. \A j \in 0..k + 1 : j # 0 => j - 1 \in 0..k
    OBVIOUS
  <2>4. \A j \in 0..k + 1 : j # 0 => G[j - 1] = F[j - 1]
    BY <2>2, <2>3
  <2>5. G = [j \in 0..k + 1 |-> IF j = 0 THEN <<>>
                                ELSE IF rs[j].by = l /\ rs[j].what = "line" THEN Append(G[j - 1], rs[j].n)
                                ELSE G[j - 1]]
    BY <2>4
  <2> HIDE DEF G
  <2>6. Upto(G, rs, l, k + 1)
    BY <2>5 DEF Upto
  <2> QED BY <2>6
<1>3. Nat \subseteq N
  <2> HIDE DEF N
  <2> QED BY <1>1, <1>2, NatInductionSet
<1> QED BY <1>3

\* F[k] is what Numbers gives for the first k records.
Partial(F, rs, l, n) ==
  /\ F[0] = <<>>
  /\ \A k \in 0..n : k + 1 <= n =>
        F[k + 1] = IF IsLine(rs[k + 1], l) THEN Append(F[k], rs[k + 1].n) ELSE F[k]

LEMMA NumbersIs ==
  ASSUME NEW rs, NEW l, NEW n \in Nat, Len(rs) = n
  PROVE  \E F : Partial(F, rs, l, n) /\ Numbers(rs, l) = F[n]
<1> DEFINE F == CHOOSE G : Upto(G, rs, l, n)
<1>1. Numbers(rs, l) = F[n]
  BY DEF Numbers, Upto
<1>2. Upto(F, rs, l, n)
  <2>1. \E G : Upto(G, rs, l, n)
    BY UptoExists
  <2> HIDE DEF Upto
  <2> QED BY <2>1
<1> HIDE DEF F
<1> DEFINE body(i) == IF i = 0 THEN <<>>
                      ELSE IF rs[i].by = l /\ rs[i].what = "line" THEN Append(F[i - 1], rs[i].n)
                      ELSE F[i - 1]
<1>3. F = [i \in 0..n |-> body(i)]
  BY <1>2 DEF Upto
<1>4. \A k \in 0..n : F[k] = body(k)
  <2> HIDE DEF body
  <2> QED BY <1>3
<1>5. F[0] = <<>>
  <2>1. F[0] = body(0)
    BY <1>4
  <2> QED BY <2>1
<1>6. ASSUME NEW k \in 0..n, k + 1 <= n
      PROVE  F[k + 1] = IF IsLine(rs[k + 1], l) THEN Append(F[k], rs[k + 1].n) ELSE F[k]
  <2>1. F[k + 1] = body(k + 1)
    <3>1. k + 1 \in 0..n
      BY <1>6
    <3> HIDE DEF body
    <3> QED BY <1>4, <3>1
  <2>2. (k + 1) - 1 = k /\ k + 1 # 0
    OBVIOUS
  <2> QED BY <2>1, <2>2 DEF IsLine
<1>7. Partial(F, rs, l, n)
  BY <1>5, <1>6 DEF Partial
<1> QED BY <1>1, <1>7

LEMMA NumbersEmpty ==
  ASSUME NEW l
  PROVE  Numbers(<<>>, l) = <<>>
<1>1. Len(<<>>) = 0 /\ 0 \in Nat
  OBVIOUS
<1>2. PICK F : Partial(F, <<>>, l, 0) /\ Numbers(<<>>, l) = F[0]
  BY <1>1, NumbersIs
<1> QED BY <1>2 DEF Partial

\* Two sequences that agree on their first m records agree on the lines of those.
LEMMA PartialSame ==
  ASSUME NEW rs, NEW ss, NEW l, NEW m \in Nat, NEW n \in Nat, m <= n,
         NEW F, Partial(F, rs, l, m), NEW G, Partial(G, ss, l, n),
         \A i \in 1..m : rs[i] = ss[i]
  PROVE  F[m] = G[m]
<1> DEFINE N == {k \in Nat : k <= m => F[k] = G[k]}
<1>1. 0 \in N
  BY DEF Partial
<1>2. ASSUME NEW k \in Nat, k \in N
      PROVE  k + 1 \in N
  <2> SUFFICES ASSUME k + 1 <= m PROVE F[k + 1] = G[k + 1]
    OBVIOUS
  <2>1. F[k] = G[k] /\ rs[k + 1] = ss[k + 1] /\ k \in 0..m /\ k \in 0..n /\ k + 1 <= n
    BY <1>2
  <2>2. F[k + 1] = IF IsLine(rs[k + 1], l) THEN Append(F[k], rs[k + 1].n) ELSE F[k]
    BY <2>1 DEF Partial
  <2>3. G[k + 1] = IF IsLine(ss[k + 1], l) THEN Append(G[k], ss[k + 1].n) ELSE G[k]
    BY <2>1 DEF Partial
  <2> QED BY <2>1, <2>2, <2>3
<1>3. Nat \subseteq N
  <2> HIDE DEF N
  <2> QED BY <1>1, <1>2, NatInductionSet
<1> QED BY <1>3

LEMMA NumbersAppend ==
  ASSUME NEW rs \in Seq(Record), NEW r \in Record, NEW l
  PROVE  Numbers(Append(rs, r), l) = IF IsLine(r, l) THEN Append(Numbers(rs, l), r.n) ELSE Numbers(rs, l)
<1> DEFINE ss == Append(rs, r)
           n == Len(rs)
<1>1. /\ n \in Nat /\ Len(ss) = n + 1 /\ ss[n + 1] = r
      /\ \A i \in 1..n : rs[i] = ss[i]
  BY AppendProperties
<1>2. PICK F : Partial(F, rs, l, n) /\ Numbers(rs, l) = F[n]
  BY <1>1, NumbersIs
<1>3. PICK G : Partial(G, ss, l, n + 1) /\ Numbers(ss, l) = G[n + 1]
  <2>1. n + 1 \in Nat
    BY <1>1
  <2> HIDE DEF ss, n
  <2> QED BY <1>1, <2>1, NumbersIs
<1> HIDE DEF ss, n
<1>4. n + 1 \in Nat /\ n <= n + 1 /\ n \in 0..n + 1 /\ n + 1 <= n + 1
  BY <1>1
<1>5. F[n] = G[n]
  BY <1>1, <1>2, <1>3, <1>4, PartialSame
<1>6. G[n + 1] = IF IsLine(ss[n + 1], l) THEN Append(G[n], ss[n + 1].n) ELSE G[n]
  BY <1>3, <1>4 DEF Partial
<1> QED BY <1>1, <1>2, <1>3, <1>5, <1>6 DEF ss

\* Sequences are joined by an operator of their own, which the provers need
\* not take apart.
Cat(s, t) == s \o t
Put(s, e) == Append(s, e)

LEMMA CatFacts ==
  ASSUME NEW S, NEW s \in Seq(S), NEW t \in Seq(S)
  PROVE  /\ Cat(s, t) \in Seq(S)
         /\ Cat(s, <<>>) = s /\ Cat(<<>>, s) = s /\ <<>> \in Seq(S)
         /\ \A e \in S : Put(s, e) \in Seq(S)
<1>1. Cat(s, t) \in Seq(S)
  BY ConcatProperties DEF Cat
<1>2. Cat(s, <<>>) = s /\ Cat(<<>>, s) = s /\ <<>> \in Seq(S)
  BY ConcatEmptySeq, EmptySeq DEF Cat
<1>3. \A e \in S : Put(s, e) \in Seq(S)
  BY AppendProperties DEF Put
<1> QED BY <1>1, <1>2, <1>3

LEMMA CatAssoc ==
  ASSUME NEW S, NEW s \in Seq(S), NEW t \in Seq(S), NEW u \in Seq(S)
  PROVE  Cat(Cat(s, t), u) = Cat(s, Cat(t, u))
BY ConcatAssociative DEF Cat

LEMMA PutCat ==
  ASSUME NEW S, NEW s \in Seq(S), NEW t \in Seq(S), NEW e \in S
  PROVE  Put(Cat(s, t), e) = Cat(s, Put(t, e))
<1>1. s \o t \in Seq(S) /\ <<e>> \in Seq(S)
  BY ConcatProperties
<1>2. Append(s \o t, e) = (s \o t) \o <<e>> /\ Append(t, e) = t \o <<e>>
  BY <1>1, AppendIsConcat
<1>3. (s \o t) \o <<e>> = s \o (t \o <<e>>)
  BY <1>1, ConcatAssociative
<1> QED BY <1>2, <1>3 DEF Cat, Put

LEMMA NumbersPut ==
  ASSUME NEW rs \in Seq(Record), NEW r \in Record, NEW l
  PROVE  Numbers(Put(rs, r), l) = IF IsLine(r, l) THEN Put(Numbers(rs, l), r.n) ELSE Numbers(rs, l)
BY NumbersAppend DEF Put

\* A sequence of records is empty or ends in one.
LEMMA EmptyOrPut ==
  ASSUME NEW S, NEW s \in Seq(S)
  PROVE  /\ Len(s) \in Nat
         /\ Len(s) = 0 => s = <<>>
         /\ \A n \in Nat : Len(s) = n + 1 => \E t \in Seq(S), e \in S : s = Put(t, e) /\ Len(t) = n
<1>1. Len(s) \in Nat /\ (Len(s) = 0 => s = <<>>)
  BY EmptySeq
<1>2. ASSUME NEW n \in Nat, Len(s) = n + 1
      PROVE  \E t \in Seq(S), e \in S : s = Put(t, e) /\ Len(t) = n
  <2>1. s # <<>>
    BY <1>2
  <2>2. PICK t \in Seq(S), e \in S : s = Append(t, e)
    BY <2>1, SequenceEmptyOrAppend
  <2>3. Len(t) = n
    BY <1>2, <2>2, AppendProperties
  <2> QED BY <2>2, <2>3 DEF Put
<1> QED BY <1>1, <1>2

\* The lines among joined records are those of the parts, joined.
LEMMA NumbersJoin ==
  ASSUME NEW l
  PROVE  \A ss \in Seq(Record) :
            /\ Numbers(ss, l) \in Seq(Lines)
            /\ \A ts \in Seq(Record) : Numbers(Cat(ts, ss), l) = Cat(Numbers(ts, l), Numbers(ss, l))
<1> DEFINE Fine(ss) == /\ Numbers(ss, l) \in Seq(Lines)
                       /\ \A ts \in Seq(Record) : Numbers(ts, l) \in Seq(Lines) =>
                             Numbers(Cat(ts, ss), l) = Cat(Numbers(ts, l), Numbers(ss, l))
           N == {n \in Nat : \A ss \in Seq(Record) : Len(ss) = n => Fine(ss)}
<1>1. 0 \in N
  <2> SUFFICES ASSUME NEW ss \in Seq(Record), Len(ss) = 0 PROVE Fine(ss)
    OBVIOUS
  <2>1. ss = <<>> /\ Numbers(ss, l) = <<>>
    BY NumbersEmpty, EmptyOrPut
  <2>2. ASSUME NEW ts \in Seq(Record), Numbers(ts, l) \in Seq(Lines)
        PROVE  Numbers(Cat(ts, ss), l) = Cat(Numbers(ts, l), Numbers(ss, l))
    <3>1. Cat(ts, <<>>) = ts
      BY CatFacts
    <3>2. Cat(Numbers(ts, l), <<>>) = Numbers(ts, l)
      BY <2>2, CatFacts
    <3> QED BY <2>1, <3>1, <3>2
  <2> QED BY <2>1, <2>2, EmptySeq
<1>2. ASSUME NEW n \in Nat, n \in N
      PROVE  n + 1 \in N
  <2> SUFFICES ASSUME NEW ss \in Seq(Record), Len(ss) = n + 1 PROVE Fine(ss)
    OBVIOUS
  <2>1. PICK us \in Seq(Record), r \in Record : ss = Put(us, r) /\ Len(us) = n
    BY EmptyOrPut
  <2> DEFINE nu == Numbers(us, l)
             num == r.n
  <2>2. Numbers(ss, l) = IF IsLine(r, l) THEN Put(nu, num) ELSE nu
    BY <2>1, NumbersPut
  <2>3. Fine(us)
    BY <1>2, <2>1
  <2>4. nu \in Seq(Lines) /\ num \in Lines
    BY <2>3 DEF Record
  <2>5. ASSUME NEW ts \in Seq(Record), Numbers(ts, l) \in Seq(Lines)
        PROVE  Numbers(Cat(ts, ss), l) = Cat(Numbers(ts, l), Numbers(ss, l))
    <3> DEFINE nt == Numbers(ts, l)
               vs == Cat(ts, us)
    <3>1. Numbers(vs, l) = Cat(nt, nu)
      BY <2>3, <2>5
    <3>2. Cat(ts, ss) = Put(vs, r) /\ vs \in Seq(Record)
      BY <2>1, CatFacts, PutCat
    <3>3. Numbers(Put(vs, r), l) = IF IsLine(r, l) THEN Put(Cat(nt, nu), num) ELSE Cat(nt, nu)
      <4>1. Numbers(Put(vs, r), l) = IF IsLine(r, l) THEN Put(Numbers(vs, l), num) ELSE Numbers(vs, l)
        <5> HIDE DEF vs
        <5> QED BY <3>2, NumbersPut
      <4> QED BY <3>1, <4>1
    <3>4. Put(Cat(nt, nu), num) = Cat(nt, Put(nu, num))
      <4>1. nt \in Seq(Lines)
        BY <2>5
      <4> HIDE DEF nt, nu, num
      <4> QED BY <2>4, <4>1, PutCat
    <3> HIDE DEF nt, nu, num, vs
    <3> QED BY <2>2, <3>2, <3>3, <3>4 DEF nt
  <2> HIDE DEF nu, num
  <2>6. Numbers(ss, l) \in Seq(Lines)
    BY <2>2, <2>4, CatFacts
  <2> QED BY <2>5, <2>6
<1>3. Nat \subseteq N
  <2> HIDE DEF N
  <2> QED BY <1>1, <1>2, NatInductionSet
<1>4. ASSUME NEW ss \in Seq(Record) PROVE Fine(ss)
  <2>1. Len(ss) \in Nat
    BY EmptyOrPut
  <2> HIDE DEF Fine
  <2> QED BY <1>3, <2>1
<1> QED BY <1>4

LEMMA NumbersOfOther ==
  ASSUME NEW rs \in Seq(Record), NEW l, \A i \in 1..Len(rs) : ~IsLine(rs[i], l)
  PROVE  Numbers(rs, l) = <<>>
<1> DEFINE n == Len(rs)
<1>1. n \in Nat
  BY LenProperties
<1>2. PICK F : Partial(F, rs, l, n) /\ Numbers(rs, l) = F[n]
  BY <1>1, NumbersIs
<1> DEFINE N == {k \in Nat : k <= n => F[k] = <<>>}
<1>3. 0 \in N
  BY <1>2 DEF Partial
<1>4. ASSUME NEW k \in Nat, k \in N
      PROVE  k + 1 \in N
  <2> SUFFICES ASSUME k + 1 <= n PROVE F[k + 1] = <<>>
    OBVIOUS
  <2>1. F[k] = <<>> /\ k \in 0..n /\ k + 1 \in 1..n
    BY <1>1, <1>4
  <2>2. F[k + 1] = IF IsLine(rs[k + 1], l) THEN Append(F[k], rs[k + 1].n) ELSE F[k]
    BY <1>2, <2>1 DEF Partial
  <2> QED BY <2>1, <2>2
<1>5. Nat \subseteq N
  <2> HIDE DEF N
  <2> QED BY <1>3, <1>4, NatInductionSet
<1> HIDE DEF n
<1> QED BY <1>1, <1>2, <1>5

----------------------------------------------------------------------------
(* Types, and which descriptor is whose.                                   *)

\* At most one logger is on the console: closing it closes standard output.
ConsoleOnce == \A k, l \in Loggers : Dest[k] = Console /\ Dest[l] = Console => k = l

Given == LoggerAssumption /\ BoundAssumption /\ ConsoleOnce

InLogErr == pc \in {"seek", "trace", "flush"}

\* A stream's descriptor is open on the logger's destination and is no other
\* logger's; standard output is the console until its logger was opened.
Streams == /\ \A l \in Loggers : fd[l] # NULL => state[l] = "open" /\ fds[fd[l]] = Dest[l]
           /\ \A k, l \in Loggers : fd[k] = fd[l] /\ fd[k] # NULL => k = l
           /\ \A d \in Fds : d # 1 /\ fds[d] # None => \E l \in Loggers : fd[l] = d
           /\ \A l \in Loggers : Dest[l] = Console /\ state[l] = "none" => fds[1] = Console
           /\ InLogErr => cur \in Loggers /\ fd[cur] # NULL

\* A buffer holds lines of its logger, those last logged.
Buffers == /\ \A l \in Loggers : fd[l] = NULL => buf[l] = <<>>
           /\ \A l \in Loggers : \A i \in 1..Len(buf[l]) : IsLine(buf[l][i], l)
           /\ InLogErr => said[cur] # <<>>

Inv == TypeOK /\ Streams /\ Buffers

LEMMA FdsNat == Given => /\ Fds \subseteq Nat \ {0} /\ 1 \in Fds /\ IsFiniteSet(Fds)
                         /\ Cardinality(Loggers) \in Nat
                         /\ Cardinality(Fds \ {1}) = Cardinality(Loggers)
<1> SUFFICES ASSUME Given
             PROVE  /\ Fds \subseteq Nat \ {0} /\ 1 \in Fds /\ IsFiniteSet(Fds)
                    /\ Cardinality(Loggers) \in Nat
                    /\ Cardinality(Fds \ {1}) = Cardinality(Loggers)
  OBVIOUS
<1> DEFINE n == Cardinality(Loggers)
<1>1. n \in Nat
  BY FS_CardinalityType DEF Given, LoggerAssumption
<1> HIDE DEF n
<1>2. Fds = 1..n + 1
  BY DEF Fds, n
<1>3. IsFiniteSet(Fds) /\ Cardinality(Fds) = n + 1
  <2>1. 1 \in Int /\ n + 1 \in Int /\ ~(1 > n + 1) /\ (n + 1) - 1 + 1 = n + 1
    BY <1>1
  <2> QED BY <1>2, <2>1, FS_Interval
<1>4. 1 \in Fds
  BY <1>1, <1>2
<1>5. Cardinality(Fds \ {1}) = (n + 1) - 1
  BY <1>3, <1>4, FS_RemoveElement
<1>6. Fds \subseteq Nat \ {0}
  BY <1>1, <1>2
<1> QED BY <1>1, <1>3, <1>4, <1>5, <1>6 DEF n

\* fopen finds a free descriptor, as the logger it is for has none yet.
LEMMA FreeFd ==
  ASSUME Given, Inv, NEW l \in Loggers, state[l] = "none"
  PROVE  /\ Min({e \in Fds : fds[e] = None}) \in Fds
         /\ fds[Min({e \in Fds : fds[e] = None})] = None
<1> DEFINE Free == {e \in Fds : fds[e] = None}
           OtherLoggers == Loggers \ {l}
           Rest == Fds \ {1}
<1>1. Free # {}
  <2> SUFFICES ASSUME Free = {} PROVE FALSE
    OBVIOUS
  <2> DEFINE f == [d \in Rest |-> CHOOSE k \in Loggers : fd[k] = d]
  <2>1. ASSUME NEW d \in Rest
        PROVE  f[d] \in OtherLoggers /\ fd[f[d]] = d
    <3>1. \E k \in Loggers : fd[k] = d
      BY DEF Inv, Streams
    <3>2. f[d] \in Loggers /\ fd[f[d]] = d
      BY <3>1
    <3>3. d # NULL
      BY FdsNat DEF NULL
    <3>4. state[f[d]] = "open"
      BY <3>2, <3>3 DEF Inv, Streams
    <3> HIDE DEF f
    <3> QED BY <3>2, <3>4
  <2>2. f \in [Rest -> OtherLoggers]
    BY <2>1
  <2>3. /\ IsFiniteSet(Rest) /\ IsFiniteSet(OtherLoggers)
        /\ Cardinality(OtherLoggers) < Cardinality(Rest)
    <3>1. IsFiniteSet(OtherLoggers) /\ Cardinality(OtherLoggers) = Cardinality(Loggers) - 1
      BY FS_RemoveElement DEF Given, LoggerAssumption
    <3>2. IsFiniteSet(Rest)
      BY FdsNat, FS_RemoveElement
    <3>3. Cardinality(Loggers) \in Nat /\ Cardinality(Rest) = Cardinality(Loggers)
      BY FdsNat
    <3> QED BY <3>1, <3>2, <3>3
  <2>4. \E x, y \in Rest : x # y /\ f[x] = f[y]
    <3> HIDE DEF f, Rest, OtherLoggers
    <3> QED BY <2>2, <2>3, FS_PigeonHole
  <2> HIDE DEF f
  <2> QED BY <2>1, <2>4
<1>2. Free \subseteq Nat
  BY FdsNat
<1>3. PICK e \in Free : \A x \in Free : ~(x < e)
  <2> HIDE DEF Free
  <2> QED BY <1>1, <1>2, SmallestNat
<1>4. \A x \in Free : e <= x
  BY <1>2, <1>3
<1>5. Min(Free) \in Free
  <2> HIDE DEF Free
  <2> QED BY <1>4 DEF Min
<1> QED BY <1>5

----------------------------------------------------------------------------
(* What the steps do to the buffers and the destinations.                  *)

\* The stream of l writes out, and keeps rest.
Hands(l, out, rest) ==
  /\ written' = [written EXCEPT ![Dest[l]] = Cat(written[Dest[l]], out)]
  /\ buf' = [buf EXCEPT ![l] = rest]

LinesAre(rs, l) == \A i \in 1..Len(rs) : IsLine(rs[i], l)

\* What a logger's descriptor is given gets to its destination.
LEMMA WriteIs ==
  ASSUME Given, Inv, NEW l \in Loggers, fd[l] # NULL, NEW out
  PROVE  /\ Write(fd[l], out) = [written EXCEPT ![Dest[l]] = Cat(written[Dest[l]], out)]
         /\ Dest[l] \in Files \cup {Console}
<1>1. fds[fd[l]] = Dest[l]
  BY DEF Inv, Streams
<1>2. Dest[l] # None
  BY DEF Given, LoggerAssumption
<1> QED BY <1>1, <1>2 DEF Write, Cat, Files

LEMMA LinesCounted ==
  ASSUME Given, TypeOK
  PROVE  /\ NoOfLines \in Nat
         /\ \A l \in Loggers : \A n \in Lines : said' = [said EXCEPT ![l] = Put(said[l], n)]
               => NoOfLines' = NoOfLines + 1
<1> DEFINE g == [l \in Loggers |-> Len(said[l])]
<1>1. IsFiniteSet(Loggers)
  BY DEF Given, LoggerAssumption
<1>2. g \in [Loggers -> Nat]
  BY LenProperties DEF TypeOK
<1>0. \A f : Total(f) = SumOver(f, Loggers)
  BY DEF Total, SumOver
<1>3. NoOfLines = SumOver(g, Loggers)
  <2>1. NoOfLines = Total(g)
    BY DEF NoOfLines
  <2> HIDE DEF g
  <2> QED BY <1>0, <2>1
<1>4. NoOfLines \in Nat
  <2> HIDE DEF g
  <2> QED BY <1>1, <1>2, <1>3, SumNat
<1>5. ASSUME NEW l \in Loggers, NEW n \in Lines, said' = [said EXCEPT ![l] = Put(said[l], n)]
      PROVE  NoOfLines' = NoOfLines + 1
  <2> DEFINE h == [k \in Loggers |-> Len(said'[k])]
  <2>1. NoOfLines' = SumOver(h, Loggers)
    <3>1. NoOfLines' = Total(h)
      BY DEF NoOfLines
    <3> HIDE DEF h
    <3> QED BY <1>0, <3>1
  <2>2. said \in [Loggers -> Seq(Lines)]
    BY DEF TypeOK
  <2>3. Len(Put(said[l], n)) = Len(said[l]) + 1
    BY <2>2, AppendProperties DEF Put
  <2>4. h[l] = g[l] + 1 /\ \A k \in Loggers \ {l} : g[k] = h[k]
    BY <1>5, <2>2, <2>3
  <2>5. h \in [Loggers -> Nat]
    <3>1. \A k \in Loggers : h[k] \in Nat
      BY <1>2, <2>4
    <3> QED BY <3>1
  <2>6. SumOver(h, Loggers) + g[l] = SumOver(g, Loggers) + h[l]
    <3> HIDE DEF g, h
    <3> QED BY <1>1, <1>2, <2>4, <2>5, SumChange
  <2>7. g[l] \in Nat /\ SumOver(h, Loggers) \in Nat
    <3> HIDE DEF g, h
    <3> QED BY <1>1, <1>2, <2>5, SumNat
  <2> HIDE DEF g, h
  <2> QED BY <1>3, <1>4, <2>1, <2>4, <2>6, <2>7
<1> QED BY <1>4, <1>5

\* The first k elements of a sequence, and the others, are the sequence.
First(s, k) == SubSeq(s, 1, k)
Others(s, k) == SubSeq(s, k + 1, Len(s))

LEMMA Cut ==
  ASSUME NEW S, NEW s \in Seq(S), NEW k \in 0..Len(s)
  PROVE  /\ First(s, k) \in Seq(S) /\ Others(s, k) \in Seq(S)
         /\ Cat(First(s, k), Others(s, k)) = s
         /\ \A i \in 1..Len(First(s, k)) : \E j \in 1..Len(s) : First(s, k)[i] = s[j]
         /\ \A i \in 1..Len(Others(s, k)) : \E j \in 1..Len(s) : Others(s, k)[i] = s[j]
<1> DEFINE n == Len(s)
<1>1. n \in Nat /\ \A i \in 1..n : s[i] \in S
  BY LenProperties, ElementOfSeq
<1>2. k \in Nat /\ k <= n /\ k + 1 \in Int /\ 1 \in Int /\ n \in Int /\ k \in Int
  BY <1>1
<1> HIDE DEF n
<1>3. /\ SubSeq(s, 1, k) \in Seq(S)
      /\ Len(SubSeq(s, 1, k)) = IF 1 <= k THEN k - 1 + 1 ELSE 0
      /\ \A i \in 1..k - 1 + 1 : SubSeq(s, 1, k)[i] = s[1 + i - 1]
  <2>1. \A i \in 1..k : s[i] \in S
    BY <1>1, <1>2
  <2> QED BY <1>2, <2>1, SubSeqProperties
<1>4. /\ SubSeq(s, k + 1, n) \in Seq(S)
      /\ Len(SubSeq(s, k + 1, n)) = IF k + 1 <= n THEN n - (k + 1) + 1 ELSE 0
      /\ \A i \in 1..n - (k + 1) + 1 : SubSeq(s, k + 1, n)[i] = s[k + 1 + i - 1]
  <2>1. \A i \in k + 1..n : s[i] \in S
    BY <1>1, <1>2
  <2> QED BY <1>2, <2>1, SubSeqProperties
<1>5. Cat(SubSeq(s, 1, k), SubSeq(s, k + 1, n)) = SubSeq(s, 1, n)
  <2>1. 1 \in 1..n + 1 /\ k \in 1 - 1..n /\ n \in k..n
    BY <1>1, <1>2
  <2> QED BY <2>1, ConcatAdjacentSubSeq DEF Cat, n
<1>6. SubSeq(s, 1, n) = s
  BY SubSeqFull DEF n
<1>7. ASSUME NEW i \in 1..Len(SubSeq(s, 1, k))
      PROVE  \E j \in 1..n : SubSeq(s, 1, k)[i] = s[j]
  <2>1. i \in 1..k - 1 + 1 /\ 1 + i - 1 \in 1..n
    BY <1>1, <1>2, <1>3
  <2> QED BY <1>3, <2>1
<1>8. ASSUME NEW i \in 1..Len(SubSeq(s, k + 1, n))
      PROVE  \E j \in 1..n : SubSeq(s, k + 1, n)[i] = s[j]
  <2>1. i \in 1..n - (k + 1) + 1 /\ k + 1 + i - 1 \in 1..n
    BY <1>1, <1>2, <1>4
  <2> QED BY <1>4, <2>1
<1>9. Cat(SubSeq(s, 1, k), SubSeq(s, k + 1, n)) = s
  BY <1>5, <1>6
<1> QED BY <1>3, <1>4, <1>7, <1>8, <1>9 DEF n, First, Others

NewLine(l) == [by |-> l, n |-> NoOfLines + 1, what |-> "line"]

LEMMA PrintHands ==
  ASSUME Given, Inv, NEW l \in Loggers, fd[l] # NULL, logger_print(l)
  PROVE  /\ NewLine(l) \in Record /\ NoOfLines + 1 \in Lines
         /\ said' = [said EXCEPT ![l] = Put(said[l], NoOfLines + 1)]
         /\ Put(buf[l], NewLine(l)) \in Seq(Record)
         /\ \E out, rest \in Seq(Record) :
               /\ Cat(out, rest) = Put(buf[l], NewLine(l))
               /\ Hands(l, out, rest) /\ LinesAre(out, l) /\ LinesAre(rest, l)
<1> DEFINE r == NewLine(l)
           all == Put(buf[l], r)
<1>1. NoOfLines + 1 \in Lines
  BY LinesCounted DEF Inv, logger_print, Lines, Given, BoundAssumption
<1>2. r \in Record
  BY <1>1 DEF Record, NewLine
<1>3. said' = [said EXCEPT ![l] = Put(said[l], NoOfLines + 1)]
  BY DEF logger_print, Put
<1>4. PICK k \in 0..Len(all) : /\ written' = Write(fd[l], SubSeq(all, 1, k))
                               /\ buf' = [buf EXCEPT ![l] = SubSeq(all, k + 1, Len(all))]
  BY DEF logger_print, Put, NewLine
<1>5. buf[l] \in Seq(Record)
  BY DEF Inv, TypeOK
<1>6. LinesAre(all, l) /\ all \in Seq(Record)
  <2>1. /\ all \in Seq(Record) /\ Len(all) = Len(buf[l]) + 1 /\ Len(buf[l]) \in Nat
        /\ all[Len(buf[l]) + 1] = r /\ \A i \in 1..Len(buf[l]) : all[i] = buf[l][i]
    BY <1>2, <1>5, AppendProperties, LenProperties DEF Put
  <2>2. IsLine(r, l) /\ \A i \in 1..Len(buf[l]) : IsLine(buf[l][i], l)
    BY DEF Inv, Buffers, IsLine, NewLine
  <2>3. \A i \in 1..Len(all) : i \in 1..Len(buf[l]) \/ i = Len(buf[l]) + 1
    BY <2>1
  <2> HIDE DEF all, r
  <2> QED BY <2>1, <2>2, <2>3 DEF LinesAre
<1> HIDE DEF all, r
<1> DEFINE out == First(all, k)
           rest == Others(all, k)
<1>7. /\ out \in Seq(Record) /\ rest \in Seq(Record) /\ Cat(out, rest) = all
      /\ \A i \in 1..Len(out) : \E j \in 1..Len(all) : out[i] = all[j]
      /\ \A i \in 1..Len(rest) : \E j \in 1..Len(all) : rest[i] = all[j]
  <2> HIDE DEF Record
  <2> QED BY <1>6, Cut
<1>8. Hands(l, out, rest)
  BY <1>4, WriteIs DEF Hands, First, Others
<1> HIDE DEF out, rest
<1>9. LinesAre(out, l) /\ LinesAre(rest, l)
  BY <1>6, <1>7 DEF LinesAre
<1> QED BY <1>1, <1>2, <1>3, <1>6, <1>7, <1>8, <1>9 DEF all, r

\* fseek, fflush and fclose hand over the whole buffer.
LEMMA EmptyHands ==
  ASSUME Given, Inv, NEW l \in Loggers, fd[l] # NULL,
         written' = Write(fd[l], buf[l]), buf' = [buf EXCEPT ![l] = <<>>]
  PROVE  /\ Hands(l, buf[l], <<>>) /\ LinesAre(buf[l], l) /\ LinesAre(<<>>, l)
         /\ buf[l] \in Seq(Record) /\ <<>> \in Seq(Record) /\ Cat(buf[l], <<>>) = buf[l]
<1>1. buf[l] \in Seq(Record)
  BY DEF Inv, TypeOK
<1>2. <<>> \in Seq(Record) /\ Cat(buf[l], <<>>) = buf[l]
  BY <1>1, CatFacts
<1>3. LinesAre(buf[l], l) /\ LinesAre(<<>>, l)
  <2>1. 1..Len(<<>>) = {}
    OBVIOUS
  <2> QED BY <2>1 DEF Inv, Buffers, LinesAre
<1> QED BY <1>1, <1>2, <1>3, WriteIs DEF Hands

\* backtrace_symbols_fd writes a backtrace, and leaves the buffer alone.
LEMMA TraceHands ==
  ASSUME Given, Inv, cur \in Loggers, fd[cur] # NULL, said[cur] # <<>>, buf' = buf,
         written' = Write(fd[cur], <<[by |-> cur, n |-> Last(said[cur]), what |-> "trace"]>>)
  PROVE  /\ Hands(cur, <<[by |-> cur, n |-> Last(said[cur]), what |-> "trace"]>>, buf[cur])
         /\ [by |-> cur, n |-> Last(said[cur]), what |-> "trace"] \in Record
         /\ buf[cur] \in Seq(Record)
<1> DEFINE t == [by |-> cur, n |-> Last(said[cur]), what |-> "trace"]
<1>1. Last(said[cur]) \in Lines
  <2>1. said[cur] \in Seq(Lines)
    BY DEF Inv, TypeOK
  <2>2. Len(said[cur]) \in 1..Len(said[cur])
    BY <2>1, EmptySeq, LenProperties
  <2> QED BY <2>1, <2>2, ElementOfSeq DEF Last
<1>2. t \in Record
  BY <1>1 DEF Record
<1> HIDE DEF t
<1>3. <<t>> \in Seq(Record) /\ buf \in [Loggers -> Seq(Record)] /\ buf[cur] \in Seq(Record)
  BY <1>2 DEF Inv, TypeOK
<1>4. Hands(cur, <<t>>, buf[cur])
  BY <1>3, WriteIs DEF Hands, t
<1> QED BY <1>2, <1>3, <1>4 DEF t

LEMMA HandsTypes ==
  ASSUME Given, Inv, NEW l \in Loggers, fd[l] # NULL,
         NEW out \in Seq(Record), NEW rest \in Seq(Record), LinesAre(rest, l), Hands(l, out, rest)
  PROVE  /\ buf' \in [Loggers -> Seq(Record)]
         /\ written' \in [Files \cup {Console} -> Seq(Record)]
         /\ \A k \in Loggers : LinesAre(buf'[k], k)
         /\ \A k \in Loggers : fd[k] = NULL => buf'[k] = <<>>
<1>1. buf \in [Loggers -> Seq(Record)] /\ written \in [Files \cup {Console} -> Seq(Record)]
  BY DEF Inv, TypeOK
<1>2. Dest[l] \in Files \cup {Console}
  BY WriteIs
<1>3. Cat(written[Dest[l]], out) \in Seq(Record)
  BY <1>1, <1>2, CatFacts
<1>4. \A k \in Loggers : LinesAre(buf[k], k)
  BY DEF Inv, Buffers, LinesAre
<1>5. \A k \in Loggers : fd[k] = NULL => buf[k] = <<>>
  BY DEF Inv, Buffers
<1> HIDE DEF Record
<1> QED BY <1>1, <1>2, <1>3, <1>4, <1>5 DEF Hands

LEMMA BuffersAre ==
  Buffers <=> /\ \A l \in Loggers : fd[l] = NULL => buf[l] = <<>>
              /\ \A l \in Loggers : LinesAre(buf[l], l)
              /\ InLogErr => said[cur] # <<>>
  BY DEF Buffers, LinesAre

LEMMA InvPrint ==
  ASSUME Given, Inv, NEW l \in Loggers, Log(l) \/ LogErr(l)
  PROVE  Inv'
<1>0. /\ fd[l] # NULL /\ logger_print(l) /\ UNCHANGED <<fds, state, fd, reported>>
      /\ pc = "ready" /\ cur' \in Loggers \cup {None}
      /\ \/ pc' = "ready"
         \/ pc' = "seek" /\ cur' = l
  BY DEF Log, LogErr, Inv, TypeOK
<1> DEFINE n == NoOfLines + 1
<1>1. /\ n \in Lines /\ said' = [said EXCEPT ![l] = Put(said[l], n)]
      /\ buf' \in [Loggers -> Seq(Record)]
      /\ written' \in [Files \cup {Console} -> Seq(Record)]
      /\ \A k \in Loggers : LinesAre(buf'[k], k)
      /\ \A k \in Loggers : fd[k] = NULL => buf'[k] = <<>>
  <2>1. PICK out \in Seq(Record), rest \in Seq(Record) : Hands(l, out, rest) /\ LinesAre(rest, l)
    BY <1>0, PrintHands
  <2> HIDE DEF Record
  <2> QED BY <1>0, <2>1, HandsTypes, PrintHands
<1> HIDE DEF n
<1>2. said[l] \in Seq(Lines) /\ said \in [Loggers -> Seq(Lines)]
  BY DEF Inv, TypeOK
<1>3. Put(said[l], n) \in Seq(Lines) /\ Put(said[l], n) # <<>>
  BY <1>1, <1>2, AppendProperties DEF Put
<1>4. said' \in [Loggers -> Seq(Lines)] /\ said'[l] # <<>>
  BY <1>1, <1>2, <1>3
<1>5. TypeOK'
  BY <1>0, <1>1, <1>4 DEF Inv, TypeOK
<1>6. Streams'
  BY <1>0 DEF Inv, Streams, InLogErr
<1>7. Buffers'
  <2>1. \A k \in Loggers : fd'[k] = NULL => buf'[k] = <<>>
    BY <1>0, <1>1
  <2>2. InLogErr' => said'[cur'] # <<>>
    BY <1>0, <1>4 DEF InLogErr
  <2>3. \A k \in Loggers : \A i \in 1..Len(buf'[k]) : IsLine(buf'[k][i], k)
    BY <1>1 DEF LinesAre
  <2> QED BY <2>1, <2>2, <2>3 DEF Buffers
<1> QED BY <1>5, <1>6, <1>7 DEF Inv

LEMMA InvLogErr ==
  ASSUME Given, Inv, Seek \/ Trace \/ Flush
  PROVE  Inv'
<1>0. /\ UNCHANGED <<fds, state, fd, said>> /\ InLogErr
      /\ \/ pc' = "ready"
         \/ pc' \in {"trace", "flush"} /\ cur' = cur
      /\ cur' \in Loggers \cup {None}
  BY DEF Seek, Trace, Flush, InLogErr, Inv, TypeOK
<1>1. cur \in Loggers /\ fd[cur] # NULL /\ said[cur] # <<>>
  BY <1>0 DEF Inv, Streams, Buffers
<1>2. /\ buf' \in [Loggers -> Seq(Record)]
      /\ written' \in [Files \cup {Console} -> Seq(Record)]
      /\ \A k \in Loggers : LinesAre(buf'[k], k)
      /\ \A k \in Loggers : fd[k] = NULL => buf'[k] = <<>>
  <2>1. CASE Seek \/ Flush
    <3>1. written' = Write(fd[cur], buf[cur]) /\ buf' = [buf EXCEPT ![cur] = <<>>]
      BY <2>1 DEF Seek, Flush
    <3> HIDE DEF Record
    <3> QED BY <1>1, <3>1, EmptyHands, HandsTypes
  <2>2. CASE Trace
    <3> DEFINE t == [by |-> cur, n |-> Last(said[cur]), what |-> "trace"]
    <3>1. Hands(cur, <<t>>, buf[cur]) /\ t \in Record /\ buf[cur] \in Seq(Record)
      BY <1>1, <2>2, TraceHands DEF Trace
    <3> HIDE DEF t
    <3>4. <<t>> \in Seq(Record)
      BY <3>1
    <3>6. LinesAre(buf[cur], cur)
      BY <1>1 DEF Inv, Buffers, LinesAre
    <3> HIDE DEF Record
    <3> QED BY <1>1, <3>1, <3>4, <3>6, HandsTypes
  <2> QED BY <2>1, <2>2
<1>3. reported' \subseteq Lines
  <2>1. reported \subseteq Lines /\ said[cur] \in Seq(Lines)
    BY <1>1 DEF Inv, TypeOK
  <2>2. Len(said[cur]) \in 1..Len(said[cur])
    BY <1>1, <2>1, EmptySeq, LenProperties
  <2>3. Last(said[cur]) \in Lines
    BY <2>1, <2>2, ElementOfSeq DEF Last
  <2> QED BY <2>1, <2>3 DEF Seek, Trace, Flush
<1>4. TypeOK'
  BY <1>0, <1>2, <1>3 DEF Inv, TypeOK
<1>5. Streams'
  BY <1>0 DEF Inv, Streams, InLogErr
<1>6. Buffers'
  <2>1. \A k \in Loggers : \A i \in 1..Len(buf'[k]) : IsLine(buf'[k][i], k)
    BY <1>2 DEF LinesAre
  <2>2. \A k \in Loggers : fd'[k] = NULL => buf'[k] = <<>>
    BY <1>0, <1>2
  <2>3. InLogErr' => said'[cur'] # <<>>
    BY <1>0, <1>1 DEF InLogErr
  <2> QED BY <2>1, <2>2, <2>3 DEF Buffers
<1> QED BY <1>4, <1>5, <1>6 DEF Inv

LEMMA InvOpen ==
  ASSUME Given, Inv, NEW l \in Loggers,
         logger_open_stdout(l) \/ logger_open_file(l) \/ open_file_fails(l)
  PROVE  Inv'
<1>0. /\ UNCHANGED <<buf, written, said, reported, pc, cur>> /\ pc = "ready"
      /\ state[l] = "none" /\ state' = [state EXCEPT ![l] = "open"]
  BY DEF logger_open_stdout, logger_open_file, open_file_fails
<1>1. fd[l] = NULL /\ buf[l] = <<>>
  BY <1>0 DEF Inv, Streams, Buffers
<1>2. Buffers'
  <2>1. \A k \in Loggers \ {l} : fd'[k] = fd[k]
    BY DEF logger_open_stdout, logger_open_file, open_file_fails, Inv, TypeOK
  <2>2. \A k \in Loggers : fd'[k] = NULL => buf'[k] = <<>>
    BY <1>0, <1>1, <2>1 DEF Inv, Buffers
  <2> QED BY <1>0, <2>2 DEF Inv, Buffers, InLogErr
<1>3. 1 \in Fds /\ Fds \subseteq Nat \ {0} /\ None \notin {Console} /\ Dest[l] # None
  BY FdsNat DEF Given, LoggerAssumption
<1> USE DEF Inv, TypeOK, Streams, NULL
<1>4. CASE logger_open_stdout(l)
  <2>1. fds[1] = Console /\ fd' = [fd EXCEPT ![l] = 1] /\ Dest[l] = Console /\ fds' = fds
    BY <1>0, <1>3, <1>4 DEF logger_open_stdout
  <2>2. \A k \in Loggers : fd[k] # 1
    <3> SUFFICES ASSUME NEW k \in Loggers, fd[k] = 1 PROVE FALSE
      OBVIOUS
    <3>1. state[k] = "open" /\ Dest[k] = Console
      BY <2>1
    <3>2. k = l
      BY <2>1, <3>1 DEF Given, ConsoleOnce
    <3> QED BY <1>0, <3>1, <3>2
  <2>3. TypeOK'
    BY <1>0, <1>3, <2>1
  <2>4. Streams'
    <3>1. \A k \in Loggers : fd'[k] # NULL => state'[k] = "open" /\ fds'[fd'[k]] = Dest[k]
      BY <1>0, <2>1
    <3>2. \A j, k \in Loggers : fd'[j] = fd'[k] /\ fd'[j] # NULL => j = k
      BY <2>1, <2>2
    <3>3. \A d \in Fds : d # 1 /\ fds'[d] # None => \E k \in Loggers : fd'[k] = d
      <4> SUFFICES ASSUME NEW d \in Fds, d # 1, fds[d] # None
                   PROVE  \E k \in Loggers : fd'[k] = d
        BY <2>1
      <4>1. PICK k \in Loggers : fd[k] = d
        OBVIOUS
      <4>2. k # l
        BY <1>1, <1>3, <4>1
      <4> QED BY <2>1, <4>1, <4>2
    <3>4. \A k \in Loggers : Dest[k] = Console /\ state'[k] = "none" => fds'[1] = Console
      BY <2>1
    <3>5. ~InLogErr'
      BY <1>0 DEF InLogErr
    <3> QED BY <3>1, <3>2, <3>3, <3>4, <3>5
  <2> QED BY <1>2, <2>3, <2>4
<1>5. CASE logger_open_file(l)
  <2> DEFINE d0 == Min({e \in Fds : fds[e] = None})
  <2>1. d0 \in Fds /\ fds[d0] = None
    BY <1>0, FreeFd
  <2>2. fds' = [fds EXCEPT ![d0] = Dest[l]] /\ fd' = [fd EXCEPT ![l] = d0] /\ Dest[l] # Console
    BY <1>5 DEF logger_open_file
  <2> HIDE DEF d0
  <2>3. \A k \in Loggers : fd[k] # d0
    <3> SUFFICES ASSUME NEW k \in Loggers, fd[k] = d0 PROVE FALSE
      OBVIOUS
    <3>1. fds[d0] = Dest[k] /\ Dest[k] # None
      BY <1>3, <2>1 DEF Given, LoggerAssumption
    <3> QED BY <2>1, <3>1
  <2>4. TypeOK'
    BY <1>0, <2>1, <2>2 DEF Files
  <2>5. Streams'
    <3>1. \A k \in Loggers : fd'[k] # NULL => state'[k] = "open" /\ fds'[fd'[k]] = Dest[k]
      BY <1>0, <2>1, <2>2, <2>3
    <3>2. \A j, k \in Loggers : fd'[j] = fd'[k] /\ fd'[j] # NULL => j = k
      BY <2>2, <2>3
    <3>3. \A d \in Fds : d # 1 /\ fds'[d] # None => \E k \in Loggers : fd'[k] = d
      <4> SUFFICES ASSUME NEW d \in Fds, d # 1, fds'[d] # None
                   PROVE  \E k \in Loggers : fd'[k] = d
        OBVIOUS
      <4>1. CASE d = d0
        BY <2>2, <4>1
      <4>2. CASE d # d0
        <5>1. fds[d] # None
          BY <2>2, <4>2
        <5>2. PICK k \in Loggers : fd[k] = d
          BY <5>1
        <5>3. k # l
          BY <1>1, <1>3, <5>2
        <5> QED BY <2>2, <5>2, <5>3
      <4> QED BY <4>1, <4>2
    <3>4. \A k \in Loggers : Dest[k] = Console /\ state'[k] = "none" => fds'[1] = Console
      <4> SUFFICES ASSUME NEW k \in Loggers, Dest[k] = Console, state'[k] = "none"
                   PROVE  fds'[1] = Console
        OBVIOUS
      <4>1. fds[1] = Console
        BY <1>0
      <4> QED BY <1>3, <2>1, <2>2, <4>1
    <3>5. ~InLogErr'
      BY <1>0 DEF InLogErr
    <3> QED BY <3>1, <3>2, <3>3, <3>4, <3>5
  <2> QED BY <1>2, <2>4, <2>5
<1>6. CASE open_file_fails(l)
  <2>1. fds' = fds /\ fd' = fd
    BY <1>6 DEF open_file_fails
  <2>2. TypeOK'
    BY <1>0, <2>1
  <2>3. Streams'
    BY <1>0, <2>1 DEF InLogErr
  <2> QED BY <1>2, <2>2, <2>3
<1> QED BY <1>4, <1>5, <1>6

LEMMA InvClose ==
  ASSUME Given, Inv, NEW l \in Loggers, logger_close(l)
  PROVE  Inv'
<1>0. /\ fd[l] # NULL /\ written' = Write(fd[l], buf[l]) /\ buf' = [buf EXCEPT ![l] = <<>>]
      /\ fds' = [fds EXCEPT ![fd[l]] = None] /\ fd' = [fd EXCEPT ![l] = NULL]
      /\ state' = [state EXCEPT ![l] = "closed"]
      /\ UNCHANGED <<said, reported, pc, cur>> /\ pc = "ready"
  BY DEF logger_close
<1>1. /\ buf' \in [Loggers -> Seq(Record)]
      /\ written' \in [Files \cup {Console} -> Seq(Record)]
      /\ \A k \in Loggers : LinesAre(buf'[k], k)
      /\ \A k \in Loggers : fd[k] = NULL => buf'[k] = <<>>
  <2> HIDE DEF Record
  <2> QED BY <1>0, EmptyHands, HandsTypes
<1>2. Buffers'
  <2>1. \A k \in Loggers : \A i \in 1..Len(buf'[k]) : IsLine(buf'[k][i], k)
    BY <1>1 DEF LinesAre
  <2>2. \A k \in Loggers : fd'[k] = NULL => buf'[k] = <<>>
    BY <1>0, <1>1 DEF Inv, TypeOK
  <2>3. ~InLogErr'
    BY <1>0 DEF InLogErr
  <2> QED BY <2>1, <2>2, <2>3 DEF Buffers
<1> USE DEF Inv, TypeOK, Streams, NULL
<1>3. TypeOK'
  BY <1>0, <1>1
<1>4. fd[l] \in Fds /\ state[l] = "open" /\ fds[fd[l]] = Dest[l]
  BY <1>0
<1>5. Streams'
  <2>1. \A k \in Loggers : fd'[k] # NULL => state'[k] = "open" /\ fds'[fd'[k]] = Dest[k]
    BY <1>0, <1>4
  <2>2. \A j, k \in Loggers : fd'[j] = fd'[k] /\ fd'[j] # NULL => j = k
    BY <1>0
  <2>3. \A d \in Fds : d # 1 /\ fds'[d] # None => \E k \in Loggers : fd'[k] = d
    <3> SUFFICES ASSUME NEW d \in Fds, d # 1, fds'[d] # None
                 PROVE  \E k \in Loggers : fd'[k] = d
      OBVIOUS
    <3>1. d # fd[l] /\ fds[d] # None
      BY <1>0, <1>4
    <3>2. PICK k \in Loggers : fd[k] = d
      BY <3>1
    <3> QED BY <1>0, <3>1, <3>2
  <2>4. \A k \in Loggers : Dest[k] = Console /\ state'[k] = "none" => fds'[1] = Console
    <3> SUFFICES ASSUME NEW k \in Loggers, Dest[k] = Console, state'[k] = "none"
                 PROVE  fds'[1] = Console
      OBVIOUS
    <3>1. state[k] = "none" /\ fds[1] = Console /\ k # l
      BY <1>0, <1>4
    <3>2. fd[l] # 1
      BY <1>4, <3>1 DEF Given, ConsoleOnce
    <3> QED BY <1>0, <1>4, <3>1, <3>2, FdsNat
  <2>5. ~InLogErr'
    BY <1>0 DEF InLogErr
  <2> QED BY <2>1, <2>2, <2>3, <2>4, <2>5
<1> QED BY <1>2, <1>3, <1>5

LEMMA InvInit == Given /\ Init => Inv
<1> SUFFICES ASSUME Given, Init PROVE Inv
  OBVIOUS
<1>1. 1 \in Fds /\ 1..Len(<<>>) = {}
  BY FdsNat
<1>2. <<>> \in Seq(Record) /\ <<>> \in Seq(Lines)
  OBVIOUS
<1>3. TypeOK
  BY <1>2 DEF Init, TypeOK
<1>4. Streams
  BY <1>1 DEF Init, Streams, InLogErr, NULL
<1>5. Buffers
  BY <1>1 DEF Init, Buffers, InLogErr
<1> QED BY <1>3, <1>4, <1>5 DEF Inv

LEMMA InvNext == Given /\ Inv /\ [Next]_vars => Inv'
<1> SUFFICES ASSUME Given, Inv, [Next]_vars PROVE Inv'
  OBVIOUS
<1>1. ASSUME NEW l \in Loggers,
             logger_open_stdout(l) \/ logger_open_file(l) \/ open_file_fails(l)
      PROVE  Inv'
  BY <1>1, InvOpen
<1>2. ASSUME NEW l \in Loggers, Log(l) \/ LogErr(l)
      PROVE  Inv'
  BY <1>2, InvPrint
<1>3. ASSUME NEW l \in Loggers, logger_close(l)
      PROVE  Inv'
  BY <1>3, InvClose
<1>4. CASE Seek \/ Trace \/ Flush
  BY <1>4, InvLogErr
<1>5. ASSUME NEW l \in Loggers, UseNull(l)
      PROVE  Inv'
  BY <1>5 DEF UseNull, Inv, TypeOK, Streams, Buffers, InLogErr
<1>6. CASE Kill
  <2>1. <<>> \in Seq(Record) /\ 1..Len(<<>>) = {}
    OBVIOUS
  <2>2. /\ UNCHANGED <<fds, state, fd, written, said, reported, cur>> /\ pc' = "killed"
        /\ \A l \in Loggers : buf'[l] = <<>>
        /\ buf' \in [Loggers -> Seq(Record)]
    BY <1>6, <2>1 DEF Kill
  <2>3. TypeOK'
    BY <2>2 DEF Inv, TypeOK
  <2>4. Streams'
    BY <2>2 DEF Inv, Streams, InLogErr
  <2>5. Buffers'
    BY <2>1, <2>2 DEF Buffers, InLogErr
  <2> QED BY <2>3, <2>4, <2>5 DEF Inv
<1>7. CASE UNCHANGED vars
  BY <1>7 DEF vars, Inv, TypeOK, Streams, Buffers, InLogErr
<1> QED BY <1>1, <1>2, <1>3, <1>4, <1>5, <1>6, <1>7 DEF Next

----------------------------------------------------------------------------
(* What was logged is in the destination, but for what is in the buffer.   *)

Contents ==
  /\ \A l \in Loggers : pc # "killed" => said[l] = Cat(LinesOf(l), Numbers(buf[l], l))
  /\ \A l \in Loggers : \E t \in Seq(Lines) : said[l] = Cat(LinesOf(l), t)
  /\ \A l \in Loggers : state[l] = "closed" => said[l] = LinesOf(l)

LEMMA LinesOfSeq ==
  ASSUME Given, TypeOK, NEW l \in Loggers
  PROVE  LinesOf(l) \in Seq(Lines) /\ Numbers(buf[l], l) \in Seq(Lines)
<1>1. written[Dest[l]] \in Seq(Record) /\ buf[l] \in Seq(Record)
  BY DEF TypeOK, Files
<1> HIDE DEF Record, Lines
<1> QED BY <1>1, NumbersJoin DEF LinesOf

LEMMA PrefixOfCat ==
  ASSUME NEW S, NEW s \in Seq(S), NEW t \in Seq(S)
  PROVE  IsPrefix(s, Cat(s, t))
<1> DEFINE n == Len(s)
<1>1. /\ n \in Nat /\ Len(t) \in Nat /\ Len(Cat(s, t)) = n + Len(t) /\ Cat(s, t) \in Seq(S)
      /\ \A i \in 1..n : Cat(s, t)[i] = s[i]
  BY ConcatProperties, LenProperties DEF Cat
<1>2. SubSeq(s, 1, n) = s
  BY SubSeqFull
<1>3. SubSeq(Cat(s, t), 1, n) = s
  <2>1. /\ SubSeq(Cat(s, t), 1, n) \in Seq(S) /\ Len(SubSeq(Cat(s, t), 1, n)) = n
        /\ \A i \in 1..n : SubSeq(Cat(s, t), 1, n)[i] = Cat(s, t)[i]
    <3>1. \A i \in 1..n : Cat(s, t)[i] \in S
      BY <1>1, ElementOfSeq
    <3>2. 1 \in Int /\ n \in Int /\ n - 1 + 1 = n /\ (\A i \in 1..n : 1 + i - 1 = i) /\ (~(1 <= n) => n = 0)
      BY <1>1
    <3> HIDE DEF n
    <3> QED BY <3>1, <3>2, SubSeqProperties
  <2> QED BY <1>1, <2>1, SeqEqual
<1> QED BY <1>1, <1>2, <1>3 DEF IsPrefix

\* What a logger's stream writes is added to its lines and to no other's.
LEMMA HandsLines ==
  ASSUME Given, Inv, NEW l \in Loggers, fd[l] # NULL,
         NEW out \in Seq(Record), NEW rest \in Seq(Record), Hands(l, out, rest),
         \A i \in 1..Len(out) : out[i].by = l
  PROVE  /\ LinesOf(l)' = Cat(LinesOf(l), Numbers(out, l))
         /\ \A k \in Loggers \ {l} : LinesOf(k)' = LinesOf(k) /\ buf'[k] = buf[k]
         /\ buf'[l] = rest
<1>1. /\ written \in [Files \cup {Console} -> Seq(Record)] /\ buf \in [Loggers -> Seq(Record)]
      /\ \A k \in Loggers : Dest[k] \in Files \cup {Console}
  BY DEF Inv, TypeOK, Files
<1>2. written'[Dest[l]] = Cat(written[Dest[l]], out)
  BY <1>1 DEF Hands
<1>3. \A ts \in Seq(Record), k \in Loggers :
        Numbers(Cat(ts, out), k) = Cat(Numbers(ts, k), Numbers(out, k)) /\ Numbers(ts, k) \in Seq(Lines)
  <2> HIDE DEF Record, Lines
  <2> QED BY NumbersJoin
<1>4. LinesOf(l)' = Cat(LinesOf(l), Numbers(out, l))
  <2>1. LinesOf(l)' = Numbers(written'[Dest[l]], l)
    BY DEF LinesOf
  <2> HIDE DEF Record
  <2> QED BY <1>1, <1>2, <1>3, <2>1 DEF LinesOf
<1>5. ASSUME NEW k \in Loggers \ {l}
      PROVE  LinesOf(k)' = LinesOf(k)
  <2>1. LinesOf(k)' = Numbers(written'[Dest[k]], k)
    BY DEF LinesOf
  <2>2. CASE Dest[k] = Dest[l]
    <3>1. \A i \in 1..Len(out) : ~IsLine(out[i], k)
      BY DEF IsLine
    <3>2. Numbers(out, k) = <<>>
      <4> HIDE DEF Record
      <4> QED BY <3>1, NumbersOfOther
    <3> DEFINE w == written[Dest[l]]
    <3>3. w \in Seq(Record) /\ k \in Loggers
      BY <1>1
    <3>4. Numbers(Cat(w, out), k) = Cat(Numbers(w, k), <<>>) /\ Numbers(w, k) \in Seq(Lines)
      <4> HIDE DEF Record, w, Lines
      <4> QED BY <1>3, <3>2, <3>3
    <3>5. Cat(Numbers(w, k), <<>>) = Numbers(w, k)
      <4> HIDE DEF Lines, w
      <4> QED BY <3>4, CatFacts
    <3> QED BY <1>2, <2>1, <2>2, <3>4, <3>5 DEF LinesOf
  <2>3. CASE Dest[k] # Dest[l]
    <3>1. written'[Dest[k]] = written[Dest[k]]
      BY <1>1, <2>3 DEF Hands
    <3> QED BY <2>1, <3>1 DEF LinesOf
  <2> QED BY <2>2, <2>3
<1>6. buf'[l] = rest /\ \A k \in Loggers \ {l} : buf'[k] = buf[k]
  BY <1>1 DEF Hands
<1> QED BY <1>4, <1>5, <1>6

LEMMA ContentsInit == Given /\ Init => Contents
<1> SUFFICES ASSUME Given, Init PROVE Contents
  OBVIOUS
<1>1. \A l \in Loggers : LinesOf(l) = <<>> /\ said[l] = <<>> /\ Numbers(buf[l], l) = <<>>
  BY NumbersEmpty DEF Init, LinesOf, Files
<1>2. <<>> \in Seq(Lines) /\ Cat(<<>>, <<>>) = <<>>
  BY CatFacts, EmptySeq
<1> QED BY <1>1, <1>2 DEF Contents

LEMMA ContentsPrint ==
  ASSUME Given, Inv, Contents, NEW l \in Loggers, Log(l) \/ LogErr(l)
  PROVE  Contents' /\ \A k \in Loggers : Len(LinesOf(k)) <= Len(LinesOf(k)')
<1>0. /\ fd[l] # NULL /\ logger_print(l) /\ state' = state /\ pc # "killed" /\ pc' # "killed"
      /\ state[l] = "open"
  BY DEF Log, LogErr
<1> DEFINE n == NoOfLines + 1
           r == NewLine(l)
           b == buf[l]
           nb == Numbers(b, l)
           ls == LinesOf(l)
<1>1. /\ n \in Lines /\ said' = [said EXCEPT ![l] = Put(said[l], n)]
      /\ b \in Seq(Record) /\ r \in Record /\ IsLine(r, l) /\ r.n = n
  BY <1>0, PrintHands DEF Inv, TypeOK, NewLine, IsLine
<1>2. PICK out \in Seq(Record), rest \in Seq(Record) :
        Cat(out, rest) = Put(b, r) /\ Hands(l, out, rest) /\ LinesAre(out, l)
  <2> HIDE DEF Record
  <2> QED BY <1>0, PrintHands
<1>3. \A i \in 1..Len(out) : out[i].by = l
  BY <1>2 DEF LinesAre, IsLine
<1>4. /\ LinesOf(l)' = Cat(LinesOf(l), Numbers(out, l))
      /\ \A k \in Loggers \ {l} : LinesOf(k)' = LinesOf(k) /\ buf'[k] = buf[k]
      /\ buf'[l] = rest
  <2> HIDE DEF Record
  <2> QED BY <1>0, <1>2, <1>3, HandsLines
<1> DEFINE no == Numbers(out, l)
           nr == Numbers(rest, l)
<1>5. ls \in Seq(Lines) /\ nb \in Seq(Lines) /\ no \in Seq(Lines) /\ nr \in Seq(Lines)
  <2> HIDE DEF Record, Lines
  <2> QED BY <1>2, LinesOfSeq, NumbersJoin DEF Inv
<1>6. Cat(no, nr) = Put(nb, n)
  <2>1. Numbers(Put(b, r), l) = Put(nb, r.n)
    <3> HIDE DEF Record, r, n, b
    <3> QED BY <1>1, NumbersPut
  <2>2. Numbers(Cat(out, rest), l) = Cat(no, nr)
    <3> HIDE DEF Record
    <3> QED BY NumbersJoin
  <2> QED BY <1>1, <1>2, <2>1, <2>2
<1> HIDE DEF n, r, b, nb, no, nr, ls
<1>7. said[l] = Cat(ls, nb)
  BY <1>0 DEF Contents, ls, nb, b
<1>8. Cat(Cat(ls, no), nr) = Put(said[l], n)
  <2>1. Cat(Cat(ls, no), nr) = Cat(ls, Cat(no, nr))
    BY <1>5, CatAssoc
  <2>2. Put(Cat(ls, nb), n) = Cat(ls, Put(nb, n))
    BY <1>1, <1>5, PutCat
  <2> QED BY <1>6, <1>7, <2>1, <2>2
<1>9. said'[l] = Cat(LinesOf(l)', nr) /\ \A k \in Loggers \ {l} : said'[k] = said[k]
  <2>1. said \in [Loggers -> Seq(Lines)]
    BY DEF Inv, TypeOK
  <2> QED BY <1>1, <1>4, <1>8, <2>1 DEF ls, no
<1>10. \A k \in Loggers : said'[k] = Cat(LinesOf(k)', Numbers(buf'[k], k))
  <2>1. \A k \in Loggers \ {l} : said[k] = Cat(LinesOf(k), Numbers(buf[k], k))
    BY <1>0 DEF Contents
  <2> QED BY <1>4, <1>9, <2>1 DEF nr
<1>11. \A k \in Loggers : \E t \in Seq(Lines) : said'[k] = Cat(LinesOf(k)', t)
  <2>1. \A k \in Loggers \ {l} : \E t \in Seq(Lines) : said[k] = Cat(LinesOf(k), t)
    BY DEF Contents
  <2> QED BY <1>4, <1>5, <1>9, <2>1
<1>12. \A k \in Loggers : state'[k] = "closed" => said'[k] = LinesOf(k)'
  <2>1. \A k \in Loggers \ {l} : state[k] = "closed" => said[k] = LinesOf(k)
    BY DEF Contents
  <2> QED BY <1>0, <1>4, <1>9, <2>1
<1>13. \A k \in Loggers : Len(LinesOf(k)) <= Len(LinesOf(k)')
  <2>1. Len(LinesOf(l)') = Len(ls) + Len(no) /\ Len(ls) \in Nat /\ Len(no) \in Nat
    BY <1>4, <1>5, ConcatProperties, LenProperties DEF Cat, ls, no
  <2>2. \A k \in Loggers : Len(LinesOf(k)) \in Nat
    BY LinesOfSeq, LenProperties DEF Inv
  <2> QED BY <1>4, <2>1, <2>2 DEF ls
<1> QED BY <1>10, <1>11, <1>12, <1>13 DEF Contents

\* What hands over the whole buffer leaves every line in the destination.
LEMMA ContentsEmpty ==
  ASSUME Given, Inv, Contents, NEW l \in Loggers, fd[l] # NULL, pc # "killed", pc' # "killed",
         written' = Write(fd[l], buf[l]), buf' = [buf EXCEPT ![l] = <<>>], said' = said,
         \A k \in Loggers \ {l} : state'[k] = state[k]
  PROVE  Contents' /\ LinesOf(l)' = said[l] /\ \A k \in Loggers \ {l} : LinesOf(k)' = LinesOf(k)
<1> DEFINE b == buf[l]
<1>1. Hands(l, b, <<>>) /\ LinesAre(b, l) /\ b \in Seq(Record) /\ <<>> \in Seq(Record)
  <2> HIDE DEF Record
  <2> QED BY EmptyHands
<1>2. \A i \in 1..Len(b) : b[i].by = l
  BY <1>1 DEF LinesAre, IsLine
<1>3. /\ LinesOf(l)' = Cat(LinesOf(l), Numbers(b, l))
      /\ \A k \in Loggers \ {l} : LinesOf(k)' = LinesOf(k) /\ buf'[k] = buf[k]
      /\ buf'[l] = <<>>
  <2> HIDE DEF Record, b
  <2> QED BY <1>1, <1>2, HandsLines
<1>4. LinesOf(l)' = said[l]
  BY <1>3 DEF Contents
<1>5. said[l] \in Seq(Lines) /\ Numbers(<<>>, l) = <<>>
  BY NumbersEmpty DEF Inv, TypeOK
<1>6. Cat(said[l], <<>>) = said[l] /\ <<>> \in Seq(Lines)
  <2> HIDE DEF Lines
  <2> QED BY <1>5, CatFacts
<1>7. \A k \in Loggers : said'[k] = Cat(LinesOf(k)', Numbers(buf'[k], k))
  <2>1. \A k \in Loggers \ {l} : said[k] = Cat(LinesOf(k), Numbers(buf[k], k))
    BY DEF Contents
  <2> QED BY <1>3, <1>4, <1>5, <1>6, <2>1
<1>8. \A k \in Loggers : \E t \in Seq(Lines) : said'[k] = Cat(LinesOf(k)', t)
  <2>1. \A k \in Loggers \ {l} : \E t \in Seq(Lines) : said[k] = Cat(LinesOf(k), t)
    BY DEF Contents
  <2>2. said'[l] = Cat(LinesOf(l)', <<>>)
    BY <1>4, <1>6
  <2>3. \A k \in Loggers \ {l} : \E t \in Seq(Lines) : said'[k] = Cat(LinesOf(k)', t)
    BY <1>3, <2>1
  <2>4. \E t \in Seq(Lines) : said'[l] = Cat(LinesOf(l)', t)
    BY <1>6, <2>2
  <2> QED BY <2>3, <2>4
<1>9. \A k \in Loggers : state'[k] = "closed" => said'[k] = LinesOf(k)'
  <2>1. \A k \in Loggers \ {l} : state[k] = "closed" => said[k] = LinesOf(k)
    BY DEF Contents
  <2> QED BY <1>3, <1>4, <2>1
<1> QED BY <1>3, <1>4, <1>7, <1>8, <1>9 DEF Contents

\* The backtrace is no line.
LEMMA ContentsTrace ==
  ASSUME Given, Inv, Contents, Trace
  PROVE  Contents' /\ (\A l \in Loggers : LinesOf(l)' = LinesOf(l))
<1>0. PICK l \in Loggers : l = cur
  BY DEF Trace, Inv, Streams, InLogErr
<1>1. l = cur /\ fd[l] # NULL /\ said[l] # <<>>
  BY <1>0 DEF Trace, Inv, Streams, Buffers, InLogErr
<1> DEFINE t == [by |-> l, n |-> Last(said[l]), what |-> "trace"]
           ls == LinesOf(l)
<1>2. Hands(l, <<t>>, buf[l]) /\ t \in Record /\ buf[l] \in Seq(Record)
  BY <1>0, <1>1, TraceHands DEF Trace
<1>3. UNCHANGED <<state, said, buf>> /\ pc # "killed" /\ pc' # "killed"
  BY DEF Trace
<1>4. <<t>> \in Seq(Record) /\ Len(<<t>>) = 1 /\ <<t>>[1] = t
  BY <1>2
<1>5. t.by = l /\ t.what = "trace"
  OBVIOUS
<1> HIDE DEF t
<1>6. \A i \in 1..Len(<<t>>) : <<t>>[i].by = l /\ ~IsLine(<<t>>[i], l)
  BY <1>4, <1>5 DEF IsLine
<1>7. Numbers(<<t>>, l) = <<>>
  <2> HIDE DEF Record
  <2> QED BY <1>4, <1>6, NumbersOfOther
<1>8. /\ LinesOf(l)' = Cat(ls, <<>>)
      /\ \A k \in Loggers \ {l} : LinesOf(k)' = LinesOf(k)
  <2> HIDE DEF Record
  <2> QED BY <1>1, <1>2, <1>4, <1>6, <1>7, HandsLines
<1>9. Cat(ls, <<>>) = ls
  <2>1. ls \in Seq(Lines)
    BY <1>1, LinesOfSeq DEF Inv
  <2> HIDE DEF Lines, ls
  <2> QED BY <2>1, CatFacts
<1>10. \A k \in Loggers : LinesOf(k)' = LinesOf(k)
  BY <1>8, <1>9
<1> QED BY <1>3, <1>10 DEF Contents

LEMMA ContentsSame ==
  ASSUME Given, Inv, Contents, UNCHANGED <<written, said>>, pc' # "killed" => pc # "killed" /\ buf' = buf,
         \A l \in Loggers : state'[l] = "closed" => state[l] = "closed"
  PROVE  Contents' /\ (\A l \in Loggers : LinesOf(l)' = LinesOf(l))
<1>1. \A l \in Loggers : LinesOf(l)' = LinesOf(l)
  BY DEF LinesOf
<1> QED BY <1>1 DEF Contents

LEMMA ContentsNext == Given /\ Inv /\ Contents /\ [Next]_vars => Contents'
<1> SUFFICES ASSUME Given, Inv, Contents, [Next]_vars PROVE Contents'
  OBVIOUS
<1>1. ASSUME NEW l \in Loggers,
             logger_open_stdout(l) \/ logger_open_file(l) \/ open_file_fails(l)
      PROVE  Contents'
  <2>1. /\ UNCHANGED <<written, said, buf, pc>>
        /\ state' = [state EXCEPT ![l] = "open"]
    BY <1>1 DEF logger_open_stdout, logger_open_file, open_file_fails
  <2>2. \A k \in Loggers : state'[k] = "closed" => state[k] = "closed"
    BY <2>1 DEF Inv, TypeOK
  <2> QED BY <2>1, <2>2, ContentsSame
<1>2. ASSUME NEW l \in Loggers, Log(l) \/ LogErr(l)
      PROVE  Contents'
  BY <1>2, ContentsPrint
<1>3. ASSUME NEW l \in Loggers, logger_close(l)
      PROVE  Contents'
  <2>1. /\ fd[l] # NULL /\ pc # "killed" /\ pc' # "killed" /\ said' = said
        /\ written' = Write(fd[l], buf[l]) /\ buf' = [buf EXCEPT ![l] = <<>>]
        /\ \A k \in Loggers \ {l} : state'[k] = state[k]
    BY <1>3 DEF logger_close, Inv, TypeOK
  <2> QED BY <2>1, ContentsEmpty
<1>4. CASE Seek \/ Flush
  <2>1. /\ pc # "killed" /\ pc' # "killed" /\ said' = said /\ state' = state /\ InLogErr
        /\ written' = Write(fd[cur], buf[cur]) /\ buf' = [buf EXCEPT ![cur] = <<>>]
    BY <1>4 DEF Seek, Flush, InLogErr
  <2>2. cur \in Loggers /\ fd[cur] # NULL
    BY <2>1 DEF Inv, Streams
  <2> QED BY <2>1, <2>2, ContentsEmpty
<1>5. CASE Trace
  BY <1>5, ContentsTrace
<1>6. ASSUME NEW l \in Loggers, UseNull(l)
      PROVE  Contents'
  BY <1>6, ContentsSame DEF UseNull
<1>7. CASE Kill
  BY <1>7, ContentsSame DEF Kill
<1>8. CASE UNCHANGED vars
  BY <1>8, ContentsSame DEF vars
<1> QED BY <1>1, <1>2, <1>3, <1>4, <1>5, <1>6, <1>7, <1>8 DEF Next

----------------------------------------------------------------------------
(* A number is given to one line, and an error is reported when its line   *)
(* is in the destination.                                                  *)

Numbered ==
  /\ \A l \in Loggers : \A i \in DOMAIN said[l] : said[l][i] <= NoOfLines
  /\ \A k, l \in Loggers : \A i \in DOMAIN said[k], j \in DOMAIN said[l] :
        said[k][i] = said[l][j] => k = l
  /\ \A n \in reported : n <= NoOfLines

LEMMA PutAt ==
  ASSUME NEW S, NEW s \in Seq(S), NEW e \in S
  PROVE  \A i \in DOMAIN Put(s, e) : \/ i \in DOMAIN s /\ Put(s, e)[i] = s[i]
                                     \/ Put(s, e)[i] = e
<1>1. Len(s) \in Nat /\ DOMAIN s = 1..Len(s)
  BY LenProperties
<1>2. /\ DOMAIN Put(s, e) = 1..Len(s) + 1 /\ Put(s, e)[Len(s) + 1] = e
      /\ \A i \in 1..Len(s) : Put(s, e)[i] = s[i]
  BY AppendProperties, LenProperties DEF Put
<1>3. \A i \in 1..Len(s) + 1 : i \in 1..Len(s) \/ i = Len(s) + 1
  BY <1>1
<1> QED BY <1>1, <1>2, <1>3

LEMMA NumberedInit == Given /\ Init => Numbered /\ ErrorsSurvive
  BY DEF Init, Numbered, ErrorsSurvive

LEMMA NumberedPrint ==
  ASSUME Given, Inv, Contents, Numbered, ErrorsSurvive, NEW l \in Loggers, Log(l) \/ LogErr(l)
  PROVE  Numbered' /\ ErrorsSurvive'
<1> DEFINE n == NoOfLines + 1
<1>0. fd[l] # NULL /\ logger_print(l) /\ reported' = reported
  BY DEF Log, LogErr
<1>1. n \in Lines /\ said' = [said EXCEPT ![l] = Put(said[l], n)] /\ said \in [Loggers -> Seq(Lines)]
  BY <1>0, PrintHands DEF Inv, TypeOK
<1>2. NoOfLines \in Nat /\ NoOfLines' = n
  <2> HIDE DEF Lines
  <2> QED BY <1>1, LinesCounted DEF Inv
<1>3. \A k \in Loggers : \A i \in DOMAIN said'[k] :
         \/ i \in DOMAIN said[k] /\ said'[k][i] = said[k][i] /\ said[k][i] \in Lines /\ said[k][i] < n
         \/ k = l /\ said'[k][i] = n
  <2> SUFFICES ASSUME NEW k \in Loggers, NEW i \in DOMAIN said'[k]
               PROVE  \/ i \in DOMAIN said[k] /\ said'[k][i] = said[k][i] /\ said[k][i] \in Lines
                         /\ said[k][i] < n
                      \/ k = l /\ said'[k][i] = n
    OBVIOUS
  <2>1. ASSUME NEW j \in DOMAIN said[k] PROVE said[k][j] \in Lines /\ said[k][j] < n
    <3>1. said[k][j] \in Lines
      BY <1>1, ElementOfSeq, LenProperties
    <3>2. said[k][j] <= NoOfLines
      BY DEF Numbered
    <3> QED BY <1>2, <3>1, <3>2 DEF Lines
  <2>2. CASE k # l
    BY <1>1, <2>1, <2>2
  <2>3. CASE k = l
    <3>1. said'[k] = Put(said[l], n) /\ said[l] \in Seq(Lines)
      BY <1>1, <2>3
    <3>2. \/ i \in DOMAIN said[l] /\ Put(said[l], n)[i] = said[l][i]
          \/ Put(said[l], n)[i] = n
      <4> HIDE DEF n, Lines
      <4> QED BY <1>1, <3>1, PutAt
    <3> QED BY <2>1, <2>3, <3>1, <3>2
  <2> QED BY <2>2, <2>3
<1>4. \A m \in reported : m \in Lines /\ m < n
  <2>1. \A m \in reported : m \in Lines /\ m <= NoOfLines
    BY DEF Numbered, Inv, TypeOK
  <2> QED BY <1>2, <2>1 DEF Lines
<1>5. \A k \in Loggers : \A i \in DOMAIN said'[k] : said'[k][i] <= NoOfLines'
  BY <1>1, <1>2, <1>3 DEF Lines
<1>6. \A k, j \in Loggers : \A i \in DOMAIN said'[k], h \in DOMAIN said'[j] :
         said'[k][i] = said'[j][h] => k = j
  <2>1. n \in Nat /\ \A m \in Lines : m \in Nat
    BY <1>2 DEF Lines
  <2> HIDE DEF n, Lines
  <2>2. \A m \in Lines : m < n => m # n
    BY <2>1
  <2> QED BY <1>3, <2>2 DEF Numbered
<1>7. \A m \in reported' : m <= NoOfLines'
  BY <1>0, <1>1, <1>2, <1>4 DEF Lines
<1>8. ErrorsSurvive'
  <2> SUFFICES ASSUME NEW k \in Loggers, NEW i \in DOMAIN said'[k], said'[k][i] \in reported
               PROVE  Len(LinesOf(k)') >= i
    BY <1>0 DEF ErrorsSurvive
  <2>1. i \in DOMAIN said[k] /\ said[k][i] \in reported
    BY <1>1, <1>3, <1>4 DEF Lines
  <2>2. Len(LinesOf(k)) >= i
    BY <2>1 DEF ErrorsSurvive
  <2>3. Len(LinesOf(k)) <= Len(LinesOf(k)')
    BY ContentsPrint
  <2>4. i \in Nat /\ Len(LinesOf(k)) \in Nat
    BY <1>1, <2>1, LinesOfSeq, LenProperties DEF Inv
  <2>5. Len(LinesOf(k)') \in Nat
    <3>1. Inv' /\ Given
      BY InvPrint
    <3>2. written'[Dest[k]] \in Seq(Record)
      BY <3>1 DEF Inv, TypeOK, Files
    <3>3. Numbers(written'[Dest[k]], k) \in Seq(Lines)
      <4> HIDE DEF Record, Lines
      <4> QED BY <3>2, NumbersJoin
    <3>4. LinesOf(k)' = Numbers(written'[Dest[k]], k)
      BY DEF LinesOf
    <3> QED BY <3>3, <3>4, LenProperties
  <2> QED BY <2>2, <2>3, <2>4, <2>5
<1> QED BY <1>5, <1>6, <1>7, <1>8 DEF Numbered

\* Nothing was said, and nothing taken out of a destination.
LEMMA NumberedSame ==
  ASSUME Numbered, ErrorsSurvive, UNCHANGED <<said, reported>>,
         \A l \in Loggers : LinesOf(l)' = LinesOf(l) \/ LinesOf(l)' = said[l],
         \A l \in Loggers : said[l] \in Seq(Lines)
  PROVE  Numbered' /\ ErrorsSurvive'
<1>1. NoOfLines' = NoOfLines
  BY DEF NoOfLines
<1>2. Numbered'
  BY <1>1 DEF Numbered
<1>3. ErrorsSurvive'
  <2> SUFFICES ASSUME NEW k \in Loggers, NEW i \in DOMAIN said[k], said[k][i] \in reported
               PROVE  Len(LinesOf(k)') >= i
    BY DEF ErrorsSurvive
  <2>1. CASE LinesOf(k)' = LinesOf(k)
    BY <2>1 DEF ErrorsSurvive
  <2>2. CASE LinesOf(k)' = said[k]
    <3>1. i \in 1..Len(said[k]) /\ Len(said[k]) \in Nat
      BY LenProperties
    <3> QED BY <2>2, <3>1
  <2> QED BY <2>1, <2>2
<1> QED BY <1>2, <1>3

LEMMA NumberedFlush ==
  ASSUME Given, Inv, Contents, Numbered, ErrorsSurvive, Flush
  PROVE  Numbered' /\ ErrorsSurvive'
<1>0. PICK l \in Loggers : l = cur
  BY DEF Flush, Inv, Streams, InLogErr
<1> DEFINE n == Last(said[l])
<1>1. /\ fd[l] # NULL /\ said[l] # <<>> /\ said' = said /\ reported' = reported \cup {n}
      /\ said[l] \in Seq(Lines)
  BY <1>0 DEF Flush, Inv, Streams, Buffers, InLogErr, TypeOK
<1>2. LinesOf(l)' = said[l] /\ \A k \in Loggers \ {l} : LinesOf(k)' = LinesOf(k)
  <2>1. /\ pc # "killed" /\ pc' # "killed" /\ state' = state
        /\ written' = Write(fd[l], buf[l]) /\ buf' = [buf EXCEPT ![l] = <<>>]
    BY <1>0 DEF Flush
  <2> QED BY <1>1, <2>1, ContentsEmpty
<1>3. Len(said[l]) \in DOMAIN said[l] /\ said[l][Len(said[l])] = n
  BY <1>1, EmptySeq, LenProperties DEF Last
<1>4. NoOfLines' = NoOfLines
  BY <1>1 DEF NoOfLines
<1> HIDE DEF n
<1>5. Numbered'
  <2>1. n <= NoOfLines
    BY <1>3 DEF Numbered
  <2> QED BY <1>1, <1>4, <2>1 DEF Numbered
<1>6. ErrorsSurvive'
  <2> SUFFICES ASSUME NEW k \in Loggers, NEW i \in DOMAIN said[k], said[k][i] \in reported \cup {n}
               PROVE  Len(LinesOf(k)') >= i
    BY <1>1 DEF ErrorsSurvive
  <2>1. CASE k = l
    <3>1. i \in 1..Len(said[l]) /\ Len(said[l]) \in Nat
      BY <1>1, <2>1, LenProperties
    <3> QED BY <1>2, <2>1, <3>1
  <2>2. CASE k # l
    <3>1. said[k][i] \in reported
      BY <1>3, <2>2 DEF Numbered
    <3> QED BY <1>2, <2>2, <3>1 DEF ErrorsSurvive
  <2> QED BY <2>1, <2>2
<1> QED BY <1>5, <1>6

LEMMA NumberedNext ==
  Given /\ Inv /\ Contents /\ Numbered /\ ErrorsSurvive /\ [Next]_vars => Numbered' /\ ErrorsSurvive'
<1> SUFFICES ASSUME Given, Inv, Contents, Numbered, ErrorsSurvive, [Next]_vars
             PROVE  Numbered' /\ ErrorsSurvive'
  OBVIOUS
<1>0. \A l \in Loggers : said[l] \in Seq(Lines)
  BY DEF Inv, TypeOK
<1>1. CASE \E l \in Loggers : Log(l) \/ LogErr(l)
  BY <1>1, NumberedPrint
<1>2. CASE Flush
  BY <1>2, NumberedFlush
<1>3. CASE Trace
  <2>1. UNCHANGED <<said, reported>>
    BY <1>3 DEF Trace
  <2> QED BY <1>0, <1>3, <2>1, ContentsTrace, NumberedSame
<1>4. ASSUME NEW l \in Loggers, logger_close(l)
      PROVE  Numbered' /\ ErrorsSurvive'
  <2>1. /\ fd[l] # NULL /\ pc # "killed" /\ pc' # "killed" /\ UNCHANGED <<said, reported>>
        /\ written' = Write(fd[l], buf[l]) /\ buf' = [buf EXCEPT ![l] = <<>>]
        /\ \A k \in Loggers \ {l} : state'[k] = state[k]
    BY <1>4 DEF logger_close, Inv, TypeOK
  <2>2. LinesOf(l)' = said[l] /\ \A k \in Loggers \ {l} : LinesOf(k)' = LinesOf(k)
    BY <2>1, ContentsEmpty
  <2> QED BY <1>0, <2>1, <2>2, NumberedSame
<1>5. CASE Seek
  <2>0. PICK l \in Loggers : l = cur
    BY <1>5 DEF Seek, Inv, Streams, InLogErr
  <2>1. /\ fd[l] # NULL /\ pc # "killed" /\ pc' # "killed" /\ UNCHANGED <<said, reported, state>>
        /\ written' = Write(fd[l], buf[l]) /\ buf' = [buf EXCEPT ![l] = <<>>]
    BY <1>5, <2>0 DEF Seek, Inv, Streams, InLogErr
  <2>2. LinesOf(l)' = said[l] /\ \A k \in Loggers \ {l} : LinesOf(k)' = LinesOf(k)
    BY <2>1, ContentsEmpty
  <2> QED BY <1>0, <2>1, <2>2, NumberedSame
<1>6. CASE UNCHANGED <<written, said, reported>>
  <2>1. \A l \in Loggers : LinesOf(l)' = LinesOf(l)
    BY <1>6 DEF LinesOf
  <2> QED BY <1>0, <1>6, <2>1, NumberedSame
<1>7. \/ \E l \in Loggers : logger_open_stdout(l) \/ logger_open_file(l) \/ open_file_fails(l) \/ UseNull(l)
      \/ Kill \/ UNCHANGED vars
      => UNCHANGED <<written, said, reported>>
  BY DEF logger_open_stdout, logger_open_file, open_file_fails, UseNull, Kill, vars
<1> QED BY <1>1, <1>2, <1>3, <1>4, <1>5, <1>6, <1>7 DEF Next

----------------------------------------------------------------------------
(* A backtrace comes right after the line of its error.                    *)

TracesFollow(rs) == \A k \in 1..Len(rs) :
                       rs[k].what = "trace" => k > 1 /\ rs[k - 1] = [rs[k] EXCEPT !.what = "line"]

\* the line LOG_ERR logged last
ErrorLine(l) == [by |-> l, n |-> Last(said[l]), what |-> "line"]

Behind ==
  /\ \A d \in Files \cup {Console} : TracesFollow(written[d])
  /\ pc = "seek" => \E s \in Seq(Record) : Cat(written[Dest[cur]], buf[cur]) = Put(s, ErrorLine(cur))
  /\ pc = "trace" => \E s \in Seq(Record) : written[Dest[cur]] = Put(s, ErrorLine(cur))

LEMMA FollowLines ==
  ASSUME NEW rs \in Seq(Record), NEW ss \in Seq(Record), TracesFollow(rs),
         \A i \in 1..Len(ss) : ss[i].what = "line"
  PROVE  TracesFollow(Cat(rs, ss))
<1>1. /\ Len(rs) \in Nat /\ Len(ss) \in Nat /\ Len(Cat(rs, ss)) = Len(rs) + Len(ss)
      /\ \A i \in 1..Len(rs) + Len(ss) : Cat(rs, ss)[i] = IF i <= Len(rs) THEN rs[i] ELSE ss[i - Len(rs)]
  BY ConcatProperties, LenProperties DEF Cat
<1> SUFFICES ASSUME NEW k \in 1..Len(rs) + Len(ss), Cat(rs, ss)[k].what = "trace"
             PROVE  k > 1 /\ Cat(rs, ss)[k - 1] = [Cat(rs, ss)[k] EXCEPT !.what = "line"]
  BY <1>1 DEF TracesFollow
<1>2. k <= Len(rs)
  <2> SUFFICES ASSUME ~(k <= Len(rs)) PROVE FALSE
    OBVIOUS
  <2>1. k - Len(rs) \in 1..Len(ss)
    BY <1>1
  <2> QED BY <1>1, <2>1
<1>3. k \in 1..Len(rs) /\ Cat(rs, ss)[k] = rs[k]
  BY <1>1, <1>2
<1>4. k > 1 /\ rs[k - 1] = [rs[k] EXCEPT !.what = "line"]
  BY <1>3 DEF TracesFollow
<1>5. Cat(rs, ss)[k - 1] = rs[k - 1]
  <2>1. k - 1 \in 1..Len(rs) + Len(ss) /\ k - 1 <= Len(rs)
    BY <1>1, <1>2, <1>4
  <2> QED BY <1>1, <2>1
<1> QED BY <1>3, <1>4, <1>5

LEMMA FollowTrace ==
  ASSUME NEW s \in Seq(Record), NEW r \in Record, NEW t \in Record, r = [t EXCEPT !.what = "line"],
         TracesFollow(Put(s, r))
  PROVE  TracesFollow(Cat(Put(s, r), <<t>>))
<1> DEFINE rs == Put(s, r)
           us == Cat(rs, <<t>>)
<1>1. rs \in Seq(Record) /\ Len(rs) = Len(s) + 1 /\ Len(s) \in Nat /\ rs[Len(s) + 1] = r
  BY AppendProperties, LenProperties DEF Put
<1> HIDE DEF rs
<1>2. us = Append(rs, t)
  BY <1>1, AppendIsConcat DEF Cat
<1>3. /\ Len(us) = Len(rs) + 1 /\ us[Len(rs) + 1] = t
      /\ \A i \in 1..Len(rs) : us[i] = rs[i]
  BY <1>1, <1>2, AppendProperties
<1> HIDE DEF us
<1> SUFFICES ASSUME NEW k \in 1..Len(us), us[k].what = "trace"
             PROVE  k > 1 /\ us[k - 1] = [us[k] EXCEPT !.what = "line"]
  BY DEF TracesFollow, us, rs
<1>4. CASE k = Len(rs) + 1
  <2>1. k - 1 = Len(s) + 1 /\ k - 1 \in 1..Len(rs) /\ k > 1
    BY <1>1, <1>4
  <2>2. us[k - 1] = r /\ us[k] = t
    BY <1>1, <1>3, <1>4, <2>1
  <2> QED BY <2>1, <2>2
<1>5. CASE k # Len(rs) + 1
  <2>1. k \in 1..Len(rs) /\ us[k] = rs[k]
    BY <1>1, <1>3, <1>5
  <2>2. k > 1 /\ rs[k - 1] = [rs[k] EXCEPT !.what = "line"]
    BY <2>1 DEF TracesFollow, rs
  <2>3. k - 1 \in 1..Len(rs)
    BY <2>1, <2>2
  <2> QED BY <1>3, <2>1, <2>2, <2>3
<1> QED BY <1>4, <1>5

\* Lines may be written behind what there is.
LEMMA HandsFollow ==
  ASSUME Given, Inv, Behind, NEW l \in Loggers, NEW out \in Seq(Record), NEW rest,
         Hands(l, out, rest), LinesAre(out, l)
  PROVE  \A d \in Files \cup {Console} : TracesFollow(written'[d])
<1>1. /\ written \in [Files \cup {Console} -> Seq(Record)] /\ Dest[l] \in Files \cup {Console}
      /\ \A i \in 1..Len(out) : out[i].what = "line"
  BY DEF Inv, TypeOK, Files, LinesAre, IsLine
<1>2. TracesFollow(Cat(written[Dest[l]], out))
  <2> DEFINE w == written[Dest[l]]
  <2>1. w \in Seq(Record) /\ TracesFollow(w)
    BY <1>1 DEF Behind
  <2> HIDE DEF Record, w
  <2> QED BY <1>1, <2>1, FollowLines DEF w
<1>3. /\ written'[Dest[l]] = Cat(written[Dest[l]], out)
      /\ \A d \in Files \cup {Console} : d # Dest[l] => written'[d] = written[d]
  BY <1>1 DEF Hands
<1> QED BY <1>2, <1>3 DEF Behind

LEMMA BehindInit == Given /\ Init => Behind
<1> SUFFICES ASSUME Given, Init PROVE Behind
  OBVIOUS
<1>1. 1..Len(<<>>) = {}
  OBVIOUS
<1> QED BY <1>1 DEF Init, Behind, TracesFollow

LEMMA BehindPrint ==
  ASSUME Given, Inv, Behind, NEW l \in Loggers, Log(l) \/ LogErr(l)
  PROVE  Behind'
<1> DEFINE b == buf[l]
           w == written[Dest[l]]
           r == NewLine(l)
<1>0. /\ fd[l] # NULL /\ logger_print(l)
      /\ \/ pc' = "ready"
         \/ pc' = "seek" /\ cur' = l
  BY DEF Log, LogErr
<1>1. /\ NoOfLines + 1 \in Lines /\ said' = [said EXCEPT ![l] = Put(said[l], NoOfLines + 1)]
      /\ r \in Record
  BY <1>0, PrintHands
<1>2. PICK out \in Seq(Record), rest \in Seq(Record) :
        Cat(out, rest) = Put(b, r) /\ Hands(l, out, rest) /\ LinesAre(out, l)
  <2> HIDE DEF Record
  <2> QED BY <1>0, PrintHands
<1>3. \A d \in Files \cup {Console} : TracesFollow(written'[d])
  <2> HIDE DEF Record
  <2> QED BY <1>2, HandsFollow
<1>4. ErrorLine(l)' = r
  <2>1. said \in [Loggers -> Seq(Lines)]
    BY DEF Inv, TypeOK
  <2>2. said'[l] = Put(said[l], NoOfLines + 1)
    BY <1>1, <2>1
  <2>3. Last(Put(said[l], NoOfLines + 1)) = NoOfLines + 1
    BY <1>1, <2>1, AppendProperties, LenProperties DEF Last, Put
  <2> QED BY <2>2, <2>3 DEF ErrorLine, NewLine
<1>5. w \in Seq(Record) /\ b \in Seq(Record)
  BY DEF Inv, TypeOK, Files
<1> HIDE DEF b, w, r
<1>6. Cat(Cat(w, out), rest) = Put(Cat(w, b), r) /\ Cat(w, b) \in Seq(Record)
  <2>1. Cat(Cat(w, out), rest) = Cat(w, Cat(out, rest))
    BY <1>2, <1>5, CatAssoc
  <2>2. Put(Cat(w, b), r) = Cat(w, Put(b, r))
    BY <1>1, <1>5, PutCat
  <2>3. Cat(w, b) \in Seq(Record)
    BY <1>5, CatFacts
  <2> QED BY <1>2, <2>1, <2>2, <2>3
<1>7. written'[Dest[l]] = Cat(w, out) /\ buf'[l] = rest
  BY <1>2 DEF Hands, Inv, TypeOK, Files, w
<1>8. pc' = "seek" => \E s \in Seq(Record) : Cat(written'[Dest[cur']], buf'[cur']) = Put(s, ErrorLine(cur)')
  <2> SUFFICES ASSUME cur' = l
               PROVE  \E s \in Seq(Record) : Cat(written'[Dest[cur']], buf'[cur']) = Put(s, ErrorLine(cur)')
    BY <1>0
  <2>1. ErrorLine(cur)' = r
    BY <1>4 DEF ErrorLine
  <2> HIDE DEF Record
  <2> QED BY <1>6, <1>7, <2>1
<1>9. pc' # "trace"
  BY <1>0
<1> QED BY <1>3, <1>8, <1>9 DEF Behind

\* What hands over the whole buffer.
LEMMA BehindEmpty ==
  ASSUME Given, Inv, Behind, Seek \/ Flush \/ \E l \in Loggers : logger_close(l)
  PROVE  Behind'
<1>0. PICK l \in Loggers : /\ fd[l] # NULL /\ written' = Write(fd[l], buf[l])
                           /\ buf' = [buf EXCEPT ![l] = <<>>]
                           /\ said' = said
                           /\ \/ pc' = "ready"
                              \/ pc' = "trace" /\ pc = "seek" /\ l = cur /\ cur' = l
  BY DEF Seek, Flush, logger_close, Inv, Streams, InLogErr
<1> DEFINE b == buf[l]
           w == written[Dest[l]]
<1>1. Hands(l, b, <<>>) /\ LinesAre(b, l) /\ b \in Seq(Record)
  <2> HIDE DEF Record
  <2> QED BY <1>0, EmptyHands
<1>2. \A d \in Files \cup {Console} : TracesFollow(written'[d])
  <2> HIDE DEF Record, b
  <2> QED BY <1>1, HandsFollow
<1>3. written'[Dest[l]] = Cat(w, b)
  BY <1>1 DEF Hands, Inv, TypeOK, Files
<1>4. pc' = "trace" => \E s \in Seq(Record) : written'[Dest[cur']] = Put(s, ErrorLine(cur)')
  <2> SUFFICES ASSUME pc = "seek", l = cur, cur' = l
               PROVE  \E s \in Seq(Record) : written'[Dest[cur']] = Put(s, ErrorLine(cur)')
    BY <1>0
  <2>1. PICK s \in Seq(Record) : Cat(w, b) = Put(s, ErrorLine(cur))
    <3> HIDE DEF Record
    <3> QED BY DEF Behind
  <2>2. ErrorLine(cur)' = ErrorLine(cur)
    BY <1>0 DEF ErrorLine
  <2> HIDE DEF Record, w, b
  <2> QED BY <1>3, <2>1, <2>2
<1> QED BY <1>0, <1>2, <1>4 DEF Behind

LEMMA BehindTrace ==
  ASSUME Given, Inv, Behind, Trace
  PROVE  Behind'
<1>0. PICK l \in Loggers : l = cur /\ fd[l] # NULL /\ said[l] # <<>>
  BY DEF Trace, Inv, Streams, Buffers, InLogErr
<1> DEFINE t == [by |-> l, n |-> Last(said[l]), what |-> "trace"]
           r == ErrorLine(l)
<1>1. Hands(l, <<t>>, buf[l]) /\ t \in Record
  BY <1>0, TraceHands DEF Trace
<1>2. r \in Record /\ r = [t EXCEPT !.what = "line"]
  BY <1>1 DEF ErrorLine, Record
<1>3. PICK s \in Seq(Record) : written[Dest[l]] = Put(s, r)
  <2> HIDE DEF Record
  <2> QED BY <1>0 DEF Behind, Trace
<1>4. written \in [Files \cup {Console} -> Seq(Record)] /\ Dest[l] \in Files \cup {Console}
  BY DEF Inv, TypeOK, Files
<1>5. TracesFollow(Cat(written[Dest[l]], <<t>>))
  <2>1. TracesFollow(Put(s, r))
    BY <1>3, <1>4 DEF Behind
  <2> HIDE DEF r, t, Record
  <2> QED BY <1>1, <1>2, <1>3, <2>1, FollowTrace
<1> HIDE DEF r, t
<1>6. /\ written'[Dest[l]] = Cat(written[Dest[l]], <<t>>)
      /\ \A d \in Files \cup {Console} : d # Dest[l] => written'[d] = written[d]
  BY <1>1, <1>4 DEF Hands
<1>7. \A d \in Files \cup {Console} : TracesFollow(written'[d])
  BY <1>5, <1>6 DEF Behind
<1> QED BY <1>7 DEF Behind, Trace

LEMMA BehindNext == Given /\ Inv /\ Behind /\ [Next]_vars => Behind'
<1> SUFFICES ASSUME Given, Inv, Behind, [Next]_vars PROVE Behind'
  OBVIOUS
<1>1. CASE \E l \in Loggers : Log(l) \/ LogErr(l)
  BY <1>1, BehindPrint
<1>2. CASE Seek \/ Flush \/ \E l \in Loggers : logger_close(l)
  BY <1>2, BehindEmpty
<1>3. CASE Trace
  BY <1>3, BehindTrace
<1>4. CASE \/ \E l \in Loggers : logger_open_stdout(l) \/ logger_open_file(l) \/ open_file_fails(l) \/ UseNull(l)
           \/ Kill
  <2>1. written' = written /\ pc' \in {"ready", "killed"}
    BY <1>4 DEF logger_open_stdout, logger_open_file, open_file_fails, UseNull, Kill
  <2> QED BY <2>1 DEF Behind
<1>5. CASE UNCHANGED vars
  BY <1>5 DEF vars, Behind, ErrorLine
<1> QED BY <1>1, <1>2, <1>3, <1>4, <1>5 DEF Next

\* What the invariants give.
LEMMA LinesHold == Given /\ Inv /\ Contents => LinesInOrder
<1> SUFFICES ASSUME Given, Inv, Contents, NEW l \in Loggers
             PROVE  /\ IsPrefix(LinesOf(l), said[l])
                    /\ state[l] = "closed" => LinesOf(l) = said[l]
  BY DEF LinesInOrder
<1>1. PICK t \in Seq(Lines) : said[l] = Cat(LinesOf(l), t)
  BY DEF Contents
<1>2. LinesOf(l) \in Seq(Lines)
  BY LinesOfSeq DEF Inv
<1>3. IsPrefix(LinesOf(l), Cat(LinesOf(l), t))
  <2> HIDE DEF Lines
  <2> QED BY <1>2, PrefixOfCat
<1> QED BY <1>1, <1>3 DEF Contents

LEMMA TracesHold == Inv /\ Behind => TraceBehindLine
<1> SUFFICES ASSUME Inv, Behind, NEW d \in DOMAIN written, NEW k \in DOMAIN written[d],
                    written[d][k].what = "trace"
             PROVE  k > 1 /\ written[d][k - 1] = [written[d][k] EXCEPT !.what = "line"]
  BY DEF TraceBehindLine
<1>1. d \in Files \cup {Console} /\ written[d] \in Seq(Record)
  BY DEF Inv, TypeOK
<1>2. k \in 1..Len(written[d])
  BY <1>1, LenProperties
<1>3. TracesFollow(written[d])
  BY <1>1 DEF Behind
<1> QED BY <1>2, <1>3 DEF TracesFollow

----------------------------------------------------------------------------
(* The theorems.                                                           *)

\* Every state is well typed.
THEOREM TypeCorrect == Given => (Spec => []TypeOK)
<1> SUFFICES ASSUME Given PROVE Spec => []TypeOK
  OBVIOUS
<1>1. Init => Inv
  BY InvInit
<1>2. Inv /\ [Next]_vars => Inv'
  BY InvNext
<1>3. Inv => TypeOK
  BY DEF Inv
<1> QED BY <1>1, <1>2, <1>3, PTL DEF Spec

\* A destination holds the first lines of each of its loggers, in their order,
\* however their streams share it and whenever each buffer is written, and all
\* of them when the logger was closed.
THEOREM LinesInOrderCorrect == Given => (Spec => []LinesInOrder)
<1> SUFFICES ASSUME Given PROVE Spec => []LinesInOrder
  OBVIOUS
<1>1. Init => Inv /\ Contents
  BY InvInit, ContentsInit
<1>2. Inv /\ Contents /\ [Next]_vars => Inv' /\ Contents'
  BY InvNext, ContentsNext
<1>3. Inv /\ Contents => LinesInOrder
  BY LinesHold
<1> QED BY <1>1, <1>2, <1>3, PTL DEF Spec

\* An error that LOG_ERR has reported is in its destination, and so are the
\* lines its logger was given before, also when the process is killed.
THEOREM ErrorsSurviveCorrect == Given => (Spec => []ErrorsSurvive)
<1> SUFFICES ASSUME Given PROVE Spec => []ErrorsSurvive
  OBVIOUS
<1> DEFINE J == Inv /\ Contents /\ Numbered /\ ErrorsSurvive
<1>1. Init => J
  BY InvInit, ContentsInit, NumberedInit
<1>2. J /\ [Next]_vars => J'
  BY InvNext, ContentsNext, NumberedNext
<1>3. J => ErrorsSurvive
  OBVIOUS
<1> QED BY <1>1, <1>2, <1>3, PTL DEF Spec

\* A backtrace is right behind the line of its error.
THEOREM TraceBehindLineCorrect == Given => (Spec => []TraceBehindLine)
<1> SUFFICES ASSUME Given PROVE Spec => []TraceBehindLine
  OBVIOUS
<1>1. Init => Inv /\ Behind
  BY InvInit, BehindInit
<1>2. Inv /\ Behind /\ [Next]_vars => Inv' /\ Behind'
  BY InvNext, BehindNext
<1>3. Inv /\ Behind => TraceBehindLine
  BY TracesHold
<1> QED BY <1>1, <1>2, <1>3, PTL DEF Spec
=============================================================================
