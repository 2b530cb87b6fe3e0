--------------------------- MODULE ProgramsProofs ---------------------------
(***************************************************************************)
(* Proofs about the small programs, for any files, texts, sessions,        *)
(* responses and values.                                                   *)
(*                                                                         *)
(* The programs share nothing, so each has an invariant of its own, under  *)
(* program = ..., and a lemma that the others' steps leave its variables   *)
(* alone.  The invariant says how far the program is: what it wrote is     *)
(* what it is to write for the part of its input it has passed.  What it   *)
(* is to write is a sequence laid out piece by piece, for which Flat has   *)
(* the facts the community modules state no theorem of.                    *)
(***************************************************************************)
EXTENDS MCPrograms, SumTheorems, SequenceTheorems

----------------------------------------------------------------------------
(* Sequences one behind the other.                                         *)

\* F holds the first m results of laying out the sequences ss, one behind the other.
FlatUpto(F, ss, m) ==
  F = [i \in 1..m |-> IF i = 1 THEN ss[i] ELSE F[i - 1] \o ss[i]]

\* There is such an F, by induction over a set of numbers.
LEMMA FlatExists ==
  ASSUME NEW ss, NEW m \in Nat
  PROVE  \E F : FlatUpto(F, ss, m)
<1> DEFINE T == {k \in Nat : \E F : FlatUpto(F, ss, k)}
<1>1. 0 \in T
  <2>1. FlatUpto([i \in 1..0 |-> <<>>], ss, 0)
    BY DEF FlatUpto
  <2> QED BY <2>1
<1>2. ASSUME NEW k \in Nat, k \in T
      PROVE  k + 1 \in T
  <2>1. PICK F : FlatUpto(F, ss, k)
    BY <1>2
  <2> DEFINE G == [i \in 1..k + 1 |-> IF i \in 1..k THEN F[i]
                                      ELSE IF i = 1 THEN ss[i] ELSE F[i - 1] \o ss[i]]
  <2>2. \A i \in 1..k : F[i] = IF i = 1 THEN ss[i] ELSE F[i - 1] \o ss[i]
    BY <2>1 DEF FlatUpto
  <2>3. \A i \in 1..k + 1 : i # 1 => i - 1 \in 1..k /\ i - 1 \in 1..k + 1
    OBVIOUS
  <2>4. \A i \in 1..k + 1 : i # 1 => G[i - 1] = F[i - 1]
    BY <2>3
  <2>5. ASSUME NEW i \in 1..k + 1
        PROVE  G[i] = IF i = 1 THEN ss[i] ELSE G[i - 1] \o ss[i]
    <3>1. CASE i \in 1..k
      <4>1. G[i] = F[i]
        BY <3>1
      <4> HIDE DEF G
      <4> QED BY <2>2, <2>4, <3>1, <4>1
    <3>2. CASE i \notin 1..k
      <4>1. G[i] = IF i = 1 THEN ss[i] ELSE F[i - 1] \o ss[i]
        BY <3>2
      <4> HIDE DEF G
      <4> QED BY <2>4, <4>1
    <3> QED BY <3>1, <3>2
  <2>6. G = [i \in 1..k + 1 |-> G[i]]
    OBVIOUS
  <2> HIDE DEF G
  <2>7. FlatUpto(G, ss, k + 1)
    BY <2>5, <2>6 DEF FlatUpto
  <2> QED BY <2>7
<1> HIDE DEF T
<1>3. Nat \subseteq T
  BY <1>1, <1>2, NatInductionSet
<1> QED BY <1>3 DEF T

\* The first k of the sequences ss, one behind the other.
Flat(ss, k) == FlattenSeq([i \in 1..k |-> ss[i]])

LEMMA FlatIs ==
  ASSUME NEW S, NEW m \in Nat \ {0}, NEW ss, \A i \in 1..m : ss[i] \in Seq(S)
  PROVE  \E F : FlatUpto(F, ss, m) /\ Flat(ss, m) = F[m]
<1> DEFINE tt == [i \in 1..m |-> ss[i]]
           F == CHOOSE G : FlatUpto(G, tt, m)
<1>1. tt \in Seq(Seq(S)) /\ Len(tt) = m
  OBVIOUS
<1>2. FlattenSeq(tt) = F[m]
  <2> HIDE DEF tt
  <2> QED BY <1>1 DEF FlattenSeq, FlatUpto
<1>3. FlatUpto(F, tt, m)
  <2>1. \E G : FlatUpto(G, tt, m)
    BY FlatExists
  <2> QED BY <2>1
<1> HIDE DEF F
<1>4. FlatUpto(F, ss, m)
  <2>1. F = [i \in 1..m |-> IF i = 1 THEN tt[i] ELSE F[i - 1] \o tt[i]]
    BY <1>3 DEF FlatUpto
  <2>2. \A i \in 1..m : tt[i] = ss[i]
    OBVIOUS
  <2> HIDE DEF tt
  <2>3. [i \in 1..m |-> IF i = 1 THEN tt[i] ELSE F[i - 1] \o tt[i]]
           = [i \in 1..m |-> IF i = 1 THEN ss[i] ELSE F[i - 1] \o ss[i]]
    BY <2>2
  <2> QED BY <2>1, <2>3 DEF FlatUpto
<1> QED BY <1>2, <1>4 DEF Flat

LEMMA FlatEmpty ==
  ASSUME NEW ss
  PROVE  Flat(ss, 0) = <<>>
<1>1. [i \in 1..0 |-> ss[i]] = <<>>
  OBVIOUS
<1> QED BY <1>1, EmptySeq DEF Flat, FlattenSeq

\* Two of them agree.
LEMMA FlatUptoSame ==
  ASSUME NEW ss, NEW j \in Nat, NEW m \in Nat, j <= m, NEW F, FlatUpto(F, ss, j), NEW G, FlatUpto(G, ss, m)
  PROVE  \A i \in 1..j : F[i] = G[i]
<1> DEFINE T == {k \in Nat : k + 1 <= j => F[k + 1] = G[k + 1]}
<1>0. /\ \A i \in 1..j : F[i] = IF i = 1 THEN ss[i] ELSE F[i - 1] \o ss[i]
      /\ \A i \in 1..m : G[i] = IF i = 1 THEN ss[i] ELSE G[i - 1] \o ss[i]
  BY DEF FlatUpto
<1>1. 0 \in T
  BY <1>0
<1>2. ASSUME NEW k \in Nat, k \in T
      PROVE  k + 1 \in T
  <2> SUFFICES ASSUME k + 2 <= j PROVE F[k + 2] = G[k + 2]
    OBVIOUS
  <2>1. F[k + 1] = G[k + 1]
    BY <1>2
  <2>2. k + 2 \in 1..j /\ k + 2 \in 1..m /\ (k + 2) - 1 = k + 1 /\ k + 2 # 1
    OBVIOUS
  <2> QED BY <1>0, <2>1, <2>2
<1> HIDE DEF T
<1>3. Nat \subseteq T
  BY <1>1, <1>2, NatInductionSet
<1>4. ASSUME NEW i \in 1..j PROVE F[i] = G[i]
  <2>1. i - 1 \in Nat /\ (i - 1) + 1 = i
    OBVIOUS
  <2> QED BY <1>3, <2>1 DEF T
<1> QED BY <1>4

LEMMA FlatNext ==
  ASSUME NEW S, NEW k \in Nat, NEW ss, \A i \in 1..k + 1 : ss[i] \in Seq(S), Flat(ss, k) \in Seq(S)
  PROVE  Flat(ss, k + 1) = Flat(ss, k) \o ss[k + 1]
<1>0. k + 1 \in Nat \ {0} /\ k + 1 \in 1..k + 1
  OBVIOUS
<1>1. PICK G : FlatUpto(G, ss, k + 1) /\ Flat(ss, k + 1) = G[k + 1]
  BY <1>0, FlatIs
<1>2. G[k + 1] = IF k + 1 = 1 THEN ss[k + 1] ELSE G[(k + 1) - 1] \o ss[k + 1]
  BY <1>0, <1>1 DEF FlatUpto
<1>3. CASE k = 0
  <2>1. Flat(ss, k + 1) = ss[1]
    BY <1>1, <1>2, <1>3
  <2>2. Flat(ss, k) = <<>>
    BY <1>3, FlatEmpty
  <2>3. ss[1] \in Seq(S) /\ k + 1 = 1
    BY <1>0, <1>3
  <2> QED BY <2>1, <2>2, <2>3, ConcatEmptySeq
<1>4. CASE k # 0
  <2>1. PICK F : FlatUpto(F, ss, k) /\ Flat(ss, k) = F[k]
    BY <1>4, FlatIs
  <2>2. F[k] = G[k]
    BY <1>1, <1>4, <2>1, FlatUptoSame
  <2>3. k + 1 # 1 /\ (k + 1) - 1 = k
    BY <1>4
  <2>4. G[k + 1] = G[k] \o ss[k + 1]
    BY <1>2, <2>3
  <2> QED BY <1>1, <2>1, <2>2, <2>4
<1> QED BY <1>3, <1>4

\* Laying out the first k + 1 sequences is laying out the first k and then the next.
LEMMA FlatFacts ==
  ASSUME NEW S, NEW m \in Nat, NEW ss, \A i \in 1..m : ss[i] \in Seq(S)
  PROVE  /\ Flat(ss, 0) = <<>>
         /\ \A k \in 0..m : Flat(ss, k) \in Seq(S)
         /\ \A k \in 0..m - 1 : Flat(ss, k + 1) = Flat(ss, k) \o ss[k + 1]
<1> DEFINE T == {k \in Nat : k <= m => Flat(ss, k) \in Seq(S)}
<1>0. Flat(ss, 0) = <<>>
  BY FlatEmpty
<1>1. 0 \in T
  BY <1>0, EmptySeq
<1>2. ASSUME NEW k \in Nat, k \in T
      PROVE  k + 1 \in T
  <2> SUFFICES ASSUME k + 1 <= m PROVE Flat(ss, k + 1) \in Seq(S)
    OBVIOUS
  <2>1. Flat(ss, k) \in Seq(S) /\ \A i \in 1..k + 1 : ss[i] \in Seq(S)
    BY <1>2
  <2>2. Flat(ss, k + 1) = Flat(ss, k) \o ss[k + 1]
    BY <2>1, FlatNext
  <2>3. ss[k + 1] \in Seq(S)
    OBVIOUS
  <2> QED BY <2>1, <2>2, <2>3, ConcatProperties
<1> HIDE DEF T
<1>3. Nat \subseteq T
  BY <1>1, <1>2, NatInductionSet
<1>4. \A k \in 0..m : Flat(ss, k) \in Seq(S)
  BY <1>3 DEF T
<1>5. ASSUME NEW k \in 0..m - 1 PROVE Flat(ss, k + 1) = Flat(ss, k) \o ss[k + 1]
  <2>1. k \in Nat /\ k \in 0..m /\ \A i \in 1..k + 1 : ss[i] \in Seq(S)
    OBVIOUS
  <2> QED BY <1>4, <2>1, FlatNext
<1> QED BY <1>0, <1>4, <1>5

----------------------------------------------------------------------------

----------------------------------------------------------------------------
(* weather.  What is printed are the sections of the members passed.       *)

WeatherVars == <<pc, printed, response, chunks, resp, res, members>>

\* The other programs leave the variables of this one alone.
LEMMA WeatherAlone ==
  ASSUME [Next]_vars
  PROVE  /\ program' = program
         /\ program = "weather" => Weather!Next \/ UNCHANGED WeatherVars
BY DEF Next, vars, JpegNext, SumNext, Utf8Next, TelehackNext, LogNext, ListNext, WeatherNext, weatherVars,
   WeatherVars

\* what each member of a response adds to what is printed
Pieces(ms) == [i \in DOMAIN ms |-> IF ms[i] = "other" THEN <<>> ELSE <<ms[i]>>]

\* In between, what is printed is what the members passed add.
WeatherInv ==
  /\ Weather!TypeOK
  /\ Weather!ResponseFits
  /\ res = "error" => pc \notin {"init", "perform"}
  /\ pc \in {"print", "done"} => chunks = Len(response.chunks)
  /\ pc \notin {"print", "done"} => printed = <<>>
  /\ pc = "done" => members = <<>>
  /\ pc \in {"print", "done"} =>
       \E k \in 0..Len(response.members) :
          /\ members = SubSeq(response.members, k + 1, Len(response.members))
          /\ printed = Flat(Pieces(response.members), k)

\* the pieces of a response's members, and the printing of the first k
LEMMA PiecesFacts ==
  ASSUME NEW ms \in Seq({"current_condition", "weather", "other"})
  PROVE  /\ Len(ms) \in Nat
         /\ Flat(Pieces(ms), 0) = <<>>
         /\ \A k \in 0..Len(ms) : Flat(Pieces(ms), k) \in Seq({"current_condition", "weather", "other"})
         /\ \A k \in 0..Len(ms) - 1 : Flat(Pieces(ms), k + 1) = Flat(Pieces(ms), k) \o Pieces(ms)[k + 1]
         /\ Weather!Sections(ms) = Flat(Pieces(ms), Len(ms))
<1> DEFINE M == {"current_condition", "weather", "other"}
<1>1. Len(ms) \in Nat /\ DOMAIN ms = 1..Len(ms) /\ \A i \in 1..Len(ms) : ms[i] \in M
  OBVIOUS
<1> HIDE DEF M
<1>2. \A i \in 1..Len(ms) : Pieces(ms)[i] \in Seq(M)
  <2>1. \A i \in 1..Len(ms) : Pieces(ms)[i] = IF ms[i] = "other" THEN <<>> ELSE <<ms[i]>>
    BY <1>1 DEF Pieces
  <2>2. <<>> \in Seq(M) /\ \A e \in M : <<e>> \in Seq(M)
    OBVIOUS
  <2> QED BY <1>1, <2>1, <2>2
<1>3. /\ Flat(Pieces(ms), 0) = <<>>
      /\ \A k \in 0..Len(ms) : Flat(Pieces(ms), k) \in Seq(M)
      /\ \A k \in 0..Len(ms) - 1 : Flat(Pieces(ms), k + 1) = Flat(Pieces(ms), k) \o Pieces(ms)[k + 1]
  BY <1>1, <1>2, FlatFacts
<1>4. Weather!Sections(ms) = Flat(Pieces(ms), Len(ms))
  <2>0. /\ Pieces(ms) = [i \in 1..Len(ms) |-> IF ms[i] = "other" THEN <<>> ELSE <<ms[i]>>]
        /\ \A i \in 1..Len(ms) : Pieces(ms)[i] = IF ms[i] = "other" THEN <<>> ELSE <<ms[i]>>
    BY <1>1 DEF Pieces
  <2>1. [i \in 1..Len(ms) |-> Pieces(ms)[i]] = Pieces(ms)
    BY <2>0
  <2>2. Flat(Pieces(ms), Len(ms)) = FlattenSeq(Pieces(ms))
    BY <2>1 DEF Flat
  <2>3. Weather!Sections(ms) = Weather!FlattenSeq(Pieces(ms))
    BY DEF Weather!Sections, Pieces
  <2>4. Weather!FlattenSeq(Pieces(ms)) = FlattenSeq(Pieces(ms))
    BY DEF Weather!FlattenSeq, FlattenSeq
  <2> QED BY <2>2, <2>3, <2>4
<1> QED BY <1>1, <1>3, <1>4 DEF M

LEMMA WeatherInit0 ==
  ASSUME Weather!Init
  PROVE  WeatherInv
<1>1. Weather!ResponseAssumption
  BY ConstantsAssumption
<1>2. response \in Responses /\ Len(response.chunks) \in Nat
  BY <1>1 DEF Weather!Init, Weather!ResponseAssumption
<1> QED BY <1>2 DEF Weather!Init, WeatherInv, Weather!TypeOK, Weather!ResponseFits

\* The steps up to the end of the response.
LEMMA WeatherReceive ==
  ASSUME WeatherInv, pc = "perform" \/ pc = "init",
         \/ Weather!curl_easy_init \/ Weather!response_cb \/ Weather!response_cb_fails
         \/ Weather!RequestFails \/ Weather!ResponseEnds
  PROVE  WeatherInv'
<1>1. response \in [chunks : Seq(Nat \ {0}), json : BOOLEAN, members : Seq(Weather!Member)]
  BY ConstantsAssumption DEF Weather!ResponseAssumption, WeatherInv, Weather!TypeOK
<1>2. Len(response.chunks) \in Nat /\ \A i \in 1..Len(response.chunks) : response.chunks[i] \in Nat \ {0}
  BY <1>1
<1>3. chunks \in 0..Len(response.chunks)
  BY DEF WeatherInv, Weather!TypeOK
<1>4. chunks < Len(response.chunks) => chunks + 1 \in 0..Len(response.chunks) /\ response.chunks[chunks + 1] \in Nat
  BY <1>2, <1>3
<1>5. Weather!TypeOK' /\ Weather!ResponseFits'
  <2>1. CASE Weather!curl_easy_init
    BY <2>1 DEF Weather!curl_easy_init, Weather!TypeOK, Weather!ResponseFits, WeatherInv
  <2>2. CASE Weather!response_cb
    BY <1>2, <1>4, <2>2 DEF Weather!response_cb, Weather!real_size, Weather!TypeOK, Weather!ResponseFits, WeatherInv
  <2>3. CASE Weather!response_cb_fails \/ Weather!RequestFails \/ Weather!ResponseEnds
    BY <2>3 DEF Weather!response_cb_fails, Weather!RequestFails, Weather!ResponseEnds,
                Weather!TypeOK, Weather!ResponseFits, WeatherInv
  <2> QED BY <2>1, <2>2, <2>3
<1>6. pc' \notin {"print", "done"} /\ printed' = printed /\ response' = response
  BY DEF Weather!curl_easy_init, Weather!response_cb, Weather!response_cb_fails, Weather!RequestFails, Weather!ResponseEnds
<1>7. res' = "error" => pc' \notin {"init", "perform"}
  BY DEF WeatherInv, Weather!curl_easy_init, Weather!response_cb, Weather!response_cb_fails, Weather!RequestFails, Weather!ResponseEnds
<1> QED BY <1>5, <1>6, <1>7 DEF WeatherInv

\* The steps after it: a member is printed or passed.
LEMMA WeatherPrint ==
  ASSUME WeatherInv, Weather!Parse \/ Weather!ParseFails \/ Weather!PrintMember \/ Weather!Finish
  PROVE  WeatherInv'
<1> DEFINE ms == response.members
           M == {"current_condition", "weather", "other"}
<1>1. response \in [chunks : Seq(Nat \ {0}), json : BOOLEAN, members : Seq(M)]
  BY ConstantsAssumption DEF Weather!ResponseAssumption, WeatherInv, Weather!TypeOK, Weather!Member
<1>2. ms \in Seq(M)
  BY <1>1
<1>3. /\ Len(ms) \in Nat
      /\ Flat(Pieces(ms), 0) = <<>>
      /\ \A k \in 0..Len(ms) - 1 : Flat(Pieces(ms), k + 1) = Flat(Pieces(ms), k) \o Pieces(ms)[k + 1]
  BY <1>2, PiecesFacts
<1>0. UNCHANGED <<response, chunks, resp, res>>
  BY DEF Weather!Parse, Weather!ParseFails, Weather!PrintMember, Weather!Finish
<1>4. CASE Weather!Parse
  <2>1. chunks = Len(response.chunks) /\ printed = <<>> /\ printed' = <<>> /\ res \in {"ok", "error"}
    BY <1>4 DEF Weather!Parse, Weather!IsJson, WeatherInv, Weather!TypeOK
  <2>2. ms = SubSeq(ms, 0 + 1, Len(ms))
    BY <1>2
  <2>3. \E k \in 0..Len(ms) : ms = SubSeq(ms, k + 1, Len(ms)) /\ <<>> = Flat(Pieces(ms), k)
    BY <1>3, <2>2
  <2>4. members' = ms /\ pc' = "print"
    BY <1>4 DEF Weather!Parse
  <2>5. Weather!TypeOK' /\ Weather!ResponseFits'
    BY <1>0, <1>2, <2>1, <2>4 DEF Weather!TypeOK, Weather!ResponseFits, WeatherInv, Weather!Member
  <2> HIDE DEF ms
  <2> QED BY <1>0, <2>1, <2>3, <2>4, <2>5 DEF WeatherInv, ms
<1>5. CASE Weather!ParseFails
  BY <1>0, <1>5 DEF Weather!ParseFails, WeatherInv, Weather!TypeOK, Weather!ResponseFits
<1>6. CASE Weather!PrintMember
  <2>0. /\ pc = "print" /\ pc' = "print" /\ members # <<>> /\ members' = Tail(members)
        /\ printed' = IF Head(members) \in {"current_condition", "weather"}
                      THEN Append(printed, Head(members)) ELSE printed
        /\ members \in Seq(M) /\ printed \in Seq(M)
    BY <1>6 DEF Weather!PrintMember, Weather!Shown, WeatherInv, Weather!TypeOK, Weather!Member
  <2>1. PICK k \in 0..Len(ms) : members = SubSeq(ms, k + 1, Len(ms)) /\ printed = Flat(Pieces(ms), k)
    BY <2>0 DEF WeatherInv
  <2>2. k + 1 \in 0..Len(ms) /\ k \in 0..Len(ms) - 1 /\ k + 1 \in 1..Len(ms)
    <3>1. k # Len(ms)
      BY <1>2, <1>3, <2>0, <2>1, SubSeqEmpty
    <3> QED BY <1>3, <3>1
  <2>3. Head(members) = ms[k + 1] /\ Tail(members) = SubSeq(ms, (k + 1) + 1, Len(ms))
    <3> HIDE DEF ms
    <3>1. Len(ms) \in k + 1..Len(ms)
      BY <1>3, <2>2
    <3> QED BY <1>2, <2>1, <2>2, <3>1, HeadTailOfSubSeq
  <2>4. printed' = Flat(Pieces(ms), k + 1)
    <3>1. Flat(Pieces(ms), k + 1) = printed \o Pieces(ms)[k + 1]
      BY <1>3, <2>1, <2>2
    <3>2. k + 1 \in DOMAIN ms /\ ms[k + 1] \in M
      BY <1>2, <2>2
    <3>3. Pieces(ms)[k + 1] = IF ms[k + 1] = "other" THEN <<>> ELSE <<ms[k + 1]>>
      BY <3>2 DEF Pieces
    <3>4. printed \o <<>> = printed /\ printed \o <<ms[k + 1]>> = Append(printed, ms[k + 1])
      BY <2>0, <3>2
    <3> HIDE DEF ms
    <3> QED BY <2>0, <2>3, <3>1, <3>2, <3>3, <3>4
  <2>5. members' \in Seq(M) /\ printed' \in Seq(M)
    BY <2>0
  <2>6. Weather!TypeOK' /\ Weather!ResponseFits'
    BY <1>0, <2>0, <2>5 DEF Weather!TypeOK, Weather!ResponseFits, WeatherInv, Weather!Member
  <2> HIDE DEF ms
  <2> QED BY <1>0, <2>0, <2>2, <2>3, <2>4, <2>6 DEF WeatherInv, ms
<1>7. CASE Weather!Finish
  BY <1>0, <1>7 DEF Weather!Finish, WeatherInv, Weather!TypeOK, Weather!ResponseFits
<1> QED BY <1>4, <1>5, <1>6, <1>7

LEMMA WeatherStep ==
  ASSUME WeatherInv, Weather!Next \/ UNCHANGED WeatherVars
  PROVE  WeatherInv'
<1>1. CASE UNCHANGED WeatherVars
  BY <1>1 DEF WeatherVars, WeatherInv, Weather!TypeOK, Weather!ResponseFits
<1>2. CASE Weather!Next
  <2>1. CASE Weather!Parse \/ Weather!ParseFails \/ Weather!PrintMember \/ Weather!Finish
    BY <2>1, WeatherPrint
  <2>2. CASE \/ Weather!curl_easy_init \/ Weather!response_cb \/ Weather!response_cb_fails
             \/ Weather!RequestFails \/ Weather!ResponseEnds
    <3>1. pc = "perform" \/ pc = "init"
      BY <2>2 DEF Weather!curl_easy_init, Weather!response_cb, Weather!response_cb_fails,
                  Weather!RequestFails, Weather!ResponseEnds
    <3> QED BY <2>2, <3>1, WeatherReceive
  <2> QED BY <1>2, <2>1, <2>2 DEF Weather!Next
<1> QED BY <1>1, <1>2

\* At the end no member is left, so all sections are printed.
LEMMA WeatherDone ==
  ASSUME WeatherInv
  PROVE  Weather!ShowsWeather
<1> SUFFICES ASSUME pc = "done"
             PROVE  chunks = Len(response.chunks) /\ printed = Weather!Sections(response.members)
  BY DEF Weather!ShowsWeather
<1> DEFINE ms == response.members
<1>1. response \in [chunks : Seq(Nat \ {0}), json : BOOLEAN, members : Seq({"current_condition", "weather", "other"})]
  BY ConstantsAssumption DEF Weather!ResponseAssumption, WeatherInv, Weather!TypeOK, Weather!Member
<1>2. ms \in Seq({"current_condition", "weather", "other"})
  BY <1>1
<1>3. PICK k \in 0..Len(ms) : <<>> = SubSeq(ms, k + 1, Len(ms)) /\ printed = Flat(Pieces(ms), k)
  BY DEF WeatherInv
<1>4. k = Len(ms)
  <2>1. Len(ms) \in Nat /\ \A i \in k + 1..Len(ms) : ms[i] \in {"current_condition", "weather", "other"}
    BY <1>2
  <2>2. Len(SubSeq(ms, k + 1, Len(ms))) = IF k + 1 <= Len(ms) THEN Len(ms) - (k + 1) + 1 ELSE 0
    <3> HIDE DEF ms
    <3> QED BY <2>1, SubSeqProperties
  <2>3. Len(<<>>) = 0
    OBVIOUS
  <2>4. Len(SubSeq(ms, k + 1, Len(ms))) = 0
    BY <1>3, <2>3
  <2>5. k \in 0..Len(ms)
    OBVIOUS
  <2> HIDE DEF ms
  <2> QED BY <2>1, <2>2, <2>4, <2>5
<1>5. Weather!Sections(ms) = Flat(Pieces(ms), Len(ms))
  BY <1>2, PiecesFacts
<1> QED BY <1>3, <1>4, <1>5 DEF WeatherInv

\* weather, for every response: the chunks and the NUL fit in what response_cb
\* allocated, and the sections of a whole response, all of them and in their order,
\* are what is shown (weather/src/main.c: response_cb, print_weather).
THEOREM ShowsWeatherCorrect == Spec => []ShowsWeather
<1> DEFINE J == program = "weather" => WeatherInv
<1>1. Init => J
  <2> SUFFICES ASSUME Init, program = "weather" PROVE WeatherInv
    OBVIOUS
  <2>1. Weather!Init
    BY DEF Init, JpegInit, SumInit, Utf8Init, TelehackInit, LogInit, ListInit, WeatherInit
  <2> QED BY <2>1, WeatherInit0
<1>2. J /\ [Next]_vars => J'
  BY WeatherAlone, WeatherStep DEF WeatherVars
<1>3. J => ShowsWeather
  BY WeatherDone DEF ShowsWeather, WeatherInv
<1> QED BY <1>1, <1>2, <1>3, PTL DEF Spec

----------------------------------------------------------------------------
(* logger: what LoggerProofs shows, of the loggers of this module.         *)

LP == INSTANCE LoggerProofs WITH Loggers <- {l1, l2, l3}, BufSz <- 2, MaxLines <- 3

\* at most one of the loggers is on the console
ConsoleOnce == LP!ConsoleOnce

\* What LoggerProofs assumes is what the assumptions of Logger say.
LEMMA LogGiven == ConsoleOnce => LP!Given
<1>1. Log!LoggerAssumption /\ Log!BoundAssumption
  BY ConstantsAssumption
<1>2. LP!LoggerAssumption
  BY <1>1 DEF Log!LoggerAssumption, LP!LoggerAssumption, Log!IsFiniteSet, LP!IsFiniteSet
<1>3. LP!BoundAssumption
  BY <1>1 DEF Log!BoundAssumption, LP!BoundAssumption
<1> QED BY <1>2, <1>3 DEF LP!Given, ConsoleOnce

\* The two instances are of one module: what differs is the name of the library's
\* operators they bring along, so their actions are shown to be the same.
LEMMA LogSameInit == Log!Init => LP!Init
BY DEF Log!Init, LP!Init, Log!Fds, LP!Fds, Log!Files, LP!Files, Log!NULL, LP!NULL,
       Log!Cardinality, LP!Cardinality

LEMMA LogSamePrint == \A l : Log!logger_print(l) => LP!logger_print(l)
BY DEF Log!logger_print, LP!logger_print, Log!NoOfLines, LP!NoOfLines, Log!Total, LP!Total,
       Log!MapThenSumSet, LP!MapThenSumSet, Log!MapThenFoldSet, LP!MapThenFoldSet,
       Log!Write, LP!Write, Log!NULL, LP!NULL

LEMMA LogSameOpen ==
  \A l : /\ Log!logger_open_stdout(l) => LP!logger_open_stdout(l)
         /\ Log!logger_open_file(l) => LP!logger_open_file(l)
         /\ Log!open_file_fails(l) => LP!open_file_fails(l)
<1>1. \A l : Log!logger_open_stdout(l) => LP!logger_open_stdout(l)
  BY DEF Log!logger_open_stdout, LP!logger_open_stdout, Log!NULL, LP!NULL
<1>2. \A l : Log!logger_open_file(l) => LP!logger_open_file(l)
  BY DEF Log!logger_open_file, LP!logger_open_file, Log!Fds, LP!Fds, Log!Min, LP!Min,
         Log!Cardinality, LP!Cardinality
<1>3. \A l : Log!open_file_fails(l) => LP!open_file_fails(l)
  BY DEF Log!open_file_fails, LP!open_file_fails
<1> QED BY <1>1, <1>2, <1>3

LEMMA LogSameStep ==
  /\ \A l : /\ Log!Log(l) => LP!Log(l)
            /\ Log!LogErr(l) => LP!LogErr(l)
            /\ Log!logger_close(l) => LP!logger_close(l)
            /\ Log!UseNull(l) => LP!UseNull(l)
  /\ Log!Seek => LP!Seek
  /\ Log!Trace => LP!Trace
  /\ Log!Flush => LP!Flush
  /\ Log!Kill => LP!Kill
<1>1. \A l : /\ Log!Log(l) => LP!Log(l)
             /\ Log!LogErr(l) => LP!LogErr(l)
  BY LogSamePrint DEF Log!Log, LP!Log, Log!LogErr, LP!LogErr, Log!NULL, LP!NULL
<1>2. \A l : /\ Log!logger_close(l) => LP!logger_close(l)
             /\ Log!UseNull(l) => LP!UseNull(l)
  BY DEF Log!logger_close, LP!logger_close, Log!UseNull, LP!UseNull, Log!Write, LP!Write, Log!NULL, LP!NULL
<1>3. (Log!Seek => LP!Seek) /\ (Log!Kill => LP!Kill)
  BY DEF Log!Seek, LP!Seek, Log!Kill, LP!Kill, Log!Write, LP!Write, Log!NULL, LP!NULL
<1>4. (Log!Trace => LP!Trace) /\ (Log!Flush => LP!Flush)
  BY DEF Log!Trace, LP!Trace, Log!Flush, LP!Flush, Log!Write, LP!Write, Log!NULL, LP!NULL, Log!Last, LP!Last
<1> QED BY <1>1, <1>2, <1>3, <1>4

LEMMA LogSameNext == Log!Next => LP!Next
BY LogSameOpen, LogSameStep DEF Log!Next, LP!Next

\* A step of any program is one of LoggerProofs or leaves the logger alone.
LEMMA LogAlone ==
  ASSUME [Next]_vars
  PROVE  program' = program /\ (program = "logger" => [LP!Next]_(LP!vars))
<1>1. program' = program /\ (program = "logger" => Log!Next \/ UNCHANGED <<fds, state, fd, buf, written, said, reported, pc, cur>>)
  BY DEF Next, vars, JpegNext, SumNext, Utf8Next, TelehackNext, LogNext, ListNext, WeatherNext, loggerVars
<1> QED BY <1>1, LogSameNext DEF LP!vars

\* What was written, as Logger and LoggerProofs have it.
LEMMA LogSameLines == \A l : Log!LinesOf(l) = LP!LinesOf(l)
BY DEF Log!LinesOf, LP!LinesOf, Log!Numbers, LP!Numbers

LEMMA LogSameProperties ==
  /\ LP!TypeOK => Log!TypeOK
  /\ LP!LinesInOrder => Log!LinesInOrder
  /\ LP!ErrorsSurvive => Log!ErrorsSurvive
  /\ LP!TraceBehindLine => Log!TraceBehindLine
<1>1. LP!TypeOK => Log!TypeOK
  BY DEF Log!TypeOK, LP!TypeOK, Log!Fds, LP!Fds, Log!Files, LP!Files, Log!NULL, LP!NULL,
         Log!Record, LP!Record, Log!Lines, LP!Lines, Log!Cardinality, LP!Cardinality
<1>2. LP!LinesInOrder => Log!LinesInOrder
  BY LogSameLines DEF Log!LinesInOrder, LP!LinesInOrder, Log!IsPrefix, LP!IsPrefix
<1>3. LP!ErrorsSurvive => Log!ErrorsSurvive
  BY LogSameLines DEF Log!ErrorsSurvive, LP!ErrorsSurvive
<1>4. LP!TraceBehindLine => Log!TraceBehindLine
  BY DEF Log!TraceBehindLine, LP!TraceBehindLine
<1> QED BY <1>1, <1>2, <1>3, <1>4

\* what LoggerProofs shows to be inductive
LogInv == LP!Inv /\ LP!Contents /\ LP!Numbered /\ LP!ErrorsSurvive /\ LP!Behind

LEMMA LogInvAlways == ConsoleOnce => (Spec => [](program = "logger" => LogInv))
<1> SUFFICES ASSUME ConsoleOnce PROVE Spec => [](program = "logger" => LogInv)
  OBVIOUS
<1> DEFINE J == program = "logger" => LogInv
<1>0. LP!Given
  BY LogGiven
<1>1. Init => J
  <2> SUFFICES ASSUME Init, program = "logger" PROVE LogInv
    OBVIOUS
  <2>1. Log!Init
    BY DEF Init, JpegInit, SumInit, Utf8Init, TelehackInit, LogInit, ListInit, WeatherInit
  <2> QED BY <1>0, <2>1, LogSameInit, LP!InvInit, LP!ContentsInit, LP!NumberedInit, LP!BehindInit DEF LogInv
<1>2. J /\ [Next]_vars => J'
  <2> SUFFICES ASSUME J, [Next]_vars, program' = "logger" PROVE LogInv'
    OBVIOUS
  <2>1. LogInv /\ [LP!Next]_(LP!vars)
    BY LogAlone
  <2> QED BY <1>0, <2>1, LP!InvNext, LP!ContentsNext, LP!NumberedNext, LP!BehindNext DEF LogInv
<1> QED BY <1>1, <1>2, PTL DEF Spec

\* logger, with at most one logger on the console: a destination holds a prefix of
\* every logger's lines in their order, however the loggers interleave, and all of
\* them once the logger is closed (logger/src/logger.c).
THEOREM LinesInOrderCorrect == ConsoleOnce => (Spec => []LinesInOrder)
<1> SUFFICES ASSUME ConsoleOnce PROVE Spec => []LinesInOrder
  OBVIOUS
<1>1. (program = "logger" => LogInv) => LinesInOrder
  BY LogSameProperties, LP!LinesHold, LogGiven DEF LinesInOrder, LogInv, LP!Inv
<1> QED BY <1>1, LogInvAlways, PTL

\* logger, with at most one logger on the console: an error is in the file once
\* LOG_ERR has returned, also after a kill, and its backtrace, which is written
\* past the buffer of the stream, is directly behind it.
THEOREM ErrorsSurviveCorrect == ConsoleOnce => (Spec => []ErrorsSurvive)
<1> SUFFICES ASSUME ConsoleOnce PROVE Spec => []ErrorsSurvive
  OBVIOUS
<1>1. (program = "logger" => LogInv) => ErrorsSurvive
  BY LogSameProperties, LP!TracesHold, LogGiven DEF ErrorsSurvive, LogInv
<1> QED BY <1>1, LogInvAlways, PTL

----------------------------------------------------------------------------
(* telehack_clt.  What was said and not read yet follows what is in the    *)
(* buffer that is read into.                                               *)

TelehackVars == <<session, spoken, conn, wire, tried, prompt_buf, recv_buf, cmd_sent, printed, pc>>

\* the kinds of characters the client tells apart
Kinds == {"cr", "lf", "dot", "other"}

\* No beginning of t ends in a prompt.
PromptAtEndOnly(t) == \A k \in 1..Len(t) - 1 : ~Telehack!EndsInPrompt(SubSeq(t, 1, k))

\* Neither what the server greets with nor what it answers holds a prompt before
\* the one it ends in.
OnePromptEach == \A s \in Sessions : PromptAtEndOnly(Telehack!Banner(s)) /\ PromptAtEndOnly(Telehack!Answer(s))

\* s is the beginning of t, and w what follows
Follows(s, w, t) ==
  /\ Len(s) + Len(w) <= Len(t)
  /\ \A i \in 1..Len(s) : s[i] = t[i]
  /\ \A i \in 1..Len(w) : w[i] = t[Len(s) + i]

\* What is read and what is left, as characters are taken one at a time.
LEMMA FollowsStart ==
  ASSUME NEW S, NEW t \in Seq(S)
  PROVE  Follows(<<>>, t, t)
<1>1. Len(<<>>) = 0 /\ Len(t) \in Nat
  BY EmptySeq
<1> QED BY <1>1 DEF Follows

LEMMA FollowsTake ==
  ASSUME NEW S, NEW s \in Seq(S), NEW w \in Seq(S), NEW t \in Seq(S), Follows(s, w, t), w # <<>>
  PROVE  /\ Follows(Append(s, Head(w)), Tail(w), t)
         /\ Append(s, Head(w)) \in Seq(S) /\ Tail(w) \in Seq(S)
         /\ Len(Append(s, Head(w))) = Len(s) + 1 /\ Len(Tail(w)) = Len(w) - 1
<1> DEFINE r == Append(s, Head(w))
           v == Tail(w)
<1>1. /\ Len(w) \in Nat \ {0} /\ Len(s) \in Nat /\ Len(t) \in Nat
      /\ Head(w) = w[1] /\ Head(w) \in S
      /\ v \in Seq(S) /\ Len(v) = Len(w) - 1 /\ \A i \in 1..Len(w) - 1 : v[i] = w[i + 1]
  BY EmptySeq, HeadTailProperties, LenProperties
<1>2. r \in Seq(S) /\ Len(r) = Len(s) + 1 /\ r[Len(s) + 1] = Head(w) /\ \A i \in 1..Len(s) : r[i] = s[i]
  BY <1>1, AppendProperties
<1> HIDE DEF r, v
<1>3. Len(r) + Len(v) <= Len(t)
  BY <1>1, <1>2 DEF Follows
<1>4. ASSUME NEW i \in 1..Len(r) PROVE r[i] = t[i]
  <2>1. CASE i = Len(s) + 1
    BY <1>1, <1>2, <2>1 DEF Follows
  <2>2. CASE i # Len(s) + 1
    BY <1>1, <1>2, <2>2 DEF Follows
  <2> QED BY <2>1, <2>2
<1>5. ASSUME NEW i \in 1..Len(v) PROVE v[i] = t[Len(r) + i]
  <2>1. i \in 1..Len(w) - 1 /\ i + 1 \in 1..Len(w) /\ Len(r) + i = Len(s) + (i + 1)
    BY <1>1, <1>2
  <2> QED BY <1>1, <2>1 DEF Follows
<1> QED BY <1>1, <1>2, <1>3, <1>4, <1>5 DEF Follows, r, v

LEMMA FollowsCut ==
  ASSUME NEW S, NEW s \in Seq(S), NEW w \in Seq(S), NEW t \in Seq(S), Follows(s, w, t), NEW k \in 0..Len(w)
  PROVE  Follows(s, SubSeq(w, 1, k), t) /\ SubSeq(w, 1, k) \in Seq(S)
<1>1. Len(w) \in Nat /\ Len(s) \in Nat /\ Len(t) \in Nat /\ \A i \in 1..k : w[i] \in S
  BY LenProperties, ElementOfSeq
<1>2. /\ SubSeq(w, 1, k) \in Seq(S)
      /\ Len(SubSeq(w, 1, k)) = k
      /\ \A i \in 1..k : SubSeq(w, 1, k)[i] = w[i]
  BY <1>1, SubSeqProperties
<1> QED BY <1>1, <1>2 DEF Follows

\* A whole prompt is at the end: what is read then is all there is.
LEMMA FollowsEnd ==
  ASSUME NEW s \in Seq(Kinds), NEW w \in Seq(Kinds), NEW t \in Seq(Kinds), Follows(s, w, t),
         Len(s) + Len(w) = Len(t), PromptAtEndOnly(t), Telehack!EndsInPrompt(s)
  PROVE  s = t /\ w = <<>>
<1>1. Len(s) \in Nat /\ Len(w) \in Nat /\ Len(t) \in Nat /\ Len(s) >= 3
  BY LenProperties DEF Telehack!EndsInPrompt, Telehack!PROMPT_SZ
<1>2. Len(s) = Len(t)
  <2> SUFFICES ASSUME Len(s) < Len(t) PROVE FALSE
    BY <1>1
  <2>1. Len(s) \in 1..Len(t) - 1 /\ \A i \in 1..Len(s) : t[i] \in Kinds
    BY <1>1
  <2>2. /\ SubSeq(t, 1, Len(s)) \in Seq(Kinds)
        /\ Len(SubSeq(t, 1, Len(s))) = Len(s)
        /\ \A i \in 1..Len(s) : SubSeq(t, 1, Len(s))[i] = t[i]
    BY <1>1, <2>1, SubSeqProperties
  <2>3. SubSeq(t, 1, Len(s)) = s
    BY <1>1, <2>2, SeqEqual DEF Follows
  <2> QED BY <2>1, <2>3 DEF PromptAtEndOnly
<1>3. s = t
  BY <1>1, <1>2, SeqEqual DEF Follows
<1>4. w = <<>>
  BY <1>1, <1>2, EmptySeq
<1> QED BY <1>3, <1>4

\* What the server says, and where the text is in its answer.
LEMMA ServerSays ==
  ASSUME NEW s \in [banner : Seq(Kinds), text : Seq(Kinds)]
  PROVE  /\ Telehack!Banner(s) \in Seq(Kinds)
         /\ Telehack!Answer(s) \in Seq(Kinds)
         /\ s.text \in Seq(Kinds) /\ Len(s.text) \in Nat
         /\ Len(Telehack!Answer(s)) = Len(s.text) + 6
         /\ \A i \in 1..Len(s.text) : Telehack!Answer(s)[i + 2] = s.text[i]
<1> DEFINE b == s.banner
           x == s.text
           echo == Telehack!Echo
           prompt == Telehack!PROMPT
<1>1. b \in Seq(Kinds) /\ x \in Seq(Kinds)
  OBVIOUS
<1>2. prompt \in Seq(Kinds) /\ Len(prompt) = 3
  BY DEF Telehack!PROMPT, Kinds
<1>3. echo \in Seq(Kinds) /\ Len(echo) = 2
  BY DEF Telehack!Echo, Kinds
<1>4. <<"other">> \in Seq(Kinds) /\ Len(<<"other">>) = 1
  BY DEF Kinds
<1> HIDE DEF b, x, echo, prompt
<1>5. b \o prompt \in Seq(Kinds)
  BY <1>1, <1>2, ConcatProperties
<1> DEFINE u == echo \o x
<1>6. /\ u \in Seq(Kinds) /\ Len(u) = Len(x) + 2 /\ Len(x) \in Nat
      /\ \A i \in 1..Len(x) : u[i + 2] = x[i]
  <2>1. /\ u \in Seq(Kinds) /\ Len(u) = Len(echo) + Len(x)
        /\ \A i \in 1..Len(echo) + Len(x) : u[i] = IF i <= Len(echo) THEN echo[i] ELSE x[i - Len(echo)]
    BY <1>1, <1>3, ConcatProperties
  <2>2. Len(x) \in Nat
    BY <1>1, LenProperties
  <2> HIDE DEF u
  <2>3. ASSUME NEW i \in 1..Len(x) PROVE u[i + 2] = x[i]
    <3>1. i + 2 \in 1..Len(echo) + Len(x) /\ ~(i + 2 <= Len(echo)) /\ (i + 2) - Len(echo) = i
      BY <1>3, <2>2
    <3> QED BY <2>1, <3>1
  <2> QED BY <1>3, <2>1, <2>2, <2>3
<1> HIDE DEF u
<1> DEFINE v == u \o <<"other">>
<1>7. /\ v \in Seq(Kinds) /\ Len(v) = Len(x) + 3
      /\ \A i \in 1..Len(x) : v[i + 2] = x[i]
  <2>1. v \in Seq(Kinds) /\ Len(v) = Len(u) + 1 /\ \A i \in 1..Len(u) + 1 : v[i] = IF i <= Len(u) THEN u[i] ELSE <<"other">>[i - Len(u)]
    BY <1>4, <1>6, ConcatProperties
  <2> HIDE DEF v
  <2>2. \A i \in 1..Len(x) : i + 2 \in 1..Len(u) + 1 /\ i + 2 <= Len(u)
    BY <1>6
  <2> QED BY <1>6, <2>1, <2>2
<1> HIDE DEF v
<1> DEFINE a == v \o prompt
<1>8. /\ a \in Seq(Kinds) /\ Len(a) = Len(x) + 6
      /\ \A i \in 1..Len(x) : a[i + 2] = x[i]
  <2>1. /\ a \in Seq(Kinds) /\ Len(a) = Len(v) + Len(prompt)
        /\ \A i \in 1..Len(v) + Len(prompt) : a[i] = IF i <= Len(v) THEN v[i] ELSE prompt[i - Len(v)]
    BY <1>2, <1>7, ConcatProperties
  <2> HIDE DEF a
  <2>2. \A i \in 1..Len(x) : i + 2 \in 1..Len(v) + Len(prompt) /\ i + 2 <= Len(v)
    BY <1>2, <1>6, <1>7
  <2> QED BY <1>2, <1>6, <1>7, <2>1, <2>2
<1>9. Telehack!Answer(s) = a
  BY DEF Telehack!Answer, a, v, u, echo, x, prompt
<1>10. Telehack!Banner(s) = b \o prompt
  BY DEF Telehack!Banner, b, prompt
<1> HIDE DEF a
<1> QED BY <1>1, <1>5, <1>6, <1>8, <1>9, <1>10 DEF x

\* While the connection lasts, the buffers and the wire hold together what the
\* server said; with the prompts at the ends, the answer is whole when it is cut.
TelehackInv ==
  /\ Telehack!TypeOK
  /\ Telehack!AnswerFits
  /\ Telehack!WildOnlyIfCutShort
  /\ conn = "reset" => wire = <<>>
  /\ pc \in {"resolve", "connect"} =>
       spoken = "nothing" /\ wire = <<>> /\ prompt_buf = <<>> /\ conn = "open"
  /\ pc \in {"resolve", "connect", "prompt", "send"} => recv_buf = <<>> /\ ~cmd_sent
  /\ pc = "prompt" => /\ spoken \in {"nothing", "banner"}
                      /\ spoken = "nothing" => prompt_buf = <<>> /\ wire = <<>>
                      /\ spoken = "banner" => Follows(prompt_buf, wire, Telehack!Banner(session))
                      /\ spoken = "banner" /\ conn = "open" =>
                           Len(prompt_buf) + Len(wire) = Len(Telehack!Banner(session))
  /\ pc = "send" /\ conn = "open" => spoken = "banner" /\ wire = <<>>
  /\ pc = "recv" /\ conn = "open" =>
       \/ spoken = "banner" /\ recv_buf = <<>> /\ wire = <<>>
       \/ /\ spoken = "answer" /\ Follows(recv_buf, wire, Telehack!Answer(session))
          /\ Len(recv_buf) + Len(wire) = Len(Telehack!Answer(session))
  /\ pc = "cut" /\ conn = "open" => recv_buf = Telehack!Answer(session)
  /\ pc = "done" /\ conn = "open" => printed = session.text

LEMMA TelehackTyped ==
  ASSUME Telehack!TypeOK
  PROVE  /\ session \in Sessions /\ session \in [banner : Seq(Kinds), text : Seq(Kinds)]
         /\ wire \in Seq(Kinds) /\ prompt_buf \in Seq(Kinds) /\ recv_buf \in Seq(Kinds)
         /\ Len(wire) \in Nat /\ Len(prompt_buf) \in Nat /\ Len(recv_buf) \in Nat
<1>1. Sessions \subseteq [banner : Seq(Kinds), text : Seq(Kinds)]
  BY ConstantsAssumption DEF Telehack!SessionAssumption, Telehack!Char, Kinds
<1>2. wire \in Seq(Kinds) /\ prompt_buf \in Seq(Kinds) /\ recv_buf \in Seq(Kinds) /\ session \in Sessions
  BY DEF Telehack!TypeOK, Telehack!Char, Kinds
<1> HIDE DEF Kinds
<1> QED BY <1>1, <1>2, LenProperties

LEMMA TelehackInit0 ==
  ASSUME Telehack!Init
  PROVE  TelehackInv
<1>1. Len(<<>>) = 0 /\ <<>> \in Seq(Telehack!Char)
  OBVIOUS
<1>2. Telehack!TypeOK
  <2>1. tried \in 0..2
    BY DEF Telehack!Init
  <2>2. cmd_sent \in BOOLEAN
    BY DEF Telehack!Init
  <2> QED BY <1>1, <2>1, <2>2 DEF Telehack!Init, Telehack!TypeOK
<1>3. Telehack!AnswerFits /\ Telehack!WildOnlyIfCutShort
  BY <1>1 DEF Telehack!Init, Telehack!AnswerFits, Telehack!WildOnlyIfCutShort
<1> QED BY <1>2, <1>3 DEF Telehack!Init, TelehackInv

\* The server speaks.
LEMMA TelehackSay ==
  ASSUME TelehackInv, Telehack!SayBanner \/ Telehack!SayAnswer
  PROVE  TelehackInv'
<1> DEFINE B == Telehack!Banner(session)
           A == Telehack!Answer(session)
<1>1. /\ session \in [banner : Seq(Kinds), text : Seq(Kinds)]
      /\ wire \in Seq(Kinds) /\ prompt_buf \in Seq(Kinds) /\ recv_buf \in Seq(Kinds)
  BY TelehackTyped DEF TelehackInv
<1>2. B \in Seq(Kinds) /\ A \in Seq(Kinds)
  BY <1>1, ServerSays
<1>3. wire \o B \in Seq(Kinds) /\ wire \o A \in Seq(Kinds) /\ <<>> \o B = B /\ <<>> \o A = A
  <2> HIDE DEF A, B
  <2> QED BY <1>1, <1>2, ConcatProperties, ConcatEmptySeq
<1>4. Follows(<<>>, B, B) /\ Follows(<<>>, A, A) /\ Len(<<>>) = 0 /\ Len(A) \in Nat /\ Len(B) \in Nat
  <2> HIDE DEF A, B
  <2> QED BY <1>2, FollowsStart, LenProperties, EmptySeq
<1>0. /\ UNCHANGED <<session, conn, tried, prompt_buf, recv_buf, cmd_sent, printed, pc>>
      /\ conn = "open" /\ pc \in {"prompt", "send", "recv"}
  BY DEF Telehack!SayBanner, Telehack!SayAnswer, Telehack!client, Telehack!Connected
<1>5. Telehack!Banner(session)' = B /\ Telehack!Answer(session)' = A
  BY <1>0 DEF Telehack!Banner, Telehack!Answer
<1> HIDE DEF A, B
<1>6. Telehack!TypeOK'
  <2>1. wire' \in Seq(Kinds) /\ spoken' \in {"nothing", "banner", "answer"}
    BY <1>3 DEF Telehack!SayBanner, Telehack!SayAnswer, A, B
  <2> QED BY <1>0, <2>1 DEF Telehack!TypeOK, TelehackInv, Telehack!Char, Kinds
<1>7. CASE Telehack!SayBanner
  <2>1. spoken = "nothing" /\ spoken' = "banner" /\ wire' = wire \o B
    BY <1>7 DEF Telehack!SayBanner, B
  <2>2. pc = "prompt"
    BY <1>0, <2>1 DEF TelehackInv
  <2>3. prompt_buf = <<>> /\ wire = <<>>
    BY <2>1, <2>2 DEF TelehackInv
  <2>4. wire' = B
    BY <1>3, <2>1, <2>3
  <2> QED BY <1>0, <1>4, <1>5, <1>6, <2>1, <2>2, <2>3, <2>4
          DEF TelehackInv, Telehack!AnswerFits, Telehack!WildOnlyIfCutShort
<1>8. CASE Telehack!SayAnswer
  <2>1. spoken = "banner" /\ spoken' = "answer" /\ wire' = wire \o A /\ cmd_sent
    BY <1>8 DEF Telehack!SayAnswer, A
  <2>2. pc = "recv"
    BY <1>0, <2>1 DEF TelehackInv
  <2>3. recv_buf = <<>> /\ wire = <<>>
    BY <1>0, <2>1, <2>2 DEF TelehackInv
  <2>4. wire' = A
    BY <1>3, <2>1, <2>3
  <2> QED BY <1>0, <1>4, <1>5, <1>6, <2>1, <2>2, <2>3, <2>4
          DEF TelehackInv, Telehack!AnswerFits, Telehack!WildOnlyIfCutShort
<1> QED BY <1>7, <1>8

\* The server ends the connection.
LEMMA TelehackEnd ==
  ASSUME TelehackInv, Telehack!Fin \/ Telehack!Reset
  PROVE  TelehackInv'
<1> DEFINE B == Telehack!Banner(session)
           A == Telehack!Answer(session)
<1>1. /\ session \in [banner : Seq(Kinds), text : Seq(Kinds)]
      /\ wire \in Seq(Kinds) /\ prompt_buf \in Seq(Kinds) /\ recv_buf \in Seq(Kinds)
      /\ Len(wire) \in Nat /\ Len(prompt_buf) \in Nat
  BY TelehackTyped DEF TelehackInv
<1>2. B \in Seq(Kinds) /\ A \in Seq(Kinds)
  BY <1>1, ServerSays
<1>0. /\ UNCHANGED <<session, spoken, tried, prompt_buf, recv_buf, cmd_sent, printed, pc>>
      /\ pc \in {"prompt", "send", "recv"} /\ conn' \in {"fin", "reset"}
      /\ \E k \in 0..Len(wire) : wire' = SubSeq(wire, 1, k)
  <2>1. <<>> = SubSeq(wire, 1, 0) /\ 0 \in 0..Len(wire)
    BY <1>1, SubSeqEmpty
  <2> QED BY <2>1 DEF Telehack!Fin, Telehack!Reset, Telehack!client, Telehack!Connected
<1>5. Telehack!Banner(session)' = B /\ Telehack!Answer(session)' = A
  BY <1>0 DEF Telehack!Banner, Telehack!Answer
<1>3. PICK k \in 0..Len(wire) : wire' = SubSeq(wire, 1, k)
  BY <1>0
<1>4. /\ wire' \in Seq(Kinds)
      /\ Follows(prompt_buf, wire, B) => Follows(prompt_buf, wire', B)
      /\ wire = <<>> => wire' = <<>>
  <2> HIDE DEF A, B
  <2>1. \A i \in 1..k : wire[i] \in Kinds
    BY <1>1, ElementOfSeq
  <2>2. SubSeq(wire, 1, k) \in Seq(Kinds) /\ Len(SubSeq(wire, 1, k)) = k
    BY <2>1, SubSeqProperties
  <2>3. wire = <<>> => wire' = <<>>
    BY <1>1, <1>3, <2>2, EmptySeq
  <2>4. Follows(prompt_buf, wire, B) => Follows(prompt_buf, wire', B)
    BY <1>1, <1>2, <1>3, FollowsCut
  <2> QED BY <1>3, <2>2, <2>3, <2>4
<1>6. conn' = "reset" => wire' = <<>>
  BY <1>0, <1>4 DEF Telehack!Fin, Telehack!Reset, TelehackInv
<1> HIDE DEF A, B
<1>7. Telehack!TypeOK'
  BY <1>0, <1>4 DEF Telehack!TypeOK, TelehackInv, Telehack!Char, Kinds
<1> QED BY <1>0, <1>4, <1>5, <1>6, <1>7 DEF TelehackInv, Telehack!AnswerFits, Telehack!WildOnlyIfCutShort, B

\* The steps of the client that take no character.
LEMMA TelehackMove ==
  ASSUME TelehackInv,
         \/ Telehack!Resolve \/ Telehack!TryAddress \/ Telehack!NoAddressLeft
         \/ Telehack!NoPrompt \/ Telehack!SendCmd \/ Telehack!NoMore
  PROVE  TelehackInv'
<1> DEFINE B == Telehack!Banner(session)
           A == Telehack!Answer(session)
<1>0. UNCHANGED <<session, spoken, conn, wire, prompt_buf, recv_buf, printed>>
  BY DEF Telehack!Resolve, Telehack!TryAddress, Telehack!NoAddressLeft, Telehack!NoPrompt,
         Telehack!SendCmd, Telehack!NoMore, Telehack!server
<1>1. Telehack!Banner(session)' = B /\ Telehack!Answer(session)' = A
  BY <1>0 DEF Telehack!Banner, Telehack!Answer
<1> HIDE DEF A, B
<1>2. Telehack!TypeOK'
  <2>1. tried' \in 0..2
    <3>1. tried \in 0..2
      BY DEF Telehack!TypeOK, TelehackInv
    <3>2. tried' = tried \/ (tried < 2 /\ tried' = tried + 1)
      BY DEF Telehack!Resolve, Telehack!TryAddress, Telehack!NoAddressLeft,
             Telehack!NoPrompt, Telehack!SendCmd, Telehack!NoMore
    <3> QED BY <3>1, <3>2
  <2>3. cmd_sent' \in BOOLEAN
    <3>1. cmd_sent \in BOOLEAN
      BY DEF Telehack!TypeOK, TelehackInv
    <3>2. cmd_sent' = cmd_sent \/ cmd_sent' = TRUE
      BY DEF Telehack!Resolve, Telehack!TryAddress, Telehack!NoAddressLeft,
             Telehack!NoPrompt, Telehack!SendCmd, Telehack!NoMore
    <3> QED BY <3>1, <3>2
  <2>2. pc' \in {"resolve", "connect", "prompt", "send", "recv", "cut", "done", "failed", "killed", "wild"}
    BY DEF Telehack!TypeOK, TelehackInv, Telehack!Resolve, Telehack!TryAddress, Telehack!NoAddressLeft,
           Telehack!NoPrompt, Telehack!SendCmd, Telehack!NoMore
  <2> QED BY <1>0, <2>1, <2>2, <2>3 DEF Telehack!TypeOK, TelehackInv
<1>3. Telehack!AnswerFits' /\ Telehack!WildOnlyIfCutShort'
  <2>1. pc' # "wild" /\ pc # "failed"
    BY DEF Telehack!Resolve, Telehack!TryAddress, Telehack!NoAddressLeft,
           Telehack!NoPrompt, Telehack!SendCmd, Telehack!NoMore
  <2> QED BY <1>0, <2>1 DEF TelehackInv, Telehack!AnswerFits, Telehack!WildOnlyIfCutShort
<1>4. CASE Telehack!Resolve \/ Telehack!TryAddress \/ Telehack!NoAddressLeft
  <2>1. pc \in {"resolve", "connect"} /\ pc' \in {"connect", "prompt", "failed"} /\ cmd_sent' = cmd_sent
    BY <1>4 DEF Telehack!Resolve, Telehack!TryAddress, Telehack!NoAddressLeft
  <2> QED BY <1>0, <1>2, <1>3, <2>1 DEF TelehackInv
<1>5. CASE Telehack!NoPrompt
  <2>1. pc = "prompt" /\ pc' = "send" /\ conn # "open" /\ cmd_sent' = cmd_sent
    BY <1>5 DEF Telehack!NoPrompt
  <2> QED BY <1>0, <1>2, <1>3, <2>1 DEF TelehackInv
<1>6. CASE Telehack!SendCmd
  <2>1. pc = "send" /\ pc' \in {"failed", "killed", "recv"}
    BY <1>6 DEF Telehack!SendCmd
  <2> QED BY <1>0, <1>2, <1>3, <2>1 DEF TelehackInv
<1>7. CASE Telehack!NoMore
  <2>1. pc = "recv" /\ pc' \in {"failed", "cut"} /\ conn # "open" /\ cmd_sent' = cmd_sent
    BY <1>7 DEF Telehack!NoMore
  <2> QED BY <1>0, <1>2, <1>3, <2>1 DEF TelehackInv
<1> QED BY <1>4, <1>5, <1>6, <1>7

\* The next character while a prompt is waited for.
LEMMA TelehackReadPrompt ==
  ASSUME OnePromptEach, TelehackInv, Telehack!ReadPrompt
  PROVE  TelehackInv'
<1> DEFINE B == Telehack!Banner(session)
           p == Append(prompt_buf, Head(wire))
<1>1. /\ session \in Sessions /\ session \in [banner : Seq(Kinds), text : Seq(Kinds)]
      /\ wire \in Seq(Kinds) /\ prompt_buf \in Seq(Kinds) /\ recv_buf \in Seq(Kinds)
      /\ Len(wire) \in Nat /\ Len(prompt_buf) \in Nat
  BY TelehackTyped DEF TelehackInv
<1>2. B \in Seq(Kinds) /\ Len(B) \in Nat /\ PromptAtEndOnly(B)
  <2>1. B \in Seq(Kinds)
    BY <1>1, ServerSays
  <2> HIDE DEF Kinds
  <2> QED BY <1>1, <2>1, LenProperties DEF OnePromptEach
<1>0. /\ UNCHANGED <<session, spoken, conn, tried, recv_buf, cmd_sent, printed>>
      /\ pc = "prompt" /\ wire # <<>> /\ wire' = Tail(wire)
  BY DEF Telehack!ReadPrompt, Telehack!server
<1>3. Telehack!Banner(session)' = B
  BY <1>0 DEF Telehack!Banner
<1> HIDE DEF B, p
<1>4. spoken = "banner" /\ Follows(prompt_buf, wire, B) /\ recv_buf = <<>> /\ ~cmd_sent
  BY <1>0 DEF TelehackInv, B
<1>5. /\ Follows(p, wire', B) /\ p \in Seq(Kinds) /\ wire' \in Seq(Kinds)
      /\ Len(p) = Len(prompt_buf) + 1 /\ Len(wire') = Len(wire) - 1
  BY <1>0, <1>1, <1>2, <1>4, FollowsTake DEF p
<1>6. wire # <<>> => conn # "reset"
  BY DEF TelehackInv
<1>7. CASE Len(prompt_buf) = 7
  <2>1. pc' = "wild" /\ prompt_buf' = prompt_buf
    BY <1>7 DEF Telehack!ReadPrompt
  <2>2. Len(B) > 7
    <3>1. Len(wire) > 0
      BY <1>0, <1>1, EmptySeq
    <3> QED BY <1>1, <1>2, <1>4, <1>7, <3>1 DEF Follows
  <2>3. Telehack!WildOnlyIfCutShort'
    BY <1>3, <2>2 DEF Telehack!WildOnlyIfCutShort, B
  <2>4. Telehack!TypeOK'
    BY <1>0, <1>5, <2>1 DEF Telehack!TypeOK, TelehackInv, Telehack!Char, Kinds
  <2>5. Telehack!AnswerFits'
    BY <1>0 DEF Telehack!AnswerFits, TelehackInv
  <2> QED BY <1>0, <1>6, <2>1, <2>3, <2>4, <2>5 DEF TelehackInv
<1>8. CASE Len(prompt_buf) # 7
  <2>1. /\ prompt_buf' = p
        /\ pc' = IF Telehack!EndsInPrompt(p) THEN "send" ELSE "prompt"
    BY <1>8 DEF Telehack!ReadPrompt, p
  <2>2. Telehack!TypeOK'
    BY <1>0, <1>5, <2>1 DEF Telehack!TypeOK, TelehackInv, Telehack!Char, Kinds
  <2>3. Telehack!AnswerFits' /\ Telehack!WildOnlyIfCutShort'
    BY <1>0, <2>1 DEF Telehack!AnswerFits, Telehack!WildOnlyIfCutShort, TelehackInv
  <2>4. conn = "open" => Len(p) + Len(wire') = Len(B)
    <3> SUFFICES ASSUME conn = "open" PROVE Len(p) + Len(wire') = Len(B)
      OBVIOUS
    <3>1. Len(prompt_buf) + Len(wire) = Len(B)
      BY <1>0, <1>4 DEF TelehackInv, B
    <3>2. Len(p) = Len(prompt_buf) + 1 /\ Len(wire') = Len(wire) - 1
      BY <1>5
    <3>3. Len(prompt_buf) \in Nat /\ Len(wire) \in Nat
      BY <1>1
    <3> QED BY <3>1, <3>2, <3>3
  <2>5. conn = "open" /\ Telehack!EndsInPrompt(p) => wire' = <<>>
    BY <1>2, <1>5, <2>4, FollowsEnd
  <2>6. CASE Telehack!EndsInPrompt(p)
    BY <1>0, <1>4, <1>6, <2>1, <2>2, <2>3, <2>5, <2>6 DEF TelehackInv
  <2>7. CASE ~Telehack!EndsInPrompt(p)
    BY <1>0, <1>3, <1>4, <1>5, <1>6, <2>1, <2>2, <2>3, <2>4, <2>7 DEF TelehackInv, B
  <2> QED BY <2>6, <2>7
<1> QED BY <1>7, <1>8

\* The next character of the answer.
LEMMA TelehackReceive ==
  ASSUME OnePromptEach, TelehackInv, Telehack!Receive
  PROVE  TelehackInv'
<1> DEFINE A == Telehack!Answer(session)
           r == Append(recv_buf, Head(wire))
<1>1. /\ session \in Sessions /\ session \in [banner : Seq(Kinds), text : Seq(Kinds)]
      /\ wire \in Seq(Kinds) /\ recv_buf \in Seq(Kinds)
      /\ Len(wire) \in Nat /\ Len(recv_buf) \in Nat
  BY TelehackTyped DEF TelehackInv
<1>2. A \in Seq(Kinds) /\ Len(A) \in Nat /\ PromptAtEndOnly(A)
  <2>1. A \in Seq(Kinds)
    BY <1>1, ServerSays
  <2> HIDE DEF Kinds
  <2> QED BY <1>1, <2>1, LenProperties DEF OnePromptEach
<1>0. /\ UNCHANGED <<session, spoken, conn, tried, prompt_buf, cmd_sent, printed>>
      /\ pc = "recv" /\ wire # <<>> /\ wire' = Tail(wire) /\ recv_buf' = r
      /\ pc' = IF Len(r) > 9 THEN "failed" ELSE IF Telehack!EndsInPrompt(r) THEN "cut" ELSE "recv"
  BY DEF Telehack!Receive, Telehack!server, r
<1>3. Telehack!Answer(session)' = A
  BY <1>0 DEF Telehack!Answer
<1> HIDE DEF A, r
<1>4. r \in Seq(Kinds) /\ wire' \in Seq(Kinds) /\ Len(r) = Len(recv_buf) + 1 /\ Len(wire') = Len(wire) - 1
  BY <1>0, <1>1, HeadTailProperties, AppendProperties DEF r
<1>5. conn = "open" => /\ spoken = "answer" /\ Follows(r, wire', A) /\ Len(r) + Len(wire') = Len(A)
  <2> SUFFICES ASSUME conn = "open"
               PROVE  spoken = "answer" /\ Follows(r, wire', A) /\ Len(r) + Len(wire') = Len(A)
    OBVIOUS
  <2>1. spoken = "answer" /\ Follows(recv_buf, wire, A) /\ Len(recv_buf) + Len(wire) = Len(A)
    BY <1>0 DEF TelehackInv, A
  <2>2. Follows(r, wire', A)
    BY <1>0, <1>1, <1>2, <2>1, FollowsTake DEF r
  <2>3. Len(recv_buf) + Len(wire) = Len(A) /\ Len(r) = Len(recv_buf) + 1 /\ Len(wire') = Len(wire) - 1
    BY <1>4, <2>1
  <2>4. Len(recv_buf) \in Nat /\ Len(wire) \in Nat
    BY <1>1
  <2>5. Len(r) + Len(wire') = Len(A)
    BY <2>3, <2>4
  <2> QED BY <2>1, <2>2, <2>5
<1>6. conn = "open" /\ Telehack!EndsInPrompt(r) => r = A
  BY <1>2, <1>4, <1>5, FollowsEnd
<1>7. conn # "reset"
  BY <1>0 DEF TelehackInv
<1>8. Telehack!TypeOK'
  BY <1>0, <1>4 DEF Telehack!TypeOK, TelehackInv, Telehack!Char, Kinds
<1>9. Telehack!AnswerFits' /\ Telehack!WildOnlyIfCutShort'
  <2>1. pc' # "failed" => Len(r) < 10
    BY <1>0, <1>1, <1>4
  <2> QED BY <1>0, <2>1 DEF Telehack!AnswerFits, Telehack!WildOnlyIfCutShort
<1> QED BY <1>0, <1>3, <1>5, <1>6, <1>7, <1>8, <1>9 DEF TelehackInv, A

\* What is cut out of a whole answer is the text.
LEMMA TelehackPrint ==
  ASSUME TelehackInv, Telehack!PrintText
  PROVE  TelehackInv'
<1> DEFINE A == Telehack!Answer(session)
           x == session.text
<1>1. /\ session \in [banner : Seq(Kinds), text : Seq(Kinds)]
      /\ recv_buf \in Seq(Kinds) /\ Len(recv_buf) \in Nat
  BY TelehackTyped DEF TelehackInv
<1>2. /\ x \in Seq(Kinds) /\ Len(x) \in Nat /\ A \in Seq(Kinds)
      /\ Len(A) = Len(x) + 6 /\ \A i \in 1..Len(x) : A[i + 2] = x[i]
  BY <1>1, ServerSays
<1>0. /\ UNCHANGED <<session, spoken, conn, wire, tried, prompt_buf, recv_buf, cmd_sent>>
      /\ pc = "cut" /\ pc' \in {"wild", "done"}
      /\ pc' = "wild" => printed' = printed /\ Len(recv_buf) < 4
      /\ pc' = "done" => /\ Len(recv_buf) >= 4
                         /\ printed' = SubSeq(recv_buf, 3, IF Len(recv_buf) - 4 >= 2 THEN Len(recv_buf) - 4 ELSE Len(recv_buf))
  BY <1>1 DEF Telehack!PrintText, Telehack!server, Telehack!PROMPT_SZ
<1> HIDE DEF A, x
<1>3. conn = "open" => recv_buf = A
  BY <1>0 DEF TelehackInv, A
<1>4. printed' \in Seq(Kinds)
  <2>1. CASE pc' = "wild"
    BY <1>0, <2>1 DEF TelehackInv, Telehack!TypeOK, Telehack!Char, Kinds
  <2>2. CASE pc' = "done"
    <3> DEFINE e == IF Len(recv_buf) - 4 >= 2 THEN Len(recv_buf) - 4 ELSE Len(recv_buf)
    <3>1. e \in Int /\ \A i \in 3..e : recv_buf[i] \in Kinds
      <4>1. e \in Int /\ e <= Len(recv_buf)
        BY <1>1
      <4> HIDE DEF e
      <4>2. \A i \in 3..e : i \in 1..Len(recv_buf)
        BY <1>1, <4>1
      <4> QED BY <1>1, <4>1, <4>2, ElementOfSeq
    <3>2. printed' = SubSeq(recv_buf, 3, e)
      BY <1>0, <2>2
    <3> HIDE DEF e
    <3> QED BY <3>1, <3>2, SubSeqProperties
  <2> QED BY <1>0, <2>1, <2>2
<1>5. Telehack!TypeOK'
  BY <1>0, <1>4 DEF Telehack!TypeOK, TelehackInv, Telehack!Char, Kinds
<1>6. Telehack!AnswerFits'
  BY <1>0 DEF Telehack!AnswerFits, TelehackInv
<1>7. Telehack!WildOnlyIfCutShort'
  <2>1. pc' = "wild" => conn # "open" /\ Len(recv_buf) <= 3
    BY <1>0, <1>1, <1>2, <1>3
  <2> QED BY <1>0, <2>1 DEF Telehack!WildOnlyIfCutShort, Telehack!PROMPT_SZ
<1>8. pc' = "done" /\ conn = "open" => printed' = x
  <2> SUFFICES ASSUME pc' = "done", conn = "open" PROVE printed' = x
    OBVIOUS
  <2>1. recv_buf = A /\ Len(recv_buf) - 4 = Len(x) + 2
    BY <1>2, <1>3
  <2>2. printed' = SubSeq(A, 3, Len(x) + 2)
    <3>1. Len(recv_buf) - 4 >= 2
      BY <1>2, <2>1
    <3> QED BY <1>0, <2>1, <3>1
  <2>3. Len(x) + 2 \in Int /\ \A i \in 3..Len(x) + 2 : A[i] \in Kinds
    <3>1. \A i \in 3..Len(x) + 2 : i \in 1..Len(A)
      BY <1>2
    <3> QED BY <1>2, <3>1, ElementOfSeq
  <2>4. /\ Len(printed') = IF 3 <= Len(x) + 2 THEN Len(x) + 2 - 3 + 1 ELSE 0
        /\ \A i \in 1..Len(x) + 2 - 3 + 1 : printed'[i] = A[3 + i - 1]
    BY <2>2, <2>3, SubSeqProperties
  <2>5. Len(printed') = Len(x) /\ \A i \in 1..Len(x) : printed'[i] = x[i]
    <3>1. \A i \in 1..Len(x) : i \in 1..Len(x) + 2 - 3 + 1 /\ 3 + i - 1 = i + 2
      BY <1>2
    <3> QED BY <1>2, <2>4, <3>1
  <2> QED BY <1>2, <1>4, <2>5, SeqEqual
<1> QED BY <1>0, <1>5, <1>6, <1>7, <1>8 DEF TelehackInv, x

LEMMA TelehackStep ==
  ASSUME OnePromptEach, TelehackInv, Telehack!Next \/ UNCHANGED TelehackVars
  PROVE  TelehackInv'
<1>1. CASE UNCHANGED TelehackVars
  BY <1>1 DEF TelehackVars, TelehackInv, Telehack!TypeOK, Telehack!AnswerFits, Telehack!WildOnlyIfCutShort,
              Telehack!Banner, Telehack!Answer
<1>2. CASE Telehack!Next
  BY <1>2, TelehackSay, TelehackEnd, TelehackMove, TelehackReadPrompt, TelehackReceive, TelehackPrint
     DEF Telehack!Next, Telehack!print_text
<1> QED BY <1>1, <1>2

\* The other programs leave the variables of this one alone.
LEMMA TelehackAlone ==
  ASSUME [Next]_vars
  PROVE  program' = program /\ (program = "telehack_clt" => Telehack!Next \/ UNCHANGED TelehackVars)
BY DEF Next, vars, JpegNext, SumNext, Utf8Next, TelehackNext, LogNext, ListNext, WeatherNext,
       telehackVars, TelehackVars

\* telehack_clt, if the server sends a prompt only where it waits for a command:
\* what is printed is the text, neither the echo of the command nor the prompt, the
\* answer fits in its buffer, and an index is out of it only when the connection
\* ended in the middle of an answer (telehack_clt/src/main.c: wait_for_cmd_prompt,
\* print_text).
THEOREM PrintsTextCorrect == OnePromptEach => (Spec => []PrintsText)
<1> SUFFICES ASSUME OnePromptEach PROVE Spec => []PrintsText
  OBVIOUS
<1> DEFINE J == program = "telehack_clt" => TelehackInv
<1>1. Init => J
  <2> SUFFICES ASSUME Init, program = "telehack_clt" PROVE TelehackInv
    OBVIOUS
  <2>1. Telehack!Init
    BY DEF Init, JpegInit, SumInit, Utf8Init, TelehackInit, LogInit, ListInit, WeatherInit
  <2> QED BY <2>1, TelehackInit0
<1>2. J /\ [Next]_vars => J'
  BY TelehackAlone, TelehackStep
<1>3. J => PrintsText
  BY DEF PrintsText, TelehackInv, Telehack!PrintsText
<1> QED BY <1>1, <1>2, <1>3, PTL DEF Spec

----------------------------------------------------------------------------
(* jpeg_zip.  The scans step over no end and no entry of an archive: the first*)
(* goes back byte by byte, the second ahead by four from a place at or before*)
(* the first entry, or behind the last.                                    *)

JpegVars == <<file, pc, pos, printed>>

\* A file is an archive, of any entries and with anything around them, or it
\* holds no signature.
IsArchive(f, front, stored, es, other, comment, counted) ==
  /\ {front, stored, other, comment} \subseteq Nat /\ counted \in BOOLEAN /\ es \in Seq(Jpeg!Entry)
  /\ f = ZipFile(front, stored, es, other, comment, counted)

ArchivesOrNone ==
  \A f \in JpegFiles :
     \/ \E sz \in Nat : f = NoZip(sz)
     \/ \E front, stored, es, other, comment, counted :
           IsArchive(f, front, stored, es, other, comment, counted)

\* the name an entry adds to the list
NamePieces(es) == [k \in DOMAIN es |-> IF es[k].is_dir THEN <<>> ELSE <<es[k].name>>]

\* Where the entries are.
LEMMA EntryPosFacts ==
  ASSUME NEW start \in Nat, NEW es \in Seq(Jpeg!Entry)
  PROVE  /\ Len(es) \in Nat
         /\ EntryPos(start, es, 1) = start
         /\ \A k \in 1..Len(es) : /\ EntryPos(start, es, k) \in Nat
                                  /\ EntrySz(es[k]) \in Nat /\ EntrySz(es[k]) > 0
                                  /\ EntryPos(start, es, k + 1) = EntryPos(start, es, k) + EntrySz(es[k])
         /\ EntryPos(start, es, Len(es) + 1) \in Nat
<1> DEFINE sz == [j \in DOMAIN es |-> EntrySz(es[j])]
           P(k) == start + SumOver(sz, 1..k - 1)
<1>1. Len(es) \in Nat /\ DOMAIN es = 1..Len(es) /\ \A k \in 1..Len(es) : es[k] \in Jpeg!Entry
  BY LenProperties, ElementOfSeq
<1>2. \A k \in 1..Len(es) : EntrySz(es[k]) \in Nat /\ EntrySz(es[k]) > 0 /\ sz[k] = EntrySz(es[k])
  BY <1>1 DEF EntrySz, Jpeg!Entry
<1>3. \A k : EntryPos(start, es, k) = P(k)
  BY DEF EntryPos, SumOver
<1> HIDE DEF sz
<1>4. P(1) = start
  <2>1. 1..1 - 1 = {} /\ IsFiniteSet({})
    BY FS_EmptySet
  <2>2. SumOver(sz, {}) = 0
    BY <2>1, SumZero
  <2> QED BY <2>1, <2>2
<1>5. \A k \in 1..Len(es) + 1 : SumOver(sz, 1..k - 1) \in Nat
  <2> TAKE k \in 1..Len(es) + 1
  <2>1. IsFiniteSet(1..k - 1)
    BY <1>1, FS_Interval
  <2> DEFINE g == [j \in 1..k - 1 |-> sz[j]]
  <2>2. g \in [1..k - 1 -> Nat]
    BY <1>1, <1>2
  <2>3. \A j \in 1..k - 1 : g[j] = sz[j]
    OBVIOUS
  <2> HIDE DEF g
  <2> QED BY <2>1, <2>2, <2>3, SumNat, SumSame
<1>6. \A k \in 1..Len(es) : SumOver(sz, 1..(k + 1) - 1) = SumOver(sz, 1..k - 1) + sz[k]
  <2> TAKE k \in 1..Len(es)
  <2>1. IsFiniteSet(1..k - 1) /\ k \notin 1..k - 1 /\ \A j \in 1..k - 1 \cup {k} : sz[j] \in Nat
    <3>1. k \in Nat /\ \A j \in 1..k - 1 \cup {k} : j \in 1..Len(es)
      BY <1>1
    <3>2. IsFiniteSet(1..k - 1)
      BY <3>1, FS_Interval
    <3> QED BY <1>2, <3>1, <3>2
  <2>2. 1..(k + 1) - 1 = 1..k - 1 \cup {k}
    BY <1>1
  <2> QED BY <2>1, <2>2, SumAdd
<1>7. \A k \in 1..Len(es) : P(k) \in Nat /\ P(k + 1) = P(k) + EntrySz(es[k])
  BY <1>1, <1>2, <1>5, <1>6
<1>8. P(Len(es) + 1) \in Nat
  BY <1>1, <1>5
<1> HIDE DEF P
<1> QED BY <1>1, <1>2, <1>3, <1>4, <1>7, <1>8

\* They are one behind the other.
LEMMA EntryPosGrow ==
  ASSUME NEW start \in Nat, NEW es \in Seq(Jpeg!Entry)
  PROVE  \A k \in 1..Len(es) + 1 : \A j \in 1..Len(es) + 1 :
            /\ EntryPos(start, es, k) \in Nat
            /\ j < k => EntryPos(start, es, j) < EntryPos(start, es, k)
<1> DEFINE P(k) == EntryPos(start, es, k)
           T == {k \in Nat : k + 1 <= Len(es) + 1 => \A j \in 1..k : P(j) < P(k + 1)}
<1>1. /\ Len(es) \in Nat /\ \A k \in 1..Len(es) + 1 : P(k) \in Nat
      /\ \A k \in 1..Len(es) : P(k) < P(k + 1)
  <2>1. \A k \in 1..Len(es) + 1 : k = Len(es) + 1 \/ k \in 1..Len(es)
    BY LenProperties
  <2> HIDE DEF P
  <2>2. /\ Len(es) \in Nat
        /\ \A k \in 1..Len(es) : P(k) \in Nat /\ EntrySz(es[k]) \in Nat /\ EntrySz(es[k]) > 0
                                 /\ P(k + 1) = P(k) + EntrySz(es[k])
        /\ P(Len(es) + 1) \in Nat
    BY EntryPosFacts DEF P
  <2> QED BY <2>1, <2>2
<1> HIDE DEF P
<1>2. 0 \in T
  OBVIOUS
<1>3. ASSUME NEW k \in Nat, k \in T PROVE k + 1 \in T
  <2> SUFFICES ASSUME k + 2 <= Len(es) + 1, NEW j \in 1..k + 1 PROVE P(j) < P((k + 1) + 1)
    OBVIOUS
  <2>1. P(k + 1) < P((k + 1) + 1) /\ P(k + 1) \in Nat /\ P((k + 1) + 1) \in Nat /\ P(j) \in Nat
    BY <1>1
  <2>2. j # k + 1 => P(j) < P(k + 1)
    BY <1>1, <1>3
  <2> QED BY <2>1, <2>2
<1>4. Nat \subseteq T
  <2> HIDE DEF T
  <2> QED BY <1>2, <1>3, NatInductionSet
<1>5. ASSUME NEW k \in 1..Len(es) + 1, NEW j \in 1..Len(es) + 1, j < k PROVE P(j) < P(k)
  <2>1. k - 1 \in Nat /\ (k - 1) + 1 = k /\ j \in 1..k - 1 /\ (k - 1) + 1 <= Len(es) + 1
    BY <1>1, <1>5
  <2> HIDE DEF T
  <2>2. k - 1 \in T
    BY <1>4, <2>1
  <2> QED BY <2>1, <2>2 DEF T
<1> QED BY <1>1, <1>5 DEF P

\* What an archive holds.
LEMMA ArchiveFacts ==
  ASSUME NEW f, NEW front, NEW stored, NEW es, NEW other, NEW comment, NEW counted,
         IsArchive(f, front, stored, es, other, comment, counted),
         NEW end, end = EntryPos(front + stored, es, Len(es) + 1) + other
  PROVE  /\ front + stored \in Nat /\ end \in Nat /\ es \in Seq(Jpeg!Entry) /\ Len(es) \in Nat /\ other \in Nat
         /\ f.size = end + 22 + comment /\ comment \in Nat
         /\ DOMAIN f.ends = {end} /\ f.ends[end] \in 0..front + stored
         /\ DOMAIN f.entries = {EntryPos(front + stored, es, k) : k \in 1..Len(es)}
         /\ \A k \in 1..Len(es) : f.entries[EntryPos(front + stored, es, k)] = es[k]
         /\ f.archived = Flat(NamePieces(es), Len(es))
<1> DEFINE start == front + stored
           P(k) == EntryPos(start, es, k)
<1>1. /\ front \in Nat /\ stored \in Nat /\ other \in Nat /\ comment \in Nat /\ counted \in BOOLEAN
      /\ es \in Seq(Jpeg!Entry) /\ f = ZipFile(front, stored, es, other, comment, counted)
  BY DEF IsArchive
<1>2. start \in Nat /\ Len(es) \in Nat /\ DOMAIN es = 1..Len(es)
  BY <1>1, LenProperties
<1> HIDE DEF start
<1>3. \A k \in 1..Len(es) + 1 : \A j \in 1..Len(es) + 1 : P(k) \in Nat /\ (j < k => P(j) < P(k))
  BY <1>1, <1>2, EntryPosGrow
<1>4. end \in Nat /\ end = P(Len(es) + 1) + other
  BY <1>1, <1>2, <1>3 DEF start
<1>5. f = [size     |-> end + 22 + comment,
           ends     |-> [p \in {end} |-> IF counted THEN start ELSE stored],
           entries  |-> EntriesAt(start, es),
           archived |-> FlattenSeq(NamePieces(es))]
  BY <1>1, <1>4 DEF ZipFile, NamePieces, start
<1>6. f.size = end + 22 + comment
  BY <1>5
<1>7. DOMAIN f.ends = {end} /\ f.ends[end] \in 0..start
  <2>1. f.ends = [x \in {end} |-> IF counted THEN start ELSE stored]
    BY <1>5
  <2>2. stored \in 0..start /\ start \in 0..start
    BY <1>1 DEF start
  <2> QED BY <1>1, <2>1, <2>2
<1>8. /\ DOMAIN f.entries = {P(k) : k \in 1..Len(es)}
      /\ \A k \in 1..Len(es) : f.entries[P(k)] = es[k]
  <2>1. f.entries = [p \in {P(k) : k \in 1..Len(es)} |-> es[CHOOSE k \in 1..Len(es) : P(k) = p]]
    BY <1>2, <1>5 DEF EntriesAt
  <2> HIDE DEF P
  <2>2. ASSUME NEW k \in 1..Len(es) PROVE (CHOOSE j \in 1..Len(es) : P(j) = P(k)) = k
    <3> DEFINE c == CHOOSE j \in 1..Len(es) : P(j) = P(k)
    <3>1. c \in 1..Len(es) /\ P(c) = P(k)
      OBVIOUS
    <3> HIDE DEF c
    <3>2. c \in 1..Len(es) + 1 /\ k \in 1..Len(es) + 1 /\ (c < k \/ k < c \/ c = k)
      BY <1>2, <3>1
    <3>3. c = k
      BY <1>3, <3>1, <3>2
    <3> QED BY <3>3 DEF c
  <2>3. ASSUME NEW k \in 1..Len(es) PROVE f.entries[P(k)] = es[k]
    <3> DEFINE D == {P(j) : j \in 1..Len(es)}
               g(p) == es[CHOOSE j \in 1..Len(es) : P(j) = p]
    <3>1. P(k) \in D /\ f.entries = [p \in D |-> g(p)]
      BY <2>1
    <3> HIDE DEF D, g
    <3>2. f.entries[P(k)] = g(P(k))
      BY <3>1
    <3>3. g(P(k)) = es[k]
      BY <2>2 DEF g
    <3> QED BY <3>2, <3>3
  <2> QED BY <2>1, <2>3
<1>9. f.archived = Flat(NamePieces(es), Len(es))
  <2>0. /\ NamePieces(es) = [k \in 1..Len(es) |-> IF es[k].is_dir THEN <<>> ELSE <<es[k].name>>]
        /\ \A k \in 1..Len(es) : NamePieces(es)[k] = IF es[k].is_dir THEN <<>> ELSE <<es[k].name>>
    BY <1>2 DEF NamePieces
  <2>1. [k \in 1..Len(es) |-> NamePieces(es)[k]] = NamePieces(es)
    BY <2>0
  <2> QED BY <1>5, <2>1 DEF Flat
<1> QED BY <1>1, <1>2, <1>4, <1>6, <1>7, <1>8, <1>9 DEF start, P

\* The names of the first k entries.
LEMMA NamesFacts ==
  ASSUME NEW es \in Seq(Jpeg!Entry)
  PROVE  /\ Flat(NamePieces(es), 0) = <<>>
         /\ \A k \in 0..Len(es) : Flat(NamePieces(es), k) \in Seq({nA, nB, nD})
         /\ \A k \in 1..Len(es) :
              Flat(NamePieces(es), k) = IF es[k].is_dir THEN Flat(NamePieces(es), k - 1)
                                        ELSE Append(Flat(NamePieces(es), k - 1), es[k].name)
<1> DEFINE M == {nA, nB, nD}
           s(k) == Flat(NamePieces(es), k)
<1>1. /\ Len(es) \in Nat /\ DOMAIN es = 1..Len(es)
      /\ \A k \in 1..Len(es) : es[k].name \in M /\ es[k].is_dir \in BOOLEAN
  <2>1. \A k \in 1..Len(es) : es[k] \in Jpeg!Entry
    BY ElementOfSeq
  <2> QED BY <2>1, LenProperties DEF Jpeg!Entry
<1> HIDE DEF M
<1>2. \A k \in 1..Len(es) : /\ NamePieces(es)[k] = IF es[k].is_dir THEN <<>> ELSE <<es[k].name>>
                            /\ NamePieces(es)[k] \in Seq(M)
  <2>1. \A k \in 1..Len(es) : NamePieces(es)[k] = IF es[k].is_dir THEN <<>> ELSE <<es[k].name>>
    BY <1>1 DEF NamePieces
  <2>2. <<>> \in Seq(M) /\ \A e \in M : <<e>> \in Seq(M)
    OBVIOUS
  <2> QED BY <1>1, <2>1, <2>2
<1>3. /\ s(0) = <<>>
      /\ \A k \in 0..Len(es) : s(k) \in Seq(M)
      /\ \A k \in 0..Len(es) - 1 : s(k + 1) = s(k) \o NamePieces(es)[k + 1]
  BY <1>1, <1>2, FlatFacts
<1> HIDE DEF s
<1>4. ASSUME NEW k \in 1..Len(es)
      PROVE  s(k) = IF es[k].is_dir THEN s(k - 1) ELSE Append(s(k - 1), es[k].name)
  <2>1. k - 1 \in 0..Len(es) - 1 /\ (k - 1) + 1 = k /\ k - 1 \in 0..Len(es)
    BY <1>1
  <2>2. s(k) = s(k - 1) \o NamePieces(es)[k] /\ s(k - 1) \in Seq(M)
    BY <1>3, <2>1
  <2>3. \A t \in Seq(M), e \in M : t \o <<>> = t /\ t \o <<e>> = Append(t, e)
    OBVIOUS
  <2> QED BY <1>1, <1>2, <2>2, <2>3
<1> QED BY <1>3, <1>4 DEF s, M

\* Where the program is in an archive.  The scan for the first entry has not
\* passed it, and what is printed are the names of the entries behind.
Place(front, stored, es, other) ==
  LET P(k) == EntryPos(front + stored, es, k)
  IN  /\ pc = "find_entry" => printed = <<>> /\ (Len(es) > 0 => pos <= front + stored)
      /\ pc = "entries" =>
           \/ \E k \in 1..Len(es) : pos = P(k) /\ printed = Flat(NamePieces(es), k - 1)
           \/ pos >= P(Len(es) + 1) /\ printed = Flat(NamePieces(es), Len(es))
      /\ pc = "done" => printed = Flat(NamePieces(es), Len(es))

\* Behind the position of the backward scan is no end; in an archive the program is
\* at one of its places.
JpegInv ==
  /\ Jpeg!TypeOK
  /\ pc = "find_end" => /\ printed = <<>>
                        /\ \A e \in DOMAIN file.ends : e <= pos
                        /\ file.size >= 4 => pos + 4 <= file.size
  /\ pc = "not_zip" => file.ends = <<>>
  /\ pc \in {"find_entry", "entries", "done", "looping"} => DOMAIN file.ends # {}
  /\ \A front, stored, es, other, comment, counted :
        IsArchive(file, front, stored, es, other, comment, counted) => Place(front, stored, es, other)

\* What is assumed of a file.
LEMMA FileFacts ==
  ASSUME file \in JpegFiles
  PROVE  /\ file.size \in Nat
         /\ \A e \in DOMAIN file.ends : e \in Nat /\ e + 22 <= file.size /\ file.ends[e] \in 0..e
         /\ \A e \in DOMAIN file.entries : e \in Nat /\ e + 46 <= file.size
         /\ DOMAIN file.ends \cap DOMAIN file.entries = {}
<1>1. Jpeg!FilesAssumption
  BY ConstantsAssumption
<1> QED BY <1>1 DEF Jpeg!FilesAssumption, Jpeg!CD_END_SZ, Jpeg!FILE_NAME_OFFSET

LEMMA JpegInit0 ==
  ASSUME Jpeg!Init
  PROVE  JpegInv
<1>1. file \in JpegFiles /\ pc = "find_end" /\ printed = <<>>
      /\ pos = IF file.size < 4 THEN 0 ELSE file.size - 4
  BY DEF Jpeg!Init, Jpeg!SigSz
<1>2. /\ file.size \in Nat
      /\ \A e \in DOMAIN file.ends : e \in Nat /\ e + 22 <= file.size
  BY <1>1, FileFacts
<1>3. Jpeg!TypeOK
  <2>1. <<>> \in Seq({nA, nB, nD})
    OBVIOUS
  <2> QED BY <1>1, <1>2, <2>1 DEF Jpeg!TypeOK, Jpeg!SigSz
<1>4. \A e \in DOMAIN file.ends : e <= pos
  BY <1>1, <1>2
<1>5. file.size >= 4 => pos + 4 <= file.size
  BY <1>1, <1>2
<1> QED BY <1>1, <1>3, <1>4, <1>5 DEF JpegInv, Place

\* The scan for the end: backwards, past no end.
LEMMA JpegFindEnd ==
  ASSUME ArchivesOrNone, JpegInv, Jpeg!FindEnd
  PROVE  JpegInv'
<1>1. /\ pc = "find_end" /\ file' = file /\ printed' = printed /\ printed = <<>>
      /\ file \in JpegFiles /\ pos \in 0..file.size + 4
      /\ \A e \in DOMAIN file.ends : e <= pos
      /\ file.size >= 4 => pos + 4 <= file.size
  BY DEF Jpeg!FindEnd, JpegInv, Jpeg!TypeOK, Jpeg!SigSz
<1>2. /\ file.size \in Nat
      /\ \A e \in DOMAIN file.ends : e \in Nat /\ e + 22 <= file.size
  BY <1>1, FileFacts
<1>3. pos + 4 <= file.size => pos \notin DOMAIN file.ends
  BY DEF Jpeg!FindEnd, Jpeg!IsEnd, Jpeg!Whole, Jpeg!SigSz
<1>4. CASE pos + 4 <= file.size /\ pos > 0
  <2>1. pos' = pos - 1 /\ pc' = pc
    BY <1>4 DEF Jpeg!FindEnd, Jpeg!Whole, Jpeg!SigSz
  <2>2. \A e \in DOMAIN file.ends : e <= pos - 1
    BY <1>1, <1>2, <1>3, <1>4
  <2>3. Jpeg!TypeOK'
    BY <1>1, <1>2, <1>4, <2>1 DEF JpegInv, Jpeg!TypeOK, Jpeg!SigSz
  <2> QED BY <1>1, <1>2, <1>4, <2>1, <2>2, <2>3 DEF JpegInv, Place
<1>5. CASE ~(pos + 4 <= file.size /\ pos > 0)
  <2>1. pos' = pos /\ pc' = "not_zip"
    BY <1>5 DEF Jpeg!FindEnd, Jpeg!Whole, Jpeg!SigSz
  <2>2. DOMAIN file.ends = {}
    <3> SUFFICES ASSUME NEW e \in DOMAIN file.ends PROVE FALSE
      OBVIOUS
    <3>1. e \in Nat /\ e <= pos /\ e + 22 <= file.size
      BY <1>1, <1>2
    <3>2. pos + 4 <= file.size /\ pos = 0 /\ e = pos
      BY <1>1, <1>2, <1>5, <3>1
    <3> QED BY <1>3, <3>2
  <2>3. file.ends = <<>>
    <3>1. CASE \E sz \in Nat : file = NoZip(sz)
      BY <3>1 DEF NoZip
    <3>2. CASE \E front, stored, es, other, comment, counted :
                  IsArchive(file, front, stored, es, other, comment, counted)
      BY <2>2, <3>2, ArchiveFacts
    <3> QED BY <1>1, <3>1, <3>2 DEF ArchivesOrNone
  <2>4. Jpeg!TypeOK'
    BY <1>1, <2>1 DEF JpegInv, Jpeg!TypeOK, Jpeg!SigSz
  <2> QED BY <1>1, <2>1, <2>3, <2>4 DEF JpegInv, Place
<1> QED BY <1>4, <1>5

\* The entries of the file lie at the first count of these places, and nowhere else.
EntriesAre(places, count) == \A p : p \in DOMAIN file.entries <=> \E k \in 1..count : p = places[k]

\* What the steps in an archive need: its end is the only one, its entries are
\* one behind the other and the end is behind them.
EntryPlaces(start, es) == [k \in 1..Len(es) + 1 |-> EntryPos(start, es, k)]

LEMMA InArchive ==
  ASSUME JpegInv, NEW front, NEW stored, NEW es, NEW other, NEW comment, NEW counted,
         IsArchive(file, front, stored, es, other, comment, counted),
         NEW P, P = EntryPlaces(front + stored, es)
  PROVE  /\ front + stored \in Nat /\ Len(es) \in Nat /\ other \in Nat
         /\ \A k \in 1..Len(es) + 1 : P[k] \in Nat /\ P[k] = EntryPos(front + stored, es, k)
         /\ \A k \in 1..Len(es) + 1, j \in 1..Len(es) + 1 : j < k => P[j] < P[k]
         /\ P[1] = front + stored
         /\ \A k \in 1..Len(es) : /\ es[k] \in Jpeg!Entry
                                  /\ P[k + 1] = P[k] + (46 + es[k].file_name_len + es[k].extra_field_len
                                                        + es[k].file_comment_len)
         /\ EntriesAre(P, Len(es))
         /\ \A k \in 1..Len(es) : file.entries[P[k]] = es[k]
         /\ \A p : p \in DOMAIN file.ends <=> p = P[Len(es) + 1] + other
         /\ file.ends[P[Len(es) + 1] + other] \in 0..front + stored
         /\ P[Len(es) + 1] + other + 22 <= file.size
         /\ file.size \in Nat
         /\ file.archived = Flat(NamePieces(es), Len(es))
<1> DEFINE Q(k) == EntryPos(front + stored, es, k)
           end  == Q(Len(es) + 1) + other
<1>1. /\ front + stored \in Nat /\ end \in Nat /\ es \in Seq(Jpeg!Entry) /\ Len(es) \in Nat /\ other \in Nat
      /\ file.size = end + 22 + comment /\ comment \in Nat
      /\ DOMAIN file.ends = {end} /\ file.ends[end] \in 0..front + stored
      /\ DOMAIN file.entries = {Q(k) : k \in 1..Len(es)}
      /\ \A k \in 1..Len(es) : file.entries[Q(k)] = es[k]
      /\ file.archived = Flat(NamePieces(es), Len(es))
  <2> HIDE DEF end
  <2>1. end = Q(Len(es) + 1) + other
    BY DEF end
  <2> QED BY <2>1, ArchiveFacts
<1>2. /\ Q(1) = front + stored
      /\ \A k \in 1..Len(es) : Q(k + 1) = Q(k) + EntrySz(es[k])
  BY <1>1, EntryPosFacts
<1>3. \A k \in 1..Len(es) + 1 : \A j \in 1..Len(es) + 1 : Q(k) \in Nat /\ (j < k => Q(j) < Q(k))
  BY <1>1, EntryPosGrow
<1> HIDE DEF Q
<1>4. P = [k \in 1..Len(es) + 1 |-> Q(k)]
  BY DEF Q, EntryPlaces
<1>5. \A k \in 1..Len(es) + 1 : P[k] = Q(k)
  BY <1>4
<1>6. /\ 1 \in 1..Len(es) + 1 /\ Len(es) + 1 \in 1..Len(es) + 1
      /\ \A k \in 1..Len(es) : k \in 1..Len(es) + 1 /\ k + 1 \in 1..Len(es) + 1
  BY <1>1
<1>7. \A k \in 1..Len(es) : es[k] \in Jpeg!Entry
  BY <1>1, ElementOfSeq
<1>8. \A k \in 1..Len(es) : P[k + 1] = P[k] + (46 + es[k].file_name_len + es[k].extra_field_len
                                                + es[k].file_comment_len)
  BY <1>2, <1>5, <1>6 DEF EntrySz
<1>9. end = P[Len(es) + 1] + other
  BY <1>5, <1>6
<1> HIDE DEF end
<1>10. \A k \in 1..Len(es) + 1 : P[k] \in Nat /\ P[k] = Q(k)
  BY <1>3, <1>5
<1>11. \A k \in 1..Len(es) + 1, j \in 1..Len(es) + 1 : j < k => P[j] < P[k]
  BY <1>3, <1>5
<1>12. P[1] = front + stored
  BY <1>2, <1>5, <1>6
<1>13. EntriesAre(P, Len(es))
  BY <1>1, <1>5, <1>6 DEF EntriesAre
<1>14. \A k \in 1..Len(es) : file.entries[P[k]] = es[k]
  BY <1>1, <1>5, <1>6
<1>15. end + 22 <= file.size /\ file.size \in Nat
  BY <1>1
<1> QED BY <1>1, <1>7, <1>8, <1>9, <1>10, <1>11, <1>12, <1>13, <1>14, <1>15 DEF Q

\* The steps in an archive.
LEMMA JpegInArchive ==
  ASSUME JpegInv, NEW front, NEW stored, NEW es, NEW other, NEW comment, NEW counted,
         IsArchive(file, front, stored, es, other, comment, counted),
         \/ Jpeg!GotoStart \/ Jpeg!FindEntry \/ Jpeg!FoundEntry \/ Jpeg!ReadEntry
         \/ Jpeg!SkipOther \/ Jpeg!ReachEnd \/ Jpeg!ReadNothing
  PROVE  Jpeg!TypeOK' /\ Place(front, stored, es, other)'
<1> DEFINE start == front + stored
           len == Len(es)
           Names(k) == Flat(NamePieces(es), k)
           P == EntryPlaces(front + stored, es)
           end == P[len + 1] + other
<1>1. /\ start \in Nat /\ len \in Nat /\ other \in Nat
      /\ \A k \in 1..len + 1 : P[k] \in Nat /\ P[k] = EntryPos(start, es, k)
      /\ \A k \in 1..len + 1, j \in 1..len + 1 : j < k => P[j] < P[k]
      /\ P[1] = start
      /\ \A k \in 1..len : /\ es[k] \in Jpeg!Entry
                           /\ P[k + 1] = P[k] + (46 + es[k].file_name_len + es[k].extra_field_len
                                                 + es[k].file_comment_len)
      /\ \A p : p \in DOMAIN file.entries <=> \E k \in 1..len : p = P[k]
      /\ \A k \in 1..len : file.entries[P[k]] = es[k]
      /\ \A p : p \in DOMAIN file.ends <=> p = end
      /\ file.ends[end] \in 0..start
      /\ end + 22 <= file.size /\ file.size \in Nat
  <2>1. P = EntryPlaces(front + stored, es)
    OBVIOUS
  <2> HIDE DEF P
  <2>2. /\ front + stored \in Nat /\ Len(es) \in Nat /\ other \in Nat
        /\ \A k \in 1..Len(es) + 1 : P[k] \in Nat /\ P[k] = EntryPos(front + stored, es, k)
        /\ \A k \in 1..Len(es) + 1, j \in 1..Len(es) + 1 : j < k => P[j] < P[k]
        /\ P[1] = front + stored
    BY <2>1, InArchive
  <2>3. \A k \in 1..Len(es) : /\ es[k] \in Jpeg!Entry
                             /\ P[k + 1] = P[k] + (46 + es[k].file_name_len + es[k].extra_field_len
                                                   + es[k].file_comment_len)
    BY <2>1, InArchive
  <2>4. \A p : p \in DOMAIN file.entries <=> \E k \in 1..Len(es) : p = P[k]
    <3>1. EntriesAre(P, Len(es))
      BY <2>1, InArchive
    <3> QED BY <3>1 DEF EntriesAre
  <2>4a. \A k \in 1..Len(es) : file.entries[P[k]] = es[k]
    BY <2>1, InArchive
  <2>5. /\ \A p : p \in DOMAIN file.ends <=> p = P[Len(es) + 1] + other
        /\ file.ends[P[Len(es) + 1] + other] \in 0..front + stored
        /\ P[Len(es) + 1] + other + 22 <= file.size
        /\ file.size \in Nat
    BY <2>1, InArchive
  <2> QED BY <2>2, <2>3, <2>4, <2>4a, <2>5
<1>2. /\ Names(0) = <<>>
      /\ \A k \in 0..len : Names(k) \in Seq({nA, nB, nD})
      /\ \A k \in 1..len : Names(k) = IF es[k].is_dir THEN Names(k - 1) ELSE Append(Names(k - 1), es[k].name)
  <2>1. es \in Seq(Jpeg!Entry)
    BY DEF IsArchive
  <2> QED BY <2>1, NamesFacts
<1> DEFINE AtEntry(p, names) == \E k \in 1..len : p = P[k] /\ names = Names(k - 1)
           Behind0(p, names) == p >= P[len + 1] /\ names = Names(len)
<1>3. /\ len + 1 \in 1..len + 1 /\ \A k \in 1..len : k \in 1..len + 1 /\ k + 1 \in 1..len + 1
      /\ 1 \in 1..len + 1
  BY <1>1
<1>4. \A p, names :
        /\ AtEntry(p, names) <=> \E k \in 1..len : p = EntryPos(start, es, k) /\ names = Names(k - 1)
        /\ Behind0(p, names) <=> p >= EntryPos(start, es, len + 1) /\ names = Names(len)
  <2> HIDE DEF Names, P
  <2> QED BY <1>1, <1>3
<1> HIDE DEF P, Names, start, len, AtEntry, Behind0
<1>5. /\ pc = "find_entry" => printed = <<>> /\ (len > 0 => pos <= start)
      /\ pc = "entries" => AtEntry(pos, printed) \/ Behind0(pos, printed)
      /\ pc = "done" => printed = Names(len)
  <2>1. Place(front, stored, es, other)
    BY DEF JpegInv
  <2> QED BY <1>4, <2>1 DEF Place, start, len, Names
<1>6. Place(front, stored, es, other)' <=>
        /\ pc' = "find_entry" => printed' = <<>> /\ (len > 0 => pos' <= start)
        /\ pc' = "entries" => AtEntry(pos', printed') \/ Behind0(pos', printed')
        /\ pc' = "done" => printed' = Names(len)
  BY <1>4 DEF Place, start, len, Names
<1>7. /\ file \in JpegFiles /\ pos \in 0..file.size + 4 /\ printed \in Seq({nA, nB, nD}) /\ pos \in Nat
  BY <1>1 DEF JpegInv, Jpeg!TypeOK, Jpeg!SigSz
<1>8. file' = file
  BY DEF Jpeg!GotoStart, Jpeg!FindEntry, Jpeg!FoundEntry, Jpeg!ReadEntry, Jpeg!SkipOther,
         Jpeg!ReachEnd, Jpeg!ReadNothing
<1>9. Jpeg!TypeOK' <=> /\ pc' \in {"find_end", "find_entry", "entries", "done", "not_zip", "looping"}
                       /\ pos' \in 0..file.size + 4 /\ printed' \in Seq({nA, nB, nD})
  BY <1>7, <1>8 DEF Jpeg!TypeOK, Jpeg!SigSz
<1>10. /\ Jpeg!Whole(pos) <=> pos + 4 <= file.size
       /\ Jpeg!IsEnd(pos) <=> pos + 4 <= file.size /\ pos = end
       /\ Jpeg!IsEntry(pos) <=> pos + 4 <= file.size /\ \E k \in 1..len : pos = P[k]
  BY <1>1 DEF Jpeg!Whole, Jpeg!IsEnd, Jpeg!IsEntry, Jpeg!SigSz
<1>11. /\ end \in Nat /\ P[len + 1] <= end
       /\ \A k \in 1..len + 1 : P[k] <= P[len + 1] /\ P[k] + 4 <= file.size
       /\ \A k \in 1..len : P[k] < P[len + 1]
  <2>1. P[len + 1] \in Nat /\ end \in Nat /\ P[len + 1] <= end
    BY <1>1, <1>3
  <2>2. \A k \in 1..len + 1 : k = len + 1 \/ k < len + 1
    BY <1>1
  <2>3. \A k \in 1..len + 1 : P[k] <= P[len + 1] /\ P[k] + 4 <= file.size
    <3> TAKE k \in 1..len + 1
    <3>1. P[k] \in Nat /\ (k = len + 1 \/ P[k] < P[len + 1])
      BY <1>1, <1>3, <2>2
    <3> HIDE DEF end
    <3> QED BY <1>1, <2>1, <3>1
  <2>4. \A k \in 1..len : P[k] < P[len + 1]
    <3> TAKE k \in 1..len
    <3>1. k < len + 1 /\ k \in 1..len + 1
      BY <1>1
    <3> QED BY <1>1, <1>3, <3>1
  <2> QED BY <2>1, <2>3, <2>4
<1>12. CASE Jpeg!GotoStart
  <2>1. pc = "find_end" /\ pos = end /\ pos' = file.ends[pos] /\ pc' = "find_entry" /\ printed' = printed
    BY <1>10, <1>12 DEF Jpeg!GotoStart
  <2>2. printed = <<>>
    BY <2>1 DEF JpegInv
  <2>3. pos' \in 0..start
    BY <1>1, <2>1
  <2>4. start <= file.size
    BY <1>1, <1>3, <1>11
  <2>5. pos' \in 0..file.size + 4 /\ pos' <= start
    BY <1>1, <2>3, <2>4
  <2> HIDE DEF end
  <2> QED BY <1>6, <1>7, <1>9, <2>1, <2>2, <2>5
<1>13. CASE Jpeg!FindEntry
  <2>1. pc = "find_entry" /\ pos + 4 <= file.size /\ pos' = pos + 1 /\ pc' = pc /\ printed' = printed
        /\ ~ \E k \in 1..len : pos = P[k]
    BY <1>10, <1>13 DEF Jpeg!FindEntry
  <2>2. len > 0 => pos < start
    <3> SUFFICES ASSUME len > 0 PROVE pos < start
      OBVIOUS
    <3>1. 1 \in 1..len
      BY <1>1
    <3>2. pos # start /\ pos <= start
      BY <1>1, <1>5, <2>1, <3>1
    <3> QED BY <1>1, <1>7, <3>2
  <2>3. pos + 1 \in 0..file.size + 4 /\ (len > 0 => pos + 1 <= start)
    BY <1>1, <1>7, <2>1, <2>2
  <2> HIDE DEF end
  <2> QED BY <1>5, <1>6, <1>7, <1>9, <2>1, <2>3
<1>14. CASE Jpeg!FoundEntry
  <2>1. /\ pc = "find_entry" /\ pc' = "entries" /\ pos' = pos /\ printed' = printed /\ printed = <<>>
        /\ \E k \in 1..len : pos = P[k]
    BY <1>5, <1>10, <1>14 DEF Jpeg!FoundEntry
  <2>2. PICK k \in 1..len : pos = P[k]
    BY <2>1
  <2>3. k = 1
    <3>1. len > 0 /\ 1 \in 1..len /\ k \in Nat /\ k >= 1
      BY <1>1
    <3>2. pos <= P[1] /\ (1 < k => P[1] < P[k]) /\ P[1] \in Nat /\ P[k] \in Nat
      BY <1>1, <1>3, <1>5, <2>1, <3>1
    <3> QED BY <2>2, <3>1, <3>2
  <2>4. AtEntry(pos, printed)
    BY <1>2, <2>1, <2>2, <2>3 DEF AtEntry
  <2> HIDE DEF end
  <2> QED BY <1>6, <1>7, <1>9, <2>1, <2>4
<1>15. ASSUME pc = "entries", NEW k \in 1..len, pos = P[k]
       PROVE  AtEntry(pos, printed) /\ printed = Names(k - 1) /\ pos # end
  <2>1. P[k] \in Nat /\ P[k] < P[len + 1] /\ P[len + 1] \in Nat
    BY <1>1, <1>3, <1>11
  <2>2. ~Behind0(pos, printed)
    BY <1>15, <2>1 DEF Behind0
  <2>3. AtEntry(pos, printed)
    BY <1>5, <1>15, <2>2
  <2>4. PICK j \in 1..len : pos = P[j] /\ printed = Names(j - 1)
    BY <2>3 DEF AtEntry
  <2>5. j = k
    <3>1. j < k \/ k < j \/ j = k
      BY <1>1
    <3>2. P[j] \in Nat /\ (j < k => P[j] < P[k]) /\ (k < j => P[k] < P[j])
      BY <1>1, <1>3
    <3> QED BY <1>15, <2>1, <2>4, <3>1, <3>2
  <2> HIDE DEF end
  <2> QED BY <1>11, <1>15, <2>1, <2>3, <2>4, <2>5
<1>16. CASE Jpeg!ReadEntry
  <2>1. pc = "entries" /\ pc' = "entries" /\ \E k \in 1..len : pos = P[k]
    BY <1>10, <1>16 DEF Jpeg!ReadEntry
  <2>2. PICK k \in 1..len : pos = P[k]
    BY <2>1
  <2>3. file.entries[pos] = es[k] /\ es[k] \in Jpeg!Entry /\ printed = Names(k - 1)
    BY <1>1, <1>15, <2>1, <2>2
  <2>4. /\ pos' = pos + 46 + es[k].file_name_len + es[k].extra_field_len + es[k].file_comment_len
        /\ printed' = IF es[k].is_dir THEN printed ELSE Append(printed, es[k].name)
    BY <1>16, <2>3 DEF Jpeg!ReadEntry, Jpeg!FILE_NAME_OFFSET
  <2>5. pos' = P[k + 1]
    <3>1. P[k + 1] = P[k] + (46 + es[k].file_name_len + es[k].extra_field_len + es[k].file_comment_len)
      BY <1>1
    <3>2. /\ es[k].file_name_len \in Nat /\ es[k].extra_field_len \in Nat /\ es[k].file_comment_len \in Nat
          /\ P[k] \in Nat
      BY <1>1, <1>3, <2>3 DEF Jpeg!Entry
    <3>3. pos' = pos + 46 + es[k].file_name_len + es[k].extra_field_len + es[k].file_comment_len
      BY <2>4
    <3>4. \A a, b, c, d \in Nat : d + 46 + a + b + c = d + (46 + a + b + c)
      OBVIOUS
    <3> QED BY <2>2, <3>1, <3>2, <3>3, <3>4
  <2>6. printed' = Names(k) /\ Names(k) \in Seq({nA, nB, nD})
    <3>1. k \in 0..len
      BY <1>1
    <3>2. Names(k) = IF es[k].is_dir THEN Names(k - 1) ELSE Append(Names(k - 1), es[k].name)
      BY <1>2
    <3> QED BY <1>2, <2>3, <2>4, <3>1, <3>2
  <2>7. AtEntry(pos', printed') \/ Behind0(pos', printed')
    <3>1. CASE k = len
      <4>1. P[len + 1] >= P[len + 1]
        BY <1>1, <1>3
      <4> QED BY <2>5, <2>6, <3>1, <4>1 DEF Behind0
    <3>2. CASE k # len
      <4>1. k + 1 \in 1..len /\ (k + 1) - 1 = k
        BY <1>1, <3>2
      <4> QED BY <2>5, <2>6, <4>1 DEF AtEntry
    <3> QED BY <3>1, <3>2
  <2>8. pos' \in 0..file.size + 4
    <3>1. P[k + 1] \in Nat /\ P[k + 1] + 4 <= file.size
      BY <1>1, <1>3, <1>11
    <3> QED BY <1>1, <2>5, <3>1
  <2> HIDE DEF end
  <2> QED BY <1>6, <1>9, <2>1, <2>6, <2>7, <2>8
<1>17. ASSUME pc = "entries", pos + 4 <= file.size, ~ \E k \in 1..len : pos = P[k]
       PROVE  pos >= P[len + 1] /\ printed = Names(len)
  BY <1>5, <1>17 DEF AtEntry, Behind0
<1>18. CASE Jpeg!SkipOther
  <2>1. /\ pc = "entries" /\ pc' = "entries" /\ pos' = pos + 4 /\ printed' = printed
        /\ pos + 4 <= file.size /\ pos # end /\ ~ \E k \in 1..len : pos = P[k]
    BY <1>10, <1>18 DEF Jpeg!SkipOther, Jpeg!SigSz
  <2>2. pos >= P[len + 1] /\ printed = Names(len)
    BY <1>17, <2>1
  <2>3. P[len + 1] \in Nat
    BY <1>1, <1>3
  <2>4. pos + 4 >= P[len + 1]
    BY <1>7, <2>2, <2>3
  <2>5. Behind0(pos', printed')
    BY <2>1, <2>2, <2>4 DEF Behind0
  <2>6. pos' \in 0..file.size + 4
    BY <1>1, <1>7, <2>1
  <2> HIDE DEF end
  <2> QED BY <1>6, <1>7, <1>9, <2>1, <2>5, <2>6
<1>19. CASE Jpeg!ReachEnd
  <2>1. /\ pc = "entries" /\ pc' = "done" /\ pos' = pos /\ printed' = printed
        /\ pos + 4 <= file.size /\ pos = end
    BY <1>10, <1>19 DEF Jpeg!ReachEnd
  <2>2. ~ \E k \in 1..len : pos = P[k]
    BY <1>15, <2>1
  <2>3. printed = Names(len)
    BY <1>17, <2>1, <2>2
  <2> HIDE DEF end
  <2> QED BY <1>6, <1>7, <1>9, <2>1, <2>3
<1>20. CASE Jpeg!ReadNothing
  BY <1>6, <1>7, <1>9, <1>20 DEF Jpeg!ReadNothing
<1> QED BY <1>12, <1>13, <1>14, <1>16, <1>18, <1>19, <1>20

LEMMA JpegStep ==
  ASSUME ArchivesOrNone, JpegInv, Jpeg!Next \/ UNCHANGED JpegVars
  PROVE  JpegInv'
<1>1. CASE UNCHANGED JpegVars
  BY <1>1 DEF JpegVars, JpegInv, Jpeg!TypeOK, Place
<1>2. CASE Jpeg!FindEnd
  BY <1>2, JpegFindEnd
<1>3. CASE \/ Jpeg!GotoStart \/ Jpeg!FindEntry \/ Jpeg!FoundEntry \/ Jpeg!ReadEntry
           \/ Jpeg!SkipOther \/ Jpeg!ReachEnd \/ Jpeg!ReadNothing
  <2>1. /\ file' = file /\ DOMAIN file.ends # {}
        /\ pc' \notin {"find_end", "not_zip"}
    BY <1>3 DEF JpegInv, Jpeg!GotoStart, Jpeg!FindEntry, Jpeg!FoundEntry, Jpeg!ReadEntry, Jpeg!SkipOther,
                Jpeg!ReachEnd, Jpeg!ReadNothing, Jpeg!IsEnd
  <2>2. file \in JpegFiles
    BY DEF JpegInv, Jpeg!TypeOK
  <2>3. ASSUME NEW sz \in Nat PROVE file # NoZip(sz)
    BY <2>1 DEF NoZip
  <2>4. \E front, stored, es, other, comment, counted :
           IsArchive(file, front, stored, es, other, comment, counted)
    BY <2>2, <2>3 DEF ArchivesOrNone
  <2>5. Jpeg!TypeOK'
    BY <1>3, <2>4, JpegInArchive
  <2>6. ASSUME NEW front, NEW stored, NEW es, NEW other, NEW comment, NEW counted,
               IsArchive(file, front, stored, es, other, comment, counted)
        PROVE  Place(front, stored, es, other)'
    BY <1>3, <2>6, JpegInArchive
  <2> QED BY <2>1, <2>5, <2>6 DEF JpegInv
<1> QED BY <1>1, <1>2, <1>3 DEF Jpeg!Next

\* At the end of an archive all names are printed.
LEMMA JpegDone ==
  ASSUME ArchivesOrNone, JpegInv
  PROVE  Jpeg!TypeOK /\ Jpeg!ListsArchive /\ Jpeg!NotZipIsTrue
<1>1. ASSUME pc = "done" PROVE printed = file.archived
  <2>1. file \in JpegFiles /\ DOMAIN file.ends # {}
    BY <1>1 DEF JpegInv, Jpeg!TypeOK
  <2>2. ASSUME NEW sz \in Nat PROVE file # NoZip(sz)
    BY <2>1 DEF NoZip
  <2>3. PICK front, stored, es, other, comment, counted :
           IsArchive(file, front, stored, es, other, comment, counted)
    BY <2>1, <2>2 DEF ArchivesOrNone
  <2>4. printed = Flat(NamePieces(es), Len(es))
    BY <1>1, <2>3 DEF JpegInv, Place
  <2>5. file.archived = Flat(NamePieces(es), Len(es))
    BY <2>3, ArchiveFacts
  <2> QED BY <2>4, <2>5
<1> QED BY <1>1 DEF JpegInv, Jpeg!ListsArchive, Jpeg!NotZipIsTrue

\* The other programs leave the variables of this one alone.
LEMMA JpegAlone ==
  ASSUME [Next]_vars
  PROVE  /\ program' = program
         /\ program = "jpeg_zip" => Jpeg!Next \/ UNCHANGED JpegVars
BY DEF Next, vars, JpegNext, SumNext, Utf8Next, TelehackNext, LogNext, ListNext, WeatherNext, zipVars, JpegVars

\* jpeg_zip, for archives with any entries, any image in front, any comment and
\* whichever offset, and for files without signatures: the names of the files are
\* printed, in the order of the directory, and no file with an end signature is
\* called something else (jpeg_zip/src/main.c).
THEOREM ListsArchiveCorrect == ArchivesOrNone => (Spec => []ListsArchive)
<1> SUFFICES ASSUME ArchivesOrNone PROVE Spec => []ListsArchive
  OBVIOUS
<1> DEFINE J == program = "jpeg_zip" => JpegInv
<1>1. Init => J
  <2> SUFFICES ASSUME Init, program = "jpeg_zip" PROVE JpegInv
    OBVIOUS
  <2>1. Jpeg!Init
    BY DEF Init, JpegInit, SumInit, Utf8Init, TelehackInit, LogInit, ListInit, WeatherInit
  <2> QED BY <2>1, JpegInit0
<1>2. J /\ [Next]_vars => J'
  BY JpegAlone, JpegStep
<1>3. J => ListsArchive
  BY JpegDone DEF ListsArchive
<1> QED BY <1>1, <1>2, <1>3, PTL DEF Spec

\* The files the runs use are such files, those with other records too.
LEMMA ArchivesGiven ==
  ASSUME JpegFiles = ZipFiles
  PROVE  ArchivesOrNone
<1>1. ASSUME NEW front \in {0, 7}, NEW stored \in {0, 6}, NEW es \in {<<>>, OneEntry, ThreeEntries},
             NEW other \in {0, 9, 76}, NEW comment \in {0, 3}, NEW counted \in BOOLEAN
      PROVE  IsArchive(ZipFile(front, stored, es, other, comment, counted),
                       front, stored, es, other, comment, counted)
  <2>1. es \in Seq(Jpeg!Entry)
    <3> DEFINE e1 == Entry(nA, FALSE, 1, 0, 0)
               e2 == Entry(nD, TRUE, 2, 0, 3)
               e3 == Entry(nA, FALSE, 3, 5, 0)
               e4 == Entry(nB, FALSE, 1, 1, 3)
    <3>1. e1 \in Jpeg!Entry /\ e2 \in Jpeg!Entry /\ e3 \in Jpeg!Entry /\ e4 \in Jpeg!Entry
      BY DEF Entry, Jpeg!Entry
    <3>2. es \in {<<>>, <<e1>>, <<e2, e3, e4>>}
      BY DEF OneEntry, ThreeEntries
    <3> HIDE DEF e1, e2, e3, e4
    <3>3. <<>> \in Seq(Jpeg!Entry) /\ <<e1>> \in Seq(Jpeg!Entry) /\ <<e2, e3, e4>> \in Seq(Jpeg!Entry)
      BY <3>1
    <3> QED BY <3>2, <3>3
  <2>2. {front, stored, other, comment} \subseteq Nat
    OBVIOUS
  <2> QED BY <2>1, <2>2 DEF IsArchive
<1>2. ASSUME NEW f \in ZipFiles
      PROVE  \/ \E sz \in Nat : f = NoZip(sz)
             \/ \E front, stored, es, other, comment, counted :
                   IsArchive(f, front, stored, es, other, comment, counted)
  <2>1. CASE f \in {NoZip(0), NoZip(3), NoZip(9)}
    BY <2>1
  <2>2. CASE f = ZipFile(0, 0, <<>>, 0, 0, TRUE)
    <3>1. IsArchive(f, 0, 0, <<>>, 0, 0, TRUE)
      BY <1>1, <2>2
    <3> QED BY <3>1
  <2>3. CASE \E front \in {0, 7}, es \in {OneEntry, ThreeEntries}, other \in {0, 9, 76},
                comment \in {0, 3}, counted \in BOOLEAN : f = ZipFile(front, 6, es, other, comment, counted)
    <3>1. PICK front \in {0, 7}, es \in {OneEntry, ThreeEntries}, other \in {0, 9, 76},
               comment \in {0, 3}, counted \in BOOLEAN : f = ZipFile(front, 6, es, other, comment, counted)
      BY <2>3
    <3>2. IsArchive(f, front, 6, es, other, comment, counted)
      BY <1>1, <3>1
    <3> QED BY <3>2
  <2>4. \/ \E front \in {0, 7}, es \in {OneEntry, ThreeEntries}, other \in {0, 9, 76},
              comment \in {0, 3}, counted \in BOOLEAN : f = ZipFile(front, 6, es, other, comment, counted)
        \/ f \in {NoZip(0), NoZip(3), NoZip(9), ZipFile(0, 0, <<>>, 0, 0, TRUE)}
    <3> DEFINE Some == {ZipFile(front, 6, es, other, comment, counted) :
                          front \in {0, 7}, es \in {OneEntry, ThreeEntries}, other \in {0, 9, 76},
                          comment \in {0, 3}, counted \in BOOLEAN}
               Others == {NoZip(0), NoZip(3), NoZip(9), ZipFile(0, 0, <<>>, 0, 0, TRUE)}
    <3>1. ZipFiles = Some \cup Others
      BY DEF ZipFiles
    <3>2. f \in Some => \E front \in {0, 7}, es \in {OneEntry, ThreeEntries}, other \in {0, 9, 76},
                           comment \in {0, 3}, counted \in BOOLEAN : f = ZipFile(front, 6, es, other, comment, counted)
      OBVIOUS
    <3> HIDE DEF Some, Others
    <3>3. f \in Some \/ f \in Others
      BY <3>1
    <3> QED BY <3>2, <3>3 DEF Others
  <2> QED BY <2>1, <2>2, <2>3, <2>4
<1> QED BY <1>2 DEF ArchivesOrNone

----------------------------------------------------------------------------
(* crc32.  A word is the set of its bits, so a division step is linear: the*)
(* table takes eight of them at once.                                      *)

\* The bits of a sum and of a shifted word.
LEMMA XorIn ==
  ASSUME NEW a, NEW b
  PROVE  \A i : i \in Crc!Xor(a, b) <=> (i \in a /\ i \notin b) \/ (i \in b /\ i \notin a)
BY DEF Crc!Xor

LEMMA ShiftIn ==
  ASSUME NEW a \in Crc!Word, NEW k \in Nat
  PROVE  \A i : i \in Crc!ShiftRight(a, k) <=> i \in Nat /\ i + k \in a
<1>1. \A j \in a : j \in 0..31
  BY DEF Crc!Word
<1>2. Crc!ShiftRight(a, k) = {j - k : j \in {h \in a : h >= k}}
  BY DEF Crc!ShiftRight
<1>3. ASSUME NEW i, i \in Crc!ShiftRight(a, k) PROVE i \in Nat /\ i + k \in a
  <2>1. PICK j \in a : j >= k /\ i = j - k
    BY <1>2, <1>3
  <2>2. j \in 0..31
    BY <1>1
  <2>3. i \in Nat /\ i + k = j
    BY <2>1, <2>2
  <2> QED BY <2>1, <2>3
<1>4. ASSUME NEW i, i \in Nat, i + k \in a PROVE i \in Crc!ShiftRight(a, k)
  <2>1. i + k >= k /\ (i + k) - k = i
    BY <1>4
  <2> QED BY <1>2, <1>4, <2>1
<1> QED BY <1>3, <1>4

LEMMA WordFacts ==
  ASSUME NEW a \in Crc!Word, NEW b \in Crc!Word
  PROVE  /\ Crc!Xor(a, b) \in Crc!Word
         /\ \A k \in Nat : Crc!ShiftRight(a, k) \in Crc!Word
         /\ \A bit \in BOOLEAN : Crc!Divide(a, bit) \in Crc!Word
<1>1. \A c \in Crc!Word, d \in Crc!Word : Crc!Xor(c, d) \in Crc!Word
  BY DEF Crc!Xor, Crc!Word
<1>2. ASSUME NEW c \in Crc!Word, NEW k \in Nat PROVE Crc!ShiftRight(c, k) \in Crc!Word
  <2>1. \A i : i \in Crc!ShiftRight(c, k) => i \in Nat /\ i + k \in c
    BY ShiftIn
  <2>2. \A j \in c : j \in 0..31
    BY DEF Crc!Word
  <2>3. \A i : i \in Crc!ShiftRight(c, k) => i \in 0..31
    BY <2>1, <2>2
  <2> QED BY <2>3 DEF Crc!Word
<1>3. Crc!Polynomial \in Crc!Word
  BY DEF Crc!Polynomial, Crc!Word
<1>4. \A bit \in BOOLEAN : Crc!Divide(a, bit) \in Crc!Word
  BY <1>1, <1>2, <1>3 DEF Crc!Divide
<1> QED BY <1>1, <1>2, <1>4

\* A step of the division is linear: what is not at the end of the word yet, of
\* the sum and of the byte, may as well be added later.
LEMMA DivideLater ==
  ASSUME NEW R \in Crc!Word, NEW H \in Crc!Word, NEW B \in Crc!Word, H \cap 0..7 = {}, NEW j \in 0..7,
         NEW S, S = Crc!Xor(Crc!Xor(R, Crc!ShiftRight(H, j)), Crc!ShiftRight(B, j))
  PROVE  /\ Crc!Divide(S, j \in B)
              = Crc!Xor(Crc!Xor(Crc!Divide(R, FALSE), Crc!ShiftRight(H, j + 1)), Crc!ShiftRight(B, j + 1))
         /\ Crc!Divide(R, FALSE) \in Crc!Word
<1> DEFINE Hj == Crc!ShiftRight(H, j)
           Bj == Crc!ShiftRight(B, j)
           P  == Crc!Polynomial
<1>1. /\ \A i : i \in Hj <=> i \in Nat /\ i + j \in H
      /\ \A i : i \in Bj <=> i \in Nat /\ i + j \in B
      /\ \A i : i \in Crc!ShiftRight(H, j + 1) <=> i \in Nat /\ i + (j + 1) \in H
      /\ \A i : i \in Crc!ShiftRight(B, j + 1) <=> i \in Nat /\ i + (j + 1) \in B
      /\ \A i : i \in Crc!ShiftRight(R, 1) <=> i \in Nat /\ i + 1 \in R
  BY ShiftIn
<1>2. Hj \in Crc!Word /\ Bj \in Crc!Word
  BY WordFacts
<1> HIDE DEF Hj, Bj, P
<1>3. S = Crc!Xor(Crc!Xor(R, Hj), Bj) /\ S \in Crc!Word
  <2>1. Crc!Xor(R, Hj) \in Crc!Word
    BY <1>2, WordFacts
  <2>2. Crc!Xor(Crc!Xor(R, Hj), Bj) \in Crc!Word
    BY <1>2, <2>1, WordFacts
  <2> QED BY <2>2 DEF Hj, Bj
<1>4. \A i : i \in S <=> IF i \in Hj THEN (IF i \in Bj THEN i \in R ELSE i \notin R)
                         ELSE (IF i \in Bj THEN i \notin R ELSE i \in R)
  BY <1>3 DEF Crc!Xor
<1>5. \A i : i \in Crc!ShiftRight(S, 1) <=> i \in Nat /\ i + 1 \in S
  BY <1>3, ShiftIn
<1>6. \A i \in Nat : i + 1 \in Nat /\ (i + 1) + j = i + (j + 1)
  OBVIOUS
<1>7. \A i : i \in Crc!ShiftRight(S, 1) <=>
               IF i \in Crc!ShiftRight(H, j + 1)
               THEN (IF i \in Crc!ShiftRight(B, j + 1) THEN i \in Crc!ShiftRight(R, 1) ELSE i \notin Crc!ShiftRight(R, 1))
               ELSE (IF i \in Crc!ShiftRight(B, j + 1) THEN i \notin Crc!ShiftRight(R, 1) ELSE i \in Crc!ShiftRight(R, 1))
  <2> TAKE i
  <2>1. CASE i \notin Nat
    BY <1>1, <1>5, <2>1
  <2>2. CASE i \in Nat
    <3>1. i + 1 \in Hj <=> i \in Crc!ShiftRight(H, j + 1)
      BY <1>1, <1>6, <2>2
    <3>2. i + 1 \in Bj <=> i \in Crc!ShiftRight(B, j + 1)
      BY <1>1, <1>6, <2>2
    <3>3. i + 1 \in R <=> i \in Crc!ShiftRight(R, 1)
      BY <1>1, <2>2
    <3>4. i \in Crc!ShiftRight(S, 1) <=> i + 1 \in S
      BY <1>5, <2>2
    <3> QED BY <1>4, <3>1, <3>2, <3>3, <3>4
  <2> QED BY <2>1, <2>2
<1>8. (j \in B) # (0 \in S) <=> 0 \in R
  <2>1. 0 \notin Hj
    <3>1. 0 + j = j /\ j \notin H
      OBVIOUS
    <3> QED BY <1>1, <3>1
  <2>2. 0 \in Bj <=> j \in B
    <3>1. 0 + j = j
      OBVIOUS
    <3> QED BY <1>1, <3>1
  <2> QED BY <1>4, <2>1, <2>2
<1> DEFINE s1 == Crc!ShiftRight(S, 1)
           r1 == Crc!ShiftRight(R, 1)
           h1 == Crc!ShiftRight(H, j + 1)
           b1 == Crc!ShiftRight(B, j + 1)
<1>9. Crc!Divide(S, j \in B) = IF 0 \in R THEN Crc!Xor(s1, P) ELSE s1
  <2>1. Crc!Divide(S, j \in B) = IF (j \in B) # (0 \in S) THEN Crc!Xor(s1, Crc!Polynomial) ELSE s1
    BY DEF Crc!Divide
  <2>2. P = Crc!Polynomial
    BY DEF P
  <2> HIDE DEF s1
  <2>3. CASE 0 \in R
    BY <1>8, <2>1, <2>2, <2>3
  <2>4. CASE 0 \notin R
    BY <1>8, <2>1, <2>2, <2>4
  <2> QED BY <2>3, <2>4
<1>10. Crc!Divide(R, FALSE) = IF 0 \in R THEN Crc!Xor(r1, P) ELSE r1
  <2>1. Crc!Divide(R, FALSE) = IF FALSE # (0 \in R) THEN Crc!Xor(r1, Crc!Polynomial) ELSE r1
    BY DEF Crc!Divide
  <2>2. P = Crc!Polynomial
    BY DEF P
  <2> HIDE DEF r1
  <2>3. CASE 0 \in R
    BY <2>1, <2>2, <2>3
  <2>4. CASE 0 \notin R
    <3>1. (0 \in R) = FALSE
      BY <2>4
    <3>2. Crc!Divide(R, FALSE) = IF FALSE # FALSE THEN Crc!Xor(r1, Crc!Polynomial) ELSE r1
      BY ONLY <2>1, <3>1
    <3> QED BY <2>4, <3>2
  <2> QED BY <2>3, <2>4
<1>11. \A i : i \in s1 <=> IF i \in h1 THEN (IF i \in b1 THEN i \in r1 ELSE i \notin r1)
                           ELSE (IF i \in b1 THEN i \notin r1 ELSE i \in r1)
  BY <1>7
<1>12. Crc!Divide(R, FALSE) \in Crc!Word
  BY WordFacts
<1> HIDE DEF s1, r1, h1, b1
<1>13. s1 = Crc!Xor(Crc!Xor(r1, h1), b1)
  BY <1>11 DEF Crc!Xor
<1>14. Crc!Xor(s1, P) = Crc!Xor(Crc!Xor(Crc!Xor(r1, P), h1), b1)
  BY <1>11 DEF Crc!Xor
<1>15. Crc!Divide(S, j \in B) = Crc!Xor(Crc!Xor(Crc!Divide(R, FALSE), h1), b1)
  BY <1>9, <1>10, <1>13, <1>14
<1> QED BY <1>12, <1>15 DEF h1, b1

\* Eight steps of the division are one of the table.
LEMMA EightSteps ==
  ASSUME NEW w \in Crc!Word, NEW b \in Crc!Byte, NEW S, S[0] = w,
         \A j \in 0..7 : S[j + 1] = Crc!Divide(S[j], j \in Crc!BitsOf(b))
  PROVE  S[8] = Crc!crc32(w, b) /\ Crc!crc32(w, b) \in Crc!Word
<1> DEFINE B  == Crc!BitsOf(b)
           H  == w \ 0..7
           r0 == Crc!Xor(w, B) \cap 0..7
           r1 == Crc!Divide(r0, FALSE)
           r2 == Crc!Divide(r1, FALSE)
           r3 == Crc!Divide(r2, FALSE)
           r4 == Crc!Divide(r3, FALSE)
           r5 == Crc!Divide(r4, FALSE)
           r6 == Crc!Divide(r5, FALSE)
           r7 == Crc!Divide(r6, FALSE)
           r8 == Crc!Divide(r7, FALSE)
           Sum(R, j) == Crc!Xor(Crc!Xor(R, Crc!ShiftRight(H, j)), Crc!ShiftRight(B, j))
<1>1. Crc!TableAssumption
  BY ConstantsAssumption
<1>2. B \subseteq 0..7 /\ B \in Crc!Word
  <2>1. B \subseteq 0..7
    BY <1>1 DEF Crc!TableAssumption
  <2> QED BY <2>1 DEF Crc!Word
<1> HIDE DEF B
<1>3. H \in Crc!Word /\ H \cap 0..7 = {} /\ r0 \in Crc!Word /\ r0 \subseteq 0..7
  BY DEF Crc!Word
<1>4. Crc!crc32_tab(Crc!NumberOf(r0)) = r8
  <2>1. r0 \in SUBSET (0..7)
    BY <1>3
  <2>2. Crc!crc32_tab(Crc!NumberOf(r0)) = Crc!Divide8(r0)
    BY <1>1, <2>1 DEF Crc!TableAssumption
  <2> QED BY <2>2 DEF Crc!Divide8, Crc!Divide2
<1>5. /\ \A i : i \in Crc!ShiftRight(H, 0) <=> i \in Nat /\ i + 0 \in H
      /\ \A i : i \in Crc!ShiftRight(B, 0) <=> i \in Nat /\ i + 0 \in B
  BY <1>2, <1>3, ShiftIn
<1>6. w = Sum(r0, 0)
  <2>1. \A i : i \in H => i \in Nat
    BY <1>3 DEF Crc!Word
  <2>2. \A i : i \in B => i \in Nat
    BY <1>2
  <2>3. \A i \in Nat : i + 0 = i
    OBVIOUS
  <2>4. Crc!ShiftRight(H, 0) = H /\ Crc!ShiftRight(B, 0) = B
    <3> HIDE DEF H
    <3> QED BY <1>5, <2>1, <2>2, <2>3
  <2>5. w = Crc!Xor(Crc!Xor(r0, H), B)
    BY <1>2 DEF Crc!Xor
  <2> QED BY <2>4, <2>5
<1> HIDE DEF H, r0, r1, r2, r3, r4, r5, r6, r7, r8
<1>7. ASSUME NEW R \in Crc!Word, NEW j \in 0..7, S[j] = Sum(R, j)
      PROVE  S[j + 1] = Sum(Crc!Divide(R, FALSE), j + 1) /\ Crc!Divide(R, FALSE) \in Crc!Word
  <2>1. S[j + 1] = Crc!Divide(S[j], j \in B)
    BY DEF B
  <2>2. S[j] = Crc!Xor(Crc!Xor(R, Crc!ShiftRight(H, j)), Crc!ShiftRight(B, j))
    BY <1>7
  <2>3. /\ Crc!Divide(S[j], j \in B)
             = Crc!Xor(Crc!Xor(Crc!Divide(R, FALSE), Crc!ShiftRight(H, j + 1)), Crc!ShiftRight(B, j + 1))
        /\ Crc!Divide(R, FALSE) \in Crc!Word
    BY <1>2, <1>3, <2>2, DivideLater
  <2> QED BY <2>1, <2>3
<1>8. \A R : R \in Crc!Word => \A j \in 0..7 :
         S[j] = Sum(R, j) => S[j + 1] = Sum(Crc!Divide(R, FALSE), j + 1) /\ Crc!Divide(R, FALSE) \in Crc!Word
  BY <1>7
<1> HIDE DEF Sum
<1>9. /\ r1 = Crc!Divide(r0, FALSE) /\ r2 = Crc!Divide(r1, FALSE)
      /\ r3 = Crc!Divide(r2, FALSE) /\ r4 = Crc!Divide(r3, FALSE)
      /\ r5 = Crc!Divide(r4, FALSE) /\ r6 = Crc!Divide(r5, FALSE)
      /\ r7 = Crc!Divide(r6, FALSE) /\ r8 = Crc!Divide(r7, FALSE)
  BY DEF r1, r2, r3, r4, r5, r6, r7, r8
<1>10. S[0] = Sum(r0, 0)
  BY <1>6
<1>11. S[1] = Sum(r1, 1) /\ r1 \in Crc!Word
  <2>1. 0 \in 0..7 /\ 0 + 1 = 1
    OBVIOUS
  <2> QED BY <1>3, <1>8, <1>9, <1>10, <2>1
<1>12. S[2] = Sum(r2, 2) /\ r2 \in Crc!Word
  <2>1. 1 \in 0..7 /\ 1 + 1 = 2
    OBVIOUS
  <2> QED BY <1>8, <1>9, <1>11, <2>1
<1>13. S[3] = Sum(r3, 3) /\ r3 \in Crc!Word
  <2>1. 2 \in 0..7 /\ 2 + 1 = 3
    OBVIOUS
  <2> QED BY <1>8, <1>9, <1>12, <2>1
<1>14. S[4] = Sum(r4, 4) /\ r4 \in Crc!Word
  <2>1. 3 \in 0..7 /\ 3 + 1 = 4
    OBVIOUS
  <2> QED BY <1>8, <1>9, <1>13, <2>1
<1>15. S[5] = Sum(r5, 5) /\ r5 \in Crc!Word
  <2>1. 4 \in 0..7 /\ 4 + 1 = 5
    OBVIOUS
  <2> QED BY <1>8, <1>9, <1>14, <2>1
<1>16. S[6] = Sum(r6, 6) /\ r6 \in Crc!Word
  <2>1. 5 \in 0..7 /\ 5 + 1 = 6
    OBVIOUS
  <2> QED BY <1>8, <1>9, <1>15, <2>1
<1>17. S[7] = Sum(r7, 7) /\ r7 \in Crc!Word
  <2>1. 6 \in 0..7 /\ 6 + 1 = 7
    OBVIOUS
  <2> QED BY <1>8, <1>9, <1>16, <2>1
<1>18. S[8] = Sum(r8, 8) /\ r8 \in Crc!Word
  <2>1. 7 \in 0..7 /\ 7 + 1 = 8
    OBVIOUS
  <2> QED BY <1>8, <1>9, <1>17, <2>1
<1>19. Sum(r8, 8) = Crc!Xor(r8, Crc!ShiftRight(w, 8))
  <2>1. /\ \A i : i \in Crc!ShiftRight(H, 8) <=> i \in Nat /\ i + 8 \in H
        /\ \A i : i \in Crc!ShiftRight(B, 8) <=> i \in Nat /\ i + 8 \in B
        /\ \A i : i \in Crc!ShiftRight(w, 8) <=> i \in Nat /\ i + 8 \in w
    BY <1>2, <1>3, ShiftIn
  <2>2. \A i \in Nat : i + 8 \notin 0..7
    OBVIOUS
  <2>3. \A i : i \notin Crc!ShiftRight(B, 8)
    BY <1>2, <2>1, <2>2
  <2>4. \A i : i \in Crc!ShiftRight(H, 8) <=> i \in Crc!ShiftRight(w, 8)
    BY <2>1, <2>2 DEF H
  <2>5. Crc!ShiftRight(H, 8) = Crc!ShiftRight(w, 8) /\ Crc!ShiftRight(B, 8) = {}
    BY <2>3, <2>4
  <2>6. \A a : Crc!Xor(a, {}) = a
    BY DEF Crc!Xor
  <2> QED BY <2>5, <2>6 DEF Sum
<1>20. Crc!crc32(w, b) = Crc!Xor(r8, Crc!ShiftRight(w, 8))
  BY <1>4 DEF Crc!crc32, r0, B
<1>21. Crc!crc32(w, b) \in Crc!Word
  <2>1. Crc!ShiftRight(w, 8) \in Crc!Word
    BY WordFacts
  <2> QED BY <1>18, <1>20, <2>1, WordFacts
<1> QED BY <1>18, <1>19, <1>20, <1>21

\* F holds the first m + 1 sums of the reference's loop over the bits of s.
Sums(F, s, m) ==
  F = [k \in 0..m |-> IF k = 0 THEN Crc!Ones ELSE Crc!Divide(F[k - 1], Crc!Bit(s, k))]

\* There is such an F, by induction over a set of numbers.
LEMMA SumsExist ==
  ASSUME NEW s, NEW m \in Nat
  PROVE  \E F : Sums(F, s, m)
<1> DEFINE T == {j \in Nat : \E F : Sums(F, s, j)}
<1>1. 0 \in T
  <2>1. Sums([k \in 0..0 |-> Crc!Ones], s, 0)
    <3>1. [k \in 0..0 |-> Crc!Ones] =
             [k \in 0..0 |-> IF k = 0 THEN Crc!Ones
                             ELSE Crc!Divide([h \in 0..0 |-> Crc!Ones][k - 1], Crc!Bit(s, k))]
      OBVIOUS
    <3> QED BY <3>1 DEF Sums
  <2> QED BY <2>1
<1>2. ASSUME NEW j \in Nat, j \in T
      PROVE  j + 1 \in T
  <2>1. PICK F : Sums(F, s, j)
    BY <1>2
  <2> DEFINE G == [k \in 0..j + 1 |-> IF k \in 0..j THEN F[k] ELSE Crc!Divide(F[k - 1], Crc!Bit(s, k))]
  <2>2. \A k \in 0..j : F[k] = IF k = 0 THEN Crc!Ones ELSE Crc!Divide(F[k - 1], Crc!Bit(s, k))
    BY <2>1 DEF Sums
  <2>3. \A k \in 0..j + 1 : k # 0 => k - 1 \in 0..j /\ k - 1 \in 0..j + 1
    OBVIOUS
  <2>4. \A k \in 0..j + 1 : k # 0 => G[k - 1] = F[k - 1]
    BY <2>3
  <2>5. ASSUME NEW k \in 0..j + 1
        PROVE  G[k] = IF k = 0 THEN Crc!Ones ELSE Crc!Divide(G[k - 1], Crc!Bit(s, k))
    <3>1. CASE k \in 0..j
      <4>1. G[k] = F[k]
        BY <3>1
      <4> HIDE DEF G
      <4> QED BY <2>2, <2>4, <3>1, <4>1
    <3>2. CASE k \notin 0..j
      <4>1. G[k] = Crc!Divide(F[k - 1], Crc!Bit(s, k)) /\ k # 0
        BY <3>2
      <4> HIDE DEF G
      <4> QED BY <2>4, <4>1
    <3> QED BY <3>1, <3>2
  <2>6. G = [k \in 0..j + 1 |-> G[k]]
    OBVIOUS
  <2> HIDE DEF G
  <2>7. Sums(G, s, j + 1)
    BY <2>5, <2>6 DEF Sums
  <2> QED BY <2>7
<1> HIDE DEF T
<1>3. Nat \subseteq T
  BY <1>1, <1>2, NatInductionSet
<1> QED BY <1>3 DEF T

\* the sum of the reference after each bit of s
SumOf(s) == CHOOSE F : Sums(F, s, 8 * Len(s))

\* The sums are those of the reference.
LEMMA SumOfFacts ==
  ASSUME NEW s \in Seq(Crc!Byte)
  PROVE  /\ Len(s) \in Nat
         /\ SumOf(s)[0] = Crc!Ones
         /\ \A k \in 1..8 * Len(s) : SumOf(s)[k] = Crc!Divide(SumOf(s)[k - 1], Crc!Bit(s, k))
         /\ Crc!CRC32(s) = Crc!Xor(SumOf(s)[8 * Len(s)], Crc!Ones)
<1> DEFINE F == SumOf(s)
<1>1. Len(s) \in Nat /\ 8 * Len(s) \in Nat
  BY LenProperties
<1>2. Sums(F, s, 8 * Len(s))
  <2>1. \E G : Sums(G, s, 8 * Len(s))
    BY <1>1, SumsExist
  <2> QED BY <2>1 DEF SumOf
<1>3. Crc!CRC32(s) = Crc!Xor(SumOf(s)[8 * Len(s)], Crc!Ones)
  BY DEF Crc!CRC32, SumOf, Sums
<1> HIDE DEF F
<1>4. \A k \in 0..8 * Len(s) : F[k] = IF k = 0 THEN Crc!Ones ELSE Crc!Divide(F[k - 1], Crc!Bit(s, k))
  BY <1>2 DEF Sums
<1>5. F[0] = Crc!Ones
  BY <1>1, <1>4
<1>6. \A k \in 1..8 * Len(s) : F[k] = Crc!Divide(F[k - 1], Crc!Bit(s, k))
  <2>1. \A k \in 1..8 * Len(s) : k \in 0..8 * Len(s) /\ k # 0
    BY <1>1
  <2> QED BY <1>4, <2>1
<1> QED BY <1>1, <1>3, <1>5, <1>6 DEF F

\* The table takes the sum over a byte of the file as the eight steps do.
LEMMA SumOfNext ==
  ASSUME NEW s \in Seq(Crc!Byte), NEW i \in 0..Len(s) - 1, SumOf(s)[8 * i] \in Crc!Word
  PROVE  /\ SumOf(s)[8 * (i + 1)] = Crc!crc32(SumOf(s)[8 * i], s[i + 1])
         /\ SumOf(s)[8 * (i + 1)] \in Crc!Word
<1> DEFINE F == SumOf(s)
           S == [j \in 0..8 |-> F[8 * i + j]]
           b == s[i + 1]
<1>1. /\ Len(s) \in Nat /\ i \in Nat /\ i + 1 \in 1..Len(s)
      /\ \A k \in 1..8 * Len(s) : F[k] = Crc!Divide(F[k - 1], Crc!Bit(s, k))
  BY SumOfFacts
<1>2. b \in Crc!Byte
  BY <1>1, ElementOfSeq
<1> HIDE DEF F, b
<1>3. ASSUME NEW j \in 0..7
      PROVE  S[j + 1] = Crc!Divide(S[j], j \in Crc!BitsOf(b))
  <2> DEFINE k == 8 * i + j + 1
  <2>1. k \in 1..8 * Len(s) /\ k - 1 = 8 * i + j /\ (k - 1) % 8 = j /\ (k - 1) \div 8 = i
    <3>1. k - 1 = 8 * i + j /\ k \in Nat /\ j \in 0..7
      BY <1>1
    <3>2. \A a \in Nat, c \in 0..7 : (8 * a + c) % 8 = c /\ (8 * a + c) \div 8 = a
      OBVIOUS
    <3>3. k \in 1..8 * Len(s)
      BY <1>1
    <3> HIDE DEF k
    <3> QED BY <1>1, <3>1, <3>2, <3>3
  <2>2. Crc!Bit(s, k) = (j \in Crc!BitsOf(b))
    BY <2>1 DEF Crc!Bit, b
  <2>3. j \in 0..8 /\ j + 1 \in 0..8 /\ 8 * i + (j + 1) = k /\ 8 * i + j = k - 1
    BY <1>1
  <2>4. S[j] = F[k - 1] /\ S[j + 1] = F[k]
    <3> HIDE DEF k
    <3> QED BY <2>3
  <2> HIDE DEF S, k
  <2> QED BY <1>1, <2>1, <2>2, <2>4
<1>4. S[0] = F[8 * i] /\ S[8] = F[8 * (i + 1)]
  <2>1. 8 * i + 0 = 8 * i /\ 8 * i + 8 = 8 * (i + 1) /\ 0 \in 0..8 /\ 8 \in 0..8
    BY <1>1
  <2> QED BY <2>1
<1>5. F[8 * i] \in Crc!Word
  BY DEF F
<1> HIDE DEF S
<1>6. S[8] = Crc!crc32(F[8 * i], b) /\ Crc!crc32(F[8 * i], b) \in Crc!Word
  BY <1>2, <1>3, <1>4, <1>5, EightSteps
<1> QED BY <1>4, <1>6 DEF F, b

\* They are words, and so is what the table makes of one.
LEMMA SumOfWords ==
  ASSUME NEW s \in Seq(Crc!Byte)
  PROVE  \A i \in 0..Len(s) : SumOf(s)[8 * i] \in Crc!Word
<1> DEFINE T == {i \in Nat : i <= Len(s) => SumOf(s)[8 * i] \in Crc!Word}
<1>0. Len(s) \in Nat
  BY LenProperties
<1>1. 0 \in T
  <2>1. SumOf(s)[0] = Crc!Ones /\ 8 * 0 = 0
    BY SumOfFacts
  <2> QED BY <2>1 DEF Crc!Ones, Crc!Word
<1>2. ASSUME NEW i \in Nat, i \in T PROVE i + 1 \in T
  <2> SUFFICES ASSUME i + 1 <= Len(s) PROVE SumOf(s)[8 * (i + 1)] \in Crc!Word
    OBVIOUS
  <2>1. i \in 0..Len(s) - 1 /\ SumOf(s)[8 * i] \in Crc!Word
    BY <1>0, <1>2
  <2> QED BY <2>1, SumOfNext
<1> HIDE DEF T
<1>3. Nat \subseteq T
  BY <1>1, <1>2, NatInductionSet
<1> QED BY <1>0, <1>3 DEF T

LEMMA CrcWord ==
  ASSUME NEW w \in Crc!Word, NEW b \in Crc!Byte
  PROVE  Crc!crc32(w, b) \in Crc!Word
<1>1. \A x : Crc!crc32_tab(x) \in Crc!Word
  <2>1. \A x : Crc!BitsOf(x) \subseteq 0..15
    BY DEF Crc!BitsOf
  <2> QED BY <2>1 DEF Crc!crc32_tab, Crc!Word
<1>2. Crc!ShiftRight(w, 8) \in Crc!Word
  BY WordFacts
<1> QED BY <1>1, <1>2, WordFacts DEF Crc!crc32

----------------------------------------------------------------------------
CrcVars == <<file, pc, size, mapped, bytes_readed, idx, crc, printed>>

\* The sum is that of the bytes passed, as long as nobody cut the file, and what
\* is mapped is what is not passed, unless the mapping failed.
CrcInv ==
  /\ Crc!TypeOK
  /\ pc \in {"open", "map"} => mapped = {} /\ bytes_readed = 0 /\ idx = 0 /\ crc = Crc!Ones
  /\ idx <= size - bytes_readed
  /\ mapped = bytes_readed..size - 1 \/ (mapped = {} /\ bytes_readed = 0 /\ idx = 0)
  /\ pc = "sum" /\ Len(file) = size => crc = SumOf(file)[8 * (bytes_readed + idx)]
  /\ Crc!SumIsCrc32 /\ Crc!DiesOnlyWithoutBytes /\ Crc!AllUnmapped

LEMMA CrcInit0 ==
  ASSUME Crc!Init
  PROVE  CrcInv
<1>1. Crc!ContentsAssumption
  BY ConstantsAssumption
<1>2. /\ file \in Seq(Crc!Byte) /\ pc = "open" /\ size = 0 /\ mapped = {} /\ bytes_readed = 0 /\ idx = 0
      /\ crc = Crc!Ones /\ printed = {}
  BY <1>1 DEF Crc!Init, Crc!ContentsAssumption
<1>3. crc \in Crc!Word /\ printed \in Crc!Word
  BY <1>2 DEF Crc!Word, Crc!Ones
<1> QED BY <1>2, <1>3 DEF CrcInv, Crc!TypeOK, Crc!SumIsCrc32, Crc!DiesOnlyWithoutBytes, Crc!AllUnmapped

\* The steps up to the first chunk.
LEMMA CrcStart ==
  ASSUME CrcInv, Crc!OpenFails \/ Crc!Open \/ Crc!Map
  PROVE  CrcInv'
<1>1. file \in Seq(Crc!Byte) /\ Len(file) \in Nat /\ size \in Nat /\ Len(file)' = Len(file)
  BY LenProperties DEF CrcInv, Crc!TypeOK, Crc!OpenFails, Crc!Open, Crc!Map
<1>2. CASE Crc!OpenFails
  BY <1>1, <1>2 DEF Crc!OpenFails, CrcInv, Crc!TypeOK, Crc!SumIsCrc32, Crc!DiesOnlyWithoutBytes, Crc!AllUnmapped
<1>3. CASE Crc!Open
  BY <1>1, <1>3 DEF Crc!Open, CrcInv, Crc!TypeOK, Crc!SumIsCrc32, Crc!DiesOnlyWithoutBytes, Crc!AllUnmapped
<1>4. CASE Crc!Map
  <2>1. /\ pc = "map" /\ pc' = "sum" /\ mapped' \in {{}, 0..size - 1}
        /\ UNCHANGED <<file, size, bytes_readed, idx, crc, printed>>
        /\ bytes_readed = 0 /\ idx = 0 /\ crc = Crc!Ones
    BY <1>4 DEF Crc!Map, CrcInv
  <2>2. crc = SumOf(file)[8 * (bytes_readed + idx)]
    <3>1. 8 * (bytes_readed + idx) = 0
      BY <2>1
    <3> QED BY <1>1, <2>1, <3>1, SumOfFacts
  <2>3. Crc!TypeOK'
    BY <1>1, <2>1 DEF CrcInv, Crc!TypeOK
  <2>4. crc' = SumOf(file')[8 * (bytes_readed' + idx')]
    BY <2>1, <2>2
  <2> QED BY <1>1, <2>1, <2>3, <2>4 DEF CrcInv, Crc!TypeOK, Crc!SumIsCrc32, Crc!DiesOnlyWithoutBytes, Crc!AllUnmapped
<1> QED BY <1>2, <1>3, <1>4

\* A byte is summed, or a read of a byte that the file lost kills the program.
LEMMA CrcSum ==
  ASSUME CrcInv, Crc!SumByte \/ Crc!Die
  PROVE  CrcInv'
<1>1. /\ file \in Seq(Crc!Byte) /\ Len(file) \in Nat /\ size \in Nat /\ bytes_readed \in 0..size
      /\ idx \in 0..4 /\ idx <= size - bytes_readed
      /\ mapped = bytes_readed..size - 1 \/ (mapped = {} /\ bytes_readed = 0 /\ idx = 0)
      /\ crc \in Crc!Word
  BY LenProperties DEF CrcInv, Crc!TypeOK
<1>2. /\ pc = "sum" /\ UNCHANGED <<file, size, mapped, bytes_readed, printed>>
      /\ bytes_readed < size /\ idx < Crc!read_by
      /\ Crc!read_by = IF size - bytes_readed < 4 THEN size - bytes_readed ELSE 4
  BY DEF Crc!SumByte, Crc!Die, Crc!read_by
<1>3. /\ bytes_readed + idx \in 0..size - 1
      /\ idx + 1 <= size - bytes_readed /\ idx + 1 \in 0..4
  BY <1>1, <1>2
<1>4. CASE Crc!SumByte
  <2>1. /\ bytes_readed + idx \in mapped /\ pc' = pc /\ idx' = idx + 1
        /\ crc' = Crc!crc32(crc, Crc!ByteAt(bytes_readed + idx))
    BY <1>4 DEF Crc!SumByte, Crc!Readable
  <2>2. mapped = bytes_readed..size - 1
    BY <1>1, <2>1
  <2>3. crc' \in Crc!Word
    <3>1. Crc!ByteAt(bytes_readed + idx) \in Crc!Byte
      <4>1. CASE bytes_readed + idx < Len(file)
        <5>1. bytes_readed + idx + 1 \in 1..Len(file)
          BY <1>1, <1>3, <4>1
        <5> QED BY <1>1, <4>1, <5>1, ElementOfSeq DEF Crc!ByteAt
      <4>2. CASE ~(bytes_readed + idx < Len(file))
        BY <4>2 DEF Crc!ByteAt, Crc!Byte
      <4> QED BY <4>1, <4>2
    <3> QED BY <1>1, <2>1, <3>1, CrcWord
  <2>4. ASSUME Len(file) = size
        PROVE  crc' = SumOf(file)[8 * (bytes_readed + (idx + 1))]
    <3> DEFINE i == bytes_readed + idx
    <3>1. i \in 0..Len(file) - 1 /\ i \in 0..Len(file) /\ i < Len(file) /\ bytes_readed + (idx + 1) = i + 1
      BY <1>1, <1>3, <2>4
    <3>2. crc = SumOf(file)[8 * i]
      BY <1>2, <2>4 DEF CrcInv
    <3>3. Crc!ByteAt(i) = file[i + 1]
      BY <3>1 DEF Crc!ByteAt
    <3> HIDE DEF i
    <3>4. SumOf(file)[8 * (i + 1)] = Crc!crc32(SumOf(file)[8 * i], file[i + 1])
      BY <1>1, <3>1, SumOfWords, SumOfNext
    <3>5. crc' = Crc!crc32(crc, Crc!ByteAt(i))
      BY <2>1 DEF i
    <3> QED BY <3>1, <3>2, <3>3, <3>4, <3>5
  <2>5. Crc!TypeOK'
    BY <1>1, <1>2, <1>3, <2>1, <2>3 DEF CrcInv, Crc!TypeOK
  <2>6. pc' = "sum" /\ Len(file') = size' => crc' = SumOf(file')[8 * (bytes_readed' + idx')]
    BY <1>2, <2>1, <2>4
  <2> QED BY <1>2, <1>3, <2>1, <2>2, <2>5, <2>6
       DEF CrcInv, Crc!SumIsCrc32, Crc!DiesOnlyWithoutBytes, Crc!AllUnmapped
<1>5. CASE Crc!Die
  <2>1. /\ pc' = "killed" /\ idx' = idx /\ crc' = crc
        /\ ~Crc!Readable(bytes_readed + idx)
    BY <1>5 DEF Crc!Die
  <2>2. (mapped = {} /\ bytes_readed = 0) \/ Len(file) < size
    <3> SUFFICES ASSUME mapped = bytes_readed..size - 1 PROVE Len(file) < size
      BY <1>1
    <3>1. bytes_readed + idx \in mapped
      BY <1>1, <1>3
    <3>2. ~(bytes_readed + idx < 2 * ((Len(file) + 2 - 1) \div 2))
      BY <2>1, <3>1 DEF Crc!Readable, Crc!PagesOf
    <3>3. 2 * ((Len(file) + 2 - 1) \div 2) >= Len(file)
      BY <1>1
    <3>4. (Len(file) + 2 - 1) \div 2 \in Nat
      BY <1>1
    <3> QED BY <1>1, <1>3, <3>2, <3>3, <3>4
  <2>3. Crc!TypeOK'
    BY <1>1, <1>2, <2>1 DEF CrcInv, Crc!TypeOK
  <2>4. Crc!DiesOnlyWithoutBytes'
    BY <1>2, <2>2 DEF Crc!DiesOnlyWithoutBytes
  <2> QED BY <1>1, <1>2, <2>1, <2>3, <2>4
       DEF CrcInv, Crc!SumIsCrc32, Crc!AllUnmapped
<1> QED BY <1>4, <1>5

\* A chunk is unmapped, and at the end the sum is printed.
LEMMA CrcEnd ==
  ASSUME CrcInv, Crc!Unmap \/ Crc!PrintSum
  PROVE  CrcInv'
<1>1. /\ file \in Seq(Crc!Byte) /\ Len(file) \in Nat /\ size \in Nat /\ bytes_readed \in 0..size
      /\ idx \in 0..4 /\ idx <= size - bytes_readed
      /\ mapped = bytes_readed..size - 1 \/ (mapped = {} /\ bytes_readed = 0 /\ idx = 0)
      /\ crc \in Crc!Word /\ mapped \subseteq 0..size - 1
  BY LenProperties DEF CrcInv, Crc!TypeOK
<1>2. CASE Crc!Unmap
  <2> DEFINE r == Crc!read_by
  <2>1. /\ pc = "sum" /\ UNCHANGED <<file, pc, size, crc, printed>>
        /\ bytes_readed < size /\ idx >= r /\ idx' = 0
        /\ mapped' = mapped \ (bytes_readed..bytes_readed + r - 1)
        /\ bytes_readed' = bytes_readed + r
    BY <1>2 DEF Crc!Unmap
  <2>2. r = IF size - bytes_readed < 4 THEN size - bytes_readed ELSE 4
    BY DEF Crc!read_by
  <2> HIDE DEF r
  <2>3. r \in 1..4 /\ idx = r /\ bytes_readed + r \in 0..size
    BY <1>1, <2>1, <2>2
  <2>4. mapped = bytes_readed..size - 1
    BY <1>1, <2>3
  <2>5. mapped' = bytes_readed'..size - 1
    BY <1>1, <2>1, <2>3, <2>4
  <2>6. pc' = "sum" /\ Len(file') = size' => crc' = SumOf(file')[8 * (bytes_readed' + idx')]
    <3>1. bytes_readed' + idx' = bytes_readed + idx
      BY <1>1, <2>1, <2>3
    <3> QED BY <2>1, <3>1 DEF CrcInv
  <2>7. Crc!TypeOK'
    <3>1. mapped' \subseteq 0..size - 1
      BY <1>1, <2>1
    <3> QED BY <1>1, <2>1, <2>3, <3>1 DEF CrcInv, Crc!TypeOK
  <2>8. idx' <= size' - bytes_readed'
    BY <1>1, <2>1, <2>3
  <2> QED BY <2>1, <2>5, <2>6, <2>7, <2>8
       DEF CrcInv, Crc!SumIsCrc32, Crc!DiesOnlyWithoutBytes, Crc!AllUnmapped
<1>3. CASE Crc!PrintSum
  <2>1. /\ pc = "sum" /\ pc' = "done" /\ bytes_readed >= size /\ printed' = Crc!Xor(crc, Crc!Ones)
        /\ UNCHANGED <<file, size, mapped, bytes_readed, idx, crc>>
    BY <1>3 DEF Crc!PrintSum
  <2>2. bytes_readed = size /\ idx = 0 /\ mapped = {}
    BY <1>1, <2>1
  <2>3. ASSUME Len(file) = size PROVE printed' = Crc!CRC32(file)
    <3>1. crc = SumOf(file)[8 * (bytes_readed + idx)] /\ bytes_readed + idx = Len(file)
      BY <1>1, <2>1, <2>2, <2>3 DEF CrcInv
    <3>2. Crc!CRC32(file) = Crc!Xor(SumOf(file)[8 * Len(file)], Crc!Ones)
      BY <1>1, SumOfFacts
    <3> QED BY <2>1, <3>1, <3>2
  <2>4. Crc!TypeOK'
    <3>1. Crc!Xor(crc, Crc!Ones) \in Crc!Word
      <4>1. Crc!Ones \in Crc!Word
        BY DEF Crc!Ones, Crc!Word
      <4> QED BY <1>1, <4>1, WordFacts
    <3> QED BY <1>1, <2>1, <3>1 DEF CrcInv, Crc!TypeOK
  <2>5. Crc!SumIsCrc32' /\ Crc!AllUnmapped' /\ Crc!DiesOnlyWithoutBytes'
    BY <2>1, <2>2, <2>3 DEF Crc!SumIsCrc32, Crc!DiesOnlyWithoutBytes, Crc!AllUnmapped
  <2> QED BY <1>1, <2>1, <2>4, <2>5 DEF CrcInv
<1> QED BY <1>2, <1>3

\* A file that was cut is not as long as it was.
LEMMA CrcTruncate ==
  ASSUME CrcInv, Crc!Truncate
  PROVE  CrcInv'
<1>1. PICK k \in 0..size - 1 : file' = SubSeq(file, 1, k)
  BY DEF Crc!Truncate
<1>2. /\ pc \in {"map", "sum"} /\ Len(file) = size
      /\ UNCHANGED <<pc, size, mapped, bytes_readed, idx, crc, printed>>
      /\ file \in Seq(Crc!Byte) /\ size \in Nat
  BY DEF Crc!Truncate, CrcInv, Crc!TypeOK
<1>3. Len(file') = k /\ file' \in Seq(Crc!Byte) /\ k # size
  <2>1. \A i \in 1..k : file[i] \in Crc!Byte
    BY <1>2, ElementOfSeq
  <2>2. Len(SubSeq(file, 1, k)) = k /\ SubSeq(file, 1, k) \in Seq(Crc!Byte)
    BY <1>2, <2>1, SubSeqProperties
  <2> QED BY <1>1, <1>2, <2>2
<1>4. Crc!TypeOK'
  BY <1>2, <1>3 DEF CrcInv, Crc!TypeOK
<1> QED BY <1>2, <1>3, <1>4 DEF CrcInv, Crc!SumIsCrc32, Crc!DiesOnlyWithoutBytes, Crc!AllUnmapped

LEMMA CrcStep ==
  ASSUME CrcInv, Crc!Next \/ UNCHANGED CrcVars
  PROVE  CrcInv'
<1>1. CASE UNCHANGED CrcVars
  BY <1>1 DEF CrcVars, CrcInv, Crc!TypeOK, Crc!SumIsCrc32, Crc!DiesOnlyWithoutBytes, Crc!AllUnmapped
<1>2. CASE Crc!Next
  <2>1. CASE Crc!OpenFails \/ Crc!Open \/ Crc!Map
    BY <2>1, CrcStart
  <2>2. CASE Crc!SumByte \/ Crc!Die
    BY <2>2, CrcSum
  <2>3. CASE Crc!Unmap \/ Crc!PrintSum
    BY <2>3, CrcEnd
  <2>4. CASE Crc!Truncate
    BY <2>4, CrcTruncate
  <2> QED BY <1>2, <2>1, <2>2, <2>3, <2>4 DEF Crc!Next, Crc!print_crc32
<1> QED BY <1>1, <1>2

\* The other programs leave the variables of this one alone.
LEMMA CrcAlone ==
  ASSUME [Next]_vars
  PROVE  /\ program' = program
         /\ program = "crc32" => Crc!Next \/ UNCHANGED CrcVars
BY DEF Next, vars, JpegNext, SumNext, Utf8Next, TelehackNext, LogNext, ListNext, WeatherNext, crcVars, CrcVars

\* crc32, for every file: the sum printed is the one the polynomial defines, each
\* byte is summed once and in order, no byte is read that was unmapped or lies
\* behind the end, and the whole mapping is unmapped, unless the file is truncated
\* while it is read (crc32/src/main.c: crc32, print_crc32).
THEOREM SumsFileCorrect == Spec => []SumsFile
<1> DEFINE J == program = "crc32" => CrcInv
<1>1. Init => J
  <2> SUFFICES ASSUME Init, program = "crc32" PROVE CrcInv
    OBVIOUS
  <2>1. Crc!Init
    BY DEF Init, JpegInit, SumInit, Utf8Init, TelehackInit, LogInit, ListInit, WeatherInit
  <2> QED BY <2>1, CrcInit0
<1>2. J /\ [Next]_vars => J'
  BY CrcAlone, CrcStep
<1>3. J => SumsFile
  BY DEF SumsFile, CrcInv
<1> QED BY <1>1, <1>2, <1>3, PTL DEF Spec

----------------------------------------------------------------------------
(* to_utf8.  Each character becomes its own code in UTF-8, in whichever piece*)
(* it is read.                                                             *)

\* the characters all three encodings have
Chars == 0..127 \cup Utf8!Letters

\* The letters of KOI8-R in the program's table and in the standard's order.
LEMMA KoiTable ==
  \A k \in 1..32 : /\ Utf8!KoiOrder[k] \in 1..32
                   /\ Utf8!koi8r_letters[k] = 1071 + Utf8!KoiOrder[k]
                   /\ Utf8!koi8r_letters[k + 32] = 1039 + Utf8!KoiOrder[k]
BY DEF Utf8!KoiOrder, Utf8!koi8r_letters

\* Every letter has its place in the table.
LEMMA KoiAll ==
  \A p \in 1..32 : \E k \in 1..32 : Utf8!KoiOrder[k] = p
BY DEF Utf8!KoiOrder

LEMMA LettersAre == Utf8!Letters = 1040..1103
BY DEF Utf8!Letters

LEMMA KoiLetters ==
  ASSUME NEW p \in 1..32, NEW k \in 1..32, Utf8!KoiOrder[k] = p
  PROVE  Utf8!koi8r_letters[k] = 1071 + p /\ Utf8!koi8r_letters[k + 32] = 1039 + p
BY KoiTable

LEMMA KoiLetter ==
  ASSUME NEW c \in 1040..1103
  PROVE  Utf8!KoiPlace(c) \in 0..63 /\ Utf8!koi8r_letters[Utf8!KoiPlace(c) + 1] = c
<1>1. PICK p : p = 1 + ((c - 1040) % 32)
  OBVIOUS
<1>2. p \in 1..32 /\ c = IF c < 1072 THEN 1039 + p ELSE 1071 + p
  BY <1>1
<1> DEFINE k == CHOOSE j \in 1..32 : Utf8!KoiOrder[j] = p
<1>3. k \in 1..32 /\ Utf8!KoiOrder[k] = p
  <2>1. p \in 1..32
    BY <1>2
  <2>2. \E j \in 1..32 : Utf8!KoiOrder[j] = p
    BY ONLY <2>1, KoiAll
  <2> QED BY ONLY <2>2, Zenon
<1>4. Utf8!KoiPlace(c) = (k - 1) + (IF c < 1072 THEN 32 ELSE 0)
  BY <1>1 DEF Utf8!KoiPlace
<1> HIDE DEF k
<1>5. Utf8!koi8r_letters[k] = 1071 + p /\ Utf8!koi8r_letters[k + 32] = 1039 + p
  BY ONLY <1>2, <1>3, KoiLetters
<1>6. CASE c < 1072
  <2>1. Utf8!KoiPlace(c) = k + 31 /\ (k + 31) + 1 = k + 32
    BY <1>3, <1>4, <1>6
  <2> QED BY <1>2, <1>3, <1>5, <1>6, <2>1
<1>7. CASE ~(c < 1072)
  <2>1. Utf8!KoiPlace(c) = k - 1 /\ (k - 1) + 1 = k
    BY <1>3, <1>4, <1>7
  <2> QED BY <1>2, <1>3, <1>5, <1>7, <2>1
<1> QED BY <1>6, <1>7

\* A character in any of the encodings is converted to itself in UTF-8.
LEMMA CharFacts ==
  ASSUME NEW c \in Chars
  PROVE  /\ \A enc \in {-1, 1, 2, 3} : Utf8!ByteOf(c, enc) \in Utf8!Byte /\ (Utf8!ByteOf(c, enc) = 0 => c = 0)
         /\ encoding \in {1, 2, 3} => Utf8!Encode(Utf8!ByteOf(c, encoding)) = Utf8!Utf8(c)
         /\ Utf8!Utf8(c) \in Seq(Utf8!Byte) /\ Len(Utf8!Utf8(c)) <= 2
<1>1. c \in 0..127 \/ c \in 1040..1103
  BY LettersAre DEF Chars
<1>2. CASE c \in 0..127
  <2>1. c < 128
    BY <1>2
  <2> QED BY <1>2, <2>1 DEF Utf8!ByteOf, Utf8!Byte, Utf8!Encode, Utf8!Utf8
<1>3. CASE c \in 1040..1103
  <2>1. ~(c < 128) /\ c - 1040 \in 0..63
    BY <1>3
  <2>2. Utf8!KoiPlace(c) \in 0..63 /\ Utf8!koi8r_letters[Utf8!KoiPlace(c) + 1] = c
    BY <1>3, KoiLetter
  <2>3. \A enc : Utf8!ByteOf(c, enc) = IF enc = 2 THEN 192 + Utf8!KoiPlace(c)
                                       ELSE IF enc = 3 THEN 176 + (c - 1040) ELSE 192 + (c - 1040)
    BY <2>1 DEF Utf8!ByteOf, Utf8!koi8r, Utf8!iso88595
  <2>4. \A enc : Utf8!ByteOf(c, enc) \in 176..255
    BY <2>1, <2>2, <2>3
  <2>5. ASSUME NEW enc, enc \in {1, 2, 3}
        PROVE  Utf8!get_characters_set(enc)[Utf8!ByteOf(c, enc) - 128] = c
    <3>1. CASE enc = 1
      <4>1. Utf8!ByteOf(c, enc) - 128 = c - 976 /\ c - 976 \in 64..127
        BY <1>3, <2>3, <3>1
      <4>2. Utf8!get_characters_set(enc) = Utf8!cp1251_utf8
        BY <3>1 DEF Utf8!get_characters_set, Utf8!cp1251, Utf8!koi8r, Utf8!iso88595
      <4>3. Utf8!cp1251_utf8[c - 976] = c
        BY <1>3, <4>1 DEF Utf8!cp1251_utf8
      <4> QED BY <4>1, <4>2, <4>3
    <3>2. CASE enc = 2
      <4>1. /\ Utf8!ByteOf(c, enc) - 128 = Utf8!KoiPlace(c) + 64 /\ Utf8!KoiPlace(c) + 64 \in 64..127
            /\ (Utf8!KoiPlace(c) + 64) - 63 = Utf8!KoiPlace(c) + 1
        BY <2>2, <2>3, <3>2
      <4>2. Utf8!get_characters_set(enc) = Utf8!koi8r_utf8
        BY <3>2 DEF Utf8!get_characters_set, Utf8!cp1251, Utf8!koi8r, Utf8!iso88595
      <4>3. Utf8!koi8r_utf8[Utf8!KoiPlace(c) + 64] = c
        BY <2>2, <4>1 DEF Utf8!koi8r_utf8
      <4> QED BY <4>1, <4>2, <4>3
    <3>3. CASE enc = 3
      <4>1. Utf8!ByteOf(c, enc) - 128 = c - 992 /\ c - 992 \in 48..111
        BY <1>3, <2>3, <3>3
      <4>2. Utf8!get_characters_set(enc) = Utf8!iso88595_utf8
        BY <3>3 DEF Utf8!get_characters_set, Utf8!cp1251, Utf8!koi8r, Utf8!iso88595
      <4>3. Utf8!iso88595_utf8[c - 992] = c
        BY <1>3, <4>1 DEF Utf8!iso88595_utf8
      <4> QED BY <4>1, <4>2, <4>3
    <3> QED BY <2>5, <3>1, <3>2, <3>3
  <2>6. encoding \in {1, 2, 3} => Utf8!Encode(Utf8!ByteOf(c, encoding)) = Utf8!Utf8(c)
    <3>1. ~(Utf8!ByteOf(c, encoding) < 128)
      BY <2>4
    <3> QED BY <2>1, <2>5, <3>1 DEF Utf8!Encode, Utf8!Utf8
  <2>7. Utf8!Utf8(c) = <<192 + (c \div 64), 128 + (c % 64)>>
    BY <2>1 DEF Utf8!Utf8
  <2>8. 192 + (c \div 64) \in 0..255 /\ 128 + (c % 64) \in 0..255
    BY <1>3
  <2> QED BY <2>4, <2>6, <2>7, <2>8 DEF Utf8!Byte
<1> QED BY <1>1, <1>2, <1>3

\* Laying out sequences piece by piece.
\* the sequences tt are the m that come behind the first i of ss
Continues(S, ss, im, i, m, tt) ==
  /\ i \in Nat /\ m \in Nat /\ im = i + m
  /\ \A j \in 1..im : ss[j] \in Seq(S)
  /\ \A j \in 1..m : tt[j] = ss[i + j]

LEMMA FlatPlus ==
  ASSUME NEW S, NEW ss, NEW im, NEW i, NEW m, NEW tt, Continues(S, ss, im, i, m, tt)
  PROVE  Flat(ss, im) = Flat(ss, i) \o Flat(tt, m)
<1>0. /\ i \in Nat /\ m \in Nat /\ im = i + m
      /\ \A j \in 1..i + m : ss[j] \in Seq(S)
      /\ \A j \in 1..m : tt[j] = ss[i + j]
  BY DEF Continues
<1> DEFINE T == {k \in Nat : k <= m => Flat(ss, i + k) = Flat(ss, i) \o Flat(tt, k)}
<1>1. /\ \A k \in 0..i + m : Flat(ss, k) \in Seq(S)
      /\ \A k \in 0..(i + m) - 1 : Flat(ss, k + 1) = Flat(ss, k) \o ss[k + 1]
  <2>1. i + m \in Nat
    BY <1>0
  <2> QED BY <1>0, <2>1, FlatFacts
<1>2. /\ Flat(tt, 0) = <<>>
      /\ \A k \in 0..m : Flat(tt, k) \in Seq(S)
      /\ \A k \in 0..m - 1 : Flat(tt, k + 1) = Flat(tt, k) \o tt[k + 1]
  <2>1. \A j \in 1..m : tt[j] \in Seq(S)
    <3>1. \A j \in 1..m : i + j \in 1..i + m
      BY <1>0
    <3> QED BY <1>0, <3>1
  <2> QED BY <1>0, <2>1, FlatFacts
<1>3. 0 \in T
  <2>1. i + 0 = i /\ i \in 0..i + m
    BY <1>0
  <2> QED BY <1>1, <1>2, <2>1, ConcatEmptySeq
<1>4. ASSUME NEW k \in Nat, k \in T PROVE k + 1 \in T
  <2> SUFFICES ASSUME k + 1 <= m PROVE Flat(ss, i + (k + 1)) = Flat(ss, i) \o Flat(tt, k + 1)
    OBVIOUS
  <2>1. /\ i + k \in 0..(i + m) - 1 /\ i + (k + 1) = (i + k) + 1 /\ k \in 0..m - 1 /\ k \in 0..m
        /\ k + 1 \in 1..m /\ i + (k + 1) \in 1..i + m /\ i \in 0..i + m
    BY <1>0
  <2>2. Flat(ss, i + k) = Flat(ss, i) \o Flat(tt, k)
    BY <1>4, <2>1
  <2>3. Flat(ss, i + (k + 1)) = (Flat(ss, i) \o Flat(tt, k)) \o tt[k + 1]
    BY <1>0, <1>1, <2>1, <2>2
  <2>4. Flat(tt, k + 1) = Flat(tt, k) \o tt[k + 1]
    BY <1>2, <2>1
  <2>5. Flat(ss, i) \in Seq(S) /\ Flat(tt, k) \in Seq(S) /\ tt[k + 1] \in Seq(S)
    BY <1>0, <1>1, <1>2, <2>1
  <2>6. (Flat(ss, i) \o Flat(tt, k)) \o tt[k + 1] = Flat(ss, i) \o (Flat(tt, k) \o tt[k + 1])
    <3> DEFINE a == Flat(ss, i)
               d == Flat(tt, k)
               e == tt[k + 1]
    <3>1. a \in Seq(S) /\ d \in Seq(S) /\ e \in Seq(S)
      BY <2>5
    <3> HIDE DEF a, d, e
    <3>2. (a \o d) \o e = a \o (d \o e)
      BY ONLY <3>1, ConcatAssociative
    <3> QED BY <3>2 DEF a, d, e
  <2> QED BY <2>3, <2>4, <2>6
<1> HIDE DEF T
<1>5. Nat \subseteq T
  BY <1>3, <1>4, NatInductionSet
<1> QED BY <1>0, <1>5 DEF T

\* A character is at most two bytes.
LEMMA FlatLength ==
  ASSUME NEW S, NEW m \in Nat, NEW ss, \A j \in 1..m : ss[j] \in Seq(S) /\ Len(ss[j]) <= 2
  PROVE  Len(Flat(ss, m)) <= 2 * m
<1> DEFINE T == {k \in Nat : k <= m => Len(Flat(ss, k)) <= 2 * k}
<1>1. /\ Flat(ss, 0) = <<>>
      /\ \A k \in 0..m : Flat(ss, k) \in Seq(S)
      /\ \A k \in 0..m - 1 : Flat(ss, k + 1) = Flat(ss, k) \o ss[k + 1]
  BY FlatFacts
<1>2. 0 \in T
  BY <1>1, EmptySeq
<1>3. ASSUME NEW k \in Nat, k \in T PROVE k + 1 \in T
  <2> SUFFICES ASSUME k + 1 <= m PROVE Len(Flat(ss, k + 1)) <= 2 * (k + 1)
    OBVIOUS
  <2>1. k \in 0..m - 1 /\ k \in 0..m /\ k + 1 \in 1..m /\ Len(Flat(ss, k)) <= 2 * k
    BY <1>3
  <2>2. Flat(ss, k) \in Seq(S) /\ ss[k + 1] \in Seq(S) /\ Len(ss[k + 1]) <= 2
    BY <1>1, <2>1
  <2>3. Len(Flat(ss, k + 1)) = Len(Flat(ss, k)) + Len(ss[k + 1])
    BY <1>1, <2>1, <2>2, ConcatProperties
  <2>4. Len(Flat(ss, k)) \in Nat /\ Len(ss[k + 1]) \in Nat
    BY <2>2, LenProperties
  <2> QED BY <2>1, <2>2, <2>3, <2>4
<1> HIDE DEF T
<1>4. Nat \subseteq T
  BY <1>2, <1>3, NatInductionSet
<1> QED BY <1>4 DEF T

Utf8Vars == <<text, encoding, input, last_j, printed, pc>>

\* The texts hold no NUL: what the program does with one is a finding of its own.
NoNul == \A t \in Texts : \A k \in DOMAIN t : t[k] # 0

\* the characters of a text in UTF-8
Codes(t) == [k \in DOMAIN t |-> Utf8!Utf8(t[k])]

\* The first i characters are written, the others are in the input.
Utf8Inv ==
  /\ Utf8!TypeOK
  /\ Utf8!PieceFits
  /\ pc \in {"open", "convert"} =>
       \E i \in 0..Len(text) :
          /\ Len(input) = Len(text) - i
          /\ \A k \in 1..Len(input) : input[k] = Utf8!ByteOf(text[i + k], encoding)
          /\ printed = Flat(Codes(text), i)
  /\ pc = "convert" => encoding \in {1, 2, 3}
  /\ pc = "done" => printed = Flat(Codes(text), Len(text))

\* What is assumed of a text.
LEMMA TextFacts ==
  ASSUME NEW t \in Texts
  PROVE  /\ t \in Seq(Chars) /\ Len(t) \in Nat /\ DOMAIN t = 1..Len(t)
         /\ \A k \in 1..Len(t) : /\ t[k] \in Chars
                                 /\ Codes(t)[k] = Utf8!Utf8(t[k])
                                 /\ Codes(t)[k] \in Seq(Utf8!Byte) /\ Len(Codes(t)[k]) <= 2
         /\ Flat(Codes(t), 0) = <<>>
         /\ \A k \in 0..Len(t) : Flat(Codes(t), k) \in Seq(Utf8!Byte)
<1>1. Utf8!TextAssumption
  BY ConstantsAssumption
<1>2. t \in Seq(Chars)
  BY <1>1 DEF Utf8!TextAssumption, Chars
<1>3. Len(t) \in Nat /\ DOMAIN t = 1..Len(t) /\ \A k \in 1..Len(t) : t[k] \in Chars
  BY <1>2, LenProperties, ElementOfSeq
<1>4. \A k \in 1..Len(t) : /\ Codes(t)[k] = Utf8!Utf8(t[k])
                           /\ Codes(t)[k] \in Seq(Utf8!Byte) /\ Len(Codes(t)[k]) <= 2
  <2> TAKE k \in 1..Len(t)
  <2>1. Codes(t)[k] = Utf8!Utf8(t[k])
    BY <1>3 DEF Codes
  <2>2. Utf8!Utf8(t[k]) \in Seq(Utf8!Byte) /\ Len(Utf8!Utf8(t[k])) <= 2
    BY <1>3, CharFacts
  <2> QED BY <2>1, <2>2
<1>5. Flat(Codes(t), 0) = <<>> /\ \A k \in 0..Len(t) : Flat(Codes(t), k) \in Seq(Utf8!Byte)
  BY <1>3, <1>4, FlatFacts
<1> QED BY <1>2, <1>3, <1>4, <1>5

LEMMA Utf8Init0 ==
  ASSUME Utf8!Init
  PROVE  Utf8Inv
<1>1. /\ text \in Texts /\ encoding \in {-1, 1, 2, 3} /\ pc = "open" /\ last_j = 0 /\ printed = <<>>
      /\ input = [k \in DOMAIN text |-> Utf8!ByteOf(text[k], encoding)]
  BY DEF Utf8!Init, Utf8!undefined, Utf8!cp1251, Utf8!koi8r, Utf8!iso88595
<1>2. /\ Len(text) \in Nat /\ DOMAIN text = 1..Len(text) /\ \A k \in 1..Len(text) : text[k] \in Chars
      /\ Flat(Codes(text), 0) = <<>>
  BY <1>1, TextFacts
<1>3. \A k \in 1..Len(text) : Utf8!ByteOf(text[k], encoding) \in Utf8!Byte
  BY <1>1, <1>2, CharFacts
<1>4. /\ input \in Seq(Utf8!Byte) /\ Len(input) = Len(text)
      /\ \A k \in 1..Len(text) : input[k] = Utf8!ByteOf(text[k], encoding)
  BY <1>1, <1>2, <1>3
<1>5. \E i \in 0..Len(text) :
          /\ Len(input) = Len(text) - i
          /\ \A k \in 1..Len(input) : input[k] = Utf8!ByteOf(text[i + k], encoding)
          /\ printed = Flat(Codes(text), i)
  <2>1. 0 \in 0..Len(text) /\ Len(text) - 0 = Len(text) /\ \A k \in 1..Len(text) : 0 + k = k
    BY <1>2
  <2> QED BY <1>1, <1>2, <1>4, <2>1
<1>6. Utf8!TypeOK /\ Utf8!PieceFits
  <2>1. <<>> \in Seq(Utf8!Byte)
    OBVIOUS
  <2> QED BY <1>1, <1>4, <2>1
       DEF Utf8!TypeOK, Utf8!PieceFits, Utf8!k_utf8_buf_sz, Utf8!undefined, Utf8!cp1251, Utf8!koi8r, Utf8!iso88595
<1> QED BY <1>1, <1>5, <1>6 DEF Utf8Inv

\* fgets takes one to three bytes.
LEMMA FgetsLen ==
  ASSUME input \in Seq(Utf8!Byte), input # <<>>
  PROVE  Utf8!fgets_len \in 1..3 /\ Utf8!fgets_len \in 1..Len(input)
<1> DEFINE ends == {k \in DOMAIN input : input[k] = 10 \/ k = 3 \/ k = Len(input)}
<1>1. Len(input) \in Nat /\ DOMAIN input = 1..Len(input) /\ Len(input) # 0
  BY LenProperties, EmptySeq
<1>2. \A k : k \in ends <=> k \in 1..Len(input) /\ (input[k] = 10 \/ k = 3 \/ k = Len(input))
  BY <1>1
<1>3. Utf8!fgets_len = CHOOSE k \in ends : \A e \in ends : k <= e
  BY DEF Utf8!fgets_len, Utf8!LF
<1> HIDE DEF ends
<1>4. \E k \in ends : k <= 3 /\ \A e \in ends : k <= e
  <2>1. CASE 1 \in ends
    BY <1>1, <1>2, <2>1
  <2>2. CASE 1 \notin ends /\ 2 \in ends
    <3>1. \A e \in ends : 2 <= e
      <4> SUFFICES ASSUME NEW e \in ends PROVE 2 <= e
        OBVIOUS
      <4>1. e \in 1..Len(input) /\ e # 1
        BY <1>2, <2>2
      <4> QED BY <1>1, <4>1
    <3> QED BY <2>2, <3>1
  <2>3. CASE 1 \notin ends /\ 2 \notin ends
    <3>1. Len(input) # 1 /\ Len(input) # 2
      BY <1>1, <1>2, <2>3
    <3>2. 3 \in 1..Len(input)
      BY <1>1, <3>1
    <3>3. 3 \in ends
      BY <1>2, <3>2
    <3>4. \A e \in ends : 3 <= e
      <4> SUFFICES ASSUME NEW e \in ends PROVE 3 <= e
        OBVIOUS
      <4>1. e \in 1..Len(input) /\ e # 1 /\ e # 2
        BY <1>2, <2>3
      <4> QED BY <1>1, <4>1
    <3> QED BY <3>3, <3>4
  <2> QED BY <2>1, <2>2, <2>3
<1>5. PICK least \in ends : least <= 3 /\ \A e \in ends : least <= e
  BY <1>4
<1>6. Utf8!fgets_len \in ends /\ \A e \in ends : Utf8!fgets_len <= e
  <2>1. \E k \in ends : \A e \in ends : k <= e
    BY <1>5
  <2> QED BY <1>3, <2>1, Zenon
<1>7. Utf8!fgets_len <= least /\ least \in 1..Len(input) /\ Utf8!fgets_len \in 1..Len(input)
  BY <1>2, <1>5, <1>6
<1> QED BY <1>1, <1>5, <1>7

\* A piece is converted: the characters of it are the next ones of the text.
LEMMA Utf8Convert ==
  ASSUME NoNul, Utf8Inv, Utf8!Convert
  PROVE  Utf8Inv'
<1> DEFINE m == Utf8!fgets_len
           piece == SubSeq(input, 1, m)
           utf8 == Utf8!FlattenSeq([k \in DOMAIN piece |-> Utf8!Encode(piece[k])])
<1>1. /\ pc = "convert" /\ input # <<>> /\ UNCHANGED <<text, encoding, pc>>
      /\ input' = SubSeq(input, m + 1, Len(input))
      /\ text \in Texts /\ encoding \in {1, 2, 3} /\ input \in Seq(Utf8!Byte) /\ printed \in Seq(Utf8!Byte)
  BY DEF Utf8!Convert, Utf8Inv, Utf8!TypeOK
<1>2. PICK i \in 0..Len(text) :
          /\ Len(input) = Len(text) - i
          /\ \A k \in 1..Len(input) : input[k] = Utf8!ByteOf(text[i + k], encoding)
          /\ printed = Flat(Codes(text), i)
  BY <1>1 DEF Utf8Inv
<1>3. /\ Len(text) \in Nat /\ DOMAIN text = 1..Len(text)
      /\ \A k \in 1..Len(text) : /\ text[k] \in Chars
                                 /\ Codes(text)[k] = Utf8!Utf8(text[k])
                                 /\ Codes(text)[k] \in Seq(Utf8!Byte) /\ Len(Codes(text)[k]) <= 2
  BY <1>1, TextFacts
<1>4. m \in 1..3 /\ m \in 1..Len(input) /\ Len(input) \in Nat
  BY <1>1, FgetsLen, LenProperties
<1> HIDE DEF m
<1>5. /\ piece \in Seq(Utf8!Byte) /\ Len(piece) = m /\ DOMAIN piece = 1..m
      /\ \A k \in 1..m : piece[k] = input[k]
  <2>1. \A k \in 1..m : input[k] \in Utf8!Byte
    BY <1>1, <1>4, ElementOfSeq
  <2>2. /\ SubSeq(input, 1, m) \in Seq(Utf8!Byte)
        /\ Len(SubSeq(input, 1, m)) = m
        /\ \A k \in 1..m : SubSeq(input, 1, m)[k] = input[k]
    BY <1>1, <1>4, <2>1
  <2> QED BY <2>2, LenProperties
<1> DEFINE tt == [k \in 1..m |-> Codes(text)[i + k]]
<1>6. \A k \in 1..m : i + k \in 1..Len(text) /\ k \in 1..Len(input)
  BY <1>2, <1>3, <1>4
<1>7. \A k \in 1..m : piece[k] # 0 /\ Utf8!Encode(piece[k]) = Codes(text)[i + k]
  <2> TAKE k \in 1..m
  <2>1. text[i + k] \in Chars /\ text[i + k] # 0 /\ Codes(text)[i + k] = Utf8!Utf8(text[i + k])
    BY <1>1, <1>3, <1>6 DEF NoNul
  <2>2. piece[k] = Utf8!ByteOf(text[i + k], encoding)
    BY <1>2, <1>5, <1>6
  <2>3. /\ Utf8!ByteOf(text[i + k], encoding) = 0 => text[i + k] = 0
        /\ Utf8!Encode(Utf8!ByteOf(text[i + k], encoding)) = Utf8!Utf8(text[i + k])
    BY <1>1, <2>1, CharFacts
  <2> HIDE DEF piece
  <2> QED BY <2>1, <2>2, <2>3
<1>8. Utf8!UntilNul(piece) = piece
  <2>1. ~Utf8!Contains(piece, Utf8!NUL)
    BY <1>5, <1>7 DEF Utf8!Contains, Utf8!NUL
  <2> QED BY <2>1 DEF Utf8!UntilNul
<1>9. printed' = printed \o utf8 /\ last_j' = Len(utf8)
  BY <1>8 DEF Utf8!Convert, m
<1>10. utf8 = Flat(tt, m)
  <2> HIDE DEF piece
  <2>1. [k \in DOMAIN piece |-> Utf8!Encode(piece[k])] = tt
    BY <1>5, <1>7
  <2>2. [k \in 1..m |-> tt[k]] = tt
    OBVIOUS
  <2> HIDE DEF tt
  <2>3. Utf8!FlattenSeq(tt) = FlattenSeq(tt)
    BY DEF Utf8!FlattenSeq, FlattenSeq
  <2> QED BY <2>1, <2>2, <2>3 DEF Flat
<1> HIDE DEF utf8, piece
<1>11. i \in Nat /\ m \in Nat /\ i + m \in 0..Len(text)
  BY <1>2, <1>3, <1>4
<1>12. printed' = Flat(Codes(text), i + m)
  <2>1. \A j \in 1..i + m : Codes(text)[j] \in Seq(Utf8!Byte)
    <3>1. \A j \in 1..i + m : j \in 1..Len(text)
      BY <1>3, <1>11
    <3> QED BY <1>3, <3>1
  <2>2. \A j \in 1..m : tt[j] = Codes(text)[i + j]
    OBVIOUS
  <2> HIDE DEF tt
  <2>3. Flat(Codes(text), i + m) = Flat(Codes(text), i) \o Flat(tt, m)
    <3> DEFINE im == i + m
    <3>1. Continues(Utf8!Byte, Codes(text), im, i, m, tt)
      BY <1>11, <2>1, <2>2 DEF Continues
    <3> HIDE DEF im
    <3>2. Flat(Codes(text), im) = Flat(Codes(text), i) \o Flat(tt, m)
      BY ONLY <3>1, FlatPlus
    <3> QED BY <3>2 DEF im
  <2> QED BY <1>2, <1>9, <1>10, <2>3
<1>13. last_j' \in Nat /\ last_j' < 8 /\ printed' \in Seq(Utf8!Byte)
  <2>1. \A j \in 1..m : tt[j] \in Seq(Utf8!Byte) /\ Len(tt[j]) <= 2
    BY <1>3, <1>6
  <2> HIDE DEF tt
  <2>2. Len(Flat(tt, m)) <= 2 * m /\ Flat(tt, m) \in Seq(Utf8!Byte)
    <3>1. Len(Flat(tt, m)) <= 2 * m
      BY <1>11, <2>1, FlatLength
    <3>2. m \in 0..m
      BY <1>11
    <3>3. Flat(tt, m) \in Seq(Utf8!Byte)
      BY <1>11, <2>1, <3>2, FlatFacts
    <3> QED BY <3>1, <3>3
  <2>3. Len(Flat(tt, m)) \in Nat
    BY <2>2, LenProperties
  <2>4. printed \o Flat(tt, m) \in Seq(Utf8!Byte)
    BY <1>1, <2>2, ConcatProperties
  <2> QED BY <1>4, <1>9, <1>10, <2>2, <2>3, <2>4
<1>14. /\ input' \in Seq(Utf8!Byte) /\ Len(input') = Len(input) - m
       /\ \A k \in 1..Len(input') : input'[k] = input[m + k]
  <2>1. \A k \in m + 1..Len(input) : input[k] \in Utf8!Byte
    BY <1>1, <1>4, ElementOfSeq
  <2>2. /\ SubSeq(input, m + 1, Len(input)) \in Seq(Utf8!Byte)
        /\ Len(SubSeq(input, m + 1, Len(input))) = Len(input) - m
        /\ \A k \in 1..Len(input) - m : SubSeq(input, m + 1, Len(input))[k] = input[m + k]
    BY <1>1, <1>4, <2>1
  <2> QED BY <1>1, <2>2
<1>15. /\ Len(input') = Len(text) - (i + m)
       /\ \A k \in 1..Len(input') : input'[k] = Utf8!ByteOf(text[(i + m) + k], encoding)
  <2>1. Len(input') = Len(text) - (i + m)
    BY <1>2, <1>3, <1>11, <1>14
  <2>2. ASSUME NEW k \in 1..Len(input') PROVE input'[k] = Utf8!ByteOf(text[(i + m) + k], encoding)
    <3>1. m + k \in 1..Len(input) /\ i + (m + k) = (i + m) + k
      <4>1. k \in 1..Len(input) - m /\ Len(input) \in Nat /\ m \in Nat /\ i \in Nat
        BY <1>4, <1>11, <1>14
      <4> QED BY ONLY <4>1
    <3> QED BY <1>2, <1>14, <3>1
  <2> QED BY <2>1, <2>2
<1>16. Utf8!TypeOK' /\ Utf8!PieceFits'
  BY <1>1, <1>13, <1>14 DEF Utf8Inv, Utf8!TypeOK, Utf8!PieceFits, Utf8!k_utf8_buf_sz
<1>17. \E j \in 0..Len(text') :
          /\ Len(input') = Len(text') - j
          /\ \A k \in 1..Len(input') : input'[k] = Utf8!ByteOf(text'[j + k], encoding')
          /\ printed' = Flat(Codes(text'), j)
  BY <1>1, <1>11, <1>12, <1>15
<1> QED BY <1>1, <1>16, <1>17 DEF Utf8Inv

LEMMA Utf8Step ==
  ASSUME NoNul, Utf8Inv, Utf8!Next \/ UNCHANGED Utf8Vars
  PROVE  Utf8Inv'
<1>1. CASE UNCHANGED Utf8Vars
  BY <1>1 DEF Utf8Vars, Utf8Inv, Utf8!TypeOK, Utf8!PieceFits
<1>2. CASE Utf8!OpenFails \/ Utf8!OpenOutputFails \/ Utf8!Open
  BY <1>2 DEF Utf8!OpenFails, Utf8!OpenOutputFails, Utf8!Open, Utf8Inv, Utf8!TypeOK, Utf8!PieceFits,
              Utf8!undefined, Utf8!cp1251, Utf8!koi8r, Utf8!iso88595
<1>3. CASE Utf8!Convert
  BY <1>3, Utf8Convert
<1>4. CASE Utf8!Finish
  <2>1. pc = "convert" /\ input = <<>> /\ pc' = "done" /\ UNCHANGED <<text, encoding, input, last_j, printed>>
    BY <1>4 DEF Utf8!Finish
  <2>2. PICK i \in 0..Len(text) : Len(input) = Len(text) - i /\ printed = Flat(Codes(text), i)
    BY <2>1 DEF Utf8Inv
  <2>3. Len(text) \in Nat
    BY TextFacts DEF Utf8Inv, Utf8!TypeOK
  <2>4. i = Len(text)
    BY <2>1, <2>2, <2>3, EmptySeq
  <2> QED BY <2>1, <2>2, <2>4 DEF Utf8Inv, Utf8!TypeOK, Utf8!PieceFits
<1> QED BY <1>1, <1>2, <1>3, <1>4 DEF Utf8!Next

\* At the end every character is written.
LEMMA Utf8Done ==
  ASSUME Utf8Inv
  PROVE  Utf8!SameText
<1> SUFFICES ASSUME pc = "done"
             PROVE  printed = Utf8!FlattenSeq([k \in DOMAIN text |-> Utf8!Utf8(text[k])])
  BY DEF Utf8!SameText
<1>1. Len(text) \in Nat /\ DOMAIN text = 1..Len(text) /\ printed = Flat(Codes(text), Len(text))
  BY TextFacts DEF Utf8Inv, Utf8!TypeOK
<1>2. Codes(text) = [k \in 1..Len(text) |-> Utf8!Utf8(text[k])]
  BY <1>1 DEF Codes
<1>3. [k \in 1..Len(text) |-> Codes(text)[k]] = Codes(text)
  BY <1>2
<1>4. Utf8!FlattenSeq(Codes(text)) = FlattenSeq(Codes(text))
  BY DEF Utf8!FlattenSeq, FlattenSeq
<1> QED BY <1>1, <1>3, <1>4 DEF Flat, Codes

\* The other programs leave the variables of this one alone.
LEMMA Utf8Alone ==
  ASSUME [Next]_vars
  PROVE  /\ program' = program
         /\ program = "to_utf8" => Utf8!Next \/ UNCHANGED Utf8Vars
BY DEF Next, vars, JpegNext, SumNext, Utf8Next, TelehackNext, LogNext, ListNext, WeatherNext, textVars, Utf8Vars

\* to_utf8, for every text without a NUL, in any of the encodings: what is written
\* is the text in UTF-8, wherever the buffer cuts a line, and no piece overflows the
\* buffer it is converted in (to_utf8/src/main.c: main).
THEOREM SameTextCorrect == NoNul => (Spec => []SameText)
<1> SUFFICES ASSUME NoNul PROVE Spec => []SameText
  OBVIOUS
<1> DEFINE J == program = "to_utf8" => Utf8Inv
<1>1. Init => J
  <2> SUFFICES ASSUME Init, program = "to_utf8" PROVE Utf8Inv
    OBVIOUS
  <2>1. Utf8!Init
    BY DEF Init, JpegInit, SumInit, Utf8Init, TelehackInit, LogInit, ListInit, WeatherInit
  <2> QED BY <2>1, Utf8Init0
<1>2. J /\ [Next]_vars => J'
  BY Utf8Alone, Utf8Step
<1>3. J => SameText
  BY Utf8Done DEF SameText, Utf8Inv
<1> QED BY <1>1, <1>2, <1>3, PTL DEF Spec

----------------------------------------------------------------------------
(* asm.  A list is the sequence of its nodes from its end, as nodes go in front*)
(* of it; the two lists share none.                                        *)

ListVars == <<heap, list, odd_list, num, n, printed, pc>>

\* The values, and the odd ones of the first k of them.
Picks(vs) == [k \in DOMAIN vs |-> IF List!is_odd(vs[k]) THEN <<vs[k]>> ELSE <<>>]
OddUpTo(k) == Flat(Picks(Data), k)

\* What is assumed of the values.
LEMMA DataFacts ==
  /\ Data \in Seq(Int) /\ Len(Data) \in Nat \ {0} /\ Null \notin Address
  /\ \A k \in 1..Len(Data) : Data[k] \in Int
  /\ OddUpTo(0) = <<>>
  /\ \A k \in 0..Len(Data) : OddUpTo(k) \in Seq(Int)
  /\ \A k \in 1..Len(Data) : OddUpTo(k) = IF List!is_odd(Data[k]) THEN Append(OddUpTo(k - 1), Data[k])
                                          ELSE OddUpTo(k - 1)
  /\ List!Odd(Data) = OddUpTo(Len(Data))
<1>1. Data \in Seq(Int) /\ Data # <<>> /\ Null \notin Address
  BY ConstantsAssumption DEF List!DataAssumption
<1>2. /\ Len(Data) \in Nat \ {0} /\ DOMAIN Data = 1..Len(Data)
      /\ \A k \in 1..Len(Data) : Data[k] \in Int
  BY <1>1, EmptySeq, LenProperties, ElementOfSeq
<1>3. \A k \in 1..Len(Data) : /\ Picks(Data)[k] = IF List!is_odd(Data[k]) THEN <<Data[k]>> ELSE <<>>
                              /\ Picks(Data)[k] \in Seq(Int)
  <2>1. \A k \in 1..Len(Data) : Picks(Data)[k] = IF List!is_odd(Data[k]) THEN <<Data[k]>> ELSE <<>>
    BY <1>2 DEF Picks
  <2>2. <<>> \in Seq(Int) /\ \A e \in Int : <<e>> \in Seq(Int)
    OBVIOUS
  <2> QED BY <1>2, <2>1, <2>2
<1>4. /\ OddUpTo(0) = <<>>
      /\ \A k \in 0..Len(Data) : OddUpTo(k) \in Seq(Int)
      /\ \A k \in 0..Len(Data) - 1 : OddUpTo(k + 1) = OddUpTo(k) \o Picks(Data)[k + 1]
  <2>1. ASSUME NEW ss, NEW l \in Nat, \A k \in 1..l : ss[k] \in Seq(Int)
        PROVE  /\ Flat(ss, 0) = <<>>
               /\ \A k \in 0..l : Flat(ss, k) \in Seq(Int)
               /\ \A k \in 0..l - 1 : Flat(ss, k + 1) = Flat(ss, k) \o ss[k + 1]
    BY <2>1, FlatFacts
  <2> QED BY <1>2, <1>3, <2>1 DEF OddUpTo
<1>5. ASSUME NEW k \in 1..Len(Data)
      PROVE  OddUpTo(k) = IF List!is_odd(Data[k]) THEN Append(OddUpTo(k - 1), Data[k]) ELSE OddUpTo(k - 1)
  <2>1. k - 1 \in 0..Len(Data) - 1 /\ (k - 1) + 1 = k /\ k - 1 \in 0..Len(Data)
    BY <1>2
  <2>2. OddUpTo(k) = OddUpTo(k - 1) \o Picks(Data)[k] /\ OddUpTo(k - 1) \in Seq(Int)
    BY <1>4, <2>1
  <2>3. \A s \in Seq(Int), e \in Int : s \o <<>> = s /\ s \o <<e>> = Append(s, e)
    OBVIOUS
  <2> QED BY <1>2, <1>3, <2>2, <2>3
<1>6. List!Odd(Data) = OddUpTo(Len(Data))
  <2>1. Picks(Data) = [k \in 1..Len(Data) |-> Picks(Data)[k]]
    BY <1>2 DEF Picks
  <2>2. List!Odd(Data) = List!FlattenSeq(Picks(Data))
    BY DEF List!Odd, Picks
  <2>3. List!FlattenSeq(Picks(Data)) = FlattenSeq(Picks(Data))
    BY DEF List!FlattenSeq, FlattenSeq
  <2> QED BY <2>1, <2>2, <2>3 DEF OddUpTo, Flat
<1> QED BY <1>1, <1>2, <1>4, <1>5, <1>6

\* The next value comes behind the odd ones or does not.
LEMMA OddNext ==
  ASSUME NEW k \in 1..Len(Data)
  PROVE  /\ OddUpTo(k - 1) \in Seq(Int) /\ OddUpTo(k) \in Seq(Int)
         /\ List!is_odd(Data[k]) =>
              /\ Len(OddUpTo(k)) = Len(OddUpTo(k - 1)) + 1
              /\ OddUpTo(k)[Len(OddUpTo(k - 1)) + 1] = Data[k]
              /\ \A q \in 1..Len(OddUpTo(k - 1)) : OddUpTo(k)[q] = OddUpTo(k - 1)[q]
         /\ ~List!is_odd(Data[k]) => OddUpTo(k) = OddUpTo(k - 1)
<1>1. k - 1 \in 0..Len(Data) /\ k \in 0..Len(Data) /\ Data[k] \in Int
  BY DataFacts
<1>2. OddUpTo(k) = IF List!is_odd(Data[k]) THEN Append(OddUpTo(k - 1), Data[k]) ELSE OddUpTo(k - 1)
  BY DataFacts
<1>3. OddUpTo(k - 1) \in Seq(Int) /\ OddUpTo(k) \in Seq(Int)
  BY <1>1, DataFacts
<1>4. \A s \in Seq(Int), e \in Int : /\ Len(Append(s, e)) = Len(s) + 1
                                     /\ Append(s, e)[Len(s) + 1] = e
                                     /\ \A q \in 1..Len(s) : Append(s, e)[q] = s[q]
  OBVIOUS
<1> QED BY <1>1, <1>2, <1>3, <1>4

\* A list is the addresses of its nodes, the last one first: a node goes in
\* front of it at their end.
NodeAt(xs, p) == IF p = 0 THEN Null ELSE xs[p]

Distinct(xs) == \A p \in 1..Len(xs), q \in 1..Len(xs) : p # q => xs[p] # xs[q]
Apart(xs, ys) == \A p \in 1..Len(xs), q \in 1..Len(ys) : xs[p] # ys[q]
Chain(h, xs, i, vs) == \A p \in 1..i : /\ xs[p] \in DOMAIN h
                                       /\ h[xs[p]] = [val |-> vs[p], next |-> NodeAt(xs, p - 1)]

\* The heap h holds the first i nodes of one list, with values vs, the first j of
\* another one, with values ws, and nothing else; the lists share no node.
Two(h, xs, ys, i, j, vs, ws) ==
  /\ xs \in Seq(Address) /\ ys \in Seq(Address)
  /\ i \in 0..Len(xs) /\ j \in 0..Len(ys)
  /\ Distinct(xs) /\ Distinct(ys) /\ Apart(xs, ys)
  /\ \A a \in DOMAIN h : (\E p \in 1..i : a = xs[p]) \/ (\E q \in 1..j : a = ys[q])
  /\ Chain(h, xs, i, vs) /\ Chain(h, ys, j, ws)

\* Either list may be the first.
LEMMA TwoSwap ==
  ASSUME NEW h, NEW xs, NEW ys, NEW i, NEW j, NEW vs, NEW ws, Two(h, xs, ys, i, j, vs, ws)
  PROVE  Two(h, ys, xs, j, i, ws, vs)
BY DEF Two, Apart

\* the heap with a node a
More(h, a, v, nx) == [b \in DOMAIN h \cup {a} |-> IF b = a THEN [val |-> v, next |-> nx] ELSE h[b]]

\* vs is one longer than us, by v
Longer(vs, us, v, k) == vs[k + 1] = v /\ \A p \in 1..k : vs[p] = us[p]

\* A node at a free address goes in front of a list.
LEMMA TwoPush ==
  ASSUME NEW h, NEW xs, NEW ys, NEW vs, NEW us, NEW ws, NEW v, NEW a \in Address \ DOMAIN h,
         Two(h, xs, ys, Len(xs), Len(ys), us, ws), Longer(vs, us, v, Len(xs))
  PROVE  /\ Two(More(h, a, v, NodeAt(xs, Len(xs))), Append(xs, a), ys, Len(xs) + 1, Len(ys), vs, ws)
         /\ Len(Append(xs, a)) = Len(xs) + 1
         /\ NodeAt(Append(xs, a), Len(xs) + 1) = a
<1> DEFINE cs == Append(xs, a)
           g == More(h, a, v, NodeAt(xs, Len(xs)))
<1>1. xs \in Seq(Address) /\ ys \in Seq(Address) /\ Len(xs) \in Nat /\ Len(ys) \in Nat
  BY DEF Two
<1>2. /\ cs \in Seq(Address) /\ Len(cs) = Len(xs) + 1 /\ cs[Len(xs) + 1] = a
      /\ \A p \in 1..Len(xs) : cs[p] = xs[p]
  BY <1>1
<1>3. \A p \in 1..Len(xs) : xs[p] \in DOMAIN h /\ xs[p] # a
  BY DEF Two, Chain
<1>4. \A q \in 1..Len(ys) : ys[q] \in DOMAIN h /\ ys[q] # a
  BY DEF Two, Chain
<1>5. /\ DOMAIN g = DOMAIN h \cup {a}
      /\ g[a] = [val |-> v, next |-> NodeAt(xs, Len(xs))]
      /\ \A b \in DOMAIN h : g[b] = h[b]
  BY DEF More
<1>6. \A p \in 1..Len(xs) + 1 : p = Len(xs) + 1 \/ p \in 1..Len(xs)
  BY <1>1
<1> HIDE DEF cs, g
<1>7. Distinct(cs) /\ Apart(cs, ys)
  <2>1. Distinct(xs) /\ Apart(xs, ys)
    BY DEF Two
  <2> QED BY <1>1, <1>2, <1>3, <1>4, <1>6, <2>1 DEF Distinct, Apart
<1>8. \A p \in 0..Len(xs) : NodeAt(cs, p) = NodeAt(xs, p)
  BY <1>1, <1>2 DEF NodeAt
<1>9. Chain(g, cs, Len(xs) + 1, vs)
  <2>1. ASSUME NEW p \in 1..Len(xs)
        PROVE  cs[p] \in DOMAIN g /\ g[cs[p]] = [val |-> vs[p], next |-> NodeAt(cs, p - 1)]
    <3>1. xs[p] \in DOMAIN h /\ h[xs[p]] = [val |-> us[p], next |-> NodeAt(xs, p - 1)]
      BY DEF Two, Chain
    <3>2. cs[p] = xs[p] /\ vs[p] = us[p] /\ g[xs[p]] = h[xs[p]]
      BY <1>2, <1>5, <3>1 DEF Longer
    <3>3. NodeAt(cs, p - 1) = NodeAt(xs, p - 1)
      BY <1>1, <1>8
    <3> QED BY <1>5, <3>1, <3>2, <3>3
  <2>2. /\ cs[Len(xs) + 1] \in DOMAIN g
        /\ g[cs[Len(xs) + 1]] = [val |-> vs[Len(xs) + 1], next |-> NodeAt(cs, (Len(xs) + 1) - 1)]
    <3>1. (Len(xs) + 1) - 1 = Len(xs) /\ Len(xs) \in 0..Len(xs)
      BY <1>1
    <3>2. NodeAt(cs, (Len(xs) + 1) - 1) = NodeAt(xs, Len(xs))
      BY <1>8, <3>1
    <3>3. vs[Len(xs) + 1] = v
      BY DEF Longer
    <3> QED BY <1>2, <1>5, <3>2, <3>3
  <2> QED BY <1>6, <2>1, <2>2 DEF Chain
<1>10. Chain(g, ys, Len(ys), ws)
  <2>1. Chain(h, ys, Len(ys), ws)
    BY DEF Two
  <2> QED BY <1>4, <1>5, <2>1 DEF Chain
<1>11. \A b \in DOMAIN g : (\E p \in 1..Len(xs) + 1 : b = cs[p]) \/ (\E q \in 1..Len(ys) : b = ys[q])
  <2>1. \A b \in DOMAIN h : (\E p \in 1..Len(xs) : b = xs[p]) \/ (\E q \in 1..Len(ys) : b = ys[q])
    BY DEF Two
  <2>2. Len(xs) + 1 \in 1..Len(xs) + 1 /\ \A p \in 1..Len(xs) : p \in 1..Len(xs) + 1
    BY <1>1
  <2> QED BY <1>2, <1>5, <2>1, <2>2
<1>12. Two(g, cs, ys, Len(xs) + 1, Len(ys), vs, ws)
  <2>1. Len(xs) + 1 \in 0..Len(cs) /\ Len(ys) \in 0..Len(ys) /\ Distinct(ys)
    BY <1>1, <1>2 DEF Two
  <2> QED BY <1>1, <1>2, <1>7, <1>9, <1>10, <1>11, <2>1 DEF Two
<1>13. NodeAt(cs, Len(xs) + 1) = a
  BY <1>1, <1>2 DEF NodeAt
<1> QED BY <1>2, <1>12, <1>13 DEF cs, g

\* the heap without a node a
Less(h, a) == [b \in DOMAIN h \ {a} |-> h[b]]

\* The first node of a list is freed.
LEMMA TwoPop ==
  ASSUME NEW h, NEW xs, NEW ys, NEW i, NEW j, NEW vs, NEW ws, Two(h, xs, ys, i, j, vs, ws), i # 0
  PROVE  Two(Less(h, xs[i]), xs, ys, i - 1, j, vs, ws)
<1> DEFINE g == Less(h, xs[i])
<1>1. /\ xs \in Seq(Address) /\ ys \in Seq(Address) /\ Len(xs) \in Nat /\ Len(ys) \in Nat
      /\ i \in 1..Len(xs) /\ i - 1 \in 0..Len(xs) /\ j \in 0..Len(ys)
  BY DEF Two
<1>2. DOMAIN g = DOMAIN h \ {xs[i]} /\ \A b \in DOMAIN g : g[b] = h[b]
  BY DEF Less
<1> HIDE DEF g
<1>3. Distinct(xs) /\ Distinct(ys) /\ Apart(xs, ys) /\ Chain(h, xs, i, vs) /\ Chain(h, ys, j, ws)
  BY DEF Two
<1>4. Chain(g, xs, i - 1, vs)
  <2>1. \A p \in 1..i - 1 : p \in 1..i /\ p \in 1..Len(xs) /\ p # i
    BY <1>1
  <2>2. \A p \in 1..i - 1 : xs[p] \in DOMAIN g
    BY <1>1, <1>2, <1>3, <2>1 DEF Distinct, Chain
  <2> QED BY <1>2, <1>3, <2>1, <2>2 DEF Chain
<1>5. Chain(g, ys, j, ws)
  <2>1. \A q \in 1..j : q \in 1..Len(ys)
    BY <1>1
  <2>2. \A q \in 1..j : ys[q] \in DOMAIN g
    BY <1>1, <1>2, <1>3, <2>1 DEF Apart, Chain
  <2> QED BY <1>2, <1>3, <2>2 DEF Chain
<1>6. ASSUME NEW b \in DOMAIN g
      PROVE  (\E p \in 1..i - 1 : b = xs[p]) \/ (\E q \in 1..j : b = ys[q])
  <2>1. (\E p \in 1..i : b = xs[p]) \/ (\E q \in 1..j : b = ys[q])
    BY <1>2 DEF Two
  <2>2. ASSUME NEW p \in 1..i, b = xs[p] PROVE p \in 1..i - 1
    BY <1>1, <1>2, <2>2
  <2> QED BY <2>1, <2>2
<1>7. Two(g, xs, ys, i - 1, j, vs, ws)
  BY <1>1, <1>3, <1>4, <1>5, <1>6 DEF Two
<1> QED BY <1>7 DEF g

\* the node a loop is at
LEMMA TwoAt ==
  ASSUME NEW h, NEW xs, NEW ys, NEW i, NEW j, NEW k, NEW vs, NEW ws, Two(h, xs, ys, i, j, vs, ws), k \in 0..i
  PROVE  /\ k = 0 => NodeAt(xs, k) = Null /\ NodeAt(xs, k) \notin DOMAIN h
         /\ k # 0 => NodeAt(xs, k) # Null /\ NodeAt(xs, k) \in DOMAIN h
         /\ k # 0 => /\ h[NodeAt(xs, k)].val = vs[k] /\ h[NodeAt(xs, k)].next = NodeAt(xs, k - 1)
                     /\ k - 1 \in 0..i
         /\ DOMAIN h \subseteq Address
<1>0. i \in Nat /\ i \in 0..Len(xs) /\ j \in 0..Len(ys) /\ Len(xs) \in Nat /\ Len(ys) \in Nat
  BY DEF Two
<1>1. DOMAIN h \subseteq Address /\ Null \notin Address
  <2>1. (\A p \in 1..Len(xs) : xs[p] \in Address) /\ (\A q \in 1..Len(ys) : ys[q] \in Address)
    BY DEF Two
  <2>2. (\A p \in 1..i : xs[p] \in Address) /\ (\A q \in 1..j : ys[q] \in Address)
    BY <1>0, <2>1
  <2> QED BY <2>2, DataFacts DEF Two
<1>2. CASE k = 0
  BY <1>0, <1>1, <1>2 DEF NodeAt
<1>3. CASE k # 0
  <2>1. k \in 1..i /\ k - 1 \in 0..i
    BY <1>0, <1>3
  <2>2. xs[k] \in DOMAIN h /\ h[xs[k]] = [val |-> vs[k], next |-> NodeAt(xs, k - 1)]
    BY <2>1 DEF Two, Chain
  <2>3. NodeAt(xs, k) = xs[k]
    BY <1>3 DEF NodeAt
  <2> QED BY <1>1, <1>3, <2>1, <2>2, <2>3
<1> QED BY <1>2, <1>3
\* A node that is not passed yet is there.
LEMMA TwoThere ==
  ASSUME NEW h, NEW xs, NEW ys, NEW i, NEW j, NEW k, NEW vs, NEW ws, Two(h, xs, ys, i, j, vs, ws), k \in 0..i,
         NodeAt(xs, k) # Null
  PROVE  NodeAt(xs, k) \in DOMAIN h
<1>1. k # 0
  BY DEF NodeAt
<1>2. i \in Nat /\ k \in 1..i
  BY <1>1 DEF Two
<1>3. xs[k] \in DOMAIN h
  BY <1>2 DEF Two, Chain
<1> QED BY <1>1, <1>3 DEF NodeAt

\* the values and the odd ones, first and last first, and the nodes' order
Back    == Reverse(Data)
OddBack == Reverse(OddUpTo(Len(Data)))

\* A sequence is printed value by value.
LEMMA SubSeqNext ==
  ASSUME NEW S, NEW s \in Seq(S), NEW k \in 0..Len(s)
  PROVE  /\ SubSeq(s, 1, 0) = <<>> /\ SubSeq(s, 1, Len(s)) = s
         /\ SubSeq(s, 1, k) \in Seq(S)
         /\ k # Len(s) => SubSeq(s, 1, k + 1) = Append(SubSeq(s, 1, k), s[k + 1])
OBVIOUS

\* What is printed is in the other order.
LEMMA ReverseFacts ==
  ASSUME NEW S, NEW s \in Seq(S)
  PROVE  /\ Reverse(s) \in Seq(S) /\ Len(Reverse(s)) = Len(s)
         /\ \A k \in 1..Len(s) : Reverse(s)[k] = s[Len(s) - k + 1]
<1>1. Len(s) \in Nat /\ \A k \in 1..Len(s) : s[k] \in S
  OBVIOUS
<1>2. \A k \in 1..Len(s) : Len(s) - k + 1 \in 1..Len(s)
  BY <1>1
<1>3. Reverse(s) = [k \in 1..Len(s) |-> s[Len(s) - k + 1]]
  BY DEF Reverse
<1>4. \A k \in 1..Len(s) : s[Len(s) - k + 1] \in S
  BY <1>1, <1>2
<1> QED BY <1>1, <1>3, <1>4

LEMMA BackFacts ==
  /\ OddUpTo(Len(Data)) \in Seq(Int) /\ Len(OddUpTo(Len(Data))) \in Nat
  /\ Back \in Seq(Int) /\ OddBack \in Seq(Int)
  /\ Len(Back) = Len(Data) /\ Len(OddBack) = Len(OddUpTo(Len(Data)))
  /\ \A k \in 1..Len(Data) : Back[k] = Data[Len(Data) - k + 1]
  /\ \A k \in 1..Len(OddUpTo(Len(Data))) : OddBack[k] = OddUpTo(Len(Data))[Len(OddUpTo(Len(Data))) - k + 1]
<1>1. Len(Data) \in 0..Len(Data) /\ Data \in Seq(Int)
  BY DataFacts
<1>2. OddUpTo(Len(Data)) \in Seq(Int)
  BY <1>1, DataFacts
<1> QED BY <1>1, <1>2, ReverseFacts DEF Back, OddBack

\* what is printed with k values of the first list, and with k of the second
Shown(k)    == SubSeq(Data, 1, k)
OddShown(k) == Data \o SubSeq(OddBack, 1, k)

Building(xs) ==
  /\ num \in 1..Len(Data) /\ Len(xs) = Len(Data) - num
  /\ n = Null /\ printed = <<>> /\ odd_list = Null
  /\ Two(heap, xs, <<>>, Len(xs), 0, Back, <<>>)
Printing(xs, i) ==
  /\ n = NodeAt(xs, i) /\ printed = Shown(Len(Data) - i) /\ odd_list = Null
  /\ i \in 0..Len(Data)
  /\ Two(heap, xs, <<>>, Len(Data), 0, Back, <<>>)
Filtering(xs, ys, i) ==
  /\ n = NodeAt(xs, i) /\ printed = Data /\ odd_list = NodeAt(ys, Len(ys))
  /\ i \in 0..Len(Data) /\ Len(ys) = Len(OddUpTo(Len(Data) - i))
  /\ Two(heap, xs, ys, Len(Data), Len(ys), Back, OddUpTo(Len(Data) - i))
AllThere(ys) == Len(ys) = Len(OddBack) /\ odd_list = NodeAt(ys, Len(ys))
PrintingOdd(xs, ys, i) ==
  /\ n = NodeAt(ys, i) /\ printed = OddShown(Len(OddBack) - i)
  /\ i \in 0..Len(ys)
  /\ Two(heap, xs, ys, Len(Data), Len(ys), Back, OddUpTo(Len(Data)))
Removing(xs, ys, i) ==
  /\ n = NodeAt(xs, i) /\ printed = Data \o OddBack
  /\ i \in 0..Len(Data)
  /\ Two(heap, xs, ys, i, Len(ys), Back, OddUpTo(Len(Data)))
RemovingOdd(xs, ys, i) ==
  /\ n = NodeAt(ys, i) /\ printed = Data \o OddBack
  /\ i \in 0..Len(ys)
  /\ Two(heap, xs, ys, 0, i, Back, OddUpTo(Len(Data)))

\* where the program is: with the nodes xs and ys of the lists, at the i-th
ListPlace(xs, ys, i) ==
  \/ pc = "build" /\ Building(xs) /\ list = NodeAt(xs, Len(xs))
  \/ /\ Len(xs) = Len(Data) /\ list = NodeAt(xs, Len(xs))
     /\ \/ pc = "print" /\ Printing(xs, i)
        \/ pc = "filter" /\ Filtering(xs, ys, i)
        \/ /\ AllThere(ys)
           /\ \/ pc = "print_odd" /\ PrintingOdd(xs, ys, i)
              \/ pc = "remove" /\ Removing(xs, ys, i)
              \/ pc = "remove_odd" /\ RemovingOdd(xs, ys, i)
  \/ pc = "end" /\ n = Null /\ DOMAIN heap = {} /\ printed = Data \o OddBack

\* A program that ran on is at one of the places.
ListInv ==
  /\ List!TypeOK
  /\ \/ pc = "abort" /\ List!NoWildNode
     \/ \E xs, ys, i : ListPlace(xs, ys, i)

LEMMA ListInit0 ==
  ASSUME List!Init
  PROVE  ListInv
<1>1. /\ heap = << >> /\ list = Null /\ odd_list = Null /\ num = Len(Data) /\ n = Null
      /\ printed = <<>> /\ pc = "build"
  BY DEF List!Init
<1>2. Len(Data) \in Nat \ {0}
  BY DataFacts
<1>3. List!TypeOK
  BY <1>1, <1>2 DEF List!TypeOK
<1>4. Two(heap, <<>>, <<>>, 0, 0, Back, <<>>)
  BY <1>1 DEF Two, Distinct, Apart, Chain
<1>5. Building(<<>>) /\ list = NodeAt(<<>>, Len(<<>>))
  BY <1>1, <1>2, <1>4 DEF Building, NodeAt
<1>6. ListPlace(<<>>, <<>>, 0)
  BY <1>1, <1>5 DEF ListPlace
<1> QED BY <1>3, <1>6 DEF ListInv

\* The variables keep their types, as long as no loop uses a node that is freed.
LEMMA ListType ==
  ASSUME List!TypeOK, List!NoWildNode, List!Next, pc = "build" => num # 0
  PROVE  List!TypeOK'
<1>0. /\ heap \in [DOMAIN heap -> List!Node] /\ DOMAIN heap \subseteq Address
      /\ list \in Address \cup {Null} /\ odd_list \in Address \cup {Null} /\ n \in Address \cup {Null}
      /\ num \in 0..Len(Data) /\ printed \in Seq(Int)
      /\ Len(Data) \in Nat /\ \A k \in 1..Len(Data) : Data[k] \in Int
  BY DataFacts DEF List!TypeOK
<1>1. CASE List!NoMemory
  BY <1>1 DEF List!NoMemory, List!TypeOK
<1>2. ASSUME NEW a \in Address, NEW v \in Int, NEW nx \in Address \cup {Null}
      PROVE  /\ DOMAIN List!add_element(a, v, nx) \subseteq Address
             /\ List!add_element(a, v, nx) \in [DOMAIN List!add_element(a, v, nx) -> List!Node]
  <2> DEFINE e == [val |-> v, next |-> nx]
  <2>1. e \in List!Node
    BY DEF List!Node
  <2>2. List!add_element(a, v, nx) = [b \in DOMAIN heap \cup {a} |-> IF b = a THEN e ELSE heap[b]]
    BY DEF List!add_element
  <2> HIDE DEF e
  <2>3. \A b \in DOMAIN heap : heap[b] \in List!Node
    BY <1>0
  <2> QED BY <1>0, <2>1, <2>2, <2>3
<1>3. CASE List!Build
  <2>1. PICK a \in Address : heap' = List!add_element(a, Data[num], list) /\ list' = a
    BY <1>3 DEF List!Build, List!Free
  <2>2. Data[num] \in Int /\ num - 1 \in 0..Len(Data)
    BY <1>0, <1>3 DEF List!Build
  <2>3. /\ num' = num - 1 /\ odd_list' = odd_list /\ printed' = printed
        /\ pc' \in {pc, "print"} /\ n' \in {n, list'}
    BY <1>3 DEF List!Build
  <2>4. DOMAIN heap' \subseteq Address /\ heap' \in [DOMAIN heap' -> List!Node]
    BY <1>0, <1>2, <2>1, <2>2
  <2> QED BY <1>0, <2>1, <2>2, <2>3, <2>4 DEF List!TypeOK
<1>4. ASSUME n \in DOMAIN heap
      PROVE  heap[n].val \in Int /\ heap[n].next \in Address \cup {Null}
  <2>1. heap[n] \in List!Node
    BY <1>0, <1>4
  <2> QED BY <2>1 DEF List!Node
<1>5. CASE List!m
  <2>1. /\ n \in DOMAIN heap /\ printed' = Append(printed, heap[n].val) /\ n' = heap[n].next
        /\ UNCHANGED <<heap, list, odd_list, num, pc>>
    BY <1>5 DEF List!m
  <2>2. printed' \in Seq(Int)
    BY <1>0, <1>4, <2>1
  <2> QED BY <1>4, <2>1, <2>2 DEF List!TypeOK
<1>6. CASE List!f
  <2>1. n \in DOMAIN heap /\ n' = heap[n].next /\ UNCHANGED <<list, num, printed, pc>>
    BY <1>6 DEF List!f
  <2>2. CASE UNCHANGED <<heap, odd_list>>
    BY <1>4, <2>1, <2>2 DEF List!TypeOK
  <2>3. CASE \E a \in List!Free : heap' = List!add_element(a, heap[n].val, odd_list) /\ odd_list' = a
    <3>1. PICK a \in Address : heap' = List!add_element(a, heap[n].val, odd_list) /\ odd_list' = a
      BY <2>3 DEF List!Free
    <3>2. DOMAIN heap' \subseteq Address /\ heap' \in [DOMAIN heap' -> List!Node]
      BY <1>0, <1>2, <1>4, <2>1, <3>1
    <3> QED BY <1>0, <1>4, <2>1, <3>1, <3>2 DEF List!TypeOK
  <2> QED BY <1>6, <2>2, <2>3 DEF List!f
<1>7. CASE List!remove_list
  <2>1. /\ n \in DOMAIN heap /\ heap' = [b \in DOMAIN heap \ {n} |-> heap[b]] /\ n' = heap[n].next
        /\ UNCHANGED <<list, odd_list, num, printed, pc>>
    BY <1>7 DEF List!remove_list
  <2>2. DOMAIN heap' \subseteq Address /\ heap' \in [DOMAIN heap' -> List!Node]
    BY <1>0, <2>1
  <2> QED BY <1>0, <1>4, <2>1, <2>2 DEF List!TypeOK
<1>8. CASE List!EndOfLoop
  <2>1. /\ pc \in {"print", "filter", "print_odd", "remove", "remove_odd"}
        /\ pc' = List!After(pc)[1] /\ n' = List!After(pc)[2]
        /\ UNCHANGED <<heap, list, odd_list, num, printed>>
    BY <1>8 DEF List!EndOfLoop, List!TypeOK
  <2>2. pc' \in {"filter", "print_odd", "remove", "remove_odd", "end"} /\ n' \in {list, odd_list, Null}
    BY <2>1 DEF List!After
  <2> QED BY <1>0, <2>1, <2>2 DEF List!TypeOK
<1> QED BY <1>1, <1>3, <1>5, <1>6, <1>7, <1>8 DEF List!Next

\* the node a loop is at is one that is there, or none
LEMMA PlaceWild ==
  ASSUME NEW xs, NEW ys, NEW i, ListPlace(xs, ys, i)
  PROVE  List!NoWildNode
<1>1. CASE n = Null
  BY <1>1 DEF List!NoWildNode
<1>2. CASE n # Null /\ n \in {NodeAt(xs, i), NodeAt(ys, i)}
  <2>1. CASE pc = "print" /\ Printing(xs, i)
    <3>1. Two(heap, xs, <<>>, Len(Data), 0, Back, <<>>) /\ i \in 0..Len(Data) /\ n = NodeAt(xs, i)
      BY <2>1 DEF Printing
    <3>9. n \in DOMAIN heap
      BY <1>2, <3>1, TwoThere
    <3> QED BY <3>9 DEF List!NoWildNode
  <2>2. CASE pc = "filter" /\ Filtering(xs, ys, i)
    <3>1. Two(heap, xs, ys, Len(Data), Len(ys), Back, OddUpTo(Len(Data) - i)) /\ i \in 0..Len(Data) /\ n = NodeAt(xs, i)
      BY <2>2 DEF Filtering
    <3>9. n \in DOMAIN heap
      BY <1>2, <3>1, TwoThere
    <3> QED BY <3>9 DEF List!NoWildNode
  <2>3. CASE pc = "print_odd" /\ PrintingOdd(xs, ys, i)
    <3>1. /\ Two(heap, xs, ys, Len(Data), Len(ys), Back, OddUpTo(Len(Data)))
          /\ i \in 0..Len(ys) /\ n = NodeAt(ys, i)
      BY <2>3 DEF PrintingOdd
    <3>2. Two(heap, ys, xs, Len(ys), Len(Data), OddUpTo(Len(Data)), Back)
      BY <3>1, TwoSwap
    <3>9. n \in DOMAIN heap
      BY <1>2, <3>1, <3>2, TwoThere
    <3> QED BY <3>9 DEF List!NoWildNode
  <2>4. CASE pc = "remove" /\ Removing(xs, ys, i)
    <3>1. Two(heap, xs, ys, i, Len(ys), Back, OddUpTo(Len(Data))) /\ i \in 0..i /\ n = NodeAt(xs, i)
      BY <2>4, DataFacts DEF Removing
    <3>9. n \in DOMAIN heap
      BY <1>2, <3>1, TwoThere
    <3> QED BY <3>9 DEF List!NoWildNode
  <2>5. CASE pc = "remove_odd" /\ RemovingOdd(xs, ys, i)
    <3>1. Two(heap, xs, ys, 0, i, Back, OddUpTo(Len(Data))) /\ n = NodeAt(ys, i)
      BY <2>5 DEF RemovingOdd
    <3>2. Two(heap, ys, xs, i, 0, OddUpTo(Len(Data)), Back)
      BY <3>1, TwoSwap
    <3>3. i \in 0..i
      BY <3>1 DEF Two
    <3>9. n \in DOMAIN heap
      BY <1>2, <3>1, <3>2, <3>3, TwoThere
    <3> QED BY <3>9 DEF List!NoWildNode
  <2> QED BY <1>2, <2>1, <2>2, <2>3, <2>4, <2>5 DEF ListPlace, Building
<1> QED BY <1>1, <1>2 DEF ListPlace, Building, Printing, Filtering, PrintingOdd, Removing, RemovingOdd

\* A value goes in front of the first list.
LEMMA ListBuild ==
  ASSUME NEW xs, NEW ys, NEW i, ListPlace(xs, ys, i), List!Build
  PROVE  \E us, vs, j : ListPlace(us, vs, j)'
<1>1. PICK a \in Address \ DOMAIN heap : heap' = List!add_element(a, Data[num], list) /\ list' = a
  BY DEF List!Build, List!Free
<1>2. /\ pc = "build" /\ num' = num - 1 /\ odd_list' = odd_list /\ printed' = printed
      /\ num = 1 => pc' = "print" /\ n' = list'
      /\ num # 1 => pc' = pc /\ n' = n
  BY DEF List!Build
<1>3. Building(xs) /\ list = NodeAt(xs, Len(xs))
  BY <1>2 DEF ListPlace
<1>4. /\ num \in 1..Len(Data) /\ Len(xs) = Len(Data) - num /\ n = Null /\ printed = <<>> /\ odd_list = Null
      /\ Two(heap, xs, <<>>, Len(xs), 0, Back, <<>>)
  BY <1>3 DEF Building
<1>5. Len(Data) \in Nat /\ Len(xs) \in Nat /\ Len(xs) + 1 = Len(Data) - (num - 1) /\ num - 1 \in 0..Len(Data)
  BY <1>4, DataFacts
<1>6. Back[Len(xs) + 1] = Data[num]
  <2>1. Len(xs) + 1 \in 1..Len(Data) /\ Len(Data) - (Len(xs) + 1) + 1 = num
    BY <1>4, <1>5
  <2> QED BY <2>1, BackFacts
<1>7. Longer(Back, Back, Data[num], Len(xs))
  BY <1>6 DEF Longer
<1> DEFINE us == Append(xs, a)
<1>8. heap' = More(heap, a, Data[num], NodeAt(xs, Len(xs)))
  BY <1>1, <1>3 DEF List!add_element, More
<1>9. /\ Two(heap', us, <<>>, Len(xs) + 1, 0, Back, <<>>) /\ Len(us) = Len(xs) + 1
      /\ NodeAt(us, Len(us)) = a
  <2>1. Len(<<>>) = 0
    OBVIOUS
  <2>2. /\ Two(More(heap, a, Data[num], NodeAt(xs, Len(xs))), us, <<>>, Len(xs) + 1, Len(<<>>), Back, <<>>)
        /\ Len(us) = Len(xs) + 1 /\ NodeAt(us, Len(xs) + 1) = a
    BY <1>4, <1>7, <2>1, TwoPush
  <2> QED BY <1>8, <2>1, <2>2
<1> HIDE DEF us
<1>10. CASE num = 1
  <2>1. Len(us) = Len(Data) /\ Len(Data) \in 0..Len(Data)
    BY <1>5, <1>9, <1>10
  <2>2. Shown(Len(Data) - Len(Data)) = <<>>
    BY DataFacts, SubSeqNext DEF Shown
  <2>3. Printing(us, Len(Data))'
    BY <1>1, <1>2, <1>4, <1>5, <1>9, <1>10, <2>1, <2>2 DEF Printing
  <2>4. ListPlace(us, <<>>, Len(Data))'
    BY <1>1, <1>2, <1>9, <1>10, <2>1, <2>3 DEF ListPlace
  <2> QED BY <2>4
<1>11. CASE num # 1
  <2>1. num' \in 1..Len(Data) /\ Len(us) = Len(Data) - num'
    BY <1>2, <1>4, <1>5, <1>9, <1>11
  <2>2. Building(us)'
    BY <1>2, <1>4, <1>9, <1>11, <2>1 DEF Building
  <2>3. ListPlace(us, <<>>, 0)'
    BY <1>1, <1>2, <1>9, <1>11, <2>2 DEF ListPlace
  <2> QED BY <2>3
<1> QED BY <1>10, <1>11

\* A loop prints a node.
LEMMA ListPrint ==
  ASSUME NEW xs, NEW ys, NEW i, ListPlace(xs, ys, i), List!m
  PROVE  \E us, vs, j : ListPlace(us, vs, j)'
<1>1. /\ pc \in {"print", "print_odd"} /\ n \in DOMAIN heap /\ printed' = Append(printed, heap[n].val)
      /\ n' = heap[n].next /\ UNCHANGED <<heap, list, odd_list, num, pc>>
  BY DEF List!m
<1>2. CASE pc = "print"
  <2>1. /\ Len(xs) = Len(Data) /\ list = NodeAt(xs, Len(xs)) /\ Printing(xs, i)
    BY <1>2 DEF ListPlace
  <2>2. /\ n = NodeAt(xs, i) /\ printed = Shown(Len(Data) - i) /\ odd_list = Null
        /\ i \in 0..Len(Data) /\ Two(heap, xs, <<>>, Len(Data), 0, Back, <<>>)
    BY <2>1 DEF Printing
  <2>3. i # 0 /\ heap[n].val = Back[i] /\ heap[n].next = NodeAt(xs, i - 1)
    BY <1>1, <2>2, TwoAt
  <2>4. /\ i \in 1..Len(Data) /\ i - 1 \in 0..Len(Data) /\ Len(Data) - (i - 1) = (Len(Data) - i) + 1
        /\ Len(Data) - i \in 0..Len(Data) /\ Len(Data) - i # Len(Data)
    <3>1. Len(Data) \in Nat
      BY DataFacts
    <3> QED BY <2>2, <2>3, <3>1
  <2>5. Back[i] = Data[(Len(Data) - i) + 1]
    BY <2>4, BackFacts
  <2>6. printed' = Shown(Len(Data) - (i - 1))
    <3>1. Data \in Seq(Int)
      BY DataFacts
    <3>2. SubSeq(Data, 1, (Len(Data) - i) + 1) = Append(SubSeq(Data, 1, Len(Data) - i), Data[(Len(Data) - i) + 1])
      BY <2>4, <3>1, SubSeqNext
    <3> QED BY <1>1, <2>2, <2>3, <2>4, <2>5, <3>2 DEF Shown
  <2>7. Printing(xs, i - 1)'
    BY <1>1, <2>2, <2>3, <2>4, <2>6 DEF Printing
  <2>8. ListPlace(xs, ys, i - 1)'
    BY <1>1, <1>2, <2>1, <2>7 DEF ListPlace
  <2> QED BY <2>8
<1>3. CASE pc = "print_odd"
  <2> DEFINE o == OddUpTo(Len(Data))
  <2>1. /\ Len(xs) = Len(Data) /\ list = NodeAt(xs, Len(xs)) /\ AllThere(ys) /\ PrintingOdd(xs, ys, i)
    BY <1>3 DEF ListPlace
  <2>2. /\ n = NodeAt(ys, i) /\ printed = OddShown(Len(OddBack) - i)
        /\ i \in 0..Len(ys) /\ Two(heap, xs, ys, Len(Data), Len(ys), Back, o)
    BY <2>1 DEF PrintingOdd
  <2>3. Two(heap, ys, xs, Len(ys), Len(Data), o, Back)
    BY <2>2, TwoSwap
  <2>4. i # 0 /\ heap[n].val = o[i] /\ heap[n].next = NodeAt(ys, i - 1)
    <3> HIDE DEF o
    <3> QED BY <1>1, <2>2, <2>3, TwoAt
  <2>5. Len(ys) = Len(OddBack) /\ Len(OddBack) \in Nat /\ Len(OddBack) = Len(o) /\ OddBack \in Seq(Int)
    BY <2>1, BackFacts DEF AllThere
  <2>6. /\ i \in 1..Len(o) /\ i - 1 \in 0..Len(ys) /\ Len(OddBack) - (i - 1) = (Len(OddBack) - i) + 1
        /\ Len(OddBack) - i \in 0..Len(OddBack) /\ Len(OddBack) - i # Len(OddBack)
        /\ (Len(OddBack) - i) + 1 \in 1..Len(o) /\ Len(o) - ((Len(OddBack) - i) + 1) + 1 = i
    <3> HIDE DEF o
    <3> QED BY <2>2, <2>4, <2>5
  <2>7. o[i] = OddBack[(Len(OddBack) - i) + 1]
    BY <2>6, BackFacts
  <2>8. printed' = OddShown(Len(OddBack) - (i - 1))
    <3>1. SubSeq(OddBack, 1, (Len(OddBack) - i) + 1)
            = Append(SubSeq(OddBack, 1, Len(OddBack) - i), o[i])
      BY <2>5, <2>6, <2>7, SubSeqNext
    <3>2. SubSeq(OddBack, 1, Len(OddBack) - i) \in Seq(Int)
      BY <2>5, <2>6, SubSeqNext
    <3>3. o[i] \in Int
      BY <2>6, BackFacts
    <3>4. \A s \in Seq(Int), t \in Seq(Int), e \in Int : Append(s \o t, e) = s \o Append(t, e)
      <4> TAKE s \in Seq(Int), t \in Seq(Int), e \in Int
      <4>1. <<e>> \in Seq(Int) /\ s \o t \in Seq(Int)
        OBVIOUS
      <4>2. Append(s \o t, e) = (s \o t) \o <<e>>
        BY <4>1, AppendIsConcat
      <4>3. Append(t, e) = t \o <<e>>
        BY AppendIsConcat
      <4>4. (s \o t) \o <<e>> = s \o (t \o <<e>>)
        BY <4>1, ConcatAssociative
      <4> QED BY <4>2, <4>3, <4>4
    <3>5. printed' = Append(Data \o SubSeq(OddBack, 1, Len(OddBack) - i), o[i])
      BY <1>1, <2>2, <2>4 DEF OddShown
    <3>6. Data \in Seq(Int)
      BY DataFacts
    <3> HIDE DEF o
    <3>7. printed' = Data \o Append(SubSeq(OddBack, 1, Len(OddBack) - i), o[i])
      BY <3>2, <3>3, <3>4, <3>5, <3>6
    <3>8. Data \o Append(SubSeq(OddBack, 1, Len(OddBack) - i), o[i]) = Data \o SubSeq(OddBack, 1, (Len(OddBack) - i) + 1)
      BY <3>1
    <3> QED BY <2>6, <3>7, <3>8 DEF OddShown
  <2>9. PrintingOdd(xs, ys, i - 1)'
    BY <1>1, <2>2, <2>4, <2>6, <2>8 DEF PrintingOdd
  <2>10. ListPlace(xs, ys, i - 1)'
    BY <1>1, <1>3, <2>1, <2>9 DEF ListPlace, AllThere
  <2> QED BY <2>10
<1> QED BY <1>1, <1>2, <1>3

\* A copy of an odd value goes in front of the second list.
LEMMA ListFilter ==
  ASSUME NEW xs, NEW ys, NEW i, ListPlace(xs, ys, i), List!f
  PROVE  \E us, vs, j : ListPlace(us, vs, j)'
<1>1. /\ pc = "filter" /\ n \in DOMAIN heap /\ n' = heap[n].next /\ UNCHANGED <<list, num, printed, pc>>
      /\ IF List!is_odd(heap[n].val)
         THEN \E a \in Address \ DOMAIN heap : heap' = List!add_element(a, heap[n].val, odd_list) /\ odd_list' = a
         ELSE UNCHANGED <<heap, odd_list>>
  BY DEF List!f, List!Free
<1>2. Len(xs) = Len(Data) /\ list = NodeAt(xs, Len(xs)) /\ Filtering(xs, ys, i)
  BY <1>1 DEF ListPlace
<1>3. /\ n = NodeAt(xs, i) /\ printed = Data /\ odd_list = NodeAt(ys, Len(ys))
      /\ i \in 0..Len(Data) /\ Len(ys) = Len(OddUpTo(Len(Data) - i))
      /\ Two(heap, xs, ys, Len(Data), Len(ys), Back, OddUpTo(Len(Data) - i))
  BY <1>2 DEF Filtering
<1>4. i # 0 /\ heap[n].val = Back[i] /\ heap[n].next = NodeAt(xs, i - 1)
  BY <1>1, <1>3, TwoAt
<1> DEFINE k == Len(Data) - i + 1
<1>5. /\ i \in 1..Len(Data) /\ i - 1 \in 0..Len(Data) /\ Len(Data) - (i - 1) = k
      /\ k \in 1..Len(Data) /\ k - 1 = Len(Data) - i
  <2>1. Len(Data) \in Nat
    BY DataFacts
  <2> QED BY <1>3, <1>4, <2>1
<1> HIDE DEF k
<1>6. heap[n].val = Data[k]
  BY <1>4, <1>5, BackFacts DEF k
<1> DEFINE o == OddUpTo(k)
           s == OddUpTo(k - 1)
<1>7. Len(ys) = Len(s) /\ Two(heap, xs, ys, Len(xs), Len(ys), Back, s)
  BY <1>2, <1>3, <1>5
<1>8. CASE List!is_odd(heap[n].val)
  <2>1. PICK a \in Address \ DOMAIN heap : heap' = List!add_element(a, heap[n].val, odd_list) /\ odd_list' = a
    BY <1>1, <1>8
  <2> DEFINE vs == Append(ys, a)
  <2>2. Len(o) = Len(s) + 1 /\ o[Len(s) + 1] = Data[k] /\ \A q \in 1..Len(s) : o[q] = s[q]
    BY <1>5, <1>6, <1>8, OddNext
  <2>3. heap' = More(heap, a, Data[k], NodeAt(ys, Len(ys)))
    BY <1>3, <1>6, <2>1 DEF List!add_element, More
  <2> HIDE DEF o, s
  <2>4. Longer(o, s, Data[k], Len(ys))
    BY <1>7, <2>2 DEF Longer
  <2>5. Two(heap, ys, xs, Len(ys), Len(xs), s, Back)
    BY <1>7, TwoSwap
  <2>6. /\ Two(heap', vs, xs, Len(ys) + 1, Len(xs), o, Back)
        /\ Len(vs) = Len(ys) + 1 /\ NodeAt(vs, Len(ys) + 1) = a
    BY <2>3, <2>4, <2>5, TwoPush
  <2> HIDE DEF vs
  <2>7. Two(heap', xs, vs, Len(Data), Len(vs), Back, o)
    BY <1>2, <2>6, TwoSwap
  <2>8. Len(vs) = Len(o)
    BY <1>7, <2>2, <2>6
  <2>9. n' = NodeAt(xs, i - 1) /\ printed' = Data /\ odd_list' = NodeAt(vs, Len(vs))
    BY <1>1, <1>3, <1>4, <2>1, <2>6
  <2>10. Filtering(xs, vs, i - 1)'
    BY <1>5, <2>7, <2>8, <2>9 DEF Filtering, o
  <2>11. ListPlace(xs, vs, i - 1)'
    BY <1>1, <1>2, <2>10 DEF ListPlace
  <2> QED BY <2>11
<1>9. CASE ~List!is_odd(heap[n].val)
  <2>1. heap' = heap /\ odd_list' = odd_list
    BY <1>1, <1>9
  <2>2. o = s
    BY <1>5, <1>6, <1>9, OddNext
  <2>3. n' = NodeAt(xs, i - 1) /\ printed' = Data /\ odd_list' = NodeAt(ys, Len(ys))
    BY <1>1, <1>3, <1>4, <2>1
  <2>4. Two(heap', xs, ys, Len(Data), Len(ys), Back, o) /\ Len(ys) = Len(o)
    BY <1>2, <1>7, <2>1, <2>2
  <2> HIDE DEF s
  <2>5. Filtering(xs, ys, i - 1)'
    BY <1>5, <2>3, <2>4 DEF Filtering
  <2>6. ListPlace(xs, ys, i - 1)'
    BY <1>1, <1>2, <2>5 DEF ListPlace
  <2> QED BY <2>6
<1> QED BY <1>8, <1>9

\* A node is freed, and the next one is the one it named.
LEMMA ListRemove ==
  ASSUME NEW xs, NEW ys, NEW i, ListPlace(xs, ys, i), List!remove_list
  PROVE  \E us, vs, j : ListPlace(us, vs, j)'
<1>1. /\ pc \in {"remove", "remove_odd"} /\ n \in DOMAIN heap /\ heap' = Less(heap, n)
      /\ n' = heap[n].next /\ UNCHANGED <<list, odd_list, num, printed, pc>>
  BY DEF List!remove_list, Less
<1> DEFINE o == OddUpTo(Len(Data))
<1>2. Len(xs) = Len(Data) /\ list = NodeAt(xs, Len(xs)) /\ AllThere(ys)
  BY <1>1 DEF ListPlace
<1>3. CASE pc = "remove"
  <2>1. Removing(xs, ys, i)
    BY <1>3 DEF ListPlace
  <2>2. /\ n = NodeAt(xs, i) /\ printed = Data \o OddBack /\ i \in 0..Len(Data)
        /\ Two(heap, xs, ys, i, Len(ys), Back, o)
    BY <2>1 DEF Removing
  <2>3. i \in 0..i /\ i - 1 \in Int
    BY <2>2
  <2> HIDE DEF o
  <2>4. i # 0 /\ heap[n].next = NodeAt(xs, i - 1)
    BY <1>1, <2>2, <2>3, TwoAt
  <2>5. i - 1 \in 0..Len(Data) /\ n = xs[i]
    BY <2>2, <2>4 DEF NodeAt
  <2>6. Two(heap', xs, ys, i - 1, Len(ys), Back, o)
    BY <1>1, <2>2, <2>4, <2>5, TwoPop
  <2>7. Removing(xs, ys, i - 1)'
    BY <1>1, <2>2, <2>4, <2>5, <2>6 DEF Removing, o
  <2>8. ListPlace(xs, ys, i - 1)'
    BY <1>1, <1>2, <1>3, <2>7 DEF ListPlace, AllThere
  <2> QED BY <2>8
<1>4. CASE pc = "remove_odd"
  <2>1. RemovingOdd(xs, ys, i)
    BY <1>4 DEF ListPlace
  <2>2. /\ n = NodeAt(ys, i) /\ printed = Data \o OddBack /\ i \in 0..Len(ys)
        /\ Two(heap, xs, ys, 0, i, Back, o)
    BY <2>1 DEF RemovingOdd
  <2>3. i \in 0..i /\ i - 1 \in Int
    BY <2>2
  <2> HIDE DEF o
  <2>4. Two(heap, ys, xs, i, 0, o, Back)
    BY <2>2, TwoSwap
  <2>5. i # 0 /\ heap[n].next = NodeAt(ys, i - 1)
    BY <1>1, <2>2, <2>3, <2>4, TwoAt
  <2>6. i - 1 \in 0..Len(ys) /\ n = ys[i]
    BY <2>2, <2>5 DEF NodeAt
  <2>7. Two(heap', ys, xs, i - 1, 0, o, Back)
    BY <1>1, <2>4, <2>5, <2>6, TwoPop
  <2>8. Two(heap', xs, ys, 0, i - 1, Back, o)
    BY <2>7, TwoSwap
  <2>9. RemovingOdd(xs, ys, i - 1)'
    BY <1>1, <2>2, <2>5, <2>6, <2>8 DEF RemovingOdd, o
  <2>10. ListPlace(xs, ys, i - 1)'
    BY <1>1, <1>2, <1>4, <2>9 DEF ListPlace, AllThere
  <2> QED BY <2>10
<1> QED BY <1>1, <1>3, <1>4

\* A loop is at no node only behind the last one.
LEMMA TwoNull ==
  ASSUME NEW h, NEW xs, NEW ys, NEW i, NEW j, NEW k, NEW vs, NEW ws, Two(h, xs, ys, i, j, vs, ws), k \in 0..i,
         NodeAt(xs, k) = Null
  PROVE  k = 0
<1>1. SUFFICES ASSUME k # 0 PROVE FALSE
  OBVIOUS
<1>2. i \in Nat /\ k \in 1..Len(xs) /\ xs \in Seq(Address)
  BY <1>1 DEF Two
<1>3. xs[k] \in Address /\ NodeAt(xs, k) = xs[k]
  BY <1>1, <1>2 DEF NodeAt
<1> QED BY <1>3, DataFacts

\* A loop that ended has passed all nodes; the next one starts.
LEMMA ListEnds ==
  ASSUME NEW xs, NEW ys, NEW i, ListPlace(xs, ys, i), List!EndOfLoop
  PROVE  \E us, vs, j : ListPlace(us, vs, j)'
<1>1. /\ pc \notin {"build", "end", "abort"} /\ n = Null
      /\ pc' = List!After(pc)[1] /\ n' = List!After(pc)[2]
      /\ UNCHANGED <<heap, list, odd_list, num, printed>>
  BY DEF List!EndOfLoop
<1> DEFINE o == OddUpTo(Len(Data))
<1>2. Len(xs) = Len(Data) /\ list = NodeAt(xs, Len(xs))
  BY <1>1 DEF ListPlace
<1>3. /\ Len(Data) \in Nat \ {0} /\ Data \in Seq(Int) /\ Len(Data) \in 0..Len(Data)
      /\ Len(Data) - 0 = Len(Data) /\ Len(Data) - Len(Data) = 0 /\ OddUpTo(0) = <<>> /\ Len(<<>>) = 0
  BY DataFacts
<1>4. OddBack \in Seq(Int) /\ Len(OddBack) \in Nat /\ Len(OddBack) = Len(o)
  BY BackFacts
<1>5. CASE pc = "print"
  <2>1. /\ n = NodeAt(xs, i) /\ printed = Shown(Len(Data) - i) /\ odd_list = Null
        /\ i \in 0..Len(Data) /\ Two(heap, xs, <<>>, Len(Data), 0, Back, <<>>)
    BY <1>5 DEF ListPlace, Printing
  <2>2. i = 0
    BY <1>1, <2>1, TwoNull
  <2>3. Shown(Len(Data)) = Data
    BY <1>3, SubSeqNext DEF Shown
  <2>4. pc' = "filter" /\ n' = list
    BY <1>1, <1>5 DEF List!After
  <2>5. odd_list = NodeAt(<<>>, Len(<<>>))
    BY <2>1 DEF NodeAt
  <2>6. printed' = Data
    BY <1>1, <1>3, <2>1, <2>2, <2>3
  <2>7. Filtering(xs, <<>>, Len(Data))'
    BY <1>1, <1>2, <1>3, <2>1, <2>4, <2>5, <2>6 DEF Filtering
  <2>8. ListPlace(xs, <<>>, Len(Data))'
    BY <1>1, <1>2, <2>4, <2>7 DEF ListPlace
  <2> QED BY <2>8
<1>6. CASE pc = "filter"
  <2>1. /\ n = NodeAt(xs, i) /\ printed = Data /\ odd_list = NodeAt(ys, Len(ys))
        /\ i \in 0..Len(Data) /\ Len(ys) = Len(OddUpTo(Len(Data) - i))
        /\ Two(heap, xs, ys, Len(Data), Len(ys), Back, OddUpTo(Len(Data) - i))
    BY <1>6 DEF ListPlace, Filtering
  <2>2. i = 0
    BY <1>1, <2>1, TwoNull
  <2>3. pc' = "print_odd" /\ n' = odd_list
    BY <1>1, <1>6 DEF List!After
  <2>4. /\ Len(ys) = Len(OddBack) /\ Len(ys) \in 0..Len(ys) /\ Len(OddBack) - Len(ys) = 0
        /\ Two(heap, xs, ys, Len(Data), Len(ys), Back, o)
    BY <1>3, <1>4, <2>1, <2>2
  <2>5. OddShown(0) = Data
    BY <1>3, <1>4, SubSeqNext, ConcatEmptySeq DEF OddShown
  <2>6. PrintingOdd(xs, ys, Len(ys))' /\ AllThere(ys)'
    BY <1>1, <2>1, <2>3, <2>4, <2>5 DEF PrintingOdd, AllThere
  <2>7. ListPlace(xs, ys, Len(ys))'
    BY <1>1, <1>2, <2>3, <2>6 DEF ListPlace
  <2> QED BY <2>7
<1>7. CASE pc = "print_odd"
  <2>1. /\ n = NodeAt(ys, i) /\ printed = OddShown(Len(OddBack) - i) /\ i \in 0..Len(ys) /\ AllThere(ys)
        /\ Two(heap, xs, ys, Len(Data), Len(ys), Back, o)
    BY <1>7 DEF ListPlace, PrintingOdd
  <2>2. i = 0
    <3>1. Two(heap, ys, xs, Len(ys), Len(Data), o, Back)
      BY <2>1, TwoSwap
    <3> HIDE DEF o
    <3> QED BY <1>1, <2>1, <3>1, TwoNull
  <2>3. pc' = "remove" /\ n' = list
    BY <1>1, <1>7 DEF List!After
  <2>4. OddShown(Len(OddBack)) = Data \o OddBack /\ Len(OddBack) - i = Len(OddBack)
    <3>1. SubSeq(OddBack, 1, Len(OddBack)) = OddBack
      BY <1>4, SubSeqNext
    <3> QED BY <1>4, <2>2, <3>1 DEF OddShown
  <2>5. Removing(xs, ys, Len(Data))' /\ AllThere(ys)'
    BY <1>1, <1>2, <1>3, <2>1, <2>3, <2>4 DEF Removing, AllThere
  <2>6. ListPlace(xs, ys, Len(Data))'
    BY <1>1, <1>2, <2>3, <2>5 DEF ListPlace
  <2> QED BY <2>6
<1>8. CASE pc = "remove"
  <2>1. /\ n = NodeAt(xs, i) /\ printed = Data \o OddBack /\ i \in 0..Len(Data) /\ AllThere(ys)
        /\ Two(heap, xs, ys, i, Len(ys), Back, o)
    BY <1>8 DEF ListPlace, Removing
  <2>2. i = 0
    <3>1. i \in 0..i
      BY <2>1
    <3> HIDE DEF o
    <3> QED BY <1>1, <2>1, <3>1, TwoNull
  <2>3. pc' = "remove_odd" /\ n' = odd_list
    BY <1>1, <1>8 DEF List!After
  <2>4. odd_list = NodeAt(ys, Len(ys)) /\ Len(ys) \in 0..Len(ys) /\ Two(heap, xs, ys, 0, Len(ys), Back, o)
    BY <1>4, <2>1, <2>2 DEF AllThere
  <2>5. RemovingOdd(xs, ys, Len(ys))' /\ AllThere(ys)'
    BY <1>1, <2>1, <2>3, <2>4 DEF RemovingOdd, AllThere
  <2>6. ListPlace(xs, ys, Len(ys))'
    BY <1>1, <1>2, <2>3, <2>5 DEF ListPlace
  <2> QED BY <2>6
<1>9. CASE pc = "remove_odd"
  <2>1. /\ n = NodeAt(ys, i) /\ printed = Data \o OddBack /\ i \in 0..Len(ys)
        /\ Two(heap, xs, ys, 0, i, Back, o)
    BY <1>9 DEF ListPlace, RemovingOdd
  <2>2. i = 0
    <3>1. i \in 0..i /\ Two(heap, ys, xs, i, 0, o, Back)
      BY <2>1, TwoSwap DEF Two
    <3> HIDE DEF o
    <3> QED BY <1>1, <2>1, <3>1, TwoNull
  <2>3. pc' = "end" /\ n' = Null
    BY <1>1, <1>9 DEF List!After
  <2>4. DOMAIN heap = {}
    <3>1. \A a \in DOMAIN heap : (\E p \in 1..0 : a = xs[p]) \/ (\E q \in 1..0 : a = ys[q])
      BY <2>1, <2>2 DEF Two
    <3>2. 1..0 = {}
      OBVIOUS
    <3> QED BY <3>1, <3>2
  <2>5. ListPlace(xs, ys, i)'
    BY <1>1, <2>1, <2>3, <2>4 DEF ListPlace
  <2> QED BY <2>5
<1>10. pc \in {"print", "filter", "print_odd", "remove", "remove_odd"}
  BY <1>1 DEF ListPlace
<1> QED BY <1>5, <1>6, <1>7, <1>8, <1>9, <1>10

LEMMA PlaceSame ==
  ASSUME NEW xs, NEW ys, NEW i, ListPlace(xs, ys, i), UNCHANGED ListVars
  PROVE  ListPlace(xs, ys, i)'
<1>1. UNCHANGED <<heap, list, odd_list, num, n, printed, pc>>
  BY DEF ListVars
<1>2. /\ Building(xs)' <=> Building(xs)
      /\ Printing(xs, i)' <=> Printing(xs, i)
      /\ Filtering(xs, ys, i)' <=> Filtering(xs, ys, i)
  BY <1>1 DEF Building, Printing, Filtering
<1>3. /\ AllThere(ys)' <=> AllThere(ys)
      /\ PrintingOdd(xs, ys, i)' <=> PrintingOdd(xs, ys, i)
  BY <1>1 DEF AllThere, PrintingOdd
<1>4. /\ Removing(xs, ys, i)' <=> Removing(xs, ys, i)
      /\ RemovingOdd(xs, ys, i)' <=> RemovingOdd(xs, ys, i)
  BY <1>1 DEF Removing, RemovingOdd
<1> QED BY <1>1, <1>2, <1>3, <1>4 DEF ListPlace

LEMMA ListStep ==
  ASSUME ListInv, List!Next \/ UNCHANGED ListVars
  PROVE  ListInv'
<1>1. CASE UNCHANGED ListVars
  <2>1. List!TypeOK' /\ (pc = "abort" /\ List!NoWildNode => (pc = "abort" /\ List!NoWildNode)')
    BY <1>1 DEF ListVars, ListInv, List!TypeOK, List!NoWildNode
  <2>2. (\E xs, ys, i : ListPlace(xs, ys, i)) => \E xs, ys, i : ListPlace(xs, ys, i)'
    BY <1>1, PlaceSame
  <2> QED BY <2>1, <2>2 DEF ListInv
<1>2. CASE List!Next
  <2>1. CASE pc = "abort"
    BY <1>2, <2>1 DEF List!Next, List!NoMemory, List!Build, List!m, List!f, List!remove_list, List!EndOfLoop
  <2>2. CASE \E xs, ys, i : ListPlace(xs, ys, i)
    <3>1. PICK xs, ys, i : ListPlace(xs, ys, i)
      BY <2>2
    <3>2. List!NoWildNode
      BY <3>1, PlaceWild
    <3>3. List!TypeOK'
      <4>1. pc = "build" => num # 0
        BY <3>1, DataFacts DEF ListPlace, Building
      <4> QED BY <1>2, <3>2, <4>1, ListType DEF ListInv
    <3>4. CASE List!NoMemory
      <4>1. pc' = "abort" /\ List!NoWildNode'
        BY <3>2, <3>4 DEF List!NoMemory, List!NoWildNode
      <4> QED BY <3>3, <4>1 DEF ListInv
    <3>5. CASE List!Build \/ List!m \/ List!f \/ List!remove_list \/ List!EndOfLoop
      <4>1. \E us, vs, j : ListPlace(us, vs, j)'
        BY <3>1, <3>5, ListBuild, ListPrint, ListFilter, ListRemove, ListEnds
      <4> QED BY <3>3, <4>1 DEF ListInv
    <3> QED BY <1>2, <3>4, <3>5 DEF List!Next
  <2> QED BY <2>1, <2>2 DEF ListInv
<1> QED BY <1>1, <1>2

\* What the places say of the end.
LEMMA ListDone ==
  ASSUME ListInv
  PROVE  List!PrintsLists /\ List!NoWildNode /\ List!NothingLeaked
<1>0. List!NoWildNode
  BY PlaceWild DEF ListInv
<1>1. pc = "end" => DOMAIN heap = {} /\ printed = Data \o OddBack
  BY DEF ListInv, ListPlace
<1>2. OddBack = List!Reverse(List!Odd(Data))
  BY DataFacts DEF OddBack, Reverse, List!Reverse
<1> QED BY <1>0, <1>1, <1>2 DEF List!PrintsLists, List!NothingLeaked

\* The other programs leave the variables of this one alone.
LEMMA ListAlone ==
  ASSUME [Next]_vars
  PROVE  /\ program' = program
         /\ program = "asm" => List!Next \/ UNCHANGED ListVars
BY DEF Next, vars, JpegNext, SumNext, Utf8Next, TelehackNext, LogNext, ListNext, WeatherNext, listVars, ListVars

\* asm, for any values and addresses, that of a freed node among them: both lists
\* are printed whole, the odd ones last first, no node is used after it was freed,
\* and none is left at the end (asm/c/main.c).
THEOREM ListsIntactCorrect == Spec => []ListsIntact
<1> DEFINE J == program = "asm" => ListInv
<1>1. Init => J
  <2> SUFFICES ASSUME Init, program = "asm" PROVE ListInv
    OBVIOUS
  <2>1. List!Init
    BY DEF Init, JpegInit, SumInit, Utf8Init, TelehackInit, LogInit, ListInit, WeatherInit
  <2> QED BY <2>1, ListInit0
<1>2. J /\ [Next]_vars => J'
  BY ListAlone, ListStep
<1>3. J => ListsIntact
  BY ListDone DEF ListsIntact, ListInv
<1> QED BY <1>1, <1>2, <1>3, PTL DEF Spec
=============================================================================
