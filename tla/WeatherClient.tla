---------------------------- MODULE WeatherClient ----------------------------
(***************************************************************************)
(* weather: requests the weather of a city with libcurl, which hands the   *)
(* response over in chunks, and prints some of its members.                *)
(*                                                                         *)
(* A response is the sizes of its chunks, and the members of its root      *)
(* object in their order when it is the JSON document expected; a document *)
(* that is cut short is not JSON.                                          *)
(***************************************************************************)
EXTENDS Integers, SequencesExt, FiniteSetsExt

CONSTANT Responses

Member == {"current_condition", "weather", "other"}

\* what is assumed of the constant
ResponseAssumption ==
  Responses \subseteq [chunks : Seq(Nat \ {0}), json : BOOLEAN, members : Seq(Member)]

VARIABLES response,   \* what the server answers
          chunks,     \* chunks received
          resp,       \* bytes of the response that were kept, and bytes allocated
          res,        \* result of curl_easy_perform
          members,    \* members not looked at yet
          printed,    \* the sections printed
          pc

vars == <<response, chunks, resp, res, members, printed, pc>>

----------------------------------------------------------------------------
Init == /\ response \in Responses
        /\ chunks = 0
        /\ resp = [size |-> 0, allocated |-> 0]
        /\ res = "ok"
        /\ members = <<>> /\ printed = <<>>
        /\ pc = "init"

curl_easy_init == /\ pc = "init"
                  /\ pc' \in {"perform", "failed"}
                  /\ UNCHANGED <<response, chunks, resp, res, members, printed>>

real_size == response.chunks[chunks + 1]

\* mutant: the room is for this chunk alone
response_cb_Chunk ==
    /\ pc = "perform" /\ chunks < Len(response.chunks)
    /\ resp' = [size |-> resp.size + real_size, allocated |-> real_size + 1]
    /\ chunks' = chunks + 1
    /\ UNCHANGED <<response, res, members, printed, pc>>

\* a chunk and a NUL behind it are put behind what is there
response_cb ==
    /\ pc = "perform" /\ chunks < Len(response.chunks)
    /\ resp' = [size |-> resp.size + real_size, allocated |-> resp.size + real_size + 1]
    /\ chunks' = chunks + 1
    /\ UNCHANGED <<response, res, members, printed, pc>>

\* no memory: the callback returns 0, and libcurl gives up
response_cb_fails ==
    /\ pc = "perform" /\ chunks < Len(response.chunks)
    /\ res' = "error" /\ pc' = "parse"
    /\ UNCHANGED <<response, chunks, resp, members, printed>>

\* the connection fails: before the response, in the middle of it, or when its
\* last chunk is there and only the end of the transfer is missing
RequestFails == /\ pc = "perform"
                /\ res' = "error" /\ pc' = "parse"
                /\ UNCHANGED <<response, chunks, resp, members, printed>>

ResponseEnds == /\ pc = "perform" /\ chunks = Len(response.chunks)
                /\ pc' = "parse"
                /\ UNCHANGED <<response, chunks, resp, res, members, printed>>

\* What json_parser_load_from_data accepts: the document, whole.
IsJson == response.json /\ chunks = Len(response.chunks)

\* print_weather, called whether the request failed or not
Parse == /\ pc = "parse" /\ resp.size > 0 /\ IsJson
         /\ members' = response.members
         /\ pc' = "print"
         /\ UNCHANGED <<response, chunks, resp, res, printed>>

\* Without data the parser fails with no error, whose message is then read;
\* after any other failure it is freed, and then asked for the root.
ParseFails == /\ pc = "parse" /\ (resp.size = 0 \/ ~IsJson)
              /\ pc' = IF resp.size = 0 THEN "killed" ELSE "wild"
              /\ UNCHANGED <<response, chunks, resp, res, members, printed>>

\* the members that are printed
Shown(m) == m \in {"current_condition", "weather"}

PrintMember == /\ pc = "print" /\ members # <<>>
               /\ members' = Tail(members)
               /\ printed' = IF Shown(Head(members)) THEN Append(printed, Head(members)) ELSE printed
               /\ UNCHANGED <<response, chunks, resp, res, pc>>

Finish == /\ pc = "print" /\ members = <<>>
          /\ pc' = "done"
          /\ UNCHANGED <<response, chunks, resp, res, members, printed>>

Next == \/ curl_easy_init \/ response_cb \/ response_cb_fails \/ RequestFails \/ ResponseEnds
        \/ Parse \/ ParseFails \/ PrintMember \/ Finish

Spec == Init /\ [][Next]_vars /\ WF_vars(Next)

----------------------------------------------------------------------------
(* Properties.                                                             *)

TypeOK == /\ response \in Responses /\ chunks \in 0..Len(response.chunks)
          /\ resp \in [size : Nat, allocated : Nat]
          /\ res \in {"ok", "error"}
          /\ members \in Seq(Member) /\ printed \in Seq(Member)
          /\ pc \in {"init", "perform", "parse", "print", "done", "failed", "killed", "wild"}

\* What was received, with its NUL, fits in what was allocated for it.
ResponseFits == resp.size > 0 => resp.size < resp.allocated

\* the sections among the members of a response
Sections(ms) == FlattenSeq([k \in DOMAIN ms |-> IF ms[k] = "other" THEN <<>> ELSE <<ms[k]>>])

\* "shows current weather in the specified city" (README.md:2): every section of
\* the document is printed once, and nothing of a document that was cut short.
\* The result of the request is not looked at: what matters is that all of the
\* document was there.
ShowsWeather == pc = "done" => /\ chunks = Len(response.chunks)
                               /\ printed = Sections(response.members)

\* The program ends with the weather or an error that it reports.
EndsCleanly == pc \notin {"killed", "wild"}

\* The program has ended.
Ended == pc \in {"done", "failed", "killed", "wild"}
=============================================================================
