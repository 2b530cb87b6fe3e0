--------------------------- MODULE TelehackClient ---------------------------
(***************************************************************************)
(* telehack_clt: sends one command to a server that prompts for commands   *)
(* and prints what the server answers.                                     *)
(*                                                                         *)
(* A connection is the characters in flight to the client; where they are  *)
(* cut into packets does not matter, as the client receives one at a time. *)
(* The server may close or reset the connection at any time.               *)
(***************************************************************************)
EXTENDS Integers, SequencesExt

CONSTANTS PROMPT_BUF_SZ, RECV_BUF_SZ,
          Addresses,   \* results of getaddrinfo
          CmdLen,      \* strlen(figlet_cmd)
          Sessions     \* what the server says: its banner, and the text it answers

\* of a character only matters whether it may be part of a prompt
Char   == {"cr", "lf", "dot", "other"}
PROMPT == <<"cr", "lf", "dot">>
PROMPT_SZ == 3

\* what is assumed of the constants
SizesAssumption == /\ PROMPT_BUF_SZ \in Nat /\ RECV_BUF_SZ \in Nat \ {0}
                          /\ Addresses \in Nat /\ CmdLen \in Nat \ {0}
SessionAssumption == Sessions \subseteq [banner : Seq(Char), text : Seq(Char)]

VARIABLES session,
          spoken,       \* what of it the server has said: "nothing", "banner", "answer"
          wire,         \* characters in flight
          conn,         \* "open", "fin" or "reset" by the server
          tried,        \* addresses tried
          prompt_buf, recv_buf,
          cmd_sent,
          printed,
          pc

server == <<session, spoken, conn>>
client == <<tried, prompt_buf, recv_buf, cmd_sent, printed, pc>>
vars == <<server, wire, client>>

----------------------------------------------------------------------------
(* The server: a banner and a prompt, then for a command its echo, the     *)
(* text, one more character and the next prompt.                           *)

Echo == [n \in 1..CmdLen |-> "other"]
Banner(s) == s.banner \o PROMPT
Answer(s) == Echo \o s.text \o <<"other">> \o PROMPT

Connected == pc \in {"prompt", "send", "recv"}

SayBanner == /\ Connected /\ spoken = "nothing" /\ conn = "open"
             /\ spoken' = "banner"
             /\ wire' = wire \o Banner(session)
             /\ UNCHANGED <<session, conn, client>>

SayAnswer == /\ Connected /\ spoken = "banner" /\ cmd_sent /\ conn = "open"
             /\ spoken' = "answer"
             /\ wire' = wire \o Answer(session)
             /\ UNCHANGED <<session, conn, client>>

\* the server closes the connection, perhaps in the middle of what it says
Fin == /\ Connected /\ conn = "open"
       /\ conn' = "fin"
       /\ \E n \in 0..Len(wire) : wire' = SubSeq(wire, 1, n)
       /\ UNCHANGED <<session, spoken, client>>

\* or resets it: what is in flight is lost
Reset == /\ Connected /\ conn # "reset"
         /\ conn' = "reset" /\ wire' = <<>>
         /\ UNCHANGED <<session, spoken, client>>

----------------------------------------------------------------------------
(* print_text                                                              *)

Init == /\ session \in Sessions
        /\ spoken = "nothing" /\ wire = <<>> /\ conn = "open"
        /\ tried = 0
        /\ prompt_buf = <<>> /\ recv_buf = <<>>
        /\ cmd_sent = FALSE
        /\ printed = <<>>
        /\ pc = "resolve"

Resolve == /\ pc = "resolve"
           /\ pc' \in {"connect", "failed"}
           /\ UNCHANGED <<server, wire, tried, prompt_buf, recv_buf, cmd_sent, printed>>

\* socket or connect fails, or succeeds, for the next address
TryAddress == /\ pc = "connect" /\ tried < Addresses
              /\ tried' = tried + 1
              /\ pc' \in {"connect", "prompt"}
              /\ UNCHANGED <<server, wire, prompt_buf, recv_buf, cmd_sent, printed>>

NoAddressLeft == /\ pc = "connect" /\ tried = Addresses
                 /\ pc' = "failed"
                 /\ UNCHANGED <<server, wire, tried, prompt_buf, recv_buf, cmd_sent, printed>>

\* mutant: only the last character is compared
EndsInPrompt_DotOnly(buf) == Len(buf) >= PROMPT_SZ /\ Last(buf) = "dot"

EndsInPrompt(buf) == Len(buf) >= PROMPT_SZ /\ IsSuffix(PROMPT, buf)

\* wait_for_cmd_prompt: the next character, until the prompt.  Nothing stops
\* the loop at the end of its buffer.
ReadPrompt ==
    /\ pc = "prompt" /\ wire # <<>>
    /\ wire' = Tail(wire)
    /\ IF Len(prompt_buf) = PROMPT_BUF_SZ
       THEN pc' = "wild" /\ UNCHANGED prompt_buf
       ELSE /\ prompt_buf' = Append(prompt_buf, Head(wire))
            /\ pc' = IF EndsInPrompt(prompt_buf') THEN "send" ELSE "prompt"
    /\ UNCHANGED <<server, tried, recv_buf, cmd_sent, printed>>

\* the end of the connection and an error end the wait like the prompt does
NoPrompt == /\ pc = "prompt" /\ wire = <<>> /\ conn # "open"
            /\ pc' = "send"
            /\ UNCHANGED <<server, wire, tried, prompt_buf, recv_buf, cmd_sent, printed>>

\* A connection that was reset fails the send or, when the error was reported
\* before, ends the program by SIGPIPE.  The buffer's malloc may fail.
SendCmd == /\ pc = "send"
           /\ IF conn = "reset" THEN pc' \in {"failed", "killed"} /\ UNCHANGED cmd_sent
                                ELSE pc' \in {"recv", "failed"} /\ cmd_sent' = TRUE
           /\ UNCHANGED <<server, wire, tried, prompt_buf, recv_buf, printed>>

\* the next character of the answer, until the prompt or one character before
\* the buffer is full
Receive == /\ pc = "recv" /\ wire # <<>>
           /\ wire' = Tail(wire)
           /\ recv_buf' = Append(recv_buf, Head(wire))
           /\ pc' = IF Len(recv_buf') > RECV_BUF_SZ - 1 THEN "failed"
                    ELSE IF EndsInPrompt(recv_buf') THEN "cut" ELSE "recv"
           /\ UNCHANGED <<server, tried, prompt_buf, cmd_sent, printed>>

\* an error is reported, the end of the connection taken for a prompt
NoMore == /\ pc = "recv" /\ wire = <<>> /\ conn # "open"
          /\ pc' = IF conn = "reset" THEN "failed" ELSE "cut"
          /\ UNCHANGED <<server, wire, tried, prompt_buf, recv_buf, cmd_sent, printed>>

\* The prompt and the character in front of it are cut off, at an index that is
\* negative for an answer of less than four, and the echo is skipped: what an
\* answer of less than that leaves behind the cut is printed.
PrintText == LET end == Len(recv_buf) - PROMPT_SZ - 1
             IN  /\ pc = "cut"
                 /\ IF end < 0
                    THEN pc' = "wild" /\ UNCHANGED printed
                    ELSE /\ printed' = SubSeq(recv_buf, CmdLen + 1,
                                              IF end >= CmdLen THEN end ELSE Len(recv_buf))
                         /\ pc' = "done"
                 /\ UNCHANGED <<server, wire, tried, prompt_buf, recv_buf, cmd_sent>>

Say == SayBanner \/ SayAnswer
print_text == \/ Resolve \/ TryAddress \/ NoAddressLeft
              \/ ReadPrompt \/ NoPrompt \/ SendCmd
              \/ Receive \/ NoMore \/ PrintText

Next == SayBanner \/ SayAnswer \/ Fin \/ Reset \/ print_text

\* The server answers unless the connection ends, the program runs on.
Spec == Init /\ [][Next]_vars /\ WF_vars(Say) /\ WF_vars(print_text)

----------------------------------------------------------------------------
(* Properties.                                                             *)

TypeOK == /\ session \in Sessions /\ spoken \in {"nothing", "banner", "answer"}
          /\ wire \in Seq(Char) /\ conn \in {"open", "fin", "reset"}
          /\ tried \in 0..Addresses
          /\ prompt_buf \in Seq(Char) /\ recv_buf \in Seq(Char) /\ printed \in Seq(Char)
          /\ cmd_sent \in BOOLEAN
          /\ pc \in {"resolve", "connect", "prompt", "send", "recv", "cut",
                     "done", "failed", "killed", "wild"}

\* What is received fits in the buffer, with the NUL that ends it.
AnswerFits == pc # "failed" => Len(recv_buf) < RECV_BUF_SZ

\* "returns text processed by 'figlet' command" (main.c:28): when the server
\* does not end the connection, what is printed is the text it answered.
PrintsText == pc = "done" /\ conn = "open" => printed = session.text

\* The program indexes behind a buffer only for a banner that does not fit, and
\* in front of one only when the server ends the connection before four
\* characters of an answer.
WildOnlyIfCutShort == pc = "wild" => \/ Len(Banner(session)) > PROMPT_BUF_SZ
                                     \/ conn # "open" /\ Len(recv_buf) <= PROMPT_SZ

\* The program ends, as the server's prompts end its loops: it has no timeout.
Ended == pc \in {"done", "failed", "killed", "wild"}
Ends  == <>Ended

\* What is printed by a program that reports success is the text.
TextOrFailure == pc = "done" => printed = session.text
=============================================================================
