------------------------------ MODULE MCPrograms ------------------------------
(* The small programs for TLC.  They share nothing: a behaviour is a run of *)
(* one of them, and the variables of the others are off.                    *)
EXTENDS Integers, SequencesExt, FiniteSetsExt, TLC

CONSTANTS nA, nB, nD,       \* names of archived files
          l1, l2, l3, fA,   \* loggers, the file two of them append to
          Console, None,
          Address, Null,
          Off,
          Programs,         \* the programs to run, and what they are given:
          JpegFiles, Contents, Texts, Sessions, Dest, Data, Responses

VARIABLES program, pc, file, printed,
          pos,
          size, mapped, bytes_readed, idx, crc,
          text, encoding, input, last_j,
          session, spoken, wire, conn, tried, prompt_buf, recv_buf, cmd_sent,
          fds, state, fd, buf, written, said, reported, cur,
          heap, list, odd_list, num, n,
          response, chunks, resp, res, members

fileVars     == <<file>>
printedVars  == <<printed>>
zipVars      == <<pos>>
crcVars      == <<size, mapped, bytes_readed, idx, crc>>
textVars     == <<text, encoding, input, last_j>>
telehackVars == <<session, spoken, wire, conn, tried, prompt_buf, recv_buf, cmd_sent>>
loggerVars   == <<fds, state, fd, buf, written, said, reported, cur>>
listVars     == <<heap, list, odd_list, num, n>>
weatherVars  == <<response, chunks, resp, res, members>>

fileOff      == file = Off
printedOff   == printed = Off
zipOff       == pos = Off
crcOff       == size = Off /\ mapped = Off /\ bytes_readed = Off /\ idx = Off /\ crc = Off
textOff      == text = Off /\ encoding = Off /\ input = Off /\ last_j = Off
telehackOff  == session = Off /\ spoken = Off /\ wire = Off /\ conn = Off /\ tried = Off /\ prompt_buf = Off /\ recv_buf = Off /\ cmd_sent = Off
loggerOff    == fds = Off /\ state = Off /\ fd = Off /\ buf = Off /\ written = Off /\ said = Off /\ reported = Off /\ cur = Off
listOff      == heap = Off /\ list = Off /\ odd_list = Off /\ num = Off /\ n = Off
weatherOff   == response = Off /\ chunks = Off /\ resp = Off /\ res = Off /\ members = Off

----------------------------------------------------------------------------
(* jpeg_zip: an archive has something in front (an image, perhaps), files   *)
(* stored before its directory, other records behind the entries (two of    *)
(* the format for large archives, or a signature of nine bytes) and a       *)
(* comment; the offset in it counts the front or does not.                  *)

Entry(name, is_dir, len, extra, comment) ==
    [name |-> name, is_dir |-> is_dir, file_name_len |-> len,
     extra_field_len |-> extra, file_comment_len |-> comment]

EntrySz(e) == 46 + e.file_name_len + e.extra_field_len + e.file_comment_len

\* where the k-th entry of a directory is, and all of them
EntryPos(start, es, k) == LET sz == [j \in DOMAIN es |-> EntrySz(es[j])]
                          IN  start + MapThenSumSet(LAMBDA j : sz[j], 1..k - 1)
EntriesAt(start, es) == [p \in {EntryPos(start, es, k) : k \in DOMAIN es} |->
                            es[CHOOSE k \in DOMAIN es : EntryPos(start, es, k) = p]]

ZipFile(front, stored, es, other, comment, counted) ==
    LET start == front + stored
        end   == EntryPos(start, es, Len(es) + 1) + other
    IN  [size     |-> end + 22 + comment,
         ends     |-> [p \in {end} |-> IF counted THEN start ELSE stored],
         entries  |-> EntriesAt(start, es),
         archived |-> FlattenSeq([k \in DOMAIN es |-> IF es[k].is_dir THEN <<>> ELSE <<es[k].name>>])]

NoZip(sz) == [size |-> sz, ends |-> << >>, entries |-> << >>, archived |-> << >>]

OneEntry     == <<Entry(nA, FALSE, 1, 0, 0)>>
ThreeEntries == <<Entry(nD, TRUE, 2, 0, 3), Entry(nA, FALSE, 3, 5, 0), Entry(nB, FALSE, 1, 1, 3)>>

ZipFiles == {ZipFile(front, 6, es, other, comment, counted) :
               front \in {0, 7}, es \in {OneEntry, ThreeEntries}, other \in {0, 9, 76},
               comment \in {0, 3}, counted \in BOOLEAN}
            \cup {NoZip(0), NoZip(3), NoZip(9), ZipFile(0, 0, <<>>, 0, 0, TRUE)}

(* crc32: every byte, and files of up to three chunks.                      *)
Bytes == {<<b>> : b \in 0..255} \cup {[k \in 1..sz |-> 48 + k] : sz \in 0..9}

(* to_utf8: texts of up to three pieces, and the alphabet; also texts with  *)
(* a NUL.                                                                   *)
LettersAndLines == UNION {[1..len -> {10, 65, \h410, \h44E}] : len \in 0..4}
                   \cup {[k \in 1..64 |-> \h40F + k],
                         <<\h44E, \h410, \h44E, \h410, \h44E, 65, 10, \h410>>}
WithNul == {<<65, 0, 65>>}

(* telehack_clt: banners that fill the buffer or do not fit, and texts that *)
(* end the way a prompt starts, or do not fit; and a text that holds a      *)
(* prompt.                                                                  *)
NoPrompts ==
    [banner : {<<>>, <<"other", "cr", "lf", "other">>, <<"cr">>,
               [k \in 1..5 |-> "other"]},
     text   : (UNION {[1..len -> {"cr", "lf", "dot", "other"}] : len \in {0, 1, 3}}
                  \cup {<<"other", "cr", "lf", "other">>})
              \ {<<"cr", "lf", "dot">>}]
DotLine    == [banner : {<<>>}, text : {<<"cr", "lf", "dot", "other">>}]

(* logger: one that writes to the console, two that append to a file; and   *)
(* two that write to the console.                                           *)
OneConsole  == (l1 :> Console) @@ (l2 :> fA) @@ (l3 :> fA)
TwoConsoles == (l1 :> Console) @@ (l2 :> fA) @@ (l3 :> Console)

(* asm: one value that is even, two that are odd.                           *)
Values == <<4, 15, 23>>

(* weather: documents in several chunks, and responses that are none.       *)
SomeResponses ==
    [chunks  : {<<>>, <<2>>, <<2, 1>>, <<1, 2, 1>>}, json : BOOLEAN,
     members : {<<>>, <<"weather">>, <<"other", "current_condition", "weather">>,
                <<"weather", "other", "current_condition">>}]

----------------------------------------------------------------------------
Jpeg == INSTANCE JpegZip WITH Files <- JpegFiles, Name <- {nA, nB, nD}
Crc == INSTANCE Crc32 WITH CHUNK_SZ <- 4, PageSz <- 2, Contents <- Contents
Utf8 == INSTANCE ToUtf8 WITH k_encoded_buf_sz <- 4, Texts <- Texts
Telehack == INSTANCE TelehackClient WITH PROMPT_BUF_SZ <- 7, RECV_BUF_SZ <- 10, Addresses <- 2, CmdLen <- 2, Sessions <- Sessions
Log == INSTANCE Logger WITH Loggers <- {l1, l2, l3}, Dest <- Dest, BufSz <- 2, MaxLines <- 3
List == INSTANCE AsmList WITH data <- Data, NULL <- Null
Weather == INSTANCE WeatherClient WITH Responses <- Responses

JpegInit == program = "jpeg_zip" /\ Jpeg!Init
            /\ crcOff /\ textOff /\ telehackOff /\ loggerOff /\ listOff /\ weatherOff
JpegNext == program = "jpeg_zip" /\ Jpeg!Next
            /\ UNCHANGED <<program, crcVars, textVars, telehackVars, loggerVars, listVars, weatherVars>>

SumInit == program = "crc32" /\ Crc!Init
           /\ zipOff /\ textOff /\ telehackOff /\ loggerOff /\ listOff /\ weatherOff
SumNext == program = "crc32" /\ Crc!Next
           /\ UNCHANGED <<program, zipVars, textVars, telehackVars, loggerVars, listVars, weatherVars>>

Utf8Init == program = "to_utf8" /\ Utf8!Init
            /\ fileOff /\ zipOff /\ crcOff /\ telehackOff /\ loggerOff /\ listOff /\ weatherOff
Utf8Next == program = "to_utf8" /\ Utf8!Next
            /\ UNCHANGED <<program, fileVars, zipVars, crcVars, telehackVars, loggerVars, listVars, weatherVars>>

TelehackInit == program = "telehack_clt" /\ Telehack!Init
                /\ fileOff /\ zipOff /\ crcOff /\ textOff /\ loggerOff /\ listOff /\ weatherOff
TelehackNext == program = "telehack_clt" /\ Telehack!Next
                /\ UNCHANGED <<program, fileVars, zipVars, crcVars, textVars, loggerVars, listVars, weatherVars>>

LogInit == program = "logger" /\ Log!Init
           /\ fileOff /\ printedOff /\ zipOff /\ crcOff /\ textOff /\ telehackOff /\ listOff /\ weatherOff
LogNext == program = "logger" /\ Log!Next
           /\ UNCHANGED <<program, fileVars, printedVars, zipVars, crcVars, textVars, telehackVars, listVars, weatherVars>>

ListInit == program = "asm" /\ List!Init
            /\ fileOff /\ zipOff /\ crcOff /\ textOff /\ telehackOff /\ loggerOff /\ weatherOff
ListNext == program = "asm" /\ List!Next
            /\ UNCHANGED <<program, fileVars, zipVars, crcVars, textVars, telehackVars, loggerVars, weatherVars>>

WeatherInit == program = "weather" /\ Weather!Init
               /\ fileOff /\ zipOff /\ crcOff /\ textOff /\ telehackOff /\ loggerOff /\ listOff
WeatherNext == program = "weather" /\ Weather!Next
               /\ UNCHANGED <<program, fileVars, zipVars, crcVars, textVars, telehackVars, loggerVars, listVars>>

ASSUME ConstantsAssumption ==
    /\ Jpeg!FilesAssumption
    /\ Crc!ChunkAssumption /\ Crc!ContentsAssumption /\ Crc!TableAssumption
    /\ Utf8!BufferAssumption /\ Utf8!TextAssumption
    /\ Telehack!SizesAssumption /\ Telehack!SessionAssumption
    /\ Log!LoggerAssumption /\ Log!BoundAssumption
    /\ List!DataAssumption
    /\ Weather!ResponseAssumption

Init == program \in Programs /\ (JpegInit \/ SumInit \/ Utf8Init \/ TelehackInit \/ LogInit \/ ListInit \/ WeatherInit)
Next == JpegNext \/ SumNext \/ Utf8Next \/ TelehackNext \/ LogNext \/ ListNext \/ WeatherNext

vars == <<program, pc, file, printed, zipVars, crcVars, textVars, telehackVars, loggerVars,
          listVars, weatherVars>>

\* A program runs on until it ends; the server of telehack_clt answers unless
\* the connection ends; what uses a logger may stop.
RunsOn == \/ JpegNext \/ Utf8Next \/ ListNext \/ WeatherNext
          \/ SumNext /\ Crc!print_crc32
          \/ TelehackNext /\ Telehack!print_text

Fairness == WF_vars(RunsOn) /\ WF_vars(TelehackNext /\ Telehack!Say)

Spec == Init /\ [][Next]_vars /\ Fairness

----------------------------------------------------------------------------
(* The properties of the modules, each of the runs of its program.          *)

\* jpeg_zip lists the files of an archive wherever in the file it is, and calls
\* no file with an end signature something else.
ListsArchive == program = "jpeg_zip" => /\ Jpeg!TypeOK
                                        /\ Jpeg!ListsArchive
                                        /\ Jpeg!NotZipIsTrue

\* crc32 sums every byte once, in the order of the file: the sum is the one its
\* polynomial defines, no byte is read that was unmapped or lies behind the end,
\* and the chunks unmapped are the whole mapping.
SumsFile == program = "crc32" => /\ Crc!TypeOK
                                 /\ Crc!SumIsCrc32
                                 /\ Crc!DiesOnlyWithoutBytes
                                 /\ Crc!AllUnmapped

\* to_utf8 writes the text it read, wherever the buffer cuts a line, and no piece
\* overflows the buffer it is converted in.
SameText == program = "to_utf8" => /\ Utf8!TypeOK
                                   /\ Utf8!SameText
                                   /\ Utf8!PieceFits

\* telehack_clt prints the text, neither the echo nor the prompt, stays in its
\* buffers and indexes out of them only when the server cuts an answer short or
\* greets with more than the buffer holds.
PrintsText == program = "telehack_clt" => /\ Telehack!TypeOK
                                          /\ Telehack!AnswerFits
                                          /\ Telehack!PrintsText
                                          /\ Telehack!WildOnlyIfCutShort

\* logger: a destination holds a prefix of every logger's lines, however loggers
\* interleave, and all of them when the logger is closed.
LinesInOrder == program = "logger" => /\ Log!TypeOK
                                      /\ Log!LinesInOrder

\* logger: an error is in the file once LOG_ERR has returned, also after a kill,
\* and its backtrace, which bypasses the stream's buffer, is directly behind it.
ErrorsSurvive == program = "logger" => /\ Log!ErrorsSurvive
                                       /\ Log!TraceBehindLine

\* asm: both lists are printed whole, no node is used after it was freed, and
\* every node is freed.
ListsIntact == program = "asm" => /\ List!TypeOK
                                  /\ List!PrintsLists
                                  /\ List!NoWildNode
                                  /\ List!NothingLeaked

\* weather: the chunks of a response and a NUL fit in what was allocated, and the
\* sections of a whole document are shown, and of no other, however the request
\* ends.
ShowsWeather == program = "weather" => /\ Weather!TypeOK
                                       /\ Weather!ResponseFits
                                       /\ Weather!ShowsWeather

\* Every program ends (but one that uses a logger, which need not): the scans of
\* jpeg_zip on a file that is no archive or whose end lies a multiple of four
\* bytes behind its last entry, telehack_clt at the prompts of the server or the
\* end of the connection, as it has no timeout.
ProgramsEnd == program # "logger" /\ (program = "jpeg_zip" => Jpeg!Scannable)
                 ~> CASE program = "jpeg_zip"     -> Jpeg!Ended
                      [] program = "crc32"        -> Crc!Ended
                      [] program = "to_utf8"      -> Utf8!Ended
                      [] program = "telehack_clt" -> Telehack!Ended
                      [] program = "asm"          -> List!Ended
                      [] program = "weather"      -> Weather!Ended
                      [] OTHER -> TRUE

\* jpeg_zip: the scans end on every archive.
EndsOnArchives == program = "jpeg_zip" ~> Jpeg!Ended

\* telehack_clt: what is printed with success is the text.
TextOrFailure == program = "telehack_clt" => Telehack!TextOrFailure

\* weather: a failed request is reported, and ends the program.
EndsCleanly == program = "weather" => Weather!EndsCleanly
====
