# Verification of otus_c_2022

The repository is a collection of small C programs. This directory holds TLA+
models of them: a concurrent hash table, a hash map, a multi-threaded log
parser, a daemon, an HTTP server, and seven small programs (an archive lister, a
checksum, a converter, two network clients, a logging library and a list
exercise). The models are checked with TLC. Their safety properties are also
proved with TLAPS for every value of their parameters, except those section 4
names.
Paths below are relative to the root of the repository.

## 1. Inventory

| component | state | operations | what is hard | what makes it correct |
|---|---|---|---|---|
| `wait_free_hash_map/include/wtf_table.h` | a trie of arrays of atomic pointer words, each NULL, a node, or an array, with a mark bit; nodes on the heap | insert, find, expand, count, destroy | several threads between any two accesses to a slot; memory freed while another thread holds a pointer to it; failing allocation | calls are linearizable; a pointer has one owner; slots never go back; calls return |
| `frequency_dictionary/include/hash_map.h` | an array of (key, value) nodes, capacity, size | create, get, insert, rehash | double hashing over capacity - 1 slots with a step that may not be coprime; insert and rehash call each other, and insert goes on when the insert it called fails; allocation | a stored key is found; growing loses nothing; no word is counted twice; loops end |
| `frequency_dictionary/include/frequency_dict.h` | the map and the current word | count the words of a file | insert may return NULL | every word is counted once |
| `http_parser/src/main.c`, `include/http_record.h` | list of files, shared atomic iterator, one pair of maps and one record per worker | list, create, claim, read, join, merge, report | workers race for files; one worker may end the process; a map may take no more keys; the record outlives its line | each file is read once; the report does not depend on the interleaving |
| `file_size_daemon/src/main.c`, `config.c` | configuration, two signal flags, listening socket and its file | read configuration, bind, accept, answer, reload, stop | signals at any moment; crashes and restarts; second instances; clients that leave; calls that fail | reload and stop are not lost; the socket file leads to who serves it |
| `http_server/src/main.c` | connections, epoll's ready list, the batch of events, progress of a transfer | accept, read, answer, send file, close | edge-triggered events; descriptors closed in the middle of a batch; partial transfers; files that cannot be sent; blocking calls | every client is served; the answer is the file; nothing is leaked |
| `telehack_clt` | one connection, a buffer of the answer | connect, wait for prompt, send, receive, cut out the text | the connection ends before a prompt; a prompt in the text; no timeout | the text is printed, nothing around it; no index leaves its buffer |
| `weather` | the response so far | append a chunk, parse, print | partial and failed requests, no memory | the response fits; only a whole document is shown |
| `logger` | a stream of the C library per logger, the descriptors under them | open, print, print an error with a backtrace, close | the backtrace bypasses the stream's buffer; kills; loggers that share a destination | lines are not lost or reordered; an error is in the file when the call returns |
| `to_utf8` | tables, the rest of the input | convert piece by piece | lines longer than the buffer | the output is the text |
| `crc32` | a mapping, the bytes summed, the sum | sum a chunk, unmap it | the last chunk; a file that is cut meanwhile | the sum is CRC-32 of the file |
| `jpeg_zip` | a position in a file | scan for the end, scan for the first entry, list | offsets that do not count what lies in front; scans without a bound | the list is the archive's; the scans end |
| `asm` | two lists on the heap | add, map, filter, free | a node in two lists | values in order; each node freed once |
| `valgrind` | | | a patch of third-party code | not modelled |

The programs do not talk to each other. `http_parser` uses `hash_map.h`
(as a subproject) for its statistics; each worker owns its maps until it is
joined, so the map is modelled sequentially and `HttpParser` uses functions
for it. Everything else that the components interact with (clients, kernel,
administrator) is part of the model of the component.

The full list of hazards, each at its line and with the properties about it,
is under "hazards" in `PROJECT.json`.

## 2. Modules

| module | models | state and actions against the code |
|---|---|---|
| `WtfTable` | `wtf_table.h` | `arr`, `heap` are the memory; `pc`, `arg`, `at` (cur_arr, shift, fail_count), `cur` (cur_node), `exp` are the locals of a thread. One action is one access to shared memory with the local computation that follows: `LoadSlot`, `CasNull`, `ReloadNull`, `CmpNull`, `CmpHash`, `CasUpdate`, `ReloadUpdate`, `FreeOld`, `MarkSlot` for insert, `ExpandLoad`, `ExpandFill`, `ExpandCas` for `wtf_table_expand_table` (called from four places), `FindLoad`, `FindCmp`, `FindValue` for find. `wtf_table_for_each` is the walk of count and destroy over a table nobody uses: the first `CUR_ARR_SZ(lvl)` slots of each array it recurses into, with the level by depth |
| `AtomicMap` | what the table promises | a map and at most one call per thread, each taking effect at one instant |
| `WtfTableHistory` | `WtfTable` with observers | the set of abstract maps that some order of the calls explains; the keys whose insert returned true |
| `HashMap` | `hash_map.h` and its callers | `m` and `new_map` are maps; the probes of an insert are one step (one thread owns the map), each iteration of the loop of rehash is one, and each probe of `hash_map_get_node` is one, as that loop has no bound. `outer` is the stack of the inserts that called themselves after a rehash, by the `attempt_idx` each goes on with when the inner one returns NULL (`ReturnNull`) |
| `FrequencyDict` | what `frequency_dict.h` promises | counts of words, and the word being counted |
| `HttpParser` | `main.c`, `http_record.h` | `get_stat` is `ReadEntry` .. `Report`; a worker is `Load`, `ClaimOk`/`ClaimFail`, `WorkerEnd`, `Open`, `ReadLine`, `EndOfFile`; `InsertFails` and `JoinFails` are the assertions that an insert found a node |
| `FszDaemon` | `main.c`, `config.c` of the daemon | `Start` .. `Unlink` are the program from main to the last unlink, `SocketFails`, `ListenFails` and `AcceptFails` the calls the system refuses; `bound` is the file a listening socket was bound to, which the kernel knows; `Hup` and `Interrupt` the signal handler; `Edit`, `Kill`, `Connect`, `Leave` the outside |
| `HttpServer` | `main.c` of the server | `EpollWait`, `Accept`, `Serve`, `ReadRequest`, `ReadBadRequest`, `SendFile`, `StatFails`, `SendFails`, `ReadEnds`, .. are the loops of `run`; `Connect`, `Transmit`, `HangUp` the clients |
| `JpegZip` | `jpeg_zip/src/main.c` | a file is its size and what lies at its positions; `FindEnd`, `GotoStart`, `FindEntry`, `ReadEntry`, `SkipOther` are the bodies of the loops of main, one per signature looked at |
| `Crc32` | `crc32/src/main.c` | `print_crc32`, one action per byte summed or chunk unmapped; a word is the set of its bits; `Truncate` is another process. `CRC32` is the reference: division by the polynomial, bit by bit |
| `ToUtf8` | `to_utf8/src/main.c` | `Convert` is one turn of the loop; the tables are those of the code, `ByteOf` and `Utf8` are the encodings by their standards |
| `TelehackClient` | `telehack_clt/src/main.c` | `print_text` and `wait_for_cmd_prompt`, one action per character received; `SayBanner`, `SayAnswer`, `Fin`, `Reset` are the server and the connection |
| `Logger` | `logger.c`, `logger.h` | `logger_open_...`, `Log`, `logger_close`; the macro `LOG_ERR` is `LogErr`, `Seek`, `Trace`, `Flush`, as the process may be killed between them |
| `AsmList` | `asm/c/main.c` | the loops of main: `Build`, `m`, `f`, `remove_list`; malloc takes any free address, that of a freed node at once |
| `WeatherClient` | `weather/src/main.c` | `response_cb` per chunk and its failures, `Parse`, `PrintMember`; libcurl and json-glib by what the code relies on |
| `MCPrograms` | the seven above | an instance of each; a behaviour is a run of one program, the variables of the others are `Off`. The programs share nothing, so this is a sum and not a product |
| `MC...` | | the instances TLC checks |
| `WtfTableProofs`, `HashMapProofs`, `FszDaemonProofs`, `HttpServerProofs`, `HttpParserProofs`, `LoggerProofs` | | the theorems about each |
| `ProgramsProofs` | | the theorems about the small programs, on `MCPrograms` |
| `SumTheorems` | | the facts about sums over a finite set that they rest on |

Abstractions.

* A 64-bit hash is its sequence of base-64 digits, one per level, least
  significant first; instances have slots of two words and three levels.
* A pointer word is a record of its kind, its target and its mark. What a
  thread reads through a pointer that is tagged, or that was freed and may be
  reused, is chosen nondeterministically. `get_unmarked_array` clears one of the
  two tag bits, so following a marked array word gives a misaligned array, whose
  words straddle two slots; a compare-exchange through it is undefined. The table is
  described up to that point: a thread gets to "wild" and no thread takes
  a step after it (`Defined`). What is said of the table is said of executions until then.
* Atomic operations of the table are sequentially consistent in the code
  (the explicit orders occur in tag helpers and in the first load of an expansion,
  which only needs acquire to read the node it found), so interleaving is
  faithful.
* The lengths and characters of names, words and lines are left out. A word
  has the 32-bit hash the instance gives it; a log line has the fields
  `http_record_get` finds in it and how far it goes; a configuration file is
  the sequence of its scalars.
* `JpegZip` reads a signature that overlaps the end of the file as none; the
  code then compares the bytes left in the variable, uninitialised before the first
  read, which no file makes a signature but by that accident.
* Of a character `telehack_clt` receives only matters whether a prompt may
  hold it; of a line of a logger, who wrote it and when; of a member of a weather
  document, which branch prints it.
* Definitions named `X_Something` beside `X` are faulty variants of `X`, each
  used to see that a property notices the fault. They are part of no specification.

## 3. Runs

### The table

Bounds: two writers and a reader at most, up to three keys that share one,
two or three levels, three or four node addresses, three or four arrays, three
to five calls. Three levels with a smaller last one (`MAX_LVL_ARR_SZ`) are
enough for an expansion at the first, an inner and the last level; two writers
are enough for every pairwise race, and the third key lets a slot change its
owner twice. `MAX_FAIL_CNT` is 8 as in the code, or 0 where marks are to
happen within a few steps; `FAIL_CNT_MOD` is 3 there, so that the counter wraps.
Calls stop at `MaxOps`, hence no deadlock check.

| run | shows |
|---|---|
| `wtf_key_owners` | two writers with a key each, which part at the last level only, and one reader: `ImplementsAtomicMap`, `InsertFailsOnlyWithoutMemory`, `NodesAccountedFor` (count and destroy walk through every sub-array the inserts made), and `CallsReturn` with fair threads and memory enough |
| `wtf_same_key` | two writers and a reader of one key: `Linearizable`, `ContentExplained`, `NodesAccountedFor`. The winner of two updates that overlap may not be the last to return, so the refinement mapping of the other runs does not fit, and `WtfTableHistory` looks for an order instead |
| `wtf_races` | two writers of three keys, marks at once: `OneOwner`, `ArraysOwned`, `NoNullDereference`, `SlotsMoveForward` |
| `wtf_lost_key` | *violation* of `InsertAdds`: an expansion wraps the array of another |

`wtf_key_owners` bounds what the table delivers. A third
key is too much for two writers: it is not a map any more even when each key
has one writer, as an expansion for one key may hide the array that holds the
other (`wtf_lost_key`), and inserts then fail with memory left.

The README of the component leaves the allocator to the user; with
`Recycle = FALSE` memory is not reused while a stale pointer to it exists, as
a collecting allocator guarantees, with `TRUE` it may be, as with malloc. The
runs above use the first, `wtf_aba` and `wtf_freed_node` (below) show what the
second breaks. `TypeOK`, `ArraysOwned` and `NoNullDereference` are proved for both, everything
else that is proved of the table for the first only.

### The hash map

Bounds: four or five words, a capacity of 4 (grown to 8 and 16), 7 (grown to 14
and 28), 14 or 16. `Colliding` makes all words meet in the small maps; `ThreeSlots` and
`ThreeSlotsOf28` are hash values for which hash mod (count - 1) + 1 shares a
factor with count, so that the probe sequence visits three slots: the rare
case behind the findings, made common.

| run | shows |
|---|---|
| `hm_counts` | `Findable`, `RehashCopies`, `EveryWordAccounted`, the refinement `CountsWords`, and `CallsReturn`, through a growth and with look-ups; malloc finds memory |
| `hm_failures` | `RehashFits`, `NoneCountedTwice` when allocations fail, with the retries that follow, and when a growing map runs into short probe sequences (either may end the program in the middle of a rehash, hence no deadlock check) |
| `hm_endless_get` | *violation* of `CallsReturn`: the look-up has no bound |

When the insert that follows a rehash returns NULL, `n` is NULL in its caller and the
caller's loop goes on, in the grown map, with the `attempt_idx` at which it
had stopped in the smaller one. If that passes a free slot, the key may be stored
behind it, be stored again later, and lose a count when a rehash copies both
nodes into one (`hm_stored_twice`, below). `FreshAttempts` says that a retry leaves out no free
slot; it can be false only after a failed malloc, and `Findable`, `RehashCopies`,
`EveryWordAccounted` and `CountsWords` rest on it. What holds without it is that
words are at most forgotten, never counted twice (`NoneCountedTwice`).

### The log parser

Bounds: three files of one to three lines, one of which may fail to open, four
threads asked for and so three workers, a list of one cell at first, so that it
grows. The lines are cut after each token at least once and miss referers at
the begin and after others. Any insert into a map may find no node.

| run | shows |
|---|---|
| `hp_report` | `OneWorkerPerFile`; `ReportIsSequential`: what is reported is what one thread computes; `Terminates` |

`ReportIsSequential` states the counts the code is built to give (a line
without referer goes to the referer before it in the same file), so that
it is about the threads only.

### The daemon

Bounds: one instance at a time, three clients, two paths, one of them of no file, one
socket name, two edits, one of the configurations malformed, two SIGHUPs, one
kill, three starts, and a backlog of one (eight in the code). socket, listen and accept
may fail whenever they are called. Three clients are
needed to see a second late answer; three starts to see a start fail twice.

| run | shows |
|---|---|
| `fszd_service` | `HupLateByOneClient`, `AwaitsOnSocket`, `StopRemovesSocket`, `SecondStartBinds`, and `StopsUnlessLooping`: only a configuration libyaml cannot scan keeps the daemon from stopping on SIGINT |

### The HTTP server

Bounds: two or three clients of one or two segments, a file of three blocks
and an empty one, transfers of two or three blocks. A batch of events then
holds the listener and clients at once.

| run | shows |
|---|---|
| `http_requests` | three clients that hang up in the end: `NoStaleEvent`, `FilesIntact` where one sendfile transfers a file, also when a file fails to be sent, `HungUpIsClosed` |
| `http_lost_connection` | *violation* of `EveryClientAccepted` |

### The small programs

One run for the seven. Bounds of each, chosen so that every boundary is met:

* `jpeg_zip`: archives of one entry and of three (one of them a directory), behind
  seven bytes or none, with an offset that counts them or not, with no other records
  or 9 or 76 bytes of them, with a comment or without; files too short for a signature, without
  one, and an archive without an entry.
* `crc32`: a file of each byte, and files of 0 to 9 bytes with chunks of four bytes
  (2^30 in the code) and pages of two, so up to three chunks, the last one whole
  or not; the file is cut to any length at any moment.
* `to_utf8`: a buffer of four bytes, all texts of up to four of four characters, a
  line that takes three pieces, and the alphabet; three encodings and none.
* `telehack_clt`: buffers of 7 and 10 characters; banners that are empty, fill the
  buffer or do not fit; texts of up to three characters with everything a prompt
  is made of except a prompt, and one that does not fit. The connection may end
  at any character. No text holds a prompt, which is a disagreement (below).
* `logger`: one logger on the console and two that append to one file, a buffer
  of two lines, three lines, a kill at any moment. A stream may hand over more
  of its buffer than it must, at any print.
* `asm`: an even and two odd values, five addresses, malloc may fail.
* `weather`: no chunk to three, four documents, JSON or not, failures at each chunk and behind the last one.

| run | shows |
|---|---|
| `programs` | `ListsArchive`, `SumsFile`, `SameText`, `PrintsText`, `LinesInOrder`, `ErrorsSurvive`, `ListsIntact`, `ShowsWeather`: each is the type invariant and the named safety properties of one module; and `ProgramsEnd`: all of them end, which for `telehack_clt` rests on the server or the end of the connection, and for `jpeg_zip` on an end record a multiple of four bytes behind the last entry (`Scannable`) |

`ErrorsSurvive` is what the order of the calls in `LOG_ERR` is for: fseek hands
over the buffer before the backtrace is written past it, and fflush what is left.
`SumsFile` compares the code's table and its loop over chunks with the polynomial;
a file that is cut can only kill the program, never give a wrong sum for a file of
the size it saw.

### Other disagreements

The modules reproduce further disagreements between the code and what its
comments, tests and READMEs say. Each has a configuration beside the module it
is checked with; TLC finds the property violated.

| configuration | module | property | code | what happens |
|---|---|---|---|---|
| `wtf_lost_update` | `MCWtfHistory` | `ContentExplained` | `src/wait_free_hash_map/include/wtf_table.h:241` | After a failed compare_exchange cur_node holds the word found, tag included, so get_unmarked_node(cur_node2) == cur_node is false when the slot was marked; the else branch frees the new node and returns true without storing the value. The comment says "If the table holds the key, value overwrites existing value" (src/wait_free_hash_map/include/wtf_table.h:156). |
| `wtf_freed_node` | `MCWtfHistory` | `FindFindsStored` | `src/wait_free_hash_map/include/wtf_table.h:299` | wtf_table_find reads hash_ of a node that an update may have freed (line 232) since it was loaded; in memory allocated again it finds another hash and returns NULL for a key that was inserted before the call. The comment says "if the table doesn't hold the key, return NULL" (src/wait_free_hash_map/include/wtf_table.h:274). |
| `wtf_aba` | `MCWtfHistory` | `InsertAdds` | `src/wait_free_hash_map/include/wtf_table.h:230` | Between the comparison of hash_ (line 228) and the compare_exchange (line 230) the node may be freed by another update and its address allocated for another key and stored in the same slot: the compare_exchange succeeds and that key is gone. The comment says "Otherwise, key value pair is added to the table" (src/wait_free_hash_map/include/wtf_table.h:157). |
| `wtf_leak` | `MCWtfTable` | `LostExpansionIsFreed` | `src/wait_free_hash_map/include/wtf_table.h:145` | is_array(&node) tests the address of the local variable, which is aligned, instead of the word, so the branch that frees the array is dead and the array is leaked. Its comment says "the node was already expanded, free stuff created above" (src/wait_free_hash_map/include/wtf_table.h:146). |
| `wtf_no_memory` | `MCWtfTable` | `CallsReturn` | `src/wait_free_hash_map/include/wtf_table.h:124` | When malloc of the new array returns NULL, wtf_table_expand_table returns NULL and wtf_table_insert tries again for ever. The comment says "wtf stands for WaiT Free" (src/wait_free_hash_map/include/wtf_table.h:77). |
| `hm_lost_word` | `MCHashMap` | `NoWordLost` | `src/frequency_dictionary/include/hash_map.h:160` | The probe sequence runs over capacity - 1 slots with a step that need not be coprime to it, so it may visit a few slots only; when they are taken, hash_map_insert gives up and returns NULL with most of the map free. The comment says it "returns a pointer to inserted node or a pointer to existing node" (src/frequency_dictionary/include/hash_map.h:127). |
| `hm_stored_twice` | `MCHashMap` | `KeyStoredOnce` | `src/frequency_dictionary/include/hash_map.h:166` | When the insert that follows a rehash returns NULL because malloc failed, the loop of its caller goes on in the grown map with the attempt_idx of the smaller one; it may pass a free slot and store the key behind it, and the next insert of the key creates a second node. The comment says it "creates a new node or assigned a node value if key exists in the hash-map" (src/frequency_dictionary/include/hash_map.h:126). |
| `hp_referers` | `MCHttpParser` | `ReferersAsLogged` | `src/http_parser/include/http_record.h:99` | For the referer "-" http_record_get returns 0 and leaves the referer of an earlier line in the record, and file_data_read counts that referer once more; before any referer the 255 zero bytes of a new record are counted. The report says "TIMES: [%d], REFERER: [%s]" (src/http_parser/src/main.c:270). |
| `fszd_late_hup` | `MCFszDaemon` | `HupReread` | `src/file_size_daemon/src/main.c:108` | hup_received is tested only after a client was served, so the first client after SIGHUP gets an answer from the configuration read before. The README says "rereads configuration on SIGHUP signal" (src/file_size_daemon/README.md:8). |
| `fszd_second_instance` | `MCFszDaemon` | `AwaitsOnSocket` | `src/file_size_daemon/src/main.c:78` | When bind fails because the name is in use, the socket file is unlinked, that of a running instance included; that instance then waits on a socket no path leads to. The README says it "awaits incoming requests on `fszd.socket` UNIX domain socket" (src/file_size_daemon/README.md:7). |
| `fszd_bad_yaml` | `MCFszDaemon` | `StopsOnInt` | `src/file_size_daemon/src/config.c:32` | The result of yaml_parser_scan is ignored; after a scanner error it yields empty tokens, never the end of the stream, and the loop does not end, whatever signals arrive. The README says it "stops on SIGINT signal" (src/file_size_daemon/README.md:9). |
| `fszd_no_file` | `MCFszDaemon` | `AnswersAreSizes` | `src/file_size_daemon/src/main.c:59` | When stat fails, get_file_size logs it and returns st_size of the uninitialised structure, which is sent to the client as a size. The README says the daemon "shows the size of the file specified in configuration" (src/file_size_daemon/README.md:2). |
| `http_blocked` | `MCHttpServer` | `EveryRequestAnswered` | `src/http_server/src/main.c:66` | set_nonblocking sets O_NONBLOCK with F_SETFD instead of F_SETFL, so sockets block, and the read loop (line 249) waits in read for a client that keeps its connection open while all others wait. The README says "Shares files via HTTP protocol." (src/http_server/README.md:2). |
| `http_big_file` | `MCHttpServer` | `FilesIntact` | `src/http_server/src/main.c:181` | sendfile advances bytes_total itself and send_file adds the transferred bytes once more: after a partial transfer the next one skips as many bytes, and fewer are sent than the "Content-Length: %jd" promised (src/http_server/src/main.c:158). |
| `http_two_segments` | `MCHttpServer` | `NotFoundIsTrue` | `src/http_server/src/main.c:82` | What one read returns is taken for a whole request; when the name is cut by a segment boundary it is answered 404 although the file exists. The comment says "no file name passed, close connection" (src/http_server/src/main.c:260). |
| `logger_two_consoles` | `MCPrograms` | `ErrorsSurvive` | `src/logger/src/logger.c:63` | Closing one logger on the console closes descriptor 1; the lines of the other are lost, or go to the file opened next. The README says "several instances are possible at the same time" (src/logger/README.md:7). |

Eight more have no configuration of their own; a change to one shows them.

* `hm_counts.cfg` with the invariant `FourNodesHoldTwoKeys`: the threshold of four
  nodes is (size_t)(4 * 0.33f) = 1 (`src/frequency_dictionary/include/hash_map.h:135`),
  so the second key makes the map grow to eight. The test asserts
  "assert_int_equal(m->capacity, 4);" with two keys in the map
  (`src/frequency_dictionary/tests/src/dictionary_test.c:66`).
* `hm_lost_word.cfg` with `Key <- FiveWords`, `Hash <- ThreeSlotsOf28`, `InitCapacity = 14`,
  `MaxWords = 5` and the invariant `RehashCompletes`: a key whose probe sequence is short in the
  new capacity finds no node there, and the program aborts at its own
  "assert(NULL != inserted);" (`src/frequency_dictionary/include/hash_map.h:193`).
* `programs.cfg` with the property `EndsOnArchives` shows two. An archive without an entry
  has an end record, behind which the scan for the first entry finds none
  (`src/jpeg_zip/src/main.c:58`); at the end of the file fread fails, fseek succeeds, and the
  loop goes on for ever. And behind the entries main passes other records four bytes
  at a time (`src/jpeg_zip/src/main.c:62-84`): where they are not a multiple of
  four bytes, as a digital signature need not be, it steps over the end record, and the
  loop, which lists all entries before, does not end either. The README says it
  "prints out list of ZIPped files" (`src/jpeg_zip/README.md:1`).
* `programs.cfg` with the constant `Texts` of `ToUtf8` set to `WithNul`, for `SameText`: the
  loop over a piece ends at the first NUL (`src/to_utf8/src/main.c:130`), so what follows a NUL of
  the text in the same line is dropped.
* `programs.cfg` with `Sessions` set to `DotLine`, for `PrintsText`: a line of the answer that
  starts with a dot is taken for the prompt (`src/telehack_clt/src/main.c:124`), and the
  text is cut there. The help says "returns text processed by 'figlet' command"
  (`src/telehack_clt/src/main.c:28`).
* `programs.cfg` with the invariant `TextOrFailure`: when the server closes the connection before the
  prompt, recv returns 0 (`src/telehack_clt/src/main.c:127`), four characters of
  the answer are cut off as if a prompt were there, and the program reports success.
* `programs.cfg` with the invariant `EndsCleanly`: after a request that failed, print_weather is
  called all the same (`src/weather/src/main.c:26`); without data the parser sets no
  error, whose message is read, and with part of it the parser is used after it was released.

### Fairness

Fairness is that of the scheduler: a thread, or a process, that can take a
step takes one in the end (`WF` on the disjunction of a thread's
steps, never on one of them). Nobody has to call, connect, signal or edit, and no call
of the daemon has to fail (`Refused` is not among the steps it must take). A
client that connected sends what it has to send (`FairSpec` of
`HttpServer`), and in `PoliteSpec` closes its end, which the server cannot
enforce: `http_requests` shows what holds if clients do, `http_blocked`
what happens if one does not. A weak compare-exchange that fails for ever
without reason is excluded by the fairness of `HttpParser`. In `programs` the
program that runs goes on, and the server of `telehack_clt` says what it has to
say or the connection ends.

## 4. Theorems

Each theorem is about every value of the constants that the named assumptions of
its module allow. A hypothesis in front of `Spec` is there because TLC shows the
property false without it, or because the property is about that case only.

### The table: `WtfTableProofs`

For any sets of threads, hashes, arrays and addresses, from `SizesAssumption`,
`HashAssumption` and `MemoryAssumption`.

* `TypeCorrect`: `Spec => []TypeOK`. The locals move in few ways (return,
  descend, fail, drop); one lemma for each, then one step per action.
* `ArraysOwnedCorrect`: a free or private array is known to nobody but its
  builder. `ArraysOwned` is inductive given `TypeOK`; the one delicate
  case is `ExpandCas`, which publishes an array or gives it back.
* `NoNullDereferenceCorrect`: no NULL is dereferenced after a failed
  compare-exchange or in an expansion. This is not inductive: it needs that a
  slot a thread has seen full is still full (`SlotsStayFull`), which another
  thread could break only by a write to the same slot of a fresh array; that is
  excluded by `ArraysOwned`. So the invariant is `TableInv`, the conjunction of
  the three.
* `OneOwnerCorrect`, `FreesOwnNode`, `LiveNodesHang` and
  `SlotsMoveForwardCorrect`, where `~Recycle`. With memory that is handed out
  again they are false, as `wtf_aba` shows: a compare-exchange takes the address for
  the node. The invariant is `NodesInv`. Its part `NodesOwned` says who may hold a node: a
  node in a slot is live and in no other slot, a node a thread is to store or
  to free is in no slot and no other thread's, and what a thread remembers of a
  slot (`Knows`) is what a successful compare-exchange compares. `NodesKept`
  adds where every live node is: in a slot of a published array or with a thread, so
  no race drops one (`LiveNodesHang`). It does not say that `wtf_table_destroy`
  comes to that slot: of an array that was wrapped it walks too few slots, and a marked
  array word leads it astray. That is `NodesAccountedFor`, below, which excludes both.
  `SlotsMoveForward` follows from one step of `NodesInv`: a thread that replaces a
  node compared the hash of that node, and not of another one at its address.
* What follows is about executions where, besides `~Recycle`, no thread gives up
  on a slot and marks it, and no expansion finds an array where it expected a node
  (`[]Tame`). The table breaks its promise in the others: the array that the
  expansion found is wrapped in another one, one level too deep (`wtf_lost_key`).
  `SoleWriterTame` shows that no execution with one writer, any number of readers and
  memory for its arrays is of that kind; with more writers some are.
  - `InsertFailsOnlyWithoutMemoryCorrect`, by `PathInv`. `Trie` says that every array
    has one place in the trie and every node is where its hash leads; then two
    different hashes part at the last level at the latest, and a walk never runs out of levels.
    `Reads` says that a node a thread has read shares its path.
  - `NodesAccountedForCorrect`, by `MapInv`, for any number of writers: each hash has one slot it
    leads to, so `wtf_table_count` counts no key twice, and what is allocated
    between calls is what `wtf_table_destroy` frees. The layers of the walk are the levels of the
    trie (`LayersAreLevels`), so it looks at every slot that may hold a node.
  - `ImplementsAtomicMapCorrect`: the refinement of `AtomicMap`, where each hash has
    one writer (`OneWriter`; with two, the winner of two overlapping updates need not
    be the last to return, `wtf_same_key`). One lemma says what an action does to the
    content of the table, which is a store or nothing; `Owns` says that nobody but
    its writer stores a hash, so what an insert has read about it is still so.
    `SoleWriterAtomic` is the case of one writer, without `[]Tame`.
  - `HeldOnlyGrows` and `InsertedIsHeld`, where any threads write the same keys: no key is
    lost or hidden, and an insert that returned true has its key in the table,
    also where it dropped its own node for that of another thread.

### The hash map: `HashMapProofs`

For any keys, hash values and capacity of at least three,
from `CapacityAssumption`, `HashAssumption`, `NoKeyAssumption` and `BoundAssumption`.

* `FreshAttemptsCorrect`: as long as malloc does not fail, a retry of
  hash_map_insert leaves out no slot its key could be in. The insert a retry follows
  then returned NULL after other keys at all attempts up to the capacity, and those
  the retry leaves out are among them (`OuterOK`). The next theorems on stored
  keys are stated twice: for any execution in which `FreshAttempts` holds, whatever
  malloc does, and for all executions where malloc does not fail. Without either they are
  false, as `hm_stored_twice` shows.
* `TypeCorrect`; `FindableCorrect` and `RehashCopiesCorrect`, from one inductive
  invariant `HMInv`. Its core is `PutKeepsReached`: filling a free slot with a
  key whose probes stop there keeps every other key reachable, because a used
  slot on a probe path stays used. `ReachedOnce` derives that no key is stored
  twice, which the copy needs. Nothing is assumed about the step of
  the probe sequence: `Findable` holds even where short sequences make
  inserts fail.
* `RehashFitsCorrect`, whatever malloc does: by `SizesOK`, the size is the number of
  used nodes, at most the threshold, and in a rehash at most the number of used nodes visited.
  As long as one is not visited, fewer are copied than the smaller map held,
  hence fewer than the threshold of one of twice the capacity.
* `NoneCountedTwiceCorrect`, whatever malloc does, and `EveryWordAccountedCorrect`: an
  inequality and, given `HMInv`, an equation between sums over
  the nodes of both maps (`SumBounded`, `SumExact`). Putting a key changes one node, so the
  sum by one value (`SumChange`); putting it over a node that has it already, which only a key
  stored twice makes happen, forgets the value that was there.
* `CountsWordsCorrect`: under `[]FreshAttempts` and `[]NoWordLost`, the refinement of
  `FrequencyDict`, with one step per action. Insert, rehash and copying are
  stutters, the return of an insert is the count of a word. The hypothesis is needed:
  `hm_lost_word` shows that for some hash values a word is lost, and `hm_counts`
  shows that for others none is.
* `NoWordLostCorrect`, `RehashCompletesCorrect` and `CountsWordsWithRoom` say for which: as
  long as malloc finds memory and the first attempts of every key, one more than
  the load factor lets nodes be used, visit different nodes (`ProbesDiffer`), no word is lost,
  the assertion of `hash_map_rehash` holds, and the map counts the words. The argument is
  `SizesOK` and the pigeonhole principle. The hash values of `hm_counts` are of that
  kind, those of `hm_lost_word` and `hm_failures` are not. The code does not
  ensure it: a step that shares a factor with the number of slots visits few of them.

### The daemon: `FszDaemonProofs`

For any clients, configurations and bounds, from `ConfigAssumption`,
`NamesAssumption` and `BoundAssumption`.

* `TypeCorrect`, by `Typed`. That a configuration read has a path and a socket name in it
  rests on what `Announced` finds: the scalar after the last token.
* `HupLateByOneClientCorrect`, for any number of instances. `HupInv`: a client accepted
  since the signal is still being answered, or its instance is at the
  test of `hup_received`, which is set.
* `AwaitsOnSocketCorrect`, for one instance (`OneInstance`; a second one unlinks the
  file, `fszd_second_instance`). `BoundInv`: a bound listener is going to serve or serves,
  and its file is its own.
* `StopRemovesSocketCorrect`, also where listen or accept fails, for any number of instances and one socket name
  (`OneSocket`). `StopInv`: each socket file has an instance that is
  going to remove it. An instance may unlink the file of another here, and the other then
  removes whatever it finds.
* `SecondStartBindsCorrect`, for one instance and one name. `SecondInv`: after a failed
  start no file is left, so the next bind cannot fail.

### The server: `HttpServerProofs`

For any clients, requests and files, from `FileAssumption` and `ClientAssumption`.

* `TypeCorrect`, by `Typed`.
* `NoStaleEventCorrect`. `Sound`: no list of descriptors holds one twice, or one that is
  closed, except that the current event may be of the one just closed. The descriptor that `run`
  closes is the current one, so no later event of the batch is about it.
* `FilesIntactCorrect`, where each file fits one sendfile (`OneSend`; otherwise
  `http_big_file`). `BodyUnsent`: an answer being sent is the
  last one of its client and starts with the first block. One that is given up is followed by a 500. That is what the
  reset of `bytes_total` is for.

### The log parser: `HttpParserProofs`

For any directory, logs, list size and number of threads, from `LinesAssumption`,
`ListAssumption`, `ThreadsAssumption` and `NamesAssumption`.

* `TypeCorrect` and `OneWorkerPerFileCorrect`, by `Inv`: types; the list holds each file
  once and a NULL behind them (`ListInv`); a worker holds a cell that
  the iterator has passed and no other worker holds, and one that has ended
  did so because the iterator was at the end (`ThreadInv`).
* `ReportIsSequentialCorrect`, by `CountInv`: the maps of all threads, added up, hold
  exactly the lines read so far. A line read adds to one map, a join moves
  one map into another, and neither changes anything else. At the report all files
  are read and only the map of the main thread is left.

### The loggers: `LoggerProofs`

For any loggers, destinations and buffers, from `LoggerAssumption` and
`BoundAssumption`, where at most one logger is on the console (`ConsoleOnce`; with two,
`logger_two_consoles`). Together they are `LinesInOrder` and `ErrorsSurvive` of `programs`.

* `TypeCorrect`, by `Inv`. That fopen finds a descriptor is a pigeonhole argument: each one
  taken but standard output is that of a logger, and the logger to be opened has none.
  `Streams` says the rest of whose descriptor is whose; without it a line could go to another
  logger's file, as descriptor 1 can once the console was closed.
* `LinesInOrderCorrect`, by `Contents`: while the process lives, what a logger was given is
  its lines in the destination followed by those in its buffer. What a stream writes
  when is left to the C library, so the step is one of any split of the buffer. A kill loses
  the buffer, and a prefix remains.
* `ErrorsSurviveCorrect`, by `Contents` and `Numbered` (no number is given twice). The flush
  at the end of `LOG_ERR` makes destination and log equal before the error counts as reported.
* `TraceBehindLineCorrect`, by `Behind`: from the line of an error to its backtrace,
  destination and buffer together end in that line, and the seek empties the buffer.

The lemmas on `Numbers` (`NumbersPut`, `NumbersJoin`, `NumbersOfOther`) are inductions over
the length of a sequence, by the same smallest counterexample as those on sums.

### The small programs: `ProgramsProofs`

About `MCPrograms`, so for the sizes of buffers it gives its instances, and for any files,
texts, sessions, responses and values. Each program has an invariant that says
how far it is, and that what it wrote is what it is to write for the part of its input it
has passed. What it is to write is a sequence laid out piece by piece (`Flat`).

* `ShowsWeatherCorrect`, for every response.
* `LinesInOrderCorrect` and `ErrorsSurviveCorrect`, where at most one logger is on the console:
  the theorems of `LoggerProofs`, of which the loggers of `programs` are an instance.
* `PrintsTextCorrect`, where neither the banner nor the answer holds a prompt before its end
  (`OnePromptEach`). The sessions of `programs` are such; those of `DotLine` are not.
  The invariant relates the buffer, the wire and what the server said: while the
  connection lasts, the first two are what the third consists of.
* `ListsArchiveCorrect`, for archives of any entries with any image in front, any comment
  and either offset, records of any size behind the entries, and files without signatures
  (`ArchivesOrNone`; `ArchivesGiven` shows that the files of `programs` are). Where main
  steps over the end it never ends, and says nothing wrong. `JpegInv` says that the backward scan passed no end, the
  forward scan no entry, and what is printed are the names of the entries passed.
* `SumsFileCorrect`, for every file, also one that is cut meanwhile. A division step is linear,
  so the bits of a byte may be added to the sum one by one or at once (`DivideLater`), and
  eight of them are one look-up (`EightSteps`). That the table holds the remainders of
  the bytes is a closed fact, `TableAssumption`: TLC evaluates it in every run of
  `MCPrograms`.
* `SameTextCorrect`, for every text without a NUL (`NoNul`; with one, see the
  disagreements above): a character of any encoding becomes its code, and the pieces that fgets
  cuts the text into are laid out one behind the other (`FlatPlus`).
* `ListsIntactCorrect`, for any values and addresses. A list is the sequence of its nodes, and
  `Two` says that the heap consists of two lists that share no node: a node at a free address
  goes in front of one (`TwoPush`), and freeing the first node of one leaves the rest (`TwoPop`).

### Sums: `SumTheorems`

`MapThenSumSet` adds the elements in the order `CHOOSE` gives them.
`SumNat`, `SumZero`, `SumSame`, `SumChange` and `SumAdd` say what its value does not depend on
and how it changes. They need an induction, and the induction theorems of the library
take an operator, which no prover at hand instantiates; a
smallest counterexample (`SmallestNat`, from the well-foundedness of < on Nat) does instead.

### Only model-checked

* Liveness: `CallsReturn`, `Terminates`, `StopsUnlessLooping`, `HungUpIsClosed` and
  `ProgramsEnd` rest on fairness, which is out of the prover's reach.
* `Linearizable` and `ContentExplained` of the table, where two writers update one key. The
  order that explains an execution is found after the fact (`WtfTableHistory` keeps all
  that are left), so there is no mapping to prove about. What any number of writers of
  the same keys can rely on is proved: `NodesAccountedFor`, `HeldOnlyGrows`, `InsertedIsHeld`.
* Executions of the table that are not `Tame`, which `wtf_key_owners` includes: there the keys
  of the two writers part at the last level only, and the properties hold for that reason.

## 5. Not modelled

* `valgrind`, a patch of sources that are not in the repository; the assembly
  versions of `asm`; options, help texts and the wording of output.
* In the table: what follows an access through a misaligned array; `wtf_table_create` failing; count and destroy as concurrent
  operations (they are functions of a quiet state).
* In the hash map: the hash function, capacities below three (where the code
  divides by zero), callers that keep a node over an insert.
* In the parser: thread creation that fails, a failing malloc of the list, of its workers or
  their parameters, the overflow of byte counts, the sorting of the report.
* In the daemon: `daemonize`, a configuration file that cannot be opened,
  configurations that rename the socket (the code then unlinks the new name),
  overlong names.
* In the server: that a client may take the text of a 500, which follows the headers of a file
  that failed to be sent, for bytes of the file; failures of fcntl and epoll_ctl, files that change while they
  are sent, more than `MAX_EVENTS` ready descriptors, reuse of descriptor numbers
  (`NoStaleEvent` is what makes it harmless).
* In `jpeg_zip`: names longer than its buffer, a file that ends within a record,
  signatures by chance in stored data.
* In `to_utf8`: bytes without an entry in the tables (they become the two bytes C0
  80). In `logger`: the number of frames given to backtrace, threads (the README
  excludes them), a failing malloc. In `weather`: documents without the members
  that print_weather reads, the leak of the list of members.

## 6. Plan

Done, in this order: `WtfTable` with `AtomicMap` and `WtfTableHistory`;
`HashMap` with `FrequencyDict`; `HttpParser`; `FszDaemon`; `HttpServer`; the seven
small programs and `MCPrograms`; the proofs of all of them.

Next:

1. `FszDaemon`: socket names that change on reload, a missing configuration
   file. `HashMap`: a caller that keeps a node pointer over an insert, removal.
   `HttpServer`: failing `epoll_add`, a file that shrinks. `HttpParser`: byte
   counts with the width of an int, a worker that is not created.
