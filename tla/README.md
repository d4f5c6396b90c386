# A TLA+ model of stored

`stored` is a small Linux daemon that watches the free space of mounted file
systems, logs the ones that run short, and serves the list over HTTP. This
directory holds its specification: modules translated from the C source, TLC
configurations that check them on small instances, and TLAPS proofs. Paths
below are relative to the repository root (`src/...`); line numbers are given
in `PROJECT.json`, which maps every definition to the code it models.

## 1. The system

| component | state it keeps | operations | interacts with |
|---|---|---|---|
| main program (`src/stored.c`) | pointers to the three objects below | start, two signal hooks, shutdown | everything |
| signal handlers (`src/util/demonizer.c`) | table of hooks | run the hooks | interrupt the main thread anywhere |
| configuration (`src/util/configure.c`) | one object with its mutex | new, reload, destroy | read by main and by the server thread, under its mutex |
| HTTP server (`src/util/srv.c`) | `stopped`, `srv_thread`, `parentfd`, `childfd`, the mutex `mxq` as "go on" flag, the buffer `srv_buff` with its mutex | init, start, stop, restart, destroy; the thread `serve` | reads the configuration, copies `srv_buff->data` |
| check loop (`src/mtab_check_loop.c`) | `active`, copies of thresholds | init, loop, break | sleeps in `poll`, logs the list, calls the checker, publishes its text in `srv_buff->data` |
| mount table checker (`src/mtab_checker.c`) | the list and its text with a mutex, the open mount table | init, check, destroy | called by the loop while that holds the mutex of `srv_buff` |
| JSON library (`src/util/json.c`) | trees of nodes, string buffers | build, link, unlink, delete, search, check, encode, decode | used by checker and loop |
| string library (`src/util/sds.c`, `sds.h`) | strings with a header before and a NUL after them | create, append, copy, cut, print, split, join, quote | used by the logger |
| logger, build files | - | - | see "Not modelled" |

Two threads run: main and, if configured, the server. Four mutexes are shared
(configuration, list, document, `mxq`). SIGHUP is handled synchronously on the
main thread: the handler reloads the file and restarts the server, joining its
thread, while main is suspended wherever it was. SIGINT clears `active`.

What is hard here: signal handlers that take locks and join threads; a stop
that works by `shutdown` of sockets another thread is just creating; a document
shared by pointer with a thread that copies it while the owner frees it;
clients that stop in the middle of a request; one-round-old lists combined with
thresholds that a reload changes; file systems that change during a scan; and
in the JSON library pointer surgery, a recursive parser that must free what it
built when it gives up, buffer bounds and Unicode limits; in the string library
headers of five widths, blocks that move, and loops that look ahead. Each of
these is listed at its line under `hazards` in `PROJECT.json`, with the
properties aimed at it.

What makes each component correct: *main and handlers* never use an object
outside its life, never block themselves, and end when told to; the
*configuration* in force is the one the server runs with; the *server* closes
what it accepts, stops when told to, and gets its port back; the *loop* reports
each mount point that is short of space, with the right level, and publishes
complete documents only; the *checker*'s list is the result of one scan; the
*JSON tree* is an ordered tree without leaks; the *parser* accepts the grammar,
loses nothing and leaves nothing behind; *strings* stay in their buffers and
survive a round trip; a *string of sds* is described by its header and holds the
bytes its functions promise.

## 2. Modules

The daemon is modelled twice over the same code, once for control and once for
data. The product of the two is out of TLC's reach and not needed: the control
part (locks, lives, threads) does not depend on the contents of the list, and
the data part needs of the locks only who may read the document.

### Control

* `StoredState` - variables, program points, frames of the main thread,
  `ST_lock`, `ST_unlock`, `ST_abort`. `pc["main"]` and `pc["hup"]` are the two
  frames; main moves only while `pc["hup"] = "idle"`. A program point is a step
  another thread or a signal can observe: a lock, an unlock together with the
  assignments it protects, a system call. `life` says whether an object is not
  yet allocated, live, or freed; a use of one that is not live is undefined
  behaviour and ends in the outcome `"undefined"`.
* `Configure` - load, reload, destroy. libconfig is reduced to "usable or not";
  an unusable file frees the configuration, its mutex locked or not, and then aborts:
  two steps, between which the server thread runs on. The invalid address in `Srv`
  is handled the same way.
* `Srv` - `serve` as one action per step against an external model of listening
  sockets, `accept`, and line-wise reads; `ST_start_srv` and `ST_stop_srv` with
  the calling frame as a parameter. A listening descriptor is never closed by
  the code: a socket that still listens keeps its slot in `Threads` after its
  thread is gone. `buf` and `method` are the stack buffers, which keep their
  contents between clients and hold anything at first.
* `MtabChecker`, `MtabCheckLoop` - the locks of the scan and of the loop, the
  life of the text (`data` is unassigned, the literal `"{}"`, live or dangling),
  `poll` interrupted by signals.
* `Stored` - EXTENDS them: main, the hooks, clients, fairness, properties.
  `HupPoints`, `IntPoints` and `ServePoints` say where main and the server may
  be when a signal comes; `Overlap` allows a signal while another is being
  handled. These parameters are what separates the runs that hold from those
  that do not.

### Data

* `MtabScan` - `ST_check_mtab` with the position in the mount table, the
  percentage arithmetic (`free_percent`, whose truncation of a rounded product
  may give the integer below, and whose division by zero yields the least int
  or zero), and file systems that change between any two steps. The table is the one
  a scan finds, any of `Tables`; it may list a mount point more than once, as the
  code nowhere checks that it does not, and the list then has it as often. `low`,
  `high` and `seen` are history: what was true of a mount point throughout the scan.
* `Alerts` - EXTENDS `MtabScan`: rounds of the loop, levels, skipped rounds, the
  document as the server copies it, reloads of the thresholds.

### JSON

* `JsonTree` - every operation on the five pointers of a node. `json_delete` is
  recursive in the code; its activations are a stack here, one step per
  iteration, so that the half-deleted trees are states too.
* `OrderedTree` - what it promises: a forest with ordered children.
  `JsonTree` implements it under the mapping of `head`/`next` chains to
  sequences.
* `JsonValue` - EXTENDS `JsonTree`: `json_decode` and `json_validate`, which differ
  in `wanted`, and the text of a tree. A text is a sequence of tokens; the model
  reads one token a step, so that the text is chosen while it is read, and
  `parse_array` and `parse_object` are frames on a stack with their `ret` and
  `key`. A failure unwinds the frames one by one through the `json_delete` of
  `JsonTree`, and memory may run out at any node, which ends the process.
  `strings` counts the strings that are allocated: each `json_strdup` and each `free`
  of a key or a string adds or takes one where the code has it (`json_mkstring`,
  `copy_key`, `KeysFreed`, `delete_on`, the failure paths). `emit_value` and
  `emit_value_indented` are functions of a node. The grammar to compare with is
  built by the number of tokens (`JsonTexts`), not by a parser.
* `Utf8` and `JsonNumber` - the Unicode helpers and number literals as operators,
  and what they are compared with: the shortest encodings of code points (`Encoded`)
  and the pattern of numbers (`IsNumber`). `JsonString` - `emit_string` and `parse_string` with their buffers, one step per
  loop iteration, for the default (Release) build in which `assert` does nothing.

### Strings

* `ByteString` - what the string library promises: a sequence of bytes and what
  each call does to it, from the comments in `sds.c`, also where the code differs.
* `Sds` - one string in the hands of a caller: type, length and allocation as its
  header has them, the size of its block, its bytes. The widths of the header
  fields are the constant `Limit`; an assignment to a field is taken modulo its
  width. `realloc` and the move to a header of another type are one operator
  (`Moved`). A call is a step, except `sdscatvprintf` and `sdscatfmt`, whose loops
  are actions; an allocation may fail, which leaves the caller with the old string,
  or, where the code does not look at the result, in the state `"crashed"`. It
  implements `ByteString` but for two calls, whose differences are stated as
  `TrimsNul` and `KeepsFirst`.
* `SdsText` - `sdssplitlen`, `sdssplitargs`, `sdscatrepr`, `sdsll2str` and
  `sdsull2str`, one iteration a step, with the blocks they allocate and free. A caller
  reads arguments, writes them quoted, and reads what it wrote. Numbers have the width
  that `LLONG_MAX` gives them: `Negated` is `-value`, which for the least `long long`
  overflows (the model takes two's complement, which gcc produces at every level of
  optimisation and the test in `sds.c:1194` relies on), and `Unsigned` the conversion.

`MCStored`, `MCAlerts`, `MCJsonTree`, `MCJsonString` and `MCSds` give the constants
small values. `MCAlerts` also lets file systems and thresholds change only when
they are about to be read (`MCSpec`, see "Bounds"). `MCJsonString` also grows all short sequences of bytes, for the
operators of `Utf8` and `JsonNumber`.
A definition whose comment begins with "Mutant:" is a plausible bug in the
definition that follows it, and shows that a property would notice it.

## 3. Runs

| run | checks | shows |
|---|---|---|
| `reload_safety` | `TypeOK` `MemorySafe` `ServerMatchesConfig` `DestroyedUnlocked` `NoAbandonedClient` | SIGHUP anywhere in the loop, SIGINT anywhere, usable and unusable files, four kinds of clients, `accept` failing at any time; with the one use after free described below |
| `reload_progress` | `NoDeadlock` `NoPortConflict` `ReloadCompletes` `Terminates` `ConnectionsClosed` | the daemon works as intended when signals come while main holds no mutex and the server listens, and requests arrive whole |
| `alerts` | `TypeOK` `ListIsOneScan` `AnswerIsCurrent` `AlertsGrounded` `AlertsComplete` `LowMountLogged` | lists, messages and answers are those of one scan, also when the table changes between scans or lists a mount point twice, and a low mount point keeps being reported |
| `json_tree` | `TypeOK` `TreeChecks` `NoDanglingPointer` `NoLeak` `FindAgrees` `DecodeExact` `DecodeEncode` `FailureFreesAll` `StringsOwned` `EncodeExact` `ImplementsOrderedTree` | all call sequences on up to four nodes and two keys, and all texts the parser can be given, up to the token at which it stops |
| `text` | `InBounds` `DecodedIsUtf8` `RoundTrip` `ValidatesExactly` `ReadWriteInverse` `NumberExact` | literals of all strings up to four bytes and all texts of up to five pieces; UTF-8 and surrogates against a definition by code points; numbers against the grammar in the comment of `parse_number` |
| `sds` | `HeaderSound` `InBlock` `SplitJoin` `ArgsRoundTrip` `SplitSafe` `NumberText` `ImplementsByteString` | all call sequences on a string with failing allocations; splitting, joining, quoting, all numbers of eight bits |

Six runs end in a violation; each refutes what a text of the repository says.

* `hup_in_critical_section`: SIGHUP while main holds the mutex of the
  configuration; the handler waits for its own thread. The same happens through
  the server: main holds the document's mutex, the server waits for it, the
  handler joins the server.
* `immediate_restart`: a second SIGHUP before the new server listens. The
  `shutdown` has no effect, the socket goes on to listen without a thread, and
  the third server aborts the daemon with EADDRINUSE. (SIGINT in the same window
  can leave main in `pthread_join` for ever.)
* `early_interrupt`: SIGINT before `active = true` is announced and then lost.
* `short_request`: a client that closes before the empty line keeps the server
  in its header loop. (A reload during such a request never ends for the same
  reason.)
* `hup_at_start`: SIGHUP after `ST_demonize` (which under systemd reports
  READY=1) and before the objects exist.
* `control_character`: byte 0x1F is written unescaped and refused on reading. It is
  the only one: `RoundTrip` says that a text of `emit_string` is refused only for it.

Disagreements without a run of their own are exceptions that a passing property
names, so that nothing beyond them is admitted:

* A failed reload. `load_from_file` frees the configuration, its mutex included, and
  then calls `ST_abort`. A server thread that main has just started may run in
  between: SIGHUP with an unusable file while the thread has not yet passed
  `srv.c:64`, and it locks freed memory. `MemorySafe` admits undefined behaviour in
  just this situation (`LocksFreedConfig`), and `DestroyedUnlocked` a mutex that the
  handler destroys locked on its way to `ST_abort`.
* `sdstrim` also trims NUL bytes, because `strchr` finds the terminator of its set,
  against the comment at `sds.c:679`: `TrimsNul` in `ImplementsByteString`.
* `sdsrange` takes an end that lies before the beginning for the first byte, and keeps
  it: `KeepsFirst`.

Further observations: `README.md` says "less than n%", the code compares with `>=`.
`sdssplitlen` returns an array, not NULL, for an empty line. `ST_check_mtab` calls
`rewind` before it takes the mutex, so that the concurrent calls of
`test/misc/mtab_checker_test.c` can disturb each other; the daemon itself calls it from
one thread only. An error of `accept` ends the server thread, and nothing starts it
again but a reload; nothing in the repository promises otherwise, and
`ServerMatchesConfig` counts a thread that ended so as the configured one.

### Bounds

* `Threads` has two slots. A reload with one live server needs a second slot
  only if a socket outlived its thread; SIGHUP is not delivered when no slot is
  free, so that the violation of `immediate_restart` (three servers, two of them
  sharing a port) still fits.
* `Files`: two enabled servers whose ports agree modulo 65536, a disabled one, an
  invalid address, an unusable file. Every load picks any of them.
* Clients: whole requests with GET or another method, a late sender, one that
  closes at once, one that closes inside its headers. One connection at a time,
  as in the code; the number of connections, signals and rounds is unbounded. The run
  `reload_progress` has whole requests only: what a short one does to
  `ReloadCompletes` and `ConnectionsClosed` is seen in `short_request`.
* `alerts`: two mount points (order, duplicates and a scan in pieces need two),
  three readings (one that rounding can move across a threshold, one whose
  percentage divides by zero, an error) and two sets of thresholds, one of them
  in an unusual order. Two tables, one with both mount points and one with the same
  twice; any scan finds either. The table does not change while a scan reads it.
  File systems change while a scan is under way or about to begin, and thresholds at
  the points from which they are read: nothing looks at either in between, so that
  changes made earlier come to the same (the theorems are about `Spec`, where they change
  at any step).
* `json_tree`: four nodes allow a first, a middle and a last child as well as
  trees of depth three; two keys allow a search to skip one. Texts have up to
  `MaxText` (six) tokens before the NUL, which is enough for a container with a member or
  element inside another, for two elements, and for each way to fail at each depth;
  the tree is empty when a text is read, so that a failure must leave it empty.
* `text`: 25 bytes, both sides of every limit in the comparisons, and all
  sequences of up to four of them; seven bytes for numbers and all sequences of up
  to six; nine kinds of bytes in strings, `MaxChunks` pieces of text; capacities are
  the real ones (16, doubled).
* `sds`: header types that hold lengths below 2, 3, 5, 8 and 64, so that strings of
  at most `MaxLen` bytes and their preallocation cross every limit upwards and
  downwards; a print buffer of three bytes; four arguments, one of them with a NUL
  inside; indices on both sides of every place. Lines of up to seven bytes split into more
  tokens than the first array has slots for. Numbers are all those of eight
  bits, signed and unsigned (`LLONG_MAX` is 127), with the buffer that fits them
  exactly, as 21 bytes fit 64 bits exactly.
* In `text` and `sds` a byte beyond the end of a text or line reads as 0, like the NUL.
  `InBounds` and `SplitSafe` therefore bound the position at each iteration; they do not
  show that the look-ahead within one stops at the NUL.

The symmetry of thread slots is used in safety runs only.

### Fairness

`FairSpec` of `Stored`: the main thread, the handler and each server thread run
when they can (the kernel schedules runnable threads, `poll` times out, a mutex
that is free again and again is obtained eventually - strong fairness for the
two locks of the server), and a client sends what it has announced. Nothing
makes signals or clients come, or `accept` fail. `FairSpec` of `Alerts`, and
`MCSpec` with it: both threads run; `LowMountLogged` further assumes that requests and reloads pause in
the end, because a round is skipped whenever the server is copying.

## 4. Proofs

All theorems hold for every value of the constants that satisfies the named
assumptions of the modules; where a theorem has a hypothesis of its own, it is
given below. Each specification has an inductive invariant, on which those of its
single theorems are built.

| module | about | theorems (property) |
|---|---|---|
| `StoredProofs` | `Stored` | `TypeCorrect` (`TypeOK`), `MemorySafety` (`MemorySafe`) |
| `ReloadProofs` | `Stored` | `NoClientLeft` (`NoAbandonedClient`), `MutexesDestroyedFree` (`DestroyedUnlocked`), `ReloadTakesEffect` (`ServerMatchesConfig`), `ReloadDeadlockFree` (`NoDeadlock`), `RestartFindsPort` (`NoPortConflict`) |
| `AlertsProofs` | `Alerts`, `MtabScan` | `TypeCorrect` (`TypeOK`), `ScanIsFaithful` (`ListIsOneScan`), `DocumentIsCurrent` (`AnswerIsCurrent`), `ReportsAreGrounded` (`AlertsGrounded`), `ReportsAreComplete` (`AlertsComplete`) |
| `SdsProofs` | `Sds`, `ByteString` | `HeadersSound` (`HeaderSound`), `SdsSound` (`InBlock`), `SdsImplementsByteString` (`ImplementsByteString`) |
| `SdsTextProofs` | `SdsText` | `SplitsSafe` (`SplitSafe`), `SplitsJoin` (`SplitJoin`), `ArgsRound` (`ArgsRoundTrip`), `NumbersWritten` (`NumberText`) |
| `JsonTreeProofs` | `JsonTree`, `OrderedTree` | `TypeCorrect` (`TypeOK`), `NoUseAfterFree` (`NoDanglingPointer`), `DeleteFreesAll` (`NoLeak`), `CheckNeverFails` (`TreeChecks`), `FindIsExact` (`FindAgrees`), `JsonImplementsOrderedTree` (`ImplementsOrderedTree`) |
| `JsonValueProofs` | `JsonValue` | `ParserUsesInterface`, `ParsedTreesCheck` (`TreeChecks`), `ParserNoUseAfterFree` (`NoDanglingPointer`), `ParserImplementsOrderedTree` (`ImplementsOrderedTree`), `StringsHaveOneOwner` (`StringsOwned`), `FailureLeavesNothing` (`FailureFreesAll`) |
| `JsonStringProofs` | `JsonString`, `Utf8`, `JsonNumber` | `StringsInBounds` (`InBounds`), `Validates` (`ValidatesExactly`), `ReadsWhatItWrites` (`ReadWriteInverse`), `DecodesUtf8` (`DecodedIsUtf8`), `StringsRoundTrip` (`RoundTrip`), `NumbersExact` (`NumberExact`) |

The data types have no shared state, so that two runs check several of them side by
side: the theorems of `SdsTextProofs` are about `TextSpec` of `SdsText`, whose steps
are those of the run `sds` that do not touch the string of `Sds`; those of
`JsonStringProofs` are about `Spec` of `JsonString`, to which the `TextSpec` of the
run `text` adds texts that grow (and `NumbersExact` is about that one).

### The daemon

`StoredProofs` and `ReloadProofs` hold for every set of thread slots, files and
clients. What signals may do is in the hypotheses:

| theorem | SIGHUP | SIGINT |
|---|---|---|
| `TypeCorrect`, `NoClientLeft` | anywhere | anywhere |
| `MemorySafety`, `MutexesDestroyedFree`, `ReloadTakesEffect` | `HupPoints \subseteq LoopPoints`: in the loop | anywhere |
| `ReloadDeadlockFree` | `HupPoints \subseteq LockFreePoints \cup {"log"}` | anywhere |
| `RestartFindsPort` | in the loop, and `ServePoints \subseteq SettledPoints`: both signals only when the server listens | anywhere in main, when the server listens |

`hup_at_start`, `hup_in_critical_section` and `immediate_restart` are the
counterexamples to `MemorySafe`, `NoDeadlock` and `NoPortConflict` when the hypothesis
is dropped. `ReloadDeadlockFree` allows
more than the run does: main may also be logging, with the mutex of the list, which
neither the handler nor the server takes. The modules also use the assumptions on the
constants of `StoredState`, among them that SIGHUP does not arrive inside main's own
`ST_start_srv` after its first lock, where a second server thread could be created
over the same static variables.

`MemorySafe` is not inductive. The invariant `IInv` adds what the code relies on
without saying so: the handler runs on top of the loop only (`HandlerInv`);
which objects exist at which point of main (`LifeInv`); the document dangles
only while main is between the scan and the assignment, or after the server is
gone (`DataInv`); main holds the document's mutex exactly during a scan and a
server thread exactly while it copies (`SrvMutexInv`); at most one server thread
exists, the one `srv_thread` names, and none when `stopped` (`ThreadInv`); a
frame joins only that one (`JoinInv`). Together: a server that copies holds the
mutex, so main is not in the scan, so the document is not dangling; and main
frees objects only when no server exists. The handler may free them while a server
exists, on its two ways to `ST_abort`: then `LifeInv` says which object is gone, the
invariant gives up only what depends on that one, and the one step of the server that
needs the configuration is the exception of `MemorySafe`. The buffer freed for an
invalid address is no such case, since the old server has been joined by then. The proof has one lemma per group of
actions (server thread, start, stop, scan, loop, main, handler, environment).

`ReloadProofs` adds, on top of `IInv`: a connection is open only between `accept`
and the answer (`ConnInv`, which needs nothing else); who holds each of the other
mutexes at which point (`ConfigMutexInv`, `OtherMutexInv`) and when objects are freed
(`FreedInv`), from which follow both `DestroyedUnlocked` and, with the points at which
the handler may stand on main (`SafeInv`), `NoDeadlock`; that the server is on if and
only if the configuration says so, except during a reload (`SwitchInv`), and that its
thread has the configured port until the configuration is replaced (`PortInv`); and
that the only socket that listens is the one `parentfd` names, which `ST_stop_srv`
has shut down before the next server starts (`SockInv`).

### Lists and messages

`AlertsProofs` holds for any mount tables, with mount points in them any number of
times, and any file systems, readings and thresholds; each scan may find another table.
The invariant says what a list is after n entries of the table (`Track`: a
one-to-one, order-preserving map from the entries of the list to places of the table
among those n, which leaves no place of a mount point out that was low throughout;
`PartOfScan`: with such a map, nothing that was high throughout, and percentages
it had), and relates it to the position (`ListInv`), to what file systems were during the scan (`HistoryInv`), to the
document (`DocumentInv`) and to the messages of the round, which come from the list of
the round before (`LoggedInv`). That a mount point is not reported more often than
the table has it follows from the map, not from an assumption about the table.
`DocumentIsCurrent` assumes `<<>> \notin Tables`: in the model position 0 stands for
"not scanned yet", and a table without an entry would end there; a system that runs
has its root file system mounted.

### Strings

`SdsProofs` holds for header types of any widths, any
preallocation, buffer and arguments. The assumptions, in
`Sds`: the limits are positive, that of type 8 is not below that of type 5 (an empty
string and every string with free space get type 8), and the widest type can hold
the longest string with its preallocation. `IInv` adds to `HeaderSound` and `InBlock` the
length bound, what the loops of `sdscatvprintf` and `sdscatfmt` have left to append
(`PrintfFits`, `CatfmtFits`: it fits the bound, and `i` is the length), and that the
NUL is missing only inside `sdscatfmt` (`Terminated`). The lemmas go from the
operators up: what a header field holds when its value is below the limit, that
`sdsReqType` finds a type that is wide enough, what `Put`, `Moved` and `Forget` do to
the domain of the bytes; then each function keeps the header sound and the bytes in
the block (`sdsMakeRoomFor` first, on which most rest); then each group of calls
keeps `IInv`. `Smallest`, by which `strlen` and `sdstrim` are defined, exists
because strict inclusion of finite sets is well founded.

The refinement follows the bytes: `Content` of a string after a move, a write and an
assignment to the header, place by place; then each call does to `Content` what the
action of `ByteString` says, or nothing when memory runs out. For `sdstrim` and `sdsrange`
the step is shown to be that of the comment or, with a NUL in the string or an end before
its first byte, `TrimsNul` or `KeepsFirst`.

`SdsTextProofs` holds for any lines, separators that are not empty and, for
`sdssplitargs`, lines without a NUL (both are C strings there), and for any numbers
of a width that the buffer is meant for: `TextAssumption` says that one of
`SDS_LLSTR_SIZE` bytes takes the digits, the sign and the NUL of `LLONG_MIN` and
`ULLONG_MAX`, which holds for 21 bytes and 64 bits. The base is `SInv`: types, how far the loops may have come, and
that the blocks are the tokens, their array and the argument being read. On top of
it:

* `SplitJoin` needs `JInv`: up to `start` the tokens, each with a separator after it,
  are the line, and no separator begins between `start` and the place where the loop
  is. That no token has one inside follows since one inside would begin earlier than
  the place at which the token was cut.
* `ArgsRoundTrip` needs `RoundInv`: what the second call of `sdssplitargs` has
  read are the first arguments that were written; between two arguments what is left
  of the line is the other arguments, quoted and separated; inside one, it is the
  rest of this one's bytes as `sdscatrepr` writes them, and what was read of it are the
  bytes before. One lemma per kind of byte says that the loop takes just what
  `repr_char` wrote for it.
* `NumberText` needs that `v` is the absolute value of the number: the conversion to
  unsigned undoes the overflow of `-value` for the least one (`Unsigned`, `Negated`).
  Then `NumInv`: the digits written, backwards, and the rest `v` still
  give the number; while two ends are swapped the text is the old one with its outer
  places reversed. The value of digits is a recursive function, which the proof
  takes apart place by place; the bound on the length comes from powers of ten.

### JSON

`JsonTreeProofs` holds for every finite set of nodes and every set of keys. The
invariant is local: what the pointers of a node and of its neighbours have to agree
on (`Shape`: nodes that are freed, ends of lists, roots, siblings), what the
activations of `json_delete` have in hand (`StackInv`), and which nodes have no parent
(`RootsInv`). That is not enough for what loops and recursion do: a ring of siblings
or of parents satisfies it too. So it also says that `prev` and `parent` have no cycle,
as "every nonempty set of nodes has a member from which the pointer leads out of the
set", which is preserved by the same case distinction as the rest and needs no
induction over paths. For a list it gives the walk along `next` (`WalkEnds`,
`ThreadedWalk`): it ends, and the sequence it makes is the only one with the first
node at its head, each next one behind it, and no node twice. From there `json_check`
and the searches are facts about that sequence, and the refinement says what each
operation does to it: a node added at the end, at the front, or removed at one place,
and the lists of all other parents unchanged.

`JsonValueProofs` proves that the parser is a well-behaved caller: `ValueSpec => Spec`.
So what was proved of the tree holds of the specification that the run `json_tree`
checks, for texts of any length. Its invariant `ValueInv` says which nodes without a
parent exist while a text is read: the `ret` of each frame, all different, of the kind
of the frame, and the value parsed last (`HandsInv`); which frames have a key that
waits for its value (`PointInv`); and how calls end (`EndInv`). `StringsOwned` is part
of it: `strings` changes where the code copies or frees, `Owned` with the pointers, and
a lemma for each operation shows that the two move together (`MkstringOwned`,
`CopyKeyOwned`, `UnlinkOwned`, `DeleteOnOwned`): `json_mkstring` and the insertion of a
member copy one string each, `json_remove_from_parent` frees the key it clears, and
`json_delete` frees the string with the node.
`FailureFreesAll` follows from `NoLeak`: after a failure nobody holds a root, so no
node exists, and so no string.

`JsonStringProofs` holds for all strings and texts of bytes without a NUL
(`StringAssumption`).

* `InBounds`: `BufferInv` says that before every character there is room for 14
  bytes (`emit_string`) or 4 (`parse_string`), and that `s` is at most one place behind
  the last. The lemmas below it say what each loop writes for the character it finds
  (`EmitForms`, `ParseChar`): never more than six bytes, or four; one doubling
  is enough for the room.
* `ValidatesExactly` and `ReadWriteInverse` are about single characters: by number of
  bytes, the limits of the code against those of code points, and the arithmetic of
  shifts by six and ten bits.
* `DecodedIsUtf8`: `utf8_validate` is a recursive function. Text is valid if there is a
  set of places that holds the first, and with each one the place behind the
  character there, up to the end (`Walk`); for a text to which a character is added
  this set gains a place. A function with the recursive equation exists because
  every nonempty set of numbers has a least member (`LeastNumber`), which also takes
  the place of induction elsewhere.
* `RoundTrip`: `Trip` says that a set of pairs of places exists, in what was
  written and in the string it was written of: the first pair, and with each pair the
  one behind the next character (`Writing`). While the text is read the loop stands
  at the first place of such a pair, and what it has made is the string up to the
  second, if that was UTF-8 (`Reading`). The step from a pair to the next is a lemma for
  each form that a character can be written in: short escape, six bytes of `\u00..`,
  the replacement character, itself (`ParseEmitted`).
* `NumberExact`: `Digits` gives the longest run of digits; the pattern is put into
  places of the text (`NumberAt`); what `parse_number` takes is a number
  (`TakesNumber`), and each of its parts ends no sooner than that of any other
  number that the text begins with, and later only past a digit (`Past`), where the
  other would have had to go on with something that is no digit.

### Only model-checked

* Liveness: `ReloadCompletes`, `Terminates`, `ConnectionsClosed`, `LowMountLogged`
  depend on fairness, which the proof system does not handle.
* `DecodeExact`, `DecodeEncode` and `EncodeExact` compare the parser and `emit_value`
  with a grammar that is built by folds over sets of texts, for texts up to a bound.
  What these compute for every input needs induction over texts and trees, with the
  grammar as the parameter of the induction theorems, which the provers cannot
  instantiate.

## 5. Not modelled

* SIGHUP delivered to the server thread (it does not block the signal), inside
  main's `ST_start_srv`, or during shutdown; functions that are not
  async-signal-safe in handlers.
* Descriptor numbers: the double close of `childfd`, descriptors leaked by
  restarts. Their consequence, a failing `accept`, is an environment choice.
* Failing `malloc`, `pthread_mutex_init`, `socket`, `fdopen`, `setmntent`,
  netlink `bind`: each ends the process at once. A client that never reads its
  answer, a line longer than the buffer.
* The logger, and of the demonizer the hook table (main adds one hook per signal)
  and the fork mode, which main never chooses. `ST_logger_msg` takes the sink
  `ST_SYSLOG`, which is 0, for a logger that was not initialised; the daemon uses
  the other one.
* In the string library: `sdscmp` and the functions that only look at a string;
  a string that is appended to itself (`sdscatsds(s, s)` reads a block it may have
  freed); a format that ends in a lone `%`, after which `sdscatfmt` reads on behind the
  NUL. In the JSON library: `strtod` and `sprintf`.

## 6. Plan

Done: the modules, runs and proofs above. Next:

1. Signals on the server thread and during shutdown; the hook table.
2. A grammar of texts as a relation between a tree and places of a text, as
   `RoundTrip` has it for strings, in place of sets of texts: with it `DecodeEncode`
   could be proved for texts of any length.
