# Verification of cppcraft

cppcraft ("a collection of my random code pieces", `readme.md`) is a small C++
library - a skip list, a message buffer, socket helpers and a wrapper of
libevent - surrounded by exercises, a calculator made with flex and bison, and
demonstrations. This directory holds TLA+ modules translated from its source, the
TLC configurations that check them, and proofs checked by TLAPS.

## 1. The system

| component | source | state | operations | who it talks to |
|---|---|---|---|---|
| Skiplist | `include/skiplist.hpp` | nodes with a key and a pointer per level, `curr_lvl_`, `node_count_`, `head_` | `Insert`, `Remove`, `Search`, destructor | calls the hooks its caller passes |
| Buffer | `include/buffer.h`, `src/io/buffer.cc` | a vector's storage, `has_put_`, `has_peek_` | `PutUint32/String/Bytes`, `PeekUint32/String/Bytes` | - |
| Socket operations | `src/io/socket_ops.cc` | none of its own: descriptors of the kernel | connect with a timeout, a nonblocking listening socket, a search for a usable port | the kernel; a `status` for the error text |
| Looper, CallableEvent | `include/looper.hpp` | an `event_base`, events registered in it | `StartLoop`, `StopLoop`, `Enable`, `Disable`, callbacks | libevent calls back through a raw `this` |
| Listener | `include/looper.hpp` | an `evconnlistener` | `Trigger` | libevent |
| Extent, StreamOp | `include/buffer.h` | a pointer and its deleter | move, destroy | - |
| status, log, utils | `include/status.h`, `include/log.h`, `include/utils.h` | a string stream, a global logger | `<<`, `value`, logging, tuple unpacking | everything |
| scanner | `src/tests-edu/flex-bison-parser/lex.yy.c`, made from `calc.1` | a stack of input buffers, `yy_c_buf_p`, `yy_hold_char`, `yytext` | `yylex`, `input`, `yyunput`, `yyless`, the buffer functions, `yylex_destroy` | reads streams; `yyparse` calls `yylex` |
| parser | `src/tests-edu/flex-bison-parser/y.tab.c`, made from `calc.y` | two stacks, a lookahead | `yyparse` | calls `yylex`, prints answers |
| exercises | `src/tests-edu/leetcode.cc`, `ltweek1.cc`, `DelReverseN.cc`, `bst.cc` | an LRU cache, linked lists, a prototype skip list; five algorithms without state | `get`, `put`; `doReverse`, `doDelN`; `add`, `erase`, `search` | - |
| reader and writer | `src/tests-edu/shared_ptr.cc` | a `shared_ptr` behind a mutex | copy, swap | two threads |
| reactor | `src/tests-edu/folly-example/test_simple_future.cc` | a bounded queue of requests with promises | `Submit`, `Reactor`, `operate` | two threads |
| demonstrations, RocksDB and fbthrift examples, `magic_enum.hpp` | `src/tests-edu`, `src/tests` | - | - | external libraries |

What is hard in it, and what makes each component correct:

* **Skiplist.** Sequential, but each call is three loops over a pointer
  structure: a search that fills a vector of predecessors, a linking loop in
  two phases (existing levels, then new ones), an unlinking loop. Duplicate
  keys of different heights mean that the predecessors of the upper levels may
  belong to another node than the one being removed. Levels are drawn at
  random up to an inclusive bound. Correct means: every level is at every step
  exactly the ordered list of the nodes that have it; the search answers exact
  predecessors; no vector is indexed past its end; and, seen from outside, the
  list is an ordered collection in which a key finds its youngest entry.
* **Buffer.** The bytes live behind the `size()` of the vector, so what a
  reallocation keeps is not what was written. Correct means: a FIFO of bytes
  (`include/buffer.h:41-51`).
* **Socket operations.** Any system call can fail between any two others, a
  handshake can end before, during or after the poll and its timeout, ports
  are taken and freed meanwhile. Correct means: an answer of true is true of
  the kernel, a failure is told and leaves no descriptor behind, and every
  call returns.
* **Looper.** Callbacks re-enter the loop and the events; the loop, the events
  and the base have independent lifetimes. Correct means: a callback runs only
  for an event that is enabled and alive, a stop request ends the loop, and a
  loop without events says so.
* **Scanner.** One array holds the text of the last token, the text matched so
  far and what was read ahead; one of its characters is overwritten by an end
  mark and kept aside, and all of it moves when the array is refilled, grows,
  or takes characters back. A read gives as little as it likes, a buffer is put
  aside for another in the middle of its text, a NUL is a character or the end.
  Correct means: whatever the sizes, the reads and the order of the calls, the
  tokens are the longest matches of the text, and no character is lost, doubled
  or moved.
* **Parser.** Compressed tables with default reductions, which are made before
  an error is noticed; stacks that grow up to a limit; an error path that pops
  and never finds an error production. Correct means: the answers are those of
  the grammar with its precedences, the first wrong token ends the parse, and
  no push leaves the stack.
* **Exercises.** Pointer surgery without any test of the ends: a cache whose map
  keeps iterators into a list, lists relinked in place, a skip list whose search
  mixes up predecessors and successors. Correct means: the sequence of
  elements is the one meant at every turn of a loop.
* **Reader and writer, reactor.** Two threads. Correct means: an object lives
  exactly as long as somebody holds it, and every accepted request is answered
  once.

`PROJECT.json` lists each hazard at its line with the properties that would
catch it.

## 2. Modules

| module | what it is |
|---|---|
| `SkiplistSpec` | abstract: an ordered collection of entries, one call at a time |
| `Skiplist` | `include/skiplist.hpp`, one action per loop iteration |
| `SkiplistProofs` | the inductive invariant of `Skiplist`, the theorems that follow from it, and that `Skiplist` implements `SkiplistSpec` |
| `SequenceLemmas` | what removing, moving, taking and joining do to a sequence, and least and greatest numbers, for the proofs |
| `ByteQueue` | abstract: the FIFO of the comment in `include/buffer.h` |
| `Buffer` | `src/io/buffer.cc`, one action per call |
| `BufferProofs` | its invariants, and that it is the FIFO until a byte is lost |
| `SocketOps` | `src/io/socket_ops.cc`, one action per system call |
| `SocketOpsProofs` | what is leaked, told and answered, for any number of descriptors |
| `StoppableLoop` | abstract: a loop that calls back events until it is stopped or runs dry |
| `Looper` | `Looper` and `CallableEvent` of `include/looper.hpp`, one action per operation and per step of libevent |
| `LooperProofs` | that libevent calls back living events only, and that it implements `StoppableLoop` |
| `FlexTables` | the tables of `lex.yy.c`, and what the rules of `calc.1` say of a text |
| `FlexBuffers` | the buffer functions of `lex.yy.c`, each a function from the scanner's globals to the scanner's globals |
| `FlexScanner` | `yylex` and the other entry points over them, one action per character, refill, growth or read |
| `FlexScannerProofs` | where every pointer may be at every point of a call, that no text is lost, repeated or reordered, and that a token is the longest match |
| `CalculatorSpec` | abstract: tokens in, one answer per line, an exit status |
| `BisonParser` | `yyparse` of `y.tab.c`, one action per shift, reduction or pop |
| `BisonParserProofs` | the path the stack is of the automaton, and that no push leaves the stack |
| `Exercises` | the programs of `src/tests-edu` below, of which a behaviour runs one |
| `ExercisesProofs` | proofs about all of them but the algorithms |
| `RecentCache` | abstract: the keys used last, in order |
| `LRUCache` | `lc146::LRUCache` of `leetcode.cc`, one action per call |
| `SharedApp` | `reader` and `writer` of `shared_ptr.cc`, one action per access to the pointer, a count or the mutex |
| `NodeListSpec` | abstract: sequences that are constructed, reversed and shortened |
| `NodeList` | `DelReverseN.cc`, one action per turn of a loop |
| `PrototypeSkiplist` | `lc1206::Skiplist` of `leetcode.cc`, one action per turn of its search |
| `Reactor` | `test_simple_future.cc`, one action per step of the reactor and of the test |
| `Algorithms` | five functions of `leetcode.cc` and `ltweek1.cc`, each a definition beside its reference |
| `MCSkiplist`, `MCBuffer`, `MCSocketOps`, `MCLooper`, `MCFlexScanner`, `MCBisonParser`, `MCExercises` | small values for TLC |

### Skiplist

A node is its `id_`; the head is 0. `key`, `lvl`, `next` are the fields of the
nodes, `nodeCount` and `currLvl` those of the list; `preceeds`, `node`, `i`,
`target` are the locals of the call in progress, reset when it returns, and
`pc` says which loop it is in:

| `pc` | code | actions |
|---|---|---|
| idle | between calls | `Call`, `Destroy` |
| find | `findPreceeds`, 270-292 | `FindRight`, `FindDown` |
| found | what follows it | `InsertRefused`, `InsertAccepted`, `RemoveHit`, `Missed`, `SearchHit` |
| level | `GetLevel` and `newNode`, 253-268 | `RaiseLevel`, `NewNode` |
| link | first loop of `Insert`, 145-151 | `LinkLevel`, `Abort` (its assertion) |
| raise | second loop, 152-158 | `RaiseHead`, `InsertDone` |
| unlink | loop of `Remove`, 168-177 | `UnlinkLevel`, `RemoveDone` |

The random draws of `GetLevel` are nondeterministic. Nodes are freed by the
destructor only, so a removed node keeps its pointers. The hook of `Remove`
gets a reference to the key of the removed node and may change it. Keys are
integers: the code uses a comparator that gives a total order. The history
variable `contents` holds the nodes whose insertion took effect (level 0
linked) and whose removal did not (level 0 unlinked). Hooks that call the list
again are not modelled: the code keeps no state for it and no caller does it.

### Buffer

`rep` is the storage by offset, with `Junk` for a byte no one initialised (a
peek may answer anything there), `cap` its capacity, `hasPut` and `hasPeek` the
counters; `written` remembers the bytes users meant to put. A put is one
action, `append`, with the reallocation of `acquire_put_nbytes` inside;
`appendAborts` is the put that ends in a failed `assert`. An integer lies in
memory least significant byte first (a little-endian host); `htonl` and `ntohl`
reverse it. The length of a string becomes an `int` on its way to `append`:
`IntLimit` stands for 2^31, a length from there on is negative (`nbytes`), and
such a put fails either assertion or makes `reserve` throw (`appendThrows`).
Lengths are below 2^32; what `PutString` keeps of a longer string is the low 32
bits of its length, which the model leaves out.

### SocketOps

`open` and `sock` are the kernel's descriptors and sockets, `held` those that
belong to callers and to other threads, `taken` the ports of other processes.
`pc` names the system call a function makes next, so that the network
(`Handshake`), other processes (`OtherProcess`) and other threads act between
any two system calls. Every system call can also fail. Descriptor 0 may be
closed when the process starts, and the kernel hands out the lowest free one.
`Granted` is the kernel's rule for `bind`, with the options the sockets have set:
two sockets of this process have one port when both set `SO_REUSEPORT`, as the
helpers do when asked to reuse, or when both set `SO_REUSEADDR` and the one that
has it does not listen. Ports of other processes are not shared (the kernel
shares them between processes of one user only when both set `SO_REUSEPORT`,
and what others set is not the code's).
`CreateTcpSocketandBindUsablePort` calls `CreateTcpSocketforListenNonblock`,
which is declared in `include/socket_ops.h:17` but whose definition is spelled
`CreateSocketforListenNonblock` (`src/io/socket_ops.cc:95`): as it stands a
program that uses it does not link, and the model takes the two for one.
Errors of address resolution are one failing outcome; the text of the status
is reduced to whether anything was written (`result.told`).

### Looper

`base` is `ev_base_` (`null` when `event_base_new` failed), `obj` the `ev_` of
each event (`null` when `event_new` failed), `cur` the event whose callback
runs. The thread may act outside the loop and inside a callback (`MayAct`).
libevent is external: `pending` are the events added, `active` the queue of a
round, in which an exit (`event_base_loopexit` without a time) takes its place
like an event, `gotterm` that the exit was taken. `Poll` starts a round with
ready events in any order, `LibeventCallback`, `TakeExit` and `RoundEnds` work
it off, `DispatchReturns` leaves with 0 after an exit and 1 without any event.
A failing event backend is left out. Two disciplines are the caller's, because
the interface leaves them to it, and are the ones of `test_looper.cc`: the
events go before their looper, and no event is dropped inside its own callback.
What the interface does not let a caller avoid - an event whose `ev_` is null -
is the action `UseNull`, after which the process is gone. The arguments bound
to a callback are abstracted.

`StoppableLoop` is what remains for the user: `StartLoop` answers TRUE only
after a request to stop, which uses up all requests so far, and FALSE only for
a loop without events and without a request (or when it refuses to start).

### FlexTables, FlexBuffers, FlexScanner

The record `m` has the globals and the allocated buffers; positions in the
array of the current buffer stand for `yy_c_buf_p`, `yytext` and the rest, and
`Junk` is a byte nothing was written to. `rest` is what the streams still hold,
`st`, `bp`, `lp` are the locals of `yylex`, and `pc` is where it is:

| `pc` | `lex.yy.c` | actions |
|---|---|---|
| idle | between calls | `yylex`, `input`, `yyunput`, `yyless` and the buffer functions |
| match | the automaton, 690-706 | `Match` |
| find | 708-753 | `FindAction` |
| eob | the end-of-buffer mark, 755-888 | `RealNul`, `EndOfBuffer` |
| refill | `yy_get_next_buffer`, 936-1022 | `Grow`, `Read`, `ReadFails` |
| destroy | `yylex_destroy`, 1681-1700 | `DestroyTop`, `DestroyStack` |
| fatal | `YY_FATAL_ERROR` | - |

`owed` is the specification: the text each buffer still has to hand out. It is
set when a buffer gets its text, shortened by what a call returns, and
lengthened by what goes back. `TextIntact` says that array, hold character and
stream together are that text, `TokenIsNext` that a token is the longest match
at its head. The class of a character is what the rules tell apart.

`client` is the program around the scanner: which entry points it calls and
what its streams and strings hold. Five rules are the caller's, as the comments
of the generated code demand them or its design implies: two buffers never
share a stream; who points `yyin` at a new stream calls `yylex` before anything
else (only that notices, 763-776); `input` is not called at the end of a
scanned string, which would restart the buffer from a null stream; `input` reads
on in a buffer that `yylex` has not seen since it was made only as long as
nothing of it was handed out (`MayRefill` has these two: `yylex` adopts the
count of such a buffer by its field, which leaves out what `input` kept); and a
buffer that `yylex_destroy` has freed is not used again. `yywrap` answers 1, as
`calc.1` has it; `yymore`, a failing `malloc` and accessors are left out; what
is pushed back is bounded by `MaxOwed`. A read gives a line or as much as was
asked for by the `tty` of the buffer, which `yy_init_buffer` sets (1329): a
buffer goes on as it was made when `yyin` is pointed at another stream.

### BisonParser, CalculatorSpec

`ss` and `vs` are the two stacks, `stacksize` their allocation, `yychar` the
lookahead; the tables are those of `y.tab.c`. `out` and `read` remember the
answers printed and the tokens taken. `INT_MAX` is one below a power of two:
sums, differences and products wrap, `atoi` stops at the largest `long` and keeps its low bits, a
division by zero (or of the least integer by -1) kills the process. `Malloc` is
what allocating a larger stack may answer.

`CalculatorSpec` knows no automaton: `Viable` says that some correct input
begins like what was read, `Answers` and `Dies` evaluate expressions with `*`
and `/` before `+` and `-`, from the left. The parser answers each line before
it takes the next token, stops with 1 at the first token no correct input has
there - although default reductions are made first - and with 0 at the end. Its
status 2 (memory exhausted) is allowed by the abstract specification at any
time; `OnlyNestingExhausts` ties it to open parentheses. The tokens come from
anywhere: that the scanner delivers the right ones is `FlexScanner`'s part, and
the two meet only in `yylex`.

### Exercises

The programs share nothing, so a behaviour picks one of them (`program`) and
`Runs(p)` keeps the variables of the others. Each keeps its own module.

### NodeList

Nodes are in memory, and a pointer is an address. `doReverse` keeps `curr`,
`next` and `tmp`; between two turns the list is in two halves, and `Meant` puts
them together: what was already turned, backwards, and the rest. So every turn
is a stutter of `NodeListSpec` and the return is the reversal. Reversing no list
and deleting beyond the end follow a null pointer (`Crash`), as the abstract
specification says too. What `printer` meets is defined by the nodes on the way
(`Leads`), not by recursion, so that it can be proved about.

### PrototypeSkiplist

`next` holds the pointer vectors of the head and of the nodes, `pp` is
`preceeds`. The search notes the node *behind* the one it stands on, which may
be null or greater than the key; what `add` and `erase` then do is modelled as
it is. The levels are not arbitrary: each list has an engine of its own with the
default seed (334), so that every list draws the same sequence. `Levels` is that
sequence - with libstdc++ it begins 3, 1, 1, 3, 1 - and the number of nodes says
which one is next. The consequences: the fourth `add` follows a null
predecessor if its key is greater than the first one's (`prototype_skiplist`);
keys may be out of order - the calls of the repository's own test
(`leetcode.cc:433`) insert so, without a crash; and `erase` does not
unlink at level 0, so nothing is ever lost there (`NothingLost`: the nodes are
one chain, which a sequence lists).

### Reactor

`future` has the state of each request's promise, `queue` the requests in `cq`,
`c1` the one the reactor works on. A request that finds the queue full is
dropped with its promise (`Broken`). The test owns `cq` and, when it returns,
destroys it (`Leave`) under the detached reactor; a read of a destroyed queue is
undefined, which is where the reactor then ends.

### Algorithms

`longestPalindrome`, `twoSum`, `numberOf2sInRange`, `numDifferentIntegers` and
`evaluate` are definitions in the shape of the code - its table, its map, its
powers of ten modulo 2^`NumberBits`, its scan with two states - each compared
with a definition of the answer over all small inputs.

### SharedApp

`ap` and `mtx` are the shared pointer and its mutex, `local` the `local` of a
reader and the `local_old` of a writer, `count` the use counts. A copy of a
`shared_ptr` is two actions (`ReadPointer`, `RaiseCount`), the assignment
`ap = local_new` is two as well (`Assign`, `ReleaseOld`), so that the mutex has
something to protect; a count is atomic. The test runs one reader and one
writer; the module takes any number of both. `App` is named after the thread
that made it instead of by `global_id_`, which several writers would race for.

### LRUCache

`hash` and `lrulist` as in the code; a list node is named by an address out of
`Capacity + 1`, so that a node allocated after an `erase` may reuse the
address of the erased one, and an iterator is that address. The capacity is at
least 1 (`ExercisesAssumption`): with 0 the class stores a dangling iterator,
and nothing uses it so.

## 3. Runs

| run | question | bounds |
|---|---|---|
| `skiplist_multi` | are the levels, the predecessors and the answers right with duplicate keys; does every call return? | 2 keys, `kMaxLvl_` = 1 (levels 0, 1 and the extra 2), 3 insertions |
| `skiplist_single` | the same without duplicates, with three keys | 3 keys, 3 insertions |
| `skiplist_assert` | can the assertion of `Insert` fail? It can | two nodes |
| `buffer` | what survives reallocation, which assertion can fail and when, and is the buffer a FIFO until a byte is lost? | `kPreAllocSize` 2, alignment 2, integers of 2 bytes, strings of 0, 1 and 3, and of 5, 7 and 9 that fit no `int` (2^31 scaled to 5), 8 bytes put, two reallocations |
| `buffer_fifo` | is it a FIFO for ever? It is not | the same, 6 bytes |
| `socket_ops` | every order of failures, handshakes and callers | 3 descriptors, ports modulo 3 |
| `looper` | does the loop call only living, enabled events, and is every stop heeded once? | 2 events, one persistent, 2 exits in the queue |
| `flex_scanner` | does the scanner hand out every text, in tokens, whatever the reads, the sizes and the order of the calls; does every call return? | buffers that start with 1 or 2 characters, reads of 3, up to 3 buffers, one file, or a file and a terminal, texts of up to 4 characters |
| `bison_parser` | is the parser the calculator of its grammar, within its stack? | all inputs of up to 7 tokens, integers of 3 bits, a stack that grows from 5 to 8 |
| `exercises` | the cache, the threads of the shared pointer, the lists, the prototype skip list, the reactor and the algorithms: implementations, ownership, ends | 4 keys, capacity 3, 2 values; 2 readers, 2 writers; lists of up to 4; the first 5 nodes of the prototype; 4 requests, 2 slots; words of 5 letters, numbers of 10 bits |
| `prototype_skiplist` | can the prototype skip list crash? It can | its first 5 nodes, 3 levels |
| `reactor_off` | does the reactor turn off when told to? It may not | 4 requests, 2 slots |

**Why the bounds are enough.** A skip list needs two equal keys of different
heights and a third node beside them for every case of the linking and
unlinking loops, a level that exists and one that does not, and the level
above the head; both skip-list runs have them, and sequences of calls are
unbounded except for the number of insertions. What the runs show for few
nodes the theorems of section 4 prove for any number. In the buffer
`kPreAllocSize`, `kAlignment` and `sizeof(uint32_t)` are scaled down together;
what matters is their order and that the alignment is a power of two, and the
run reaches zero, one and two reallocations. The socket runs need one socket in
use, one held by a caller and one by another thread, a port range that runs
out, a port that wraps to 0 and one that wraps to a port in use; descriptors
and ports are reused without bound. The looper needs two events, so that one
callback acts on the other while it is queued, and two exits, so that one may be
left over; nothing else is bounded there. Two writers and two readers cover a
replaced `App` that is still read while its successor is replaced too. Capacity
3 has a first, a middle and a last position to move to the front, and a fourth
key to evict. The scanner's buffers are so small that a text is cut at every
place, refilled with and without a token to keep, and grown twice; the four
clients (a reader that pushes back, strings inside strings, strings side by
side, a file and a terminal) have every buffer function and every pair of them. Seven
tokens hold two lines, nested parentheses, and each pair of operators in either
order; eight stack entries are both reached by nesting and not reached without
it. In three bits every operation wraps and every division that traps exists.
Five nodes are two with all levels of the prototype and three with one, which
let its search pass, meet and miss a key with a null, a right and a wrong
predecessor. Two slots for four requests make the
queue full, empty and half full. Ten bits hold every three-digit number and
four-digit ones whose power of ten wraps.

**Fairness.** `WF_vars(Step)` in `Skiplist` and `SocketOps`: the thread that
made a call keeps running it. In `Looper` it also says that callbacks return,
which a single-threaded loop cannot do without. In `SharedApp` each thread is
weakly fair: it is scheduled, and as every thread locks the mutex once, nobody
can be passed over for ever. In `NodeList` the thread in a loop goes on
(`Turn`), in `Reactor` both threads are scheduled (`ReactorStep`, `TestStep`).
In `BisonParser` `WF_vars(Next)` says that the parser goes on and that its
input, which ends after `MaxTokens`, is delivered. `RunsOn` of `FlexScanner` is
weak fairness of `Step`, written out because a step of the scanner is enabled as
long as a call runs: TLC checks that (deadlock is checked in that run, and only
a resting state may stutter). Nothing is assumed of callers, of the network or
of other threads. In `SocketOps` a call at `poll` can always go on because
`poll` was given a timeout (`conn_timeout` >= 0; -1 would wait for the peer).
`Buffer` has no liveness: each call is one step.

**Disagreements found.**

* `GetLevel` (`skiplist.hpp:256`) can answer `kMaxLvl_ + 1`, one level above
  the head; the second node drawn there fails the assertion at line 147
  (`skiplist_assert`). The `getlevel` test (`skiplist_test.cc:45`) even
  declares an array of `kMaxLvl_` counters for it.
* `reserve` copies the elements of the vector, not the bytes behind them: after
  a second reallocation peeks answer uninitialised bytes (`buffer_fifo`).
* The prototype skip list follows a null pointer (`prototype_skiplist`,
  `leetcode.cc:381`) at its fourth `add` when the key is greater than the first
  one's, although `leetcode.cc:336` allows 50000 insertions: its search notes
  successors. The test (`leetcode.cc:433`) inserts in an order that only
  misplaces keys.
* The request that turns the reactor off may never be read
  (`reactor_off`, `test_simple_future.cc:63`): the test returns and takes the
  queue along.

The passing runs also pin down behaviour that no document mentions: the room
for a put is computed from `rep_.size()`, which stays 64 (`buffer.cc:54`), so
that small puts beyond the first allocation fail the assertion at line 64, and
otherwise only those of 2^31 bytes and more fail one (`AbortsOnlyBeyond`); twos are counted right only below 10^19, from
where `power * 10` wraps (`TwosCounted`, a part of `AnswersRight`); descriptor
0 leaks on an error (`OnlyZeroLeaks`), a port search that runs out of ports
fails without a word (`StatusTellsFailure`), and the port answered is the port
bound only modulo 2^16, and may have another listener that asked to share it
(`PortAnswered`); a calculation runs out of parser stack
by nesting alone (`OnlyNestingExhausts`). Two limits of the scanner lie outside
its run's clients: a buffer of size 0, which `yy_scan_string("")` and `yyrestart`
leave, never grows and is refilled for ever (`lex.yy.c:950`), and
`yylex_destroy` frees the top buffer alone - it empties the slot before it pops,
and then there is nothing to pop - so that the ones below are leaked
(`lex.yy.c:1684`).

## 4. Proofs

Every theorem is for every value of the constants that the assumption of its
module allows. The assumptions say what the code takes for granted: keys are
integers, `kAlignment` is a power of two, the first allocation and an integer of
the buffer are shorter than 2^31 bytes, the prototype draws some level for each
node, `INT_MAX` one below one, a descriptor
limit is a natural number, the events of a looper are finitely many and none is
called like the marks of the model, threads have different names, a cache has
room for one key, the parser's stack starts with room for five states, and a
program around the scanner has its own streams and makes finitely many buffers,
of at least one character where the scanner makes them (`Sizes` may hold 0).

| theorem | module | says |
|---|---|---|
| `TypeCorrect` | `SkiplistProofs` | `Spec => []TypeOK` |
| `LevelsAlwaysExact` | `SkiplistProofs` | `Spec => []LevelsExact` |
| `PredecessorsAlwaysExact` | `SkiplistProofs` | `Spec => []PredecessorsExact` |
| `PreceedsAlwaysInBounds` | `SkiplistProofs` | `Spec => []PreceedsInBounds` |
| `Refinement` | `SkiplistProofs` | `Spec => ImplementsSpec` |
| `TypeCorrect` | `BufferProofs` | `Spec => []TypeOK` |
| `PrefixAlwaysIntact` | `BufferProofs` | `Spec => []PrefixIntact` |
| `AbortsAlwaysBeyond` | `BufferProofs` | `Spec => AbortsOnlyBeyond`, an action property |
| `RefinesQueueUntilLost` | `BufferProofs` | `Spec => QueueUntilLost`, the FIFO as long as no byte is lost |
| `TypeCorrect` | `SocketOpsProofs` | `Spec => []TypeOK` |
| `LeaksOnlyZero` | `SocketOpsProofs` | `Spec => []OnlyZeroLeaks` |
| `StatusAlwaysTells` | `SocketOpsProofs` | `Spec => StatusTellsFailure`, an action property |
| `AlwaysAnswersAsAsked` | `SocketOpsProofs` | `Spec => AnswersAsAsked`, an action property |
| `PortAlwaysAnswered` | `SocketOpsProofs` | `Spec => PortAnswered`, an action property |
| `TypeCorrect` | `LooperProofs` | `Spec => []TypeOK` |
| `NeverDangling` | `LooperProofs` | `Spec => []NoDangling` |
| `LooperImplementsLoop` | `LooperProofs` | `Spec => ImplementsLoop` |
| `TypeCorrect` | `FlexScannerProofs` | `Spec => []TypeOK` |
| `MemoryAlwaysSound` | `FlexScannerProofs` | `Spec => []MemorySound` |
| `TextAlwaysIntact` | `FlexScannerProofs` | `Spec => []TextIntact` |
| `TokenAlwaysNext` | `FlexScannerProofs` | `Spec => TokenIsNext`, an action property |
| `Invariance` | `FlexScannerProofs` | `Spec => []IInv`, the invariant of pointers all four rest on |
| `TypeCorrect` | `BisonParserProofs` | `Spec => []TypeOK` |
| `PushAlwaysFits` | `BisonParserProofs` | `Spec => []PushFits` |
| `TypeCorrect` | `ExercisesProofs` | `Spec => []TypeOK` |
| `OwnersAlwaysCounted` | `ExercisesProofs` | `Spec => []OwnersCounted` |
| `NeverDestroyedInside` | `ExercisesProofs` | `Spec => DestroyedOutsideLock`, an action property |
| `IteratorsAlwaysExact` | `ExercisesProofs` | `Spec => []IteratorsExact` |
| `CacheImplementsRecent` | `ExercisesProofs` | `Spec => Cache!ImplementsCache` |
| `PromisesAlwaysKept` | `ExercisesProofs` | `Spec => []PromisesKept` |
| `NothingEverLost` | `ExercisesProofs` | `Spec => []NothingLost` |
| `ListsImplementSequences` | `ExercisesProofs` | `Spec => List!ImplementsList` |
| `SpecsImplemented` | `ExercisesProofs` | `Spec => ImplementsSpecs`, the cache's and the lists' |
| `PairAlwaysFound` | `ExercisesProofs` | `Spec => []Algorithm!PairFound`, the part of `AnswersRight` about `twoSum` |

**Skiplist.** `LevelsExact` alone is not inductive: linking a level is right
only because the search left the right predecessors there, and these stay right
only because the levels below are still untouched. The inductive invariant is

    IInv == Typed /\ Exact

where `Typed` has the types (`ListOK`, `LocalsOK`) and what each `pc` allows of
the locals (`Control`), and `Exact` joins `LevelsExact` with: `Tall` (the nodes
of the list are no taller than `curr_lvl_`), `Fresh` (unused nodes are not
linked), `Searching` (the cursor is before every node with a key >= k at its
level), `Located` (the predecessors found so far are exact), `Inserting` and
`Removing` (they are still exact at the levels not yet treated). Each action
has a lemma; the ones that change `next` rest on lemmas about ordered lists
(inserting after the exact predecessor, and removing a node, keeps a level
exact).

The refinement maps the entries to `contents` with their keys; an `Insert`
takes effect when level 0 is linked and a `Remove` when level 0 is unlinked,
every other step is a stutter or a return. Its invariant, `Refining`, adds to
`IInv` which operation is served at each `pc`.

**Buffer.** `PrefixIntact` says nothing of the bytes behind `kPreAllocSize`.
`Kept` adds that each of them is the one meant or was lost to a reallocation, so
that no junk gets in front, and `PreAlloc <= cap` that the first allocation is
never given back. What rounding up to the alignment answers rests on the
alignment being a power of two (`acquire_put_nbytes` masks bits). The FIFO is
refined until the first byte is lost, with the bytes from `hasPeek` to `hasPut`
as the queue.

**SocketOps.** `Control` says which function is at which system call and that it
has a descriptor from `socket` on; `Owned` that this one is no caller's, except
in a `bind`; `Configured` which options the loop has set so far. Who may close a
descriptor, and what an answer of true rests on, follows from these.

**Looper.** `Alive` says that an event that is added, or whose callback runs,
has its `ev_`; `Queued` that an event is in a round's queue at most once and
only while it is added, which is what makes dropping it from the queue enough.

**FlexScanner.** Neither `TypeOK` nor `MemorySound` is inductive: the match loop
tests no bound, it stops only because the automaton has no way past two NULs.
`IInv` says so for each place of a call. `Framed`: the stack is inside its array
and names no buffer twice, and every buffer off the top is `Asleep`, its hold
character back in its place and its end marks behind its text. `Between`: at
rest, everything from `yytext` or `yy_c_buf_p` on was written, once the hold
character is put back. `AtMatch`: the characters passed are a `Run` of the
automaton (nothing yet, digits, or one other character), so that only one NUL
can be passed, which leads to state 3. `AtFind`: the last accepting position is
inside the text, or one beyond it if it accepts the end mark. `AtEob` and
`AtRefill`: the unfinished token, at its place and moved to the front. That the
compressed tables are the plain one (`StateAfter`) is proved by unfolding them, and
that `yy_get_previous_state` comes to the state `yylex` was in by a least
counterexample. What each buffer function does to one record is a lemma that the
actions share.

`TextIntact` speaks of the rests between calls; `TextInv` says on top of `IInv`
where the text is during one. `Ahead` is what is ahead of the reader in the
current buffer, at each `pc`; with what its stream will still give (`Coming`) it
is `owed` to it. The same holds of every buffer off the top (`Told`). A read
of one buffer must not take another's text: `Honest` says also that no two
buffers that are owed text refill from one stream, and `Owns` that a buffer
`owed` does not know is off the stack. Each step then keeps the text, takes a
first part of it (`TextTaken`: a token, an `input()`) or puts characters in
front of it (`TextBack`: `unput`, `yyless`), and the proof of a step is which of
the three it does; moves, growth and short reads are statements about pieces of
arrays (`Piece`).

`TokenIsNext` adds `FoundInv`: when the action is looked up, the last accepting
position is behind one character, or behind digits that no digit follows, be it
in the array (`Match`, `RealNul`) or in what is still to be read
(`EndOfBuffer`, `Read`), of which there is none when the run stops at the end.
With `TextInv` this is the longest match at the head of what is owed
(`FirstNumber`, `FirstSingle`).

**BisonParser.** The stack is a path of the automaton: `Path` names its
transitions (`Moves`), read off the tables by lemmas, so that a reduction always
has as many states below the top as it pops and a goto always exists; `Values`
that the places a rule reads hold integers; `Room` that the growth at the end of
a push leaves room for the next.

**Exercises.** The programs are proved one by one; a step of one leaves the
variables of the others alone.

* Shared pointer: `Places` (mutual exclusion; what a thread has read of the
  pointer is still there until it assigns it; nobody has heard of an App that is
  not assigned yet) and `Counts` (a count is the cardinality of the set of
  owners).
* Cache: two nodes never have one address, although addresses are used again.
  `get` and `put` move a node to the front whatever the address it gets.
* Reactor: a promise that is not kept is in the queue or in `c1`, in the order
  of the requests, and in one place only.
* Prototype skip list: `OneChain` says that the lowest level is one chain of all
  nodes: a bijection from positions to nodes that follows the pointers. It holds
  whatever the faulty search notes, because `add` inserts behind some node and
  `erase` only finds a node as its own predecessor on level 0 (`pp[1] = found`),
  so that it unlinks nothing there. `Adding` says that during an `add` not all
  nodes are used up, so that there is a level to draw.
* Lists: `Listed(s)` says that `s` is the list in order: linked straight on
  between calls and while deleting (`Straight`, with `Passed` for the places the
  loop has passed), and while reversing in two halves (`Halves`). The walk that
  `Meant` chooses is unique (`OneWay`), so that `Meant` is the values along `s`.
* `twoSum`: the first place with a partner gives a pair, and of every pair the
  later place has a partner (`TwoSumRight`, for all integers and lengths; the
  theorem applies it to the words of `Init`).

The invariants were checked with TLC before they were proved.

Only model-checked, because the provers cannot reach it:

* liveness (`EveryCallReturns`, `StopEndsLoop`, `CallReturns`, `TokensTaken`,
  `EverythingEnds`);
* what recursive definitions compute for every input: the algorithms against
  their references (`AnswersRight`, of which `PairAlwaysFound` proves the part
  about `twoSum`, which needs no recursion), and the reference evaluation of
  `CalculatorSpec` with the refinement and `OnlyNestingExhausts` that rest on
  it. The library's induction theorems take an operator as a parameter, which
  no installed prover instantiates; where induction over the naturals is needed
  in a proof, it is done by a least counterexample (`LeastNatural`, from the
  well-foundedness of `<` on `Nat`), which works for a set that is given, not
  for a recursive definition.

## 5. Not modelled

* `DumpAsGraphvizScatch`, `ToString`, `status`, logging, the tracing of the
  parser, `yysyntax_error` (compiled only with `YYERROR_VERBOSE`): they print.
* `Listener` cannot be instantiated: its callback is a non-static member where
  libevent wants a function, its base class is private, and
  `make_Listener(Looper *, ..)` lacks a return (`looper.hpp:353-360`).
* `Extent` and `StreamOp` of `include/buffer.h`: nothing instantiates the one,
  and the other is an interface without an implementation.
* The demonstrations (`misc.cc`, `move.cc` and their like) keep no state across
  operations; `bst.cc` declares a node and nothing else.
* The accessors of the scanner, `yymore` and a failing `malloc` there.
* RocksDB, fbthrift, folly and libevent are external; `magic_enum.hpp` is
  vendored.

## 6. Plan

Done: the skip list with its proofs and its refinement, the buffer, the socket
operations, the looper, the scanner and the parser of the calculator, and the
exercises with the reader, the writer and the reactor. No component with state
is left out.

The theorems of section 4 cover every safety property the passing runs check
but four of the five parts of `AnswersRight` and the calculator's refinement
with `OnlyNestingExhausts`. Those rest on recursive definitions and stay with
TLC, like liveness. To model next, should the code grow callers for them:
`Extent` and `StreamOp` of the buffer, and a `Listener` that compiles.
