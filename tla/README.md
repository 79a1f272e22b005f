# TLA+ models of the OS and networking programs

The repository is a collection of small C programs about threads, memory,
processes and sockets.  This directory holds TLA+ models of those that have a
protocol worth checking, TLC configurations, and TLAPS proofs.  Every definition
is read from the C code; `PROJECT.json` gives the lines each one stands for.

## Inventory

| component | state | operations | what is hard | what makes it correct |
|---|---|---|---|---|
| word-reading ring, `read_word_thread.c` | the `FILE`, `done[]`, `eof_done`, a mutex, one condition variable per thread | `WaitForInvoke`, `GetTheWord`, `PrintWord`, main's create, kick-off and join | wakeups against flags, end of file read inside and outside the mutex, joining | words in ring order, one turn at a time, no lost wakeup, termination |
| free-list allocator, `proj1_malloc` | the bytes of `BigBuffer`: headers, links and client data together; `head` | `MyMalloc` (first fit, split), `MyFree` (sorted insert, coalesce) | links kept current across splits and merges, header fields nobody wrote, boundaries, long sequences of calls | live blocks and free blocks disjoint, data untouched, list sorted, calls return |
| shell, `proj2_MakingShell/MyShell.c` | stdin's buffer and shared offset, `exitStatus`, working directory, the processes | read a line, fork, `cd`/`exit`, wait, search, redirect, exec | two processes on one offset, a fork that fails, a status that is not fresh | every program once and in order, foreground, failures reported, a failed `cd` too |
| buffered I/O, `proj3_web_crawler/cs537.c` | `rio_buf`, `rio_bufptr`, `rio_cnt` | `rio_read`, `rio_readlineb`, `rio_writen` and the wrappers that exit | short counts, interrupts, errors, end of file in a line | lines cut by the stream alone, nothing lost |
| web client and web test, `client.c`, `web_tester.c` | the page and its size | `clientSend`, `clientPrint`, `grab_page`, `fetch` | counts that are one too large, a page that grows while it is written | writes inside the page, the page is the body |
| allocator test programs, `simpletest1.c`, `simpletest2.c`, `testmymalloc.c` | their pointers | the calls, in order | what a long list of calls leaves of the free list | each reaches its last line |
| file test of the crawler, `file_tester.c` | the file offset, a buffer and how much of it is filled | `fetch` | the file changes between its size and its bytes, a size no `int` can say, short reads | only bytes that were in the file are returned, and `fetch` ends |
| crawler stub, `crawler.c` | - | `crawl` returns -1 | - | not modelled |
| multi-threaded echo server | descriptors, argument cells, threads | accept, `pthread_create`, `ProcessClient`, `TermHandler` | arguments read late, descriptors reused, threads running out, reads that fail, exit in the middle | each connection has one thread, each message is heard once and in order |
| multi-process echo server | sockets in each process | accept, fork, both closes, the child's loop | copies of sockets, zombies, fork failing, reads that fail | no leaked socket, each message is heard once and in order |
| echo client | its connection | connect, write | no end at end of input | part of both server models |
| exercises, `randLearn` | - | spawn and wait, a server of one connection, printing | the same as the shell and the servers, once | not modelled |
| `miscCode/my-wc.c` | counters, two flags, the last character | one pass over a file | a failed read repeats a character | the counts are those of the text |
| `miscCode/my-cat.c` | a loop counter, a line buffer | print the files named | a `char` counts the arguments, lines longer than the buffer, `'\0'` in a line | every file whole and in order |

The components meet in three ways.  Threads of one process share memory (the
ring, the thread server).  Processes share files and sockets through the kernel
(the shell and its children, the fork server and its children).  Client and
server exchange bytes (`EchoNet`, `Rio`).  The allocator is called by its test
programs (`MallocTests`).  The programs that read a file (`my-wc`, `my-cat`,
`file_tester`) share it with whoever writes to it, and nothing with each other.

## Modules

| module | of | role |
|---|---|---|
| `ReadWordThread` | the ring | one action per stretch between two points another thread can observe |
| `MyMalloc` | the allocator and its client | word-level memory; each turn of a list walk is a step |
| `HeapContract` | abstract | requests answered with disjoint blocks of the heap |
| `MallocTests` | the test programs | extends `MyMalloc` with the calls they make |
| `Shell` | the shell | the outer process, the shell and its child |
| `Interpreter` | abstract | the programs of the lines, once and in order |
| `EchoNet` | client and kernel | connections, queue, messages; shared by both servers |
| `ThreadServer`, `ForkServer` | the servers | extend `EchoNet` with the server's own processes |
| `EchoService` | abstract | both servers implement it |
| `Rio` | the buffered reader | composed into `WebClient` |
| `LineReader` | abstract | `Rio` implements it |
| `WebClient` | `fetch` over the network | extends `Rio` with the request, the two loops and the page |
| `WordCount` | `my-wc.c` | stands alone |
| `FileFetch` | `fetch` of `file_tester.c` | with the processes that change the file |
| `Cat` | `my-cat.c` | stands alone |
| `ReadWordThreadProofs`, `MyMallocProofs`, `ShellProofs`, `ThreadServerProofs`, `ForkServerProofs`, `WebClientProofs` | the module they are named after | its inductive invariant, lemmas and theorems |
| `FileReadersProofs` | `WordCount`, `FileFetch`, `Cat` | the same, for each of the three |
| `EchoNetProofs` | `EchoNet` | lemmas for both servers: the queue and the messages |
| `MC*` | | constants for TLC; `MCFileReaders` runs one of the three file readers |

### The ring

`pc[i]` is a thread's place in `WaitForInvoke`, `mainPc` main's.  A condition
wait is three steps: the test that leads to it (which releases the mutex), the
signal (or a spurious wakeup) that ends it, and winning the mutex again.
`feof(fp)` is read at line 53 without the mutex, so the read that meets end of
file (`GetTheWord`) is a step apart from the one that releases everybody
(`ReleaseAll`).  Words are numbered, which makes order and loss visible.  A file
is a number of words and whether text follows the last delimiter: such a last
word is read but, end of file being met with it, never printed.  Two checks the
code lacks are not modelled, because one call in one state shows what happens: a
word of ten characters or more overruns `str[10]`, and without `t.txt` the
threads call `feof` on `NULL`.

### The allocator

Memory is a function from the words of `BigBuffer` to integers: a block's
header is its first four words.  Stale links, unwritten header fields and
client writes beyond a block therefore act as they do in C.  A step that would
use an address outside `BigBuffer` as a header has no outcome, and shows as a
deadlock.  `InitMyMalloc` is `Init`; `PrintMyMallocFreeList` changes nothing.

The allocator is correct for a *careful* client only (`CarefulSpec`): each
request fits the block first fit ends on (`Fits`), the left link of a block
taken from inside the list is current (`LinkedBack`), and the free block in
front of one that is given back does not seem to adjoin it without doing so
(`BufferTells`).  None of this is something the code tests, and the last two
are not something a client can see; they say exactly which of its own fields
the allocator takes on trust.  The passing run
therefore does not cover what these guards keep out.  What happens otherwise:

- without `Fits`, the last block is handed out whatever its size, and with an
  empty list the walk starts at `NULL` (`malloc_tests`);
- without `LinkedBack`, a block the client holds stays on the list
  (`malloc_stale`): a split of the head, an insertion and a merge leave the next
  block's left link on a former neighbour;
- without `BufferTells`, the merge test reads a `buffer` field that no split has
  written and finds there what a client once stored.  In the run clients store
  368, which is such an address; with `Free(s)` unguarded TLC finds a free
  block that swallows the live one behind it, and `FreeIsFree` fails.  In fresh
  memory the field is 0 and there is no merge;
- a merge adds sizes but not the 32 bytes of the header it removes, so blocks
  are not always one block when all is freed, although `testmymalloc.c` expects
  "they should all be together";
- an exact fit at the head sets `head` to `NULL` and loses the blocks behind it.
  `HeapContract` promises no memory back, so this is no violation of it.

`HeapContract` has the blocks the client holds and the request that is waiting,
if one is: `Ask`, `Answer` with any aligned bytes of the heap that no other pointer
has a share in, `Release`.  `Safety` is that without the promise of an answer.

### The allocator's test programs

`MallocTests` runs each program's calls, in order and at the real size of the
heap, against `MyMalloc`, careful or not.  `simpletest2` does not come to its end:
its third request gets the freed block at the head whole, which sets `head` to `NULL`
and loses the blocks behind it, and its last one starts from there (`malloc_tests`).  The other two
do end, although not as their text says.  The fourth quarter of
`testmymalloc.c` "should fail due to rounding" and is handed out, beyond the end
of `BigBuffer`; its pointer is then overwritten, which is why that block has a
slot of its own, `Forgotten`.  Blocks that "should coalesce" do, 32 bytes short
for each merge.  `testnocompact.c` is not modelled: it is
built with `my_malloc_nocompact.o`, whose source the repository does not have.

### The shell

A line is its kind (a program that succeeds or fails, an unknown name, a file
`execv` refuses, `cd`, `exit`, empty, spaces) and its redirection.  `filled` and
`got` are stdio's buffer, copied by fork; `offset` is the file offset, shared.
`exit()` seeks a stdin that is a file back to the first unread byte, and `execv`
does not: this is what `GiveBack` is for.  Every fork may fail, of the shell
itself too; `unforked` remembers for which lines.

`failed` has the lines the shell reports as "error occured": a program's, after the
wait (line 93), and a `cd` that `chdir` refuses (line 85).  After a fork that failed
`exitStatus` is an earlier line's, so whether that line is reported depends on the past;
`FailuresReported` says that this ends with the line: every other line is reported
exactly if it failed, whichever forks of other lines fail.

Two things are outside what the passing run claims.  With stdin a file, lines
run twice (`shell_script`).  And a line of spaces passes the test for an empty one,
`strtok` finds no word in it and `strcmp` is handed `NULL`: the model's shell crashes as
the program does (`pc` is `"crashed"`), although the code says that the shell "will always
run until the user or the system kills it" (`MyShell.c:47`).  Such lines are anywhere in
the inputs of the run, and all safety properties hold with them: the lines up to the
crash run as they should.  What should happen eventually does not: `ShellEnds` fails on
a line of spaces, and the progress part of `ContractSpec` on a program behind one, so both
are about inputs with no such line (`NoSpaces`).

Not modelled: arguments, with the array that more than `MAX_NUM_OF_ARG` of them
overrun; lines of more than 199 characters, which `fgets` splits; and stdout's
own buffer (a child that leaves by `exit()` writes its copy too, so that the
prompt appears twice in a file or pipe).

### The echo servers

`EchoNet` has the client (connect, write a line, be killed) and the kernel
(queue, bytes in order, end of stream).  A message is a piece of text: a write
sends one or more and a read takes one or more, however they were written, so
reads that merge writes and reads that end inside one are both there.  A client
never closes by itself: at end of input it writes nothing for ever
(`echo_client.c:65`), so a server's thread or child lives until the client is killed.

A connection may also break (`Breaks`; `Frail` has the clients it may happen to): nothing
more arrives and `read` may return -1 from then on, with messages unread.  Both
servers take that for the end of the session (`ReadEnds`; "if client closes the connection
or read is unsuccessful", `echo_server_multiThread.c:84`), and so does `EchoService`: it lets
a connection go when its client has left and all it sent was heard, or when it has
broken (`Break`).  Every other connection is promised what it would be without.

`ThreadServer` numbers descriptors and gives out the lowest free one, which is how a
stale number could reach another connection.  `accept` fails when none is
free, and main's `exit` ends every session.  `ForkServer` tracks who holds
which socket: a connection is closed when nobody does, and clients can still
connect while a child has not yet closed the listening socket of a parent that
has exited.

Both implement `EchoService`, given a thread or process for every client.  If
`pthread_create` fails (`MaxThreads` below the number of clients), the code does
not notice: the connection stays open and unread, and `ContractSpec` fails.  If `fork` fails, the parent
closes the connection unread (`fork_zombies`).  Ended threads are not joined and
ended children not waited for, so both limits are reached in a long run.

### Rio and the web client

Bytes are their positions in the reply, so a lost, repeated or reordered byte
shows; `reply` gives their kind, which is all that the code looks at.  `read`
returns any number of the bytes there are, is interrupted, or fails for good
(the wrapper then exits).  `rio_readlineb` returns one more than the bytes it
read when the stream ends in a line or the buffer is full, and
`grab_page` reckons with that number: `PageFits` is why this does no harm.

Header lines fit the buffer (with one of exactly `MAXBUF - 1` bytes the rest,
"\r\n", is taken for the empty line).  A reply without a body leaves the page,
one byte of fresh memory, without its '\0'; `PageIsBody` speaks of replies with
one.  `Content-Length` is parsed and
ignored, so the client waits until the peer closes, for ever if it does not:
`ReplyEnds` starts from the close.  When there is no memory for the page an assertion
ends the client (`NoMemory`).  `client.c` runs the same two loops and prints instead of collecting.

### my-wc

`insideWord`, `newLine` and the three counts are the code's; `seen` records the
characters the loop has been through and is read by the properties only.  A
`fscanf` that fails without meeting end of file leaves `ent` alone and `feof`
clear, so the loop takes `ent` again: `ScanFails`.  `CountsMatch` says that this
counts one more character and nothing else, except before the first byte, when
the 0 in `ent` starts a word.  A file that can never be read (a directory) keeps
the loop going for ever; `MaxErrors` bounds that.

### file_tester and my-cat

`fetch` asks for the size with `lseek`, allocates that much and reads until it
has it.  `FileFetch` lets other processes cut the file and write to it between
any two calls, numbers every byte written, and lets `open`, `malloc`, `lseek`
and `read` fail.  The size is an `int` (line 28), so of the length only the low bits count:
a length that makes it negative ends in the assertion, and a longer one can make
it positive again, and the page then has only the first bytes of the file.  That this
page is not the whole file no property says; what is in it is from the file.  A `read` that finds the file too short returns 0 and the
assertion ends the program; nothing is returned that was not read.

`Cat` has the loop over the arguments, counted in a `char`, and the loop of
`fgets` and `fprintf("%s")`: pieces of at most `MAX_LINE_SIZE - 1` bytes, each
printed up to its first `'\0'`.  `out` records where each printed byte came from,
its argument and its position, so that a byte lost, repeated or out of order shows.
Behind `CHAR_MAX` the counter goes on with
`-CHAR_MAX - 1` and `argv` is read outside its bounds (pc `"wild"`).  A read that
fails looks like the end of the file, so `CopiesFiles` speaks of runs without one, and of
files without a `'\0'` or that fit the buffer: where a longer line has one, what is hidden depends
on where the buffer cuts it.

## Runs

| run | bounds | properties | shows |
|---|---|---|---|
| `ring` | 4 threads, files of 0 to 5 words | `TypeOK` `RingOrder` `SingleTurn` `NoLostWakeup` `ExitReleasesAll` `OneRoundIsPrinted` `ShortFileTerminates` | order, mutual exclusion and termination under every schedule |
| `ring_join` | 2 threads, 2 words | `EveryThreadJoined`, violated | with a word for every thread, main never returns from `pthread_join` |
| `malloc` | 160 bytes, 3 pointers, requests of 5 and 40 | `TypeOK` `FreeIsFree` `Sorted` `InsideHeap` `DataUntouched` `ContractSpec` `CallsReturn` | the heap stays sound for a careful client and the allocator implements `HeapContract`; no wild dereference |
| `malloc_tests` | 16384 bytes, every call of the three programs | `EveryTestEnds`, violated | `simpletest2` stops in its last `MyMalloc`, on an empty list |
| `malloc_stale` | 224 bytes | `FreeIsFree`, violated | a stale left link leaves a live block on the list |
| `shell` | inputs of up to 3 lines of any kind, 2 to a `read`, no seek | `TypeOK` `Foreground` `FailuresReported` `ContractSpec` `ShellEnds` | every program once, in order, in its directory and with its redirection; the failures reported and no others |
| `shell_script` | the same from a file | `RunOnce`, violated | a child's `exit()` moves the shared offset back |
| `thread_server` | 3 clients, one of them frail, 2 messages, 2 descriptors | `TypeOK` `OneThreadPerConnection` `ContractSpec` | late arguments, reused descriptors and broken connections do no harm |
| `fork_server` | 2 clients, both frail, 3 messages, a process for each | `TypeOK` `NoSocketLeak` `ContractSpec` | every copy of a socket is closed, and only then is a client done |
| `fork_zombies` | 1 process | `NoneDropped`, violated | a fork that fails drops an unbroken connection unread |
| `web_client` | replies of up to 9 bytes, buffers of 3 and 4 | `TypeOK` `StreamInOrder` `PageFits` `PageIsBody` `LinesSpec` `ReplyEnds` | pieces, interrupts and refills do not change the lines or the page |
| `file_readers` | my-wc: 6 characters, 2 failed reads; fetch: up to 9 bytes, 2 more written, an `int` of at most 3; my-cat: a file of 5 bytes or 4 of one, a buffer of 4, `CHAR_MAX` 3 | `TypeOK` `CountsMatch` `FetchTypeOK` `PageWasThere` `FetchEndsHere` `CopiesFiles` | the counts are those of a definition over the whole text; fetch returns what was in the file, and ends; my-cat prints its files whole |

**Bounds.**  Four threads are the fewest in which the thread after the next one is neither
the first nor the last, and five words more than one lap.  The heaps hold
three blocks of the smaller size and one or two of the larger, which is the least that has
a block split inside the list, exact fits, remainders of 0 and 8 bytes and
merges on both sides.  Three lines with two to a `read` make the
buffer run dry between lines.  Three clients on two descriptors make a descriptor
change hands while another thread is reading, and exhaust them.  The
buffer of 3 bytes and the line of 4 are crossed by replies of 9 in every phase.
Six characters hold two lines of two words, and a failed read can fall anywhere in them.
An `int` of at most 3 makes of the lengths from 0 to 9 every size it has,
negative ones too, and of 8 and 9 small ones again; three bytes are read in up to three
pieces, with the file cut and grown again between them.  Five bytes need two pieces of a buffer of four, and four
arguments are more than a `char` of at most 3 can count.  Three messages let a read end
inside what one write sent and the next one merge the rest with another write;
the thread server, whose three clients already give it 326 587 states, has two, and
one client whose connection breaks: it meets the sessions of the other two in every order.
The violation runs use the smallest instance that shows the behaviour.

**Deadlock** is checked for the allocator, where it means a wild pointer.
The other systems come to rest: a program that has ended, clients that stay away.

**Fairness.**  Each thread, process or call under way goes on when it can
(`WF` of its steps), which is what a preemptive scheduler gives.  Nothing is
assumed of the mutex beyond that: a thread that keeps losing it to a rival is
not promised it.  `fetch` goes on when a call can succeed, a `read` has nothing to
give or the size is negative; that calls fail is not relied on.  A test program is one thread and goes
on.  Clients, the network, the peer, those who write to files and signals owe nothing, except that
spurious wakeups of the ring stop at some point (`FewSpuriousWakeups`).
Programs started by the shell end.

## Proofs

`ReadWordThreadProofs` proves for every number of threads, every set of files,
and every schedule:

- `TypeCorrect`, `PrintedInRingOrder`, `OneTurnAtATime`, `NoWakeupIsLost` and
  `ExitLeavesNoneBehind`: the five invariants of `ring`.

The assumptions are that there is at least one thread and that files are of the
form above.  `RingOrder` is not inductive: that the next word is
printed by the next thread depends on who has had a turn, whose flag is up and
how far the file has been read.  `IInv` adds four parts.  `LockInv`: the owner
of the mutex is the one thread in a critical section.  `BornInv`: threads main has not
created are at rest.  `RingInv`: before end of file the number of words printed
fixes where every thread is, which flag may be up and the position in the
file.  `EofInv`: once end of file has been met, the thread about to release
all others exists until everyone has been released.  Each action gets its step
in one lemma per part; `Inductive` puts them together.

`WebClientProofs` proves for every buffer size, every reply, every request and
every way the reply is cut up by the network and by signals:

- `ClientTypeCorrect`, `NothingLost` (`StreamInOrder`), `PageNeverOverflows`
  (`PageFits`);
- `PageIsTheBody` (`PageIsBody`), when every header line fits the line buffer
  (`HeaderFits`): a longer one is cut, and its "\r\n" would end the header early;
- `RioGivesLines` (`LinesSpec`): `Rio` implements `LineReader`.

The assumptions are a read buffer of at least a byte and a line buffer of at
least two.  `StreamInOrder` speaks of the line and of `rio_buf` but not of where
the loop stops, so `RioInv` adds two parts.  `Unfinished`: a line under way has
no newline in it and room for a byte and the `'\0'`.  `Counted`: what a call
returns is never below what it has read (it may be one above), which is what
`PageFits` rests on.  For the refinement, `FirstEnd` and `TakenLine` say that a
line without an inner end which ends where `RioInv` says is the one LineReader's
`EndOfLine` gives; every other step changes nothing LineReader can see.  The
first part of the module takes the steps of `Rio`, the second composes them with
the client's.  The last one is about the page: `Ending` says where in the reply a
call of `rio_readlineb` can stop, and `PageInv` where the loop over the headers has come
to, which is at the start of a line before the empty one, and what the loop
over the body has put in the page by then.

`MyMallocProofs` proves for every size of the heap, any number of pointers, any
requests and any data:

- `HeapTypeCorrect`, for every client, careful or not (`Spec`);
- for a careful one `FreeStaysFree` (`FreeIsFree`), `ListStaysSorted` (`Sorted`),
  `CallsStayInside` (`InsideHeap`), `DataStaysUntouched` (`DataUntouched`);
- `HeapServes`: every step is one of `HeapContract` or changes nothing a client can see.
  This is the safety part of `ContractSpec`; that a request is answered stays with TLC.

The assumptions are that the heap is aligned, a number of words and not at the
bottom of memory, and that requests are numbers.  No invariant of the run is
inductive: that a split leaves the free list apart from the client's blocks needs
the list sorted, which needs all blocks apart.  `HeapInv` says so at once, of the free
blocks, the client's and the one `MyFree` is about to insert (`Blocks`), and that the
free ones are those of a sorted list (`Listed`).  `Held` gives the client's blocks
the size they were asked for; `Scanning` and `Inserting` keep a walk on the list and what the
client took care of true until the call ends.  `FreeBlocks` is defined by following links,
so half of the module shows that it is the set one expects: `ListIs`, that a
sorted list reaches all of its blocks in as many steps as the heap has room for headers, and a
lemma for each way MyMalloc and MyFree change links.

`ShellProofs` proves for every set of inputs and every size of stdio's buffer:

- `ShellTypeCorrect` and `RunsInForeground` (`Foreground`), from a file too;
- `ReportsFailures` (`FailuresReported`) when the input cannot be sought in, for all the
  lines that did get a process;
- `RunsThePrograms`, under the same assumption: every step of the shell is a step of
  `Interpreter` or changes nothing it can see, whichever forks fail.  This is the safety
  part of `ContractSpec`; that the last program is reached stays with TLC.

`IInv` has three parts beside the types.  `Places`: where the shell and its child can be
together, which is `Foreground` and what becomes of a line of spaces and of `exit`.
`Told`, if nothing is given back to the input: the offset stays with the buffer, so a line is
taken once, what was run was taken before, and the lines reported are those settled
that failed (`Reported`), the line of a `cd` from the moment it is refused (`CdFailed`).  `Ran`: all programs before the line under way have run or no
process could be created for them, no `exit` came before it, and the working directory is
that of the last `cd` the shell has got to.  `InTurn` concludes that a line whose child has
it in hand is the least one `Interpreter` has pending.

`ThreadServerProofs` and `ForkServerProofs` prove for every number of clients,
messages, descriptors, threads and processes:

- `ThreadTypeCorrect`, `OneThreadEach` (`OneThreadPerConnection`);
- `ForkTypeCorrect`, `NoSocketLeaks` (`NoSocketLeak`);
- `ThreadServes`: every step of the multi-threaded server is a step of `EchoService` or
  changes nothing a client can see, even when threads cannot be created, when
  `accept` fails and when SIGINT ends it;
- `ForkServes`: the same of the multi-process server while no fork fails
  (`ForkSucceeds`, as a premise that must hold in every state): when one fails the
  connection is dropped unread, as the run `fork_zombies` shows.

The two refinements are the safety part of `ContractSpec`; that every client is served and
heard while the server is up stays with TLC.  They take more than the invariants.
`HeardInv` says that what was printed of a connection is what was read of it but for what
one reader has in its buffer, so a print is the contract's `Hear` and an end of file
finds everything heard; a connection that has broken stays so, and may be let go
with the rest unheard.  `ConnInv` gives a connection one descriptor at most, so
closing it lets the client go.  `Handed` says that a connection the parent is about to
close is held by its child, was read to its end by it or has broken (`Finished`), so it does not matter which
of the two closes last.

Both modules assume that `Nobody` is no client.  `EchoNetProofs` has what they share: a
client is in the queue at most once and only once connected, so one that has been
accepted does not come back.  For the threads, what is added is that a working
thread's descriptor is open and its own (`SocketsOpen`, `SocketsApart`) and that the one
main has just been given is nobody's yet (`MainSock`), although a thread reads its
argument late.  For the processes, that a child has its socket from fork to exit
(`ChildSock`), the parent its own only while it forks (`ParentSock`), and that a
connection somebody holds has left the queue (`HeldOnce`).

`FileReadersProofs` proves, of `my-wc`, for every file and every pattern of failed reads:

- `CountTypeCorrect` and `CountsAreRight` (`CountsMatch`).

`FlagsMatch` ties `insideWord`, `newLine` and `ent` to the characters seen:
without it nothing says that a word or a line is counted where it starts, or
that the character a failed read repeats counts no word again.  `WordsGrow` and
`TextsGrow` say by how much the reference counts grow with one more character.

Of `fetch`, for files of every size and any `INT_MAX`, under any truncations and writes:

- `FetchTypeCorrect` (`FetchTypeOK`) and `ReturnedPageWasThere` (`PageWasThere`).

The assumptions are that the bounds are numbers.  `InStep` keeps the file offset with
the part of the page that is filled, and `FilledHeld` says of every filled byte that
the file has held it at its place since it was opened.

And of `my-cat`, for any arguments, every size of the buffer and every range of a `char`:

- `FilesAreCopied` (`CopiesFiles`).

`SoFar` is what has been printed while a file is read: all files before it and what
shows of the bytes read.  It is kept because a piece `fgets` gives begins a line, unless
the file has no `'\0'` or fits the buffer (`LineStarts`), so what `"%s"` hides of the piece
is what is hidden in the line.

Only model-checked: all liveness (`OneRoundIsPrinted`, `ShortFileTerminates`,
`ShellEnds`, `CallsReturn`, `ReplyEnds`, `FetchEndsHere` and the fairness in the
contracts), which is beyond the prover.  Every invariant and every action
property of a passing run is proved.  `LinesSpec` is proved as it stands; of the
other contracts (`ContractSpec`) what is proved is the steps.

## Plan

1. The allocator: which sequences of calls keep `LinkedBack` and `BufferTells` true
   (a client that frees nothing inside the list, say), as a theorem about them.
2. stdout's buffer in `Shell`, for the prompt that appears twice.

## Not modelled

`crawler.c` (a stub that returns -1).  `process_learn.c` and `socket_learn.c`: one
fork and one wait, one accept, read and write, most of both files
commented out.  The straight-line programs of `randLearn`.
`testnocompact.c`, for want of its allocator.  `rio_readn`, `rio_readnb` and
`open_listenfd`, which nobody calls.  Set-up of sockets before `listen`
succeeds, host names and addresses, binaries and test data.
