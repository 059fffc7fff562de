# Verification of samplecodes

TLA+ models, TLC runs and TLAPS proofs for the programs of this repository that keep state over
which several processes act.

## 1. Inventory

The repository is a collection of some 2400 sample files: exercises in C, C++, Java, Python and
JavaScript, notebooks, copies of third-party programs, and the programs of *Advanced Programming in
the UNIX Environment* under `src_C/CDemoCodes/apue` (below: `apue/`). Most files demonstrate one
library call. The programs with a state worth modelling are these.

| component | state | operations | interaction | hard behaviour |
|---|---|---|---|---|
| Database library, `apue/db.lock.fine`, `apue/lib.44/lockreg.c` | index file (free list, hash chains, records), data file; per process a `DB` structure and fcntl() locks | `db_fetch` `db_store` `db_delete`; `db_rewind` `db_nextrec`; `db_open` `db_close` | processes share the two files and lock one byte per list | interleaved list updates, appends, reuse of freed records, crashes, pointers that no longer fit, a cursor that is a file offset |
| Semaphore library, `apue/lib.44/semaph.c` | a System V set: value, process counter, lock; undo adjustments in the kernel | `sem_create` `sem_open` `sem_wait` `sem_signal` `sem_close` `sem_rm` | processes share the set by its key | initialisation race, removal under users, exits without a close, removal while asleep |
| Shared memory example, `src_C/server.cpp`, `src_C/client.cpp` | a set of two semaphores, a segment | server: create, receive, release, remove; client: look up, acquire, write, release | server and clients share set and segment | who may use the segment when, removal under clients, a client killed while it writes |
| Echo server, `src_C/socket.srv.poll.c` | table of descriptors | accept, receive and echo, close, compress | clients over sockets | the table at its limit, compression, time-out |
| Printer daemon lprps, `apue/printer` | output buffer, input automaton, signal flags | send, interrupt, alarm, status | printer on a line, signals | flags tested before `select()`, alarm during a blocking write |
| Call server calld, `apue/calld` | client table, device locks, children | accept, request, child's end, close | clients over stream pipes, dialing children, SIGCHLD | stale process ids, coalesced signals, the flag and `select()` |
| Open servers, `apue/opend` | client table | accept, request, close | as calld, without children | little: one thread, no signals |
| `apue/lib.44/tellwait.c` | a flag, the signal mask | TELL/WAIT parent and child | two processes, signals | signal before wait (part of `Calld`) |

What makes each of them correct: the database is a map on which the three functions act atomically,
a scan finds what is there, and a crash harms no more than what it interrupted; the semaphore is
initialised once and exists while somebody uses it; the shared segment has one writer at a time and
the message written last is not missed; the echo server serves every open connection and only those; the
printer daemon charges a user for what was printed, leaves the line empty for the next job and
forwards all that the printer reports; a calld device is locked while a child or a client uses it and
never for good, and no caller is forgotten, except by way of what was left in an entry (section 6).

Not modelled, and why, is in section 11 and, component by component, in `PROJECT.json`, where the
hazards of the code are listed at their lines.

## 2. Modules

| module | what it is |
|---|---|
| `KVStore` | what the database functions promise: a map with atomic fetch, store, delete |
| `Db` | the code of the three functions: files, locks, one action per access |
| `DbProps` | the properties of `Db`; `MCDb` gives it values |
| `DbProof` | theorems about `Db` for every value of its constants: types, locks, appends, what the lists in the index file hold, and that it implements `KVStore` |
| `DbScan` | `Db` with one process that also scans; `MCDbScan`; theorems in `DbViewProof` |
| `DbCrash` | `Db` with processes that are killed; `MCDbCrash`; theorems in `DbCrashProof` |
| `DbOpen` | `Db` with processes that open, create, empty and close the files; `MCDbOpen`; theorems in `DbViewProof` |
| `Sem` | the semaphore library; `MCSem`; theorems in `SemProof` |
| `Shm` | the shared memory server and its clients; `MCShm`; theorems in `ShmProof` |
| `Calld` | the call server, its signal handler, its children and clients; `MCCalld`; theorems in `CalldProof` |
| `LprpsInput` | the automaton that separates messages from output |
| `Lprps` | the printer daemon with its line, its printer and its signals; `MCLprps`; theorems in `LprpsProof` |
| `PollServer` | the echo server on `poll()` with its clients; checked as it is; theorems in `PollServerProof` |

`Db` implements `KVStore` (`Abs == INSTANCE KVStore WITH ...`, property `Linearizable`); `DbScan`,
`DbCrash` and `DbOpen` extend `Db` and reuse its actions unchanged; `DbCrash` adds a history to each step
(`Follow`) that no action reads. Definitions that start with `BUG` are
mistakes the code does not make; nothing uses them but tests of the properties, which put one in
the place of the right definition and expect the property to fail.

## 3. The database library

### Correspondence

`table`, `idx` and `dat` are the files: the pointers at the front of the index file, its records,
and the data records. Offsets count fields instead of bytes (free list pointer at 0, chain
pointers at `1..NHASH`, record *i* at `NHASH + i`), which keeps what the code depends on: 0 ends a
list, a pointer field and a record have different offsets, an append is at the end. `db[p]` is the
part of the `DB` structure that survives a function call (`ptroff`, `idxoff`, `datoff`, `datlen`,
`ptrval`), `loc[p]` the locals (`saveoffset`, `saveptr`, `freeptr`, ...), `lock[r][p]` the fcntl()
locks, by region: the first byte of the free list pointer and of every chain pointer, the index file
behind the hash table, the data file. `pc[p]` names the function and its next access to a file or a
lock. The actions follow the functions in the order of their lines: `Find*` is `find.c`, `Del*`
`dodelete.c`, `Free*` `findfree.c`, `AppendDat*` and `AppendIdx*` the SEEK_END cases of `writedat.c`
and `writeidx.c`, `Store*` `store.c`. `Call` and `Unlock` begin and end a call.

A step is one lock operation, or one read or write with the `lseek()` before it. Reading an index
record takes two `read()`s in the code and one step here: the record cannot change in between, since
the list it is on is locked by the reader (the run checks exactly that as `OwnChainOnlyProp`), and
for `db_nextrec()`, which holds only the free list, because the one writer it can meet, the reuse of
a free record, puts a record of the same lengths there with a single `writev()`, whose chain pointer
`db_nextrec()` ignores. An append's `lseek()` to the end and its `write()` are two steps: their
atomicity is what the code locks for.

Abstractions: keys and data are model values with a length (`KeyLen`, `DatLen`), so that "fits" and
"same size" are decided as in the code; a freed key and its data are `BLANK`. Keys of blanks only,
data of invalid length and I/O errors do not occur (an error is the end of a process at that place,
which `DbCrash` covers). Each process has one handle. The values of a `DB` structure and of locals
that no later line reads are dead and reset, so that states do not differ by them: outside a function,
after a search that found nothing, and after the last write they were kept for.

### What the runs show

**db_core** (`MCDbSafety.cfg`): two processes, three keys of which two share a chain, data of two
lengths, five calls out of nine kinds, two chains, and `PTR_MAX = 5`, that is three index records
before a pointer no longer fits. Five calls are what it takes to put two records of different sizes
on the free list, to take the second of them and to do so against another process; three keys are a
record with a predecessor on its own chain and one on another chain. 680000 states.

- `LockDiscipline`: the locks of a process are those its place calls for, on every path.
- `ChainsHoldMap`, `ListsDisjoint`, `NoLeak`: unlocked chains hold each key once with its current
  data, no record is on two lists, none is lost.
- `DataFits`: no reused record has its data written over a neighbour's.
- `UnlinkIsCurrent`: the pointer offset found earlier still points at the record when it is unlinked
  ("We're guaranteed that db->ptroff ...", `find.c:44`).
- `AppendAtEnd`: the write of an append is at the end of the file.
- `OwnChainOnlyProp`: what a process sees on its locked chain changes by its own steps only.
- `Linearizable`: `Db` implements `KVStore`. The effect takes place at the unlock of the chain; `kv`
  is the history variable. A store whose pointer does not fit (`writeptr.c:11`) ends its process and
  may lose the key it was replacing, and `KVStore!Quit` says no more than that.

**db_open** (`MCDbOpen.cfg`): the two processes start with the files closed, or absent, and open them
up to three times with no flag, with O_CREAT or with O_CREAT and O_TRUNC, and make four calls in
between. `exists` and `hdr` say which files exist and whether the index file begins with its
pointers; `open.lock` is the lock on the whole index file, which excludes, and is excluded by, every
lock on a byte of it. `ChainsHoldMap` holds also here: no initialisation is written over stored
records. `OpenIsReady`: no function reads a pointer of a file that has none, although it may be
called while the initialisation is under way; the lock of the whole file makes it wait.
`EveryFunctionEnds`: every `db_open()`, fetch, store and delete returns or ends its process; no list
walk is endless, and no lock order deadlocks.

Two guards state what callers must arrange because `open()` with O_TRUNC empties a file before any
lock: `EmptyWhenQuiet`, nobody empties the files while a function runs, and `ReadyForCalls`, nobody
calls a function before both files are emptied and the pointers are there or on their way: in the
file, or a process has the file locked to write them. (That a process is about to unlock the file is
not enough: a third one that opens it with O_TRUNC may have emptied it again, and the proof of
`OpenIsReady` depends on the difference.) Without either one TLC finds both invariants violated. (A file created without O_TRUNC is never initialised,
and the first `_db_readptr()` on it ends in `err_dump()`; the second guard excludes that, too.)

Fairness is `WF(FunctionStep(p))` for every process: the scheduler runs each process that is inside a
function, and a process in `F_SETLKW` is woken when the lock is free. Nothing makes a process call a
function. Weak fairness is enough because the number of calls is bounded: a lock that others take
and drop in turn is free for good at some moment. That a process is not starved by an endless stream
of other callers is neither assumed of the kernel nor shown.

**db_scan** (`MCDbScan.cfg`): process 1 scans while both call the other functions, four calls.
`pos` is the file offset of the scanner's descriptor, which every function called on the handle
moves; an offset inside a record is one value, `INSIDE`, from which `db_nextrec()` ends in
`err_dump()`. `NextrecReturnsStored`: a returned pair was in the database, or being stored, at a
moment of the call. `ScanComplete`: a scan whose handle is used for nothing else returns each
record nobody touched exactly once.

Both make one exception, `LeftBehind`. When a record is appended at an offset that no pointer has room
for, `db_store()` ends its process in `_db_writeptr()` after the record is written: no chain leads to
it, so for `db_fetch()` it does not exist, but `db_nextrec()` reads the file from front to back and
returns it, with a key that may be in the map with other data, or not at all. `PTR_MAX = 4` makes the
file of the run grow past the last such offset; that the exception is the only one for any `PTR_MAX`
is proved.

A handle that is also used for a fetch between two `db_nextrec()` (`mixed`) is not complete: the
fetch moves the file offset, and the scan skips records that are there. The comment of `nextrec.c:3`
asks for no more than a `db_rewind()` before the first call.

**db_crash** (`MCDbCrash.cfg`): four calls, one kill anywhere inside a call; the dead process's
place is taken by a new one. What a kill costs is in `KvAfterCrash`. Between the write of the blank data and
that of the index record of a deletion it leaves the key with blank data; between the removal of an old
record and the last write of a store it leaves the key with no record. Between the write of the
index record and the last write of a deletion, that of the chain pointer (`Tearing`, the two gaps before and
after the write of the free list pointer, `dodelete.c:43-46` and `46-53`), it tears the chain: the pointer that led to the record leads into the free list,
and later into chains that take records from there, and the keys behind the record are cut off
(`CutOff`). The history variables `astray` and `lost` follow that pointer: which offsets of the chain
lead off it, as later writes copy or overwrite the pointer, and which processes have gone behind one
or are about to write a copy of one. No guard reads them.

`CrashContained`: all chains, the torn one too, keep exactly the keys and data that the map has left, since
whatever a store puts on the torn chain later is in front of the pointer that leads astray.
`FreeListSound`: a free record is still handed out once. The search for a key that the torn chain does not
hold goes on behind the pointer. It finds nothing there, but whether it ends is not promised: with the
record both on the chain and free, its reuse in the same chain makes a cycle.

One kill is not only the bound of the run but the limit of the promise (`crashes <= 1`). A second
kill, on another chain, can destroy a third one that was never touched. The attempt to prove the
properties for any number of kills led to the following history, which TLC confirms from a state with
record X on chain 1, one record on chain 3 and the free records Y, Z. The deletion of X is killed before
its last write: X is on the free list, before Y, and still on chain 1. A store on chain 3 takes X off
the free list and waits. A store on chain 2 takes Y, to which X still points; another one appends G, and
the deletion of G is killed when G is blank: chain 2 leads to G and Z, no longer to Y. A store on chain 1
takes Z and puts it before X. A deletion on chain 2 now reaches Y after all, over G, Z and X, and
remembers that X points to it. The waiting store puts X on chain 3; the deletion then unlinks Y by
writing into X, and what was behind X on chain 3 is lost. If X has been deleted again by then, the
free list is led into chain 2.

## 4. The semaphore library

`sem` is the set (`val`, `count`, `lock` for members 0, 1, 2), `undo[p]` the kernel's adjustments,
`gen` and `live` the identifier of the set under the key and whether it exists, `id[p]` the set a
process has. One step is one system call; `pc[p]` names it. `Op` builds the operation arrays of
lines 50-82, all with SEM_UNDO but for the waits for 0. The kernel is modelled from the library's
use of it: `Semop` is atomic, `Sleep` marks a process that is blocked (removal then means EIDRM, not
EINVAL), `Setval` clears adjustments, `Exit` applies them. Every error ends the process, with undo.
The semaphore is that of a critical section (initial value 1, a process signals after it waited).

**sem** (`MCSem.cfg`): three processes, one a server that ends with `sem_rm()`, two generations of
the set, one exit without a close. With `BIGCOUNT = 4` the counter never reaches 0 by use, as with
10000 in the code. `LockHeld`, `CounterCorrect`, `CriticalSection`: lock, counter and value are what
the places of the processes say, through initialisation races, removals and exits.
`CreatorsKeepIt`: `sem_close()` never removes the set under a process that has it from
`sem_create()`. Three processes are what it takes to have one closing, one initialising or opening,
and one dying. Deadlock is checked; the states in which a process waits in `sem_open()` for a
creator that died before it initialised the set are ends the code has (`Abandoned`).

**sem_open**, **sem_create** (no server): `UsersKeepIt` fails for a process that comes by
`sem_open()` between the GETVAL and the IPC_RMID of a close, and `CreateSucceeds` fails when the set
is removed while `sem_create()` sleeps: that is EIDRM, and only EINVAL is tried again.

## 5. The shared memory example

`inuse` and `changed` are the two semaphores, `semid[c]` and `shmid[c]` what a client has looked up,
numbered by the run of the server that created them. Steps are system calls and the two accesses to the
segment, the `strcpy()` of a client (`ClientWrite`) and the `printf()` of the server (`ServerPrint`). As
history, `text` is the client whose message the segment holds and `printed` has those whose message
was printed. An access is one step: all texts are the same in the code, so a copy that is read
half-written does not differ from the one it overwrites.

**shm** (`MCShm.cfg`): four clients, two runs of the server with two messages each, one client
killed between its two `semop()` calls: enough clients to have one writing, one waiting, one before
the lookup and one left over for the second run. `UsersCounted`: semaphore 0 is the number of users.
`NewestReceived`: semaphore 1 is the number of signals not yet received, and the message written last is
not missed: once its client has told the server, it is printed, being printed, or the next to be.
`OneWriter`: no two clients write, and a client that writes has the
segment of the server that is running; this depends on the server initialising the set before it
creates the segment, and on the client looking them up in the same order. `ClientsEnd`: a client
that waits for the segment ends, unless a client was killed while it had it. Weak fairness of the
server's and each client's steps is the scheduler; starting the server and killing a client are not
fair. The system may stop (clients without a server), so deadlock is not checked.

The comment of `server.cpp:88` calls a 1 in semaphore 0 "used", and clients wait for a 0. The server
does not: it may print while a second client is between its two calls, and the semaphore is 2 then.
`UsersCounted` says exactly that. Nor does a client wait for the server to have read what is in the
segment: it waits for semaphore 0 only (`client.cpp:102-121`). A second client may write over the message
of the first before the server has received it; semaphore 1 is then 2, against the comments of
`server.cpp:91-94` and `140-142`, the first message is lost and the second one received twice. So no
property says that every message is received, or that none is received twice; `NewestReceived` is what
the code gives.

The server is not killed. A server killed at any point leaves the set behind and every later server
fails at `IPC_EXCL`.

## 6. The call server

`slot` is the `client[]` array (the options of a client are abstracted to the system it wants),
`lock` the table of `lock.c`, `chld_flag` the flag, `pending` the one bit the kernel keeps for
SIGCHLD. `pc`, `cur` and `ret` say where the daemon is in `loop()`, `child_done()` (`again`,
`child`) and `request()`, which both call. `Systems` gives, for each system, the devices that the
lines of the Systems file lead to; a line for which `dev_find()` finds nothing is `NoDevice`.
`child` holds the children in the order of their `fork()`, `cli`, `answer` and `unread` the clients
and their stream pipes.

A step of the daemon ends where a signal can make a difference: between the test of the flag and
`select()`, in `select()`, at each entry of the two loops, between `fork()` and `lock_set()`, and in
`child_done()` between looking at `childdone` (`ChildFound`) and resetting it (`Connected`, `Retry`).
The handler `sig_chld(p)` is one step, since nothing of the daemon runs beside it; `\E p` is the choice
`waitpid(-1)` makes. In `select()` it causes EINTR, anywhere else the daemon goes on. A child runs
once `LockSet` has told it to (`TELL_WAIT`, `WAIT_PARENT`, `TELL_CHILD`). Pids are not used twice.

`client_del()` resets only `fd`, so the model keeps the stale `pid`, `childdone` and `sysftell` of an
entry, which decide what the handler finds. Nor do `malloc()` and `realloc()` clear new entries:
`Garbage` is a set of records that say what an entry may hold but for `fd`, and each entry starts with
any of them. A pid of `Garbage` is any natural number, and a `sysftell` below 0 is -1, for which
`sys_posn()` fails as it does for every offset that is none. All entries exist from the start; in the
code they come by the `NALLOC`, but an entry that is not allocated yet is as one nobody has used. A
client may leave before it has an answer (`Impatient`), as one does that is interrupted. A child whose
client has gone is killed by SIGPIPE when it writes, except that it exits with 1 when its message is
empty.

An entry that is not cleared can mislead the daemon about the client it is for now, and then the
daemon does for that client what it should not. The history variable `misled` has the clients this has
happened to. There are three ways:

- `child_done()` calls for a client whose request has not been read, because `childdone` was 2 in its
  entry (`Retry`; memory that is not clear, or the failed child of a former client). When the request
  comes the client has two children at once.
- Between the reading of the request, which resets `childdone`, and `fork()`, which replaces the pid,
  the handler writes the status of a former client's child to the entry (`sig_chld`). The client is
  then tried again while its first child dials, or `child_done()` finds a 1, the client's own child
  fails before it resets that, and the failure is lost: the client waits for ever.
- The entry's child gets a pid that another entry has held from the beginning (`Fork`), and its status
  may go there.

The second takes no more than a client that has its device and leaves before the status of its child
has been collected: it happens also when memory is clear and everybody is patient. The properties say
that nothing happens to anybody else: they are about clients not in `misled` and children `Sound`,
those of such clients, whoever leaves when.

**calld** (`MCCalld.cfg`): three clients over two devices. One calls a system with a line on each
device, one a system with a line on the second device and a line without a device, one a system
without a line: two clients compete for the second device, a retry finds it free or locked, the third
gets its error at once, and an entry is used again while another call is placed. The first two may
leave at any time (`Impatient`), and every entry starts as if a child with pid 3 had failed in it
(`Garbage`): the third child of a run has that pid. `UseIsLocked`: a device in use is locked for who
uses it. When a client leaves while its child dials, the device is released under the child
(`loop.c:77`): for the child of such a client nothing is claimed. `LockOwned`: no device is locked for
good. `NotForgotten`: a client that waits has a child or a failure still to be seen.
`FailuresNoticed`: the flag protocol loses no failure, for any moment of the signal. `CallsInOrder`: a
client's children dial one after another on later and later lines. If `ReadRequest` did not reset
`childdone`, the first, third and fourth would fail. The system may stop (every client answered, or a
forgotten one waiting), so deadlock is not checked. The daemon can end itself: a client that leaves as
soon as it has its device, and a new one in its entry, make `client_sigchld()` search for a pid that
is no longer there and call `log_quit()`; and a daemon that writes to a client that has gone is killed
by SIGPIPE (`pc = "dead"`). The properties are about a daemon that runs.

**calld_lost** (`MCCalldLost.cfg`): `StatusFound` fails when two children end before the handler
runs. Fair are the daemon, the delivery of a pending signal, and the end of what the children do;
clients need not do anything.

## 7. The printer daemon

`LprpsInput` is the `switch` of `input.c` as a function `parse(a, c)` on the state of the automaton,
with `taken`, what it is done with, as history. A pair `key: val` counts as one character: its
spelling matters to nobody but `strtok()`.

`Lprps` runs one job. `pc` names the next system call by function: `status.*`, `page.*`, `send.*`,
`intr.*`, `flush.*`, `acct`. Functions that do not return take over `pc`, also from inside a loop of
another one, as `handle_intr()`, `handle_alrm()` and `printer_flushing()` do. The line is a queue of
`OQ` writes to the printer and one of `IQ` characters from it, both emptied by `tty_flush()`.
`polling` is the gap between the test of the flags and `select()`. The printer is modelled from what
`getstatus.c`, `pagecount.c` and `message.c` expect of it: it answers Control-T with its status, the
query with its page count, an end of file with one of its own; after an error or Control-C it says
`Flushing` and ignores the job up to the end of file; it sends a text of the job, which may look like
a page count and may hold ends of file (`Texts`), at any time; a Control-D in the job itself, which
`send_file()` does not keep from the line, it takes for the end of file; and it may stop for ever
(`PrinterDies`). `printer.forged` is history: the job has made the printer send an end of file. It begins idle, busy, waiting
or flushing, whatever the job before left. SIGINT and SIGALRM come between any two calls
(`SignalBetween`), in a `select()` that waits (`SignalInSelect`) and in a `write()` that waits
(`SignalInWrite`, which ends in `log_sys()`).

**lprps** (`MCLprps.cfg`): a job of four writes, queues of two, two interrupts. A queue shorter than
the job is what makes writes wait; two characters of input make messages arrive in pieces; two
interrupts are one before and one after the flag is reset.

`proc_input_char()` counts every Control-D as an end of file (`input.c:81`), also one that a job has made
the printer send. `proc_upto_eof()` then returns early: with a page count that the job forges behind the
Control-D the daemon charges that number, and an answer may be left for the next daemon. So the next
three hold until a job does that (`~printer.forged`), and the model has the histories in which they fail
afterwards; one of `MCTexts` is a page count between two ends of file.

- `PagesCharged`: an exit with success charges the pages printed, through errors, interrupts and
  page counts forged by the job.
- `JobDelivered`: the flush that begins `get_page()` never discards a part of the job.
- `LineInSync`: after success nothing is left on the line that the next daemon could take for an
  answer to itself.
- `TimeoutReprints`: an alarm never falls into a write that waits, so that "printer not responding"
  always means EXIT_REPRINT. It holds because each `set_alrm()` is followed by a flush and at most
  two writes before the next read, and the line takes two (`OQ` is assumed to be at least 2).
- `NothingLost`: over any number of reads, what has arrived during a job is mailed, or in a message,
  or undecided, in its order. What `msgbuf` has no room for is cut by the code; the history drops it.
- `OutputNeverBlocks`: `out_buf()` gets the job out whatever the printer sends first, as long as
  the printer works. Fair are the daemon and the printer; signals, timers and the printer's death
  are not. Its end is the success of `out_buf()` or one of the exits from it.

What the model also shows, of which no property speaks: a signal between the test of the flags and
`select()` (`input.c:52`) waits for the printer's next output, and while a job is sent no timer runs;
SIGINT that meets the waiting `write()` of the end of file (`sendfile.c:15`) ends the job with
EXIT_THROW_AWAY, without the Control-C and the accounting that `acct.c:3` and `interrupt.c:34`
promise for an interrupt; that `write()` is the one place where the daemon waits without reading;
SIGINT before `set_intr()` kills the daemon. Standard input is a file: `getchar()` does not wait.
Deadlock is not checked: the daemon ends, and with a dead printer and no timer it waits.

## 8. The echo server

`fds` holds the descriptors of `fds[0..nfds-1]`, `revents` those of the last `poll()`, `i` the entry
the scan is at (from 1), `sock` the connections by descriptor and `queue` those that wait for
`accept()`. A connection is free, open, closed by its client (an end of file after what is unread) or
reset; `accept()` gives the lowest free number, of `N`. `Squeeze` is the compression as written: an
entry that is removed brings the next one to its place, which is not looked at, so that of
neighbouring -1 entries every second one stays.

**poll** (`MCPollServer.cfg`): two descriptors, two messages on each connection, two connections
waiting. (The properties also hold with `N = 3`, one message and one waiting connection, in 7 million
states, which takes too long for a run of every day.) `TableSound`: each open connection has exactly
one entry and no closed number has one, so the POLLNVAL branch (`ScanNext`) is never taken.
`TableBound`: the table never grows beyond `2 * N` entries, a bound that is reached: for up to
MAXCONN / 2 connections the missing test of `nfds` does no harm. `Served`: whoever waits is
accepted, and what a connected client sends is received, unless the server ends. Weak fairness of
the server is the scheduler; clients owe nothing. That a client which never stops sending keeps the
others waiting, because `recv()` is called until nothing is left, is excluded by `MaxMsgs`.
The server stops after its time-out, so deadlock is not checked.

Assumed: accepted sockets do not block, as on the system this was written for, where they inherit it
from the listening socket; with blocking ones the second `recv()` would wait for the client. The
server ends when a connection in the queue was aborted or descriptors run out (`AcceptFails`), and
is killed by SIGPIPE when it sends to a connection that was reset (`SendKills`); POLLHUP drops what
was not read. These are in the model as ends the code has. The branch for POLLOUT cannot be reached
(`events` is always POLLIN), and the contents of the echo are left out.

## 9. What is proved

`DbProof` proves about `Db`, for any processes, keys, chains, requests, PTR_MAX and number of calls,
from `DbAssumption` alone (the types of the constants):

1. `ControlInvariant`: `Spec => []Control`. `Control` says that each process is at a place its call
   can reach, and that its locks are those of the place (`LockDiscipline`). It is inductive by
   itself; the lock part is reduced to one lemma per lock operation (`TakeWrite`, `TakeRead`, `Drop`).
2. `LocksDisciplined`: `Spec => []LockDiscipline`, a conjunct of it.
3. `FileInvariant`: `Spec => []FileInv`. `TypeOK` is not inductive: that a pointer read from a file
   fits its field needs that every pointer stored anywhere, in a file or in a process, is 0 or the
   offset of an existing record within PTR_MAX, or of the record its owner has just appended.
   `FileInv` says so, place by place (`LocalOK`), with `Control` as context: that `Len(idx)` cannot
   grow between another process's seek and write follows from the exclusive lock on the end of the
   file. `OthersOK` shows that a step of one process keeps what the others remember, since files only
   grow.
4. `TypeCorrect` (`TypeOK`) and `AppendsAtEnd` (`AppendAtEnd`) follow.

`TypeOK` has content here: the checks of `ptrval` in `_db_writeidx()` and in all but one call of
`_db_writeptr()` can never fail. Only the last write of `db_store()` can.

`DbProof` also proves the rest of what the run `db_core` checks, under the same assumption: `Implements`
(`Spec => Linearizable`), `ChainsHoldTheMap`, `ListsAreDisjoint`, `NothingLeaks`, `DataAlwaysFits`,
`UnlinksAreCurrent` and the action property `ChainsAreKept`. All follow from one inductive invariant,
`MapInvariant`, `Spec => []MapInv`, because none of them is inductive: between the three writes of
`_db_dodelete()` the lists are not lists, and what happens next depends on what the process has read
many steps before.

- The lists. `MapInv` says that there are two functions on offsets, `own` (the head of the list an
  offset is on, or `Nowhere`) and `dep` (a number that grows along a list), such that every pointer
  leads to the next offset of its list (`Pointers`, with `Follows`), except those that a process in
  `_db_dodelete()` is about to write (`Pending`). A write changes `own` and `dep` in one place: the
  record that `db_store()` or `_db_dodelete()` has just filled becomes the first of its list
  (`PutFirst`; in a deletion it moves from chain to free list at the write of the index record, and
  both pointers are then pending), and `_db_findfree()` takes one off (`TakeOff`). No step speaks
  of reachability.
- The map. `Keyed` (a record is on the chain of its key, once) and `MapShown` (a key that nobody is
  changing has the data of the map) tie the lists to `kv`; `Busy` is from the first write of a call,
  or the decision that makes it, to the return.
- The processes. `At` says, step by step, what a process knows of the lists that it has locked:
  `Finding` is the loop invariant of `_db_find()` (the key is not in the part already passed),
  `Searching` that of `_db_findfree()`, `AtRecord`, `Saved`, `Freed`, `Unlinking`, `Heading`,
  `Taking`, `Reusing` and `Written` are about the offsets and pointers in the DB structure and the
  locals, and `Replying` and `Done` about the result.
- The frame. Every write goes to lists its process has write locked (`Owns`), so what the others know
  stays true (`OthersAt`, `Apart`, from `Exclusive`): this is where the locks are used, once.

The properties speak of `List`, which a recursive function computes in `Len(idx)` rounds. `ListLeast`
shows once what that is: the least set of offsets closed under the pointers, because as
long as a round adds something the set has one more element, and there are only `Len(idx)` records.
The induction is over a set of numbers (`Induction`, from `WFMin` of the library), which needs no
operator as a parameter. `ListOf` then says that on a list whose pointers are right `List` is the set
of its records. Quiet lists have right pointers (`QuietList`), which gives the invariants;
`ChainKept` uses `ListLeast` before and after a step, over a set that no other process can touch, for
`OwnChainOnlyProp`. For `Linearizable`, `Unlock` is the step at which a call takes effect, and
`Replying` says that the result, computed many steps before, is the one of the map at that step.

`DbViewProof` proves about `DbOpen`, for any number of processes and openings, `AlwaysReady`
(`OpenIsReady`) and `ChainsHoldTheMap` (`ChainsHoldMap`), without going through the code of the three
functions again. `Core` is `DbProof` with other `pc` and `lock`: `dbPc` and `dbLock` show a process
that has the database closed, or is in `db_open()`, as one that is idle and has no lock. A step of a
function is then a step of `Db` (`StepMaps`), as the lock of the whole file can only make it wait; the
other steps are none (`SamePlaces`), except those that empty a file, after which the invariants of `Db`
hold anew (`EmptyAgain`), with nothing in the map. What `OpenInv` adds is what the lock of the whole
index file is for: one process at a time looks and writes (`OpenLocks`), what it overwrites are the
pointers of an empty file (`Contents`), and a function that was called too early waits at its first
lock until it has been written (`Ready`, `StepReady`).

`DbViewProof` proves about `DbScan`, for any number of processes around the scan, `ReturnsStored`
(`NextrecReturnsStored`) and `ScansAreComplete` (`ScanComplete`), in the same way: for `Core` the
scanner is idle while it is in `db_nextrec()`, with no lock and nothing in its DB structure, so a step
of `db_nextrec()` is none of `Db` (`LurkingInv`). Two lemmas of `DbProof` carry what the lists cannot
say, since a scan reads the file and not the lists. `SeenRecord`: while nobody is between the locks of
the free list, a record that is not blank shows a key with its data in the map, or of a store in
progress, or was left behind; `ScanLock` and `NobodyFrees` are the free list lock of `db_nextrec()`,
and that it excludes every such place. `KeyStep`: a step that writes a record with a key, or blanks
one, is of a call about that key. Hence `Counted`, the invariant behind `ScanComplete`: for a key
nobody touched the scan has returned it as often as there are records with it before `pos`. At the
end `KeptKey` says that of these one, or none, is in the map and the others were left behind.

`DbCrashProof` proves about `DbCrash`, for any number of processes, keys, chains and calls, what is left of
the above when processes are killed.

- Any number of kills, anywhere: `CrashesLeaveNoDanglingPointer`. `Control` and `FileInv` stay true, with
  the locks dropped by the kernel.
- Any number of kills, none of them in a deletion between the write of the index record and that of the chain
  pointer (`Tearing`, both gaps, `dodelete.c:43-53`): `UntornFilesAreSound`. `MapInv` has
  a parameter, the records that are on no list (`left`), and a kill only adds to it: the record a store had
  taken off the free list, or had appended.
- One kill, anywhere: `OneCrashIsContained` (`CrashContained`) and `FreeListStaysSound` (`FreeListSound`).

In the last case `MapInv` is false: a record is on its chain and on the free list. The proof looks at the
state through a refinement mapping of `Db` to itself (`View`, an INSTANCE of `DbProof`). It shows 0 for every pointer in
`astray`, in the files and in the copies that processes hold, and shows a process that has gone behind one as
at the end of its chain (`vTable`, `vIdx`, `vPc`, `vDb`, `vLoc`). The files so seen are lists again, and
every step is a step of `Db` or none (`StepMaps`), so `MapInv` holds in the view and its preservation is not
proved a second time. `Torn` has what the view leaves out. `Z` are the offsets that no
pointer leads to from outside (`Unreached`): the records that the kill cut off, and those that others had
taken off the free list before it and not yet written. A record left behind on no list with its key is in
`Z`. The pointers that lead astray, and the copies of them that processes carry, lead to the other
records (`OffChain`, `Carries`), and of those every one with a key of the torn chain is on that chain, so that a
search that goes on behind it finds nothing it may not find (`StrayHit`). `TearTorn` is the kill itself:
seen through the view, it ends the chain at the record and leaves the records behind it on no list, which
`TearGood` of `DbProof` says of `Db`. At the end `ViewIsState` (before a tear) and `TornList` (what `List` finds on
the torn chain is the list of the view and records outside `Z`) give the two properties. A second
kill breaks `Unreached`: the records it cuts off may be behind the stray pointer of the first, as Y is
behind X in the history of section 3.

`ShmProof` proves about `Shm`, for any number of clients, messages, runs and kills, that the
semaphores count what they should and the newest message is not missed: `CountsUsers`,
`WritersExclude`, `ReceivesNewest`. The invariant adds to the three properties the lifetimes of set and segment (`Lifetimes`: the segment is created
after the set is initialised, so a client that has both has those of the same run) and that the
semaphores of a new set are still 0 (`NewSet`). Sets of clients are finite, and one lemma says how
the step of one client changes their cardinality.

`SemProof` proves about `Sem`, for any number of processes below BIGCOUNT, any number of sets and of
exits, `TypeCorrect`, `LockIsHeld`, `CounterCounts`, `SectionIsCritical` and `CreatorsAreKept`. The
middle three are counts over sets of processes, and an exit changes them by what the kernel
remembers, so the invariant says what that is:
`UndoCorrect`, the adjustments of a process are -1 for the lock, 1 for the counter and 1 for the
value exactly while it holds or has taken them. `Creating` is what `sem_create()` knows between its
calls because it alone has the lock (`OneLocking`): that is why SETVAL, which clears the adjustments
of everybody, clears none that is not 0. `LocalStep` is the one lemma about counting; every operation
of the library is an instance of it.
`TypeOK` and `CreatorsKeepIt` need `Bounds` besides: the value is 0 or 1 at any time, initialised or
not, because only the process that made it 0 makes it 1 again (`HolderValue`), and a creator has the
semaphore. `Moves` says what any step changes of places, ids and the set. Then `KeepStep`: from the
GETVAL of `sem_close()` to its IPC_RMID the lock keeps the others out of `create.end`, and there is
no other way to become a creator.

`CalldProof` proves about `Calld`, for any number of clients, any devices and Systems file, the five
properties of the run `calld`: `UseLocked`, `LocksOwned`, `NobodyForgotten`, `FailuresSeen`,
`LinesInOrder`. Nothing is assumed of the memory (`Garbage` is any set of records of the entry's type)
nor of the clients' patience; the exception is that of the properties, clients in `misled` (section
6). None of the five is inductive, for the daemon acts on what it left in an entry, and an entry
outlives its client. `Invariance` proves the one invariant behind them: an entry is a client's `Own`
when its pid is that of a child forked for this client. A sound child has one entry at most, and while
its call is open and its client there, this entry is its client's own (`Children`, `Entries`); so is
the entry of every lock (`LockOwned`). So `lock_rel(cliptr->pid)` releases what the client used and
nothing else, and the handler finds the right entry for every child that failed. `Marks` says what
`childdone` may be: in an entry that is its client's own it is the status of that child, once
collected, and 0 before; anything else is found only where the client has no child, because its
request is still unread or it has gone without one. `ScanRead` says that what `select()` reported
stays true until the loop comes to it. What is left in an entry of a child that passed its device on
is harmless, or ends the daemon (`Alive`).

`LprpsProof` proves about `Lprps` all five safety properties of the run, for queues of any size (the
one to the printer of at least two writes), jobs of any length and any number of interrupts:
`TimeoutMeansReprint` and `NothingIsLost` whatever a job makes the printer send, `TheJobIsDelivered`,
`PagesAreCharged` and `LineStaysInSync` as long as that holds no end of file, which is the condition the
three properties state (section 7). `LprpsAssumption` asks of the printer only what the dialogue
with it needs: it can name its states and its pages, in pairs that are not `Error`, `Flushing` or
part of the brackets. There are three layers.

- The automaton of `input.c`: it keeps its type with `msgbuf` inside its bound (`ParseType`), and a
  step loses, adds and reorders nothing while `msgbuf` has room (`Lossless`).
- Reading. `AfterRead` is a fold over as much as has arrived. `ReadOne` and `ReadTwo` prove what the
  fold of the community modules does, by induction over the length as in `DbProof`; from then on no
  proof looks inside. `MsgRead` follows a message character by character. `Ends(u, s, field, val)`
  says that `s`, read in whatever pieces, ends the loop that waits for `field` with its last
  character and the value `val`; `Stuck`, that it never ends the one for the last page count. Both
  are kept when a piece is taken off the front (`EndsChunk`, `StuckChunk`): that is why it does not
  matter where `read()` cuts an answer.
- The inductive invariant (`Inductive`), whose parts were model-checked before they were proved.
  `Alarms` is about where a timer can run and how full the line is there. `Budget` and `Job` follow
  the job, and the one end of file behind it, through the queue: an end of file that is answered
  before `get_page()` proves that the printer has taken the rest. `Job` and `Answers` hold until an
  end of file is forged; `Order` is what is left of `Job` then, and enough for `Budget`. `Honest` is `NothingLost` at any
  time. `Answers` says at every system call what is under way, and holds until the printer is
  switched off (`AnswerInv`): `AtStatus`, `AtPageStart`, `AtSend`, `AtFlush`, `AtPageEnd`, `AtEnd`.

What makes `Answers` more than a list is what comes too late. An end of file that the printer sent
for the job may be `Stale`, on the line when `handle_intr()` asks for another, so that
`proc_upto_eof()` ends one answer early and `get_page()` has an end of file before its number; the
proof shows that this is the worst case, and that the last `proc_upto_eof()` leaves nothing. A
printer that is flushing when the daemon starts can lead it through `printer_flushing()` to
`get_page(&end_page)` with no first count: the only number that comes is taken for that one, and the
daemon waits until its alarm and charges nothing (`NoStart`, `Stuck`; `Undisturbed` says that no
interrupt can come between).

`PollServerProof` proves about `PollServer`, for any number of connections, messages and waiting
clients, `TableIsSound` and `TableIsBounded`. Neither is inductive. `Scan` says what makes the events
of one `poll()` usable for a whole scan although descriptors are closed and numbers given again
meanwhile: each entry still to be looked at has the descriptor it was reported for, and only the
first is the listening socket. `Bound` is the argument about the length. All accepting of a scan
comes before its first closing, because the listening socket is at entry 1, and then fewer than `N`
entries are -1 (`~compress_array`); with at most `N` connections (`TableLen`, by counting) the table
has at most `2 * N` entries. A compression leaves at most half of the entries -1, of which there
were at most `2 * N - 1`. That half, and that no descriptor is lost or doubled, is `SqueezeIs`: one
lemma about an entry (`LookKeeps`) and an induction over the table as in `DbProof`.

Model-checked only: liveness (`EveryFunctionEnds`, `ClientsEnd`, `OutputNeverBlocks`, `Served`), which is out of the provers'
reach. Every safety property that a passing run checks is also stated by a theorem. That the deviations of
sections 3 to 8 exist (the runs that expect a violation) is shown by TLC's counterexamples and needs no proof.

## 10. Plan

Done: the database core with scan, crashes and opening; the semaphore library, the shared memory
example, the call server, the printer daemon, the echo server; proofs for `Db`, `DbScan`, `DbOpen`,
`DbCrash`, `Sem`, `Shm`, `Calld`, `Lprps` and `PollServer`. What could come next: `KVStore` with crashes, so that
`DbCrash` has an abstract specification of its own, and the open servers beside calld.

## 11. Not modelled

`_db_alloc`, statistics and the check program hold or change no shared state. The open servers of
`apue/opend` are calld's loop and table without children and signals. `socket.srv.pollset.c` uses
calls of AIX whose semantics no source here shows. Thread samples, containers, scripts and web
samples have no protocol between actors; nmon, protobuf output and JVM sources, which are most of the
repository's lines, are not this repository's own code. Key and data contents, hashing and the decimal
format of the pointers are abstracted to equality, lengths and `PTR_MAX`. The order of `sprintf()`
over its own argument in `writeidx.c:20` is taken as the forward copy compilers make of it.
