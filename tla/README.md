# Verification of cxx-pandora

The repository is a collection of study programs. There is no single system in
it; what carries logic of its own is a handful of small concurrent and
event-driven components, and two complete programs of the APUE exercise tree: a
print spooler and a record database. This directory holds TLA+ models of those,
TLC runs on small instances and TLAPS proofs for all instances.

## Inventory

| component | state | operations | interacts through | hard part |
|---|---|---|---|---|
| wait group, `utils/waitgroup/wait_group.cpp` | atomic counter, mutex, condition variable | constructor, Add, Done, Wait | shared memory of any number of threads | the counter changes outside the mutex; Done reads it twice |
| ring buffer, `dsaax/ringbuffer/main.cpp` | array, head_, tail_, full_, mutex | put, get, reset (locked); empty, full, size (unlocked) | shared memory | wrap-around, full against empty, overwriting the oldest item |
| wait-queue kernel module, `linux/wait_queue/exp1/wait_queue_proc.c` | plain int flag, read counter, wait queue, proc entry | init, exit, show, the thread's loop | flag and wait queue, no lock | lost wake-ups, overwritten flag, unloading |
| select server, `linux/socket/select/server.cpp` | slot table, maxi, maxfd, allset, rset, nready | select, accept, scan, read, write, close | TCP connections to the clients | tables kept in step by hand, descriptor reuse within a round |
| poll server, `linux/socket/poll/server.cpp` | pollfd table, maxi, nready | as above with poll | as above | revents that poll has not written |
| epoll server, `linux/socket/epoll/server.cpp` | kernel ready list and masks, event batch, one buffer | epoll_wait, accept, read, write, epoll_ctl | as above | edge triggering, one buffer for all |
| echo client, `linux/socket/*/client.cpp` | a prompt/reply loop | connect, write, readline, exit | TCP | partial lines, end or loss of the server |
| multi-threaded epoll server, `linux/socket/epoll/muti_thread_epoll.cpp` | one epoll instance per thread, a shared listening socket | as the epoll server | shared listening socket | thundering herd, blocking accept |
| print spooler, `linux/apue.3e.exs/apue3/apue.3e/printer/printd.c`, `print.c`, `util.c` | job counter and queue, worker list, configuration, spool files | main, client, printer and signal threads | mutexes, condition variable, cancellation, files that outlive the daemon | a stop between any two steps, restart, reconfiguration, an unreliable printer |
| record database, `linux/apue.3e.exs/apue3/apue.3e/db/db.c` | hash chains and a free list in an index file, a data file | db_fetch, db_store, db_delete, db_rewind, db_nextrec | files and fcntl record locks | several processes relink the same lists, a scan reads past them |

`PROJECT.json` lists every component, the ones that are left out too, and the
hazards with the line where each one bites. What makes the components correct:

- wait group: no waiter sleeps through the last Done; Wait returns only when
  the work is done, and it returns;
- ring buffer: it is a bounded queue that drops its oldest item;
- kernel module: no missed wake-up, nothing counted that was not read, every
  raised flag answered as long as the module is there, the exit request too;
- servers: the tables agree with the open connections, the server blocks only
  where it means to, every client gets its own lines back, and gets them;
- spooler: a job the user was told of survives a stop of the daemon and is
  printed, a refused one is not, no wake-up and no SIGHUP is lost;
- database: processes that share it see an atomic map, the lists on disk stay
  sound, a scan misses nothing that stayed in place.

## Modules

`WaitGroup` models the wait group. The counter counts a set of open tasks, so
that the property "the work is done" does not speak of the counter itself. Add
is one atomic step; Done is DoneDecrement, DoneTest (the second load), DoneLock,
DoneNotify, DoneUnlock; Wait is WaitLock, WaitPredicate, WaitBlock, WaitReturn.
The condition variable may wake a sleeper for no reason (SpuriousWakeup).
Callers keep the contract of the class: they retire only what was announced.
(`WaitGroup` and `WaitQueue` prefix their Init, Next, Spec and TypeOK, because the
three shared-memory components are proved about in one module.)

`CircularBuffer` has one action per statement of put, get and reset between
taking and releasing the mutex. `BoundedFifo` is the abstract specification. The
refinement mapping `Queue` is the content the buffer will have when the owner
of the mutex is through, so an operation takes effect when it takes the mutex
and all its other statements are stuttering steps.

`WaitQueue` has an action for each access to `wait_queue_flag` and to the wait
queue. wait_event_interruptible is unfolded as the kernel runs it: test, onto
the queue, test again, sleep unless woken. `events` is a history variable: how
often a reader has stored 1. The exit function frees the module whether or not
the thread is gone, as the code does: from then on the thread can only fault at
its next step in the module's code or on its wait queue (ThreadFaults); a thread
that is asleep stays asleep.

`EchoNet` holds what the servers share: the client program and the TCP
connections. A typed line becomes segments that carry their owner, so that a
reply can be recognised as one's own. The kernel side (arrival, FIN, RST,
backlog, lowest free descriptor, read, write, close) is external and modelled
by what the servers rely on; the receive queue of a socket has no limit and a
write is never short, because the lines are short. The client.cpp in select/
and in epoll/ carry the port of the other's server; that constant is the only
difference between the three and is not modelled.

`SelectServer`, `PollServer` and `EpollServer` extend `EchoNet` with the
variables of the respective `main` and one action per system call with the
bookkeeping up to the next one. `slot` is the array the code calls `client`.
In `PollServer` the initial `revents` are arbitrary. In `EpollServer` the kernel
part is a mask per descriptor and the ready list: an edge puts a descriptor into
it, epoll_ctl puts it there when an event is pending already, epoll_wait empties
it and returns those of its members that are still ready, in any order. `batched` and `broke` are history variables: some epoll_wait has returned
several events, some write has failed. A write of `n` <= 0 bytes, which the one
`n` of all connections makes possible, may pass for success or fail on a
connection that was reset.

`MtEpollServer` is the same client and network with several threads. Each has
its own registrations, ready list (a set), event batch and buffer; the listening socket,
its backlog and the descriptor numbers are common. A new connection is an edge
in every instance. A thread whose accept finds nobody is blocked: Accept is then
not enabled, and epoll_wait is not either. close and EPOLL_CTL_DEL are two steps,
between which another thread may be given the number. A connection that epoll_ctl
cannot register is closed at once (AcceptUnwatched), and its client, who may have
sent a line already, sees the end of the connection. `cut` (a read was too
short for what had come) and `crowded` (more connections than threads waited, or
accept failed) are history variables.

`Spooler` models the daemon and, as far as the daemon sees it, the print command.
What is on disk (job file, data files, control files) is kept apart from what is
in memory, and Stop, which stands for SIGTERM, exit and a crash, may come between
any two steps and loses the second kind. File names and inodes are told apart,
since creat truncates a file another thread has open. A step under joblock or
configlock is one action; the unlock and the signal of add_job are two. The
client thread is followed call by call through its five error exits. The printer
receives a file (SendJob), confirms it (StatusOk) or does not (DeferJob, which
stands for every `goto defer` and every 0 of printer_status). At a start the scan
of the control files may fail in each of its calls: an open (ScanSkip: the job
is not queued), opendir or readdir (ScanAbandon: nothing more is queued), or the
read of a complete request, which the code takes for one that was cut short and
removes with its data file (ScanUnreadable). The history variable `unread` keeps
the submissions lost in this way, `dropped` those that are on disk but no longer
queued. The job file is overwritten without being truncated, so when the counter
has wrapped around UpdateJobno leaves open which number the file then holds.
`Workers` is the
list of client threads with its `next` and `prev` pointers; it shares no state
with the rest, because cancelling a thread matters only when the process ends.

`KeyValue` is the abstract specification of the database: a map, calls and
returns, each call taking effect at once before it returns. `Database` models
db.c with one action per read or write of a record, per lock and per unlock.
Offsets are small numbers: 0 is the free-list pointer, 1..NHash the chain heads,
then the index records in file order. An append is one step, because the code
makes it one with a lock on the file. `map` is a history variable that takes a
call's effect when the chain is unlocked; the refinement mapping is otherwise the
identity (`call` is the `op` of each process). `seen` and `moved` record what a
scan has returned and which records were written meanwhile.

`MC...` modules and configurations instantiate the above. Definitions marked
"Mutant" are the defects on which each property was tried; no specification
uses them.

## Runs

| run | instance | checks | result |
|---|---|---|---|
| wait_group | 3 tasks, 2 workers, 2 waiters, 1 spurious wakeup | WGTypeOK, NoLostWakeup, LeaveOnlyWhenDone, WaitReturns | hold, and no deadlock |
| circular_buffer | 3 slots, 2 threads, 2 items | TypeOK, ImplementsBoundedFifo | hold, and no deadlock |
| wait_queue | 2 readers, 2 reads each | WQTypeOK, NoMissedWake, CountedReadsHappened, RaisedFlagAnswered | hold |
| wait_queue_exit | 1 reader, 1 read | ExitReachesThread | violated |
| select_server | 3 clients, 2 connections at a time | TableConsistent, NeverBlocksInRead, EchoesOwnLines, ReplyComes | hold |
| poll_server | 3 clients, 2 entries | TableConsistent, EchoesOwnLines, ReplyComesUnlessBlocked | hold |
| poll_revents | the same | NeverBlocksInRead | violated |
| epoll_server | 3 clients, 2 connections at a time | TypeOK, NoEdgeLost, EchoesOwnUnlessBatched, ReplyComesUnlessMixed | hold |
| mt_epoll | 2 threads, 2 clients | ServedByOne, NoEdgeLost, BacklogNoticed, NeverBlocksInRead, EchoesOwnLines, ReplyComesUnlessCaught | hold |
| spooler | 2 submissions, 2 job numbers, 1 stop, 1 failing file operation | AckedOnDisk, HeldOnce, PrintsFinishedFiles, RefusedNotPrinted, ConfirmedOncePerLife, ReuseNeedsLag, HangupNotLost, AckedIsPrinted | hold, and no deadlock |
| spooler_workers | 3 client threads | KillReachesAll | violated |
| database | 2 chains, 3 keys, 2 writers (2 calls and 1 call), 1 scanner | OnDisk, ScanComplete, ImplementsKeyValue, ScanReadsLive, OpReturns | hold |

What the properties say where they are conditional: in the multi-threaded
server a reply may fail to come in two ways only, a read that left something
behind (there is one read of 1024 bytes per edge) or a thread caught in accept;
ReplyComesUnlessCaught names both, and without its hypothesis it is violated. In
the spooler an acknowledged job is lost in three ways only, which `Waiting`,
HeldOnce and AckedIsPrinted name: its number was handed out again after a restart
(the job file is written only when the printer picks up a job, and ReuseNeedsLag
says that this is the cause); an open of one of its files, or the opendir or
readdir of a start, failed, so that it is on disk but its queue entry is gone
(`dropped`); or a start could not read its request and removed its files
(`unread`). In the kernel module a raised flag is answered by a pass of the
thread, or the thread faults because the module was freed before
(RaisedFlagAnswered). A scan of the database returns every key exactly once unless
the key's record was removed or written during the scan: a replacement by data
of another length moves the record to the end of the file, where a scan meets it
again.

The violated properties are disagreements of the code with its own comments and
documentation:

- wait_queue_exit: the thread's `wait_queue_flag = 0` (line 45), or a late
  reader's store of 1, overwrites the 2 of the exit function; the thread goes
  back to sleep and the module is freed under it. The branch that prints "Event
  Came From Exit Function" is not reached. (A thread that does wake up but runs
  into the freed module faults; the property lets that pass, so the run shows the
  lost request itself.)
- poll_revents: an entry filled in by accept is scanned in the same round,
  before poll has ever written its revents. If the stack held POLLRDNORM there,
  the server blocks in read until that client sends. That is the only way in
  which a client can hold up the others (ReplyComesUnlessBlocked).
- spooler_workers: add_worker stores a node in `workers` only when the list was
  empty. A second client thread is never on the list; SIGTERM does not cancel it,
  and its socket and node are never released.

**Bounds.** Three tasks let an Add and two Dones race around zero; a spurious
wakeup may hit any wait. Three slots let the indices wrap, meet full and meet
empty. Two readers can be at different stores while the thread is between its
test and its store. In the server runs, two connections for three clients mean
that descriptors and slots are reused and run out; the first client's line
comes in two segments, so that a line is answered in two rounds and a reset can
overtake the second write; that client may also be killed in between; the third
client sends nothing, which is what a blocking read needs to block. The
descriptor limit does not exceed FD_SETSIZE (SelectAssumption): nothing in the
code enforces that, and beyond it FD_SET writes outside its array. The
multi-threaded server has two threads for two clients, so that one can be caught
in accept while the other takes the connection, and a buffer of one segment for
a line of two. In the spooler two submissions compete for the queue and the
numbers, a stop and a fault can fall on any step of either, and the restarted
daemon can hand out a number again; with two job numbers the second submission
makes the counter wrap around, so that the job file is written with a number
smaller than the one it holds and a restart reads either. In the database k1 and k2 share a chain, so
that records are unlinked from the inside of a chain; c is longer than a and b,
so that a replacement moves the record and the free list holds records that do
not fit; the two calls of p1 let a record be deleted, reused and linked into
another chain while p2 and the scanner are anywhere.

**Fairness.** Threads, processes and the network make progress: a runnable
thread runs, a segment on its way arrives, a client that can read its reply
does. Nothing forces an Add, a typed line, a kill, a read of the proc file or
an rmmod. In `WaitGroup` open tasks are retired in the end; the mutex is taken a
bounded number of times, so weak fairness of the lock step is enough.
The threads of the epoll server run unless they are blocked. In the spooler the
daemon's threads run, someone restarts the daemon, and a job that is sent again
and again is received and confirmed in the end (strong fairness of SendJob and
StatusOk: it is the assumption under which deferring a job and sleeping a minute
makes sense); no client and no administrator needs to do anything. In the
database a process that does not wait for a lock runs, and a lock that stays
free is granted; a bounded number of calls makes weak fairness enough, while
fcntl itself would let a stream of readers keep a writer out for ever.
`CHECK_DEADLOCK FALSE` appears where the system may stop: nobody reads, nobody
types, or the server has ended.

## Proofs

All theorems hold for every value of the constants under the ASSUMEs of the
modules: finite sets of tasks, clients, threads and submissions, disjoint sets of
threads, a capacity of at least one, items that differ from T() and from unwritten
memory, a hash function into the chains, preloaded keys that differ, a descriptor
limit not above FD_SETSIZE in the select server, a read that takes at least one
segment.

- `ThreadProofs` holds the proofs of the three components whose threads share
  memory.

  Wait group: GroupTypeCorrect, NoWakeupLost, WaitMeansDone. NoLostWakeup is not
  inductive alone. `WGInv` adds MutexOK (exactly the owner of the mutex is
  between lock and unlock: a waiter cannot go from its test to sleep while a
  Done notifies) and CountOK (the counter is the number of open tasks: a
  decrement to zero is made by a thread that will then test and notify). The
  lemma Counting supplies the cardinalities.

  Ring buffer: TypeCorrect and Refinement. `IInv` adds OwnerOK and
  FieldsOK (full_ is raised only while the indices meet, except within a put).
  PutContents and GetContents relate the content of the array before and after
  an operation; each lock step is then a step of `BoundedFifo`, and
  InsideStutters shows that every other step leaves `Queue` and `Got` alone.

  Wait-queue module: QueueTypeCorrect, NoWakeMissed, CountedHappened. `WQInv` adds
  PassOwed: a raised flag that was not counted, and a pass about to be counted,
  each stand for a raising not yet counted.
- `SpoolerProofs`: HangupKept, Acknowledged, Held, Finished, NotPrinted,
  Confirmed, NumbersReused. HangupNotLost is inductive as it stands. The five
  properties of the jobs follow from one inductive invariant, `IInv`: LifeOK
  (where the threads can be in each phase of the daemon's life), NumOK (whose
  number every file, queue entry and open inode carries; two submissions with
  one number have it in `reused`), OnceOK (a submission is with its client
  thread, still to be found by build_qonstart, in the queue, or with the printer
  thread, and in one of these only), ConfirmedOK (one that may still be confirmed
  in this life was confirmed at most once in each life before), and, for a
  submission whose number nobody else got, FilesOK and PlaceOK (how far its files
  are at each call of its client thread, and that an acknowledged one is
  somewhere, or its request was removed unread). None of the properties is inductive alone: AckedOnDisk needs to know
  that whoever truncates or unlinks a file has another number. Held has the same
  exceptions as the property: a number handed out again, a request that a start
  could not read, and a failed open, opendir or readdir.
  NumbersReused counts the numbers given out (`CountInv`) and has the hypothesis
  Cardinality(Subs) <= MaxJob: get_newjobno starts again at 1 after MaxJob, so
  with more submissions numbers repeat without any stop; the code does not handle
  that and says so. Up to the wrap-around the job file is never ahead of the
  counter; after it the file may hold any number, which CountInv allows for.
- `DatabaseProofs`: Invariant, Types, ListsOnDisk, ScansReadLive, ScansComplete,
  Implements. OnDisk speaks of lists nobody has locked, so the invariant has to
  say what the files hold in the middle of every update. `Members(h)` are the
  records whose key puts them on list h, except those a call has in hand (`Held`);
  `Succ` are the pointers as they will be when a delete under way has unlinked its
  record. `Shaped` says without recursion that they form a list: there is a rank
  for every record, and each pointer leads to the member of next lower rank, or
  to 0. ShapedPush, and its counterparts for taking and moving a record, carry
  the ranks over each write. ProcOK has one part per stage of a call (what off,
  ptroff, idxoff, datoff and ptrval still mean at the files), DatInv keeps data
  records apart, MapInv ties the chains to the map, LockInv is the lock
  discipline, ScanInv what a scan has counted. The refinement Implements maps
  every step to a call, a return or a stutter of `KeyValue`; `CallOK` holds the
  result the return will give.
- `EchoNetProofs` has no theorem of a server in it, but what all of them share: a
  step of a client or of the network, and each system call, keep the connections
  consistent (NetInv), and a conservation law. While a connection is live, what
  its client has read, what the server wrote, what the server has in its buffer,
  what it has not read and what is on the way are, in this order, what the client
  has sent (`Flow`); a connection that was reset or closed gets nothing more. The
  laws of concatenation are stated for an operator `Cat`, so that the steps use
  the laws and not the elements. It also has the lemmas about batches of events
  (Enumeration, TailIndex, Distinct) both epoll servers need.
- `SelectServerProofs`: Invariant, TableKept, ReadsReady, Echoes. `IInv` is
  TableInv, slot by slot, and RoundInv: a descriptor in rset the loop has still to
  visit is readable. It holds although descriptors are reused because a round
  accepts before it closes: the number accept returns is not in rset, so a slot
  filled in this round is not read in it. Echoes adds Flow of every connection,
  with the buffer between read and write.
- `PollServerProofs`: Invariant, TableKept, ReadsReadyIfCleared, Echoes. `IInv` has
  the table entry by entry, as for select, but says nothing of what is readable:
  accept leaves the revents of the entry it fills alone, and in the run
  poll_revents the server blocks there. ReadsReadyIfCleared shows that this is the
  only cause: in every behaviour that starts with all revents clear,
  NeverBlocksInRead holds. `PolledInv` is the reason. Entries above maxi, which
  poll does not look at, stay clear; when accept runs, those of free entries are
  clear, because poll has just written them; and a set entry the loop has still to
  visit is readable. Both other theorems hold for any revents to begin with: a
  read that blocks returns what comes later, and the entry it is made on is one in
  use.
- `EpollServerProofs`: Invariant, TypeCorrect, EdgesKept, Echoes. The parts of
  `IInv` need each other: MaskInv (an open connection and the listening socket
  are registered, nothing else is), BatchInv (an event names a descriptor once
  and is the one its mask asks for, although events before it in the batch close
  connections and accept hands out their numbers) and NoEdgeLost. Echoes is
  about the buffer all connections share: while every epoll_wait has returned a
  single event, `OutInv` says that an owed echo (`Owed`: the connection is watched
  for output) is in the ready list or is the one event in hand, so that the write
  comes before the next read; `Buffered` is then what Flow has between read and
  write. With two events in a batch this fails, and the property says so.
- `MtEpollServerProofs`: Invariant, OneThread, EdgesKept, BacklogServed,
  ReadsReady, Echoes, for any number of threads and any buffer size. `Todo(t)` are
  the events a thread has still to act on. RegInv: an open connection is in one
  instance and a closed one in none. BatchInv: what is to be done is registered,
  and the number in `del` is not registered with its thread any more, though it
  may be with another, so that the late EPOLL_CTL_DEL removes nothing. EdgeInv:
  what a thread is going to read is readable, what is readable is known to its
  thread. CountInv counts the threads going to accept and those that will be told
  to. Echoes: a buffer holds data of the connection at the head of its thread's
  batch only, and nobody else holds any.

The order in which epoll_wait returns events is not fixed by the kernel's
documentation and the code relies on none, so `rdlist` is a set in both epoll
servers and EpollWait returns its members in any order.

Only model-checked: the liveness properties (fairness and ENABLED are out of the
prover's reach): WaitReturns, RaisedFlagAnswered, ReplyComes and its conditional
forms, AckedIsPrinted, OpReturns. Every other property of a passing run is stated
by a theorem. The three violated properties are refuted on their runs;
NeverBlocksInRead of the poll server is proved under the condition it misses.

## Not modelled

Start-up errors of the servers (socket, bind, listen are unchecked in two of
them), output to the terminal, short writes, more than 20 events in one epoll
batch (the array of epoll/server.cpp has no room for them), what the kernel does when the
module passes the error pointer of a failed kthread_create to wake_up_process
(the test against null lets it through; InitThread ends in "oops"), the unlocked
observers of the ring buffer, and overflow of the wait
group's int counter, which would need 2^31 open tasks.

Of the spooler: daemonising, the text of the IPP and HTTP messages, the option
parsing of print, a crash of the machine (files are as the daemon left them; the
code calls no fsync), and what a walk through freed nodes of the worker list
does. Of the database: torn reads and writes of one record, the limit PTR_MAX on
offsets, db_open with O_TRUNC while others use the files, and a process that dies
inside an update: there is no recovery in the code, and the lists are then
broken.

Of the spooler's file operations unlink and close are taken to succeed (the code
tests neither), a seek or write of the job file that fails ends the daemon and is
a Stop, and a job number beyond MaxJob that stale digits in the job file may
spell is left out.

The other programs of the repository are listed in `PROJECT.json` with the
reason. By lines, nearly all of the repository is code of others kept for reading
(e2fsprogs, SDK samples, JSON and XML libraries, the remaining book sources) and
single-feature demonstrations; the models cover the programs with behaviour of
their own, which are a small share of those lines.

## Plan

Done: all components above are modelled and checked, and every invariant, action
property and refinement of the passing runs is proved. Left for later:

1. What the worker list of the spooler guarantees when clients come one at a
   time, as an invariant of `Workers`; with several at once it guarantees nothing
   (run spooler_workers).
2. A crash inside an update of the database: which keys a list that is broken at
   one record still reaches.
3. More events than fit one epoll batch, for both epoll servers.
