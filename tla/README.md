# A verification of sgopher

sgopher is a Gopher server: a supervisor process (`main.c`) that spawns workers,
single-threaded workers (`server.c`) that serve connections and start CGI programs,
and the event loop both run on (`sepoll.c`). Beside it the repository holds a
directory lister that runs as a CGI program (`gopherlist.c`, `sbuffer.c`) and a load
generator (`gophertester.c`, `smalloc.c`).

## The system

| part | state | operations | properties that make it correct |
|---|---|---|---|
| event loop, `sepoll.c` | tree of callbacks by descriptor, list of callbacks to be freed, array of events, `run` | create, resize, destroy, add, mod, mod_events, mod_callback, remove, enter, exit | no pointer into freed memory, no callback for somebody else's event, no lost event, no leak, tree = epoll |
| worker, `server.c` | `server_t`: four descriptors, the loop, list and number of clients; `client_t`: socket, file, dirfd, pidfd, sizes, timestamp | set-up, `client_socket`, `client_pidfd`, `server_socket`, `server_signal`, `server_timer`, `client_disconnect`, clean-up | list, counter and descriptors agree; no callback for a freed client; no orphan CGI program; one reply; nobody waits for ever |
| CGI programs, `sfork.c` | a process, its pidfd, its copy of the socket | start, write, end, be killed | die with their client and with the worker |
| supervisor, `main.c` | pidfd of every worker, number of active ones, signalfd, loop | spawn, SIGTERM, worker exit, clean-up | waits for all workers; stops them all |
| request path, in `client_socket` | none | selector to relative path | stays inside the directory, no hidden component, fits its buffer |
| output buffer, `sbuffer.c` | write position, flush position, counter | push, flush, checkflush | what is written is what was pushed, in order |
| lister, `gopherlist.c` | array of names, its size, the buffer | read directory, filter, sort, print | every name that is read and eligible once, in order; its links lead back |
| load generator, `gophertester.c` | status and four counters per worker, in shared memory | fork, attempt loop, wait, collection | attempts = successes + time-outs + mismatches; it ends, unless it has no duration or time-out or the server never stops sending |
| shared memory, `smalloc.c` | length in front of the block | smalloc, scalloc, sfree | sizes do not wrap |

How they interact. Both processes run on one event loop each and are called back by
it; a callback adds, changes and removes registrations, its own and others', while
the loop is in the middle of a batch of events. The worker shares every client's
socket with a CGI program, hears of its end by a pidfd, and of SIGTERM by a signalfd.
The supervisor reaches its workers by pidfds, they it by `PR_SET_PDEATHSIG`.

What is hard. Registrations that go away, and descriptor numbers that come back, in
the middle of a batch; two registrations for one client, in either order; sockets
that are edge-triggered, so that a loop left too early is never entered again; CGI
programs that end by themselves while they are being killed; time-outs that race with
activity; a dozen error paths that each hold a different set of descriptors.
In the smaller programs: a buffer that is flushed in
parts, by a flush that may fail and be called again; files that vanish between two looks
at a directory; a timer that expires together with a socket becoming ready.
`PROJECT.json` lists these hazards at their lines.

## Modules

| module | what it is |
|---|---|
| `EventLoop` | what a loop promises its user: batches, deliveries, registrations that are skipped once removed and whose identity is not given away too early |
| `Sepoll` | `sepoll.c`, with the heap, the descriptor table and epoll beneath it; implements `EventLoop` |
| `SepollProofs` | the safety of `Sepoll` and its refinement of `EventLoop`, for all values of the constants |
| `Worker` | `server.c`, on top of `EventLoop` |
| `WorkerProofs` | the safety of `Worker` and its use of `EventLoop`, for any number of connections |
| `Supervisor` | `main.c`, with what of a worker matters to it |
| `SupervisorProofs` | the safety of `Supervisor`, for any number of workers |
| `RequestPath` | the middle of `client_socket`: from a request to a path, and from the path to the links of `gopherlist.c` |
| `RequestPathProofs` | the path fits and leads down, it is the right one, and links lead back, for requests of any length |
| `Stream` | what an output buffer promises: what it has accepted is delivered in order, once |
| `Sbuffer` | `sbuffer.c` and `sbuffer.h`; implements `Stream` |
| `SbufferProofs` | that it does, for any length and any texts |
| `Gopherlist` | `gopherlist.c`, on top of `Sbuffer` |
| `GopherlistProofs` | its array of names, its refinement of `Stream` and the menu it prints, for directories of any size |
| `SharedAlloc` | the lengths `smalloc.c` computes, in w-bit arithmetic |
| `Gophertester` | `gophertester.c`, on top of `SharedAlloc` |
| `GophertesterProofs` | its timer, its scores and their sum, and its allocation, for any number of workers and any word |
| `MCSepoll`, `MCWorker`, `MCSupervisor`, `MCRequestPath`, `MCGopherlist`, `MCGophertester` | instances for TLC: symmetry sets, bounded inputs |

`EventLoop` is where the two halves meet: `Sepoll` is proved to keep its promise, and
`Worker` to use a loop only as `EventLoop` allows, so `Worker` does not need the tree, the
garbage list or descriptor numbers.

### Sepoll and its code

`tree`, `gc`, `size`, `run` are the fields of `sepoll_t`. `heap` is the set of callbacks
that are allocated, `fn` the function and userdata of each, represented by the file it
was registered for (`NoFile` is NULL). `batch` is the unread part of `epoll_events`; epoll
does not promise an order, so `Dispatch` takes any member. `pc` and `cur` say where
`sepoll_enter` is. `fdt` (descriptor table), `dup` (files that a child holds as well),
`interest` and `ready` are the kernel's.

| action | code |
|---|---|
| `Add`, `AddRefused`, `AddFails` | `sepoll_add`: success, failure of epoll_ctl, the other failures |
| `Modify` | `sepoll_mod`, `sepoll_mod_events`, `sepoll_mod_callback` |
| `Remove` | `sepoll_remove` |
| `Enter`, `Wait`, `WaitEmpty`, `Dispatch`, `CallbackReturns`, `EndBatch`, `HookReturns`, `Sweep` | the steps of `sepoll_enter`; between `Dispatch` and `CallbackReturns` the callback may make any of the other calls |
| `Exit`, `Resize`, `Destroy` | the functions of these names |
| `OpenFd`, `CloseFd`, `Fork`, `ChildExit`, `KernelEvent` | the kernel, and what the program does with descriptors |

Two things are asked of the user of the loop. It takes a descriptor out before closing
it (`MayClose`), as `client_disconnect` and `pidfd_event` do; the mutant `MayCloseAny` shows
that `NoStaleCall` fails without it. And it resizes the loop only outside of a batch
(nothing in the program resizes it at all). Lookups that fail with EBADF change nothing
and have no action.

### Worker and its code

A callback is a sequence of steps, one for each system call that can fail or whose
outcome depends on the outside; peers, CGI programs, signals and the clock act between
any two. `pc` names the step. A member of `Conns` is one TCP connection over its whole
life and stands for its `client_t` too. `clients`, `numClients` are the fields of
`server_t`, `core` its open descriptors; `has` says which of `file`, `dirfd`, `pidfd` of a
client are not -1 and `xfer` holds `filesize` and `sentsize`. `open` is kept apart from
`has`: it is what the kernel has open for a connection, so that leaks and double closes
can be seen. `active`, `queue`, `cur`, `ev` are the loop. `net`, `proc`, `quiet`, `timer`,
`sig`, `knock` are the kernel's view of connections, CGI processes, idle sockets, the
timerfd, the signalfd and the listening socket.

| action | code |
|---|---|
| `Setup`, `SetupFails`, `EnterLoop` | `server_process` |
| `Collect`, `Dispatch`, `EndBatch`, `WaitFails` | `sepoll_enter`, at the level of `EventLoop` |
| `AcceptFull`, `AcceptNoMemory`, `AcceptClient`, `AcceptBlocks`, `AcceptFails` | one turn of the loop in `server_socket` each |
| `ReadEnd`, `ReadFails`, `ReadBad`, `ReadRequest` | `client_socket`: the read loop and the search for CRLF |
| `OpenFile`, `OpenFails`, `StatRegular`, `StatDirectory`, `StatRefused` | openat and fstat, for the path and then for the index file |
| `StartFile`, `StartCgi`, `ForkFails` | to the end of the EPOLLIN branch |
| `SendSome`, `SendLast`, `SendNothing`, `SendBlocks`, `SendFails` | the EPOLLOUT branch, a step per sendfile |
| `Hangup`, `HangupKills` | the EPOLLERR and EPOLLHUP branch, with `pidfd_kill_client` |
| `ClientPidfd`, `ServerTimer`, `ServerSignal` | the callbacks of these names |
| `ServerCleanup` | exit() and `server_cleanup` |
| `SigTerm`, `Connect`, `Peer...`, `Cgi...`, `Truncate`, `Tick` | the outside |

Abstractions. A request is a part, a full one, or one so long that the read loop stops
before it meets the end of the stream; which file it names is a choice between the
outcomes of openat and fstat. The content of replies is abstracted to their kind
(`said`). `ServerTimer` visits all clients in one step: its system calls concern each
client alone and nothing else of the worker runs in between. A CGI child runs up to
execve inside `StartCgi`, because CLONE_VFORK suspends the worker until then. The whole
read loop is one step: what arrives during it is as if it had arrived before. The
sockets are connected TCP sockets, for which epoll_ctl reports what is ready already.
Any of the three `sepoll_add` calls at start-up may fail where a run says so ("addcore"):
the worker ignores the result and serves deaf to connections, SIGTERM or the timer.

### Supervisor and its code

`pidfds` and `activeWorkers` are the table and the counter of `supervisor_t`; a member of
`Workers` is an entry of the table. `untried` holds those that the spawning loop has not
come to: the workers are alike, so it takes them in any order. `run`, `active`, `queue` and
`cur` are the event loop, as in `Worker`. `term` is SIGTERM at the supervisor: blocked by
`sigprocmask` or not, pending, and whether epoll has an edge of the signalfd to report.
`code` is the argument of exit(), or "killed" when a signal ended the supervisor.

Of a worker the supervisor sees when it ends; what decides whether it does is how far it
has come with its signals. It is *born* by `clone3`, *guarded* once it has asked for the
parent-death signal, *serving* once it has blocked SIGTERM, which ended it before and is
read from its signalfd from then on, *told* when it has SIGTERM pending; it has *ended*,
and is *reaped* by waitid. That a worker which is told ends is `TermEnds` of `Worker`.

| action | code |
|---|---|
| `SpawnWorker`, `SpawnFails`, `AllTried` | the spawning loop of `main` and the check after it |
| `BlockTerm`, `OpenSigfd`, `SetupFails`, `EnterLoop` | the rest of `main` up to `sepoll_enter`, with the ignored results of `sepoll_add` |
| `Collect`, `Dispatch`, `EndBatch`, `WaitFails` | `sepoll_enter`, and what `main` does when it returns |
| `SigfdEvent`, `PidfdEvent` | `sigfd_event` with `signal_all_workers`, `pidfd_event` |
| `SupervisorCleanup` | exit() and `supervisor_cleanup` |
| `TermComes`, `KillComes` | signals to the supervisor |
| `WorkerGuards`, `WorkerBlocks`, `WorkerCrashes`, `WorkerEnds` | a worker |

`signal_all_workers` is one step: the supervisor does nothing in between, a worker takes
each signal by itself, and one that ends during the loop is as one that ends before or
after it.

### RequestPath and its code

One behaviour is one request, as the read loop has left it in the buffer. `pc` says where
`client_socket` is, `pos` is `str_pos`, `filename` what was written up to `filename_end`. A
character is a letter or one of those the code searches for.

| action | code |
|---|---|
| `NoCrlf`, `Parse` | the search for CRLF and tab, `selectorSize` and the query |
| `CopyUpTo`, `CopyLast` | one turn of the copying loop, with and without a slash ahead |
| `OpenFile`, `OpenDirectory`, `OpenFails` | openat, fstat and what follows from them; a directory gets a slash |

`Pathname`, `ScriptName` are what a CGI program is run in and told; `Link`, `Parent` the
selectors `gopherlist.c` prints. `CString` cuts a path at a NUL, as openat and snprintf do.
`Worker` takes the result of all this as a choice between the outcomes of openat and fstat.

### Sbuffer, Gopherlist and their code

`buffer`, `pos`, `writepos` are the memory and the positions of `sbuffer_t`; `io` says where
`sbuffer_flush` is, a step for each write and poll. `accepted` and `wire` are histories: what
was pushed with success, and what the descriptor took (`sbuffer->written` is its length).
`Gopherlist` adds `main`: `unread` is what readdir has not returned, in any order; it may return
NULL with names left there, since an error looks to the code as the end does; `filenames`
and `capacity` are the array; `next` is the line to be printed. A text is a line and the
places in it, so that a line that is cut, lost or repeated can be seen.

| action | code |
|---|---|
| `Push`, `Flush`, `WriteSome`, `WriteBlocks`, `PollReady`, `FlushFails`, `FlushDone` | `sbuffer_push`, `sbuffer_flush` |
| `Open`, `OpenFails` | calloc and opendir |
| `Skip`, `Collect`, `NoMemory`, `ReadEnds` | the readdir loop, reallocarray, qsort |
| `PrintHeader`, `HeaderEnds`, `PrintFooter`, `FooterEnds`, `Finish` | header and footer, the last flush, exit |
| `StatFails`, `ListFile`, `SkipFile`, `CheckFlush`, `ListEnds` | the loop over the names |
| `Unlink` | somebody removes a file |

Assumed of the sizes (`SizeAssumption`), because the program relies on it: the header with a
line fits the buffer, and a line, or the footer, fits what `sbuffer_checkflush` leaves.
`BUFFER_LENGTH` and `BUFFER_LEFTOVER` are chosen that way.

### Gophertester and its code

`main`, `untried`, `status`, `report` are the parent, whose loops over the workers, to fork and to
add up, both leave in `untried` those they have not come to; `step`, `results`, `timer`, `events`,
`received` the workers. `timer` is "seen" once `poll_list[0].fd` is -1, which is when `running` is
false. `conn` is the kernel's view of a worker's connection, `late` counts the attempts it has begun
since its timer expired.

| action | code |
|---|---|
| `Alloc`, `AllocFails`, `Fork`, `ForkFails`, `AllForked`, `Wait`, `WaitEnds`, `AddUp`, `Report` | `main` |
| `SetTimer`, `SetTimerFails`, `Attempt`, `Close` | the outer loop of `worker_process` |
| `TimesOut`, `PollReturns`, `PollFails`, `Write`, `WriteFails`, `ReadSome`, `ReadEnd`, `ReadBlocks`, `ReadFails` | the inner loop |
| `Expire`, `Accepts`, `Replies`, `Ends`, `Resets` | the timerfd and the server |

## Runs

All runs are exhaustive. CHECK_DEADLOCK is off in them because all the systems really
stop: the loop is destroyed, the worker is dead and its peers silent, the supervisor and
its workers have ended, the request is answered, the lister and the benchmark have exited.

| run | bounds | shows |
|---|---|---|
| `sepoll` | 2 descriptors, 2 files, 2 addresses, array of up to 2, with hook | memory safety, agreement with epoll, refinement, no event lost; every event is delivered; `sepoll_exit` ends the loop |
| `worker` | 2 connections, 1 place, files of 1 unit | records, limit, CGI programs (epoll_wait may fail), backlog and the refinement |
| `worker_one` | 1 connection, files of up to 2 units, timeout 3, prompt worker, every failure, every peer | one reply, no lost edge, no leak on any error path; clients are booted in time |
| `worker_live` | 1 connection, files of up to 2 units | SIGTERM ends the worker; clients leave |
| `supervisor` | 3 workers, every failure, every signal | the safety properties; everything ends that should |
| `request_path` | requests of up to 10 characters | the path fits, leads down, is the right one; links lead back |
| `gopherlist` | 3 names of any kind, of which readdir returns all or some, array of 1, buffer of 7, 3 left over | the names fit their array, no promised line is left out, lines are whole and in order, the buffer is a stream |
| `gophertester` | 2 workers, 1 attempt each before the timer expires and any after, replies of any length through a socket that holds 1 unit, every failure, a duration and a time-out; words of 64 numbers | scores add up, one late attempt, it ends unless the server sends for ever, the table fits |
| `accept`, `truncate` | 1 connection | see Findings |
| `interrupted`, `orphan` | 2 workers | see Findings |

Why the bounds suffice. Every hazard of the loop involves one registration that goes
and one that comes, at one descriptor or at one address: with two of each and two files
both happen within a batch, beside a neighbour. Arrays of one and two events
force events to wait for a later round and to meet in one. In the worker the clients
interact only through the counter, the list and the batch: two connections for one
place exercise the limit (one is turned away, or takes the place of the other), and put
the registrations of both beside the three core ones. A file of two
units is sent in one piece, in two, or partly. A timeout of three ticks lets a client
be looked at in the middle of its time. Of three workers one can fail to start, one end
and one serve; the supervisor tells them apart in no other way. Eight characters in front
of a CRLF hold three components with all that matters about them (empty, hidden, plain,
first, last). Three names make an array of one grow twice, and a
buffer of seven be flushed before, between and after their lines, whose lengths differ.
Two workers suffice for one to fail and one to be counted. Of a reply only matters whether it
is shorter than expected, as long or longer, so `received` stops at `Expected` + 1, whatever
follows; the expected reply is of one unit. `Faults` and `PeerMay` name
what may go wrong in a run; between the runs of a module everything does. What concerns
one client alone (its replies, its edges, its error paths) is checked with one client and
everything that can happen to it; the run with two needs only what makes clients meet.
"Prompt" means that the clock advances only while the worker waits: without it a slow
worker could be late by any number of time-outs.

Bounds named in the models: `MaxSize`, `MaxClients`, `MaxFile`, `Timeout`, `MaxRequest`, `NumNames`,
`MaxData` (what a socket holds; a reply may be of any length), `MaxAttempts`, the saturation of
`Accumulated`, and the age counters, which stop at `AgeLimit`, beyond which nothing
looks at them.

### Properties

`Sepoll`: `NoDanglingPointer`, `NoStaleCall`, `NoLeak`, `KernelAgrees` (invariants);
`NoEventLost` (what a step may do to a recorded event); `ImplementsEventLoop` (refinement);
`EventDelivered`, `ExitEndsLoop` (liveness).

`Worker`: `CountMatches`, `FdsMatchRecords`, `CallsLiveClient`, `NoOrphanCgi`, `OneReply`,
`NoLostWakeup`, `AcceptedUntilBlocked`, `BootedInTime` (invariants); `ImplementsEventLoop`;
`TermEnds`, `ClientsLeave` (liveness).

`Supervisor`: `CountMatches`, `ChildrenHeld`, `LoopEndsLast` (invariants); `TermStopsAll`,
`EndsWithWorkers`, `NoSurvivors` (liveness); `ExitsAfterChildren` and `DiesWithParent` are
claims of comments that do not hold, see Findings.

`RequestPath`: `FitsBuffer`, `Relative`, `PathCorrect`, `LinksReopen` (what the lister makes of the
server's path, the server makes the right path of again). Both of the last compare with a
definition of the path that has no loop: put a slash in front of the selector and take out
every slash that no component follows (`Kept`); what is left, in that order, behind a period
is the path (`LeadsTo`).

`Gopherlist`: `StoredWithin`, `Listed`, `WholeLines` (invariants); `ImplementsStream`. `Listed`
compares with the menu by definition, the set of its lines (`MenuLines`): those of the header and
the footer, and of the names that readdir has returned. It demands of these the ones that are
promised (`Promised`): src/README.md says that what the server would refuse is not listed, the
code lists it, and the property demands neither. It does not say that success means the whole
directory, nor that a file which vanishes takes only its own line with it: neither is so.

`Gophertester`: `AttemptsAddUp`, `OneLateAttempt`, `TableFits` (invariants); `TestEnds` (liveness),
under conditions that are part of it and each of which it needs: a duration, since 0 disarms the
timer; a time-out that is not negative, since without one a silent server is waited for; and a
server that does not send for ever (`StopsSending`), since an attempt is left only when there is
nothing more to read for as long as the time-out or the reply has ended.

`LinksReopen` is about names without a tab, CR or LF (`NamesAssumption`). The lister prints others
as they are, and no client can read such a line back. The type invariants of these modules and of
`Sbuffer` are stated beside them and are part of no run: they are proved.

`NoLostWakeup` deserves a word. Sockets are edge-triggered, so the worker must leave each
callback with the socket drained, blocked, or with a new event on its way. The property
says that outside of its callback a client for which something could be done is on
epoll's ready list. It excepts clients whose CGI program has been killed or has ended:
these wait for the pidfd only.

### Fairness

`Sepoll` (`FairSpec`): the steps of the loop, callbacks and the hook included, are weakly
fair, since one thread runs them and no callback of the program blocks for ever in
the absence of the fault described under Findings. Every entry of epoll's ready list is
strongly fair: epoll serves the list round robin.

`Worker` (`FairSpec`): the worker as a whole is weakly fair; each registration is strongly
fair in `Collect`, for the reason above (this is what `EventDelivered` of `Sepoll` provides),
where another could come first for ever (`Patient`); the clock ticks; a process that was sent
SIGKILL ends. Peers and CGI programs may stall for ever and SIGTERM may never come.

`Supervisor` (`FairSpec`): the supervisor as a whole is weakly fair, since it is one
thread and no call in it blocks but epoll_wait (that waitid does not is `ChildrenHeld`).
So is each worker, in its set-up and, once told, in ending. Nobody has to send
signals, and no worker has to fail. In `Worker` and `Supervisor` the failure of epoll_wait is
no part of what fairness demands. The liveness properties of `Supervisor` except two cases in
which they do not hold: if epoll_wait fails the loop ends too early (`Interrupted`; the run
`interrupted`), and if `sepoll_add` fails the supervisor is deaf to SIGTERM or to the end of a
worker, for which it then waits for ever (`Deaf`; the result is ignored in `main.c:455-463`).

`Gophertester` (`FairSpec`): the parent and each worker are weakly fair; a worker that could
do nothing but wait is woken by poll's timeout, which is one of its steps; the timer
expires; both only where the options say so (`Timeout`, `Duration`). No fairness is asked of the
server, which may fall silent anywhere; that it does not send for ever is a hypothesis of
`TestEnds` and no part of `FairSpec`. A failure of poll is not demanded either.

## Findings

- `accept`: an error of accept4 leaves the backlog of an edge-triggered listening socket
  unserved until the next connection arrives.
- `truncate`: a file that shrinks while it is being sent keeps the worker in the sendfile
  loop for ever.
- `interrupted`: when epoll_wait fails, as it does with EINTR after the supervisor was
  stopped and continued, the supervisor exits with success while its workers run.
- `orphan`: a worker whose parent dies before it calls prctl is never told and runs on, be it
  that the parent was killed or that SIGTERM came before it was blocked (`main.c:432`).

Lesser ones have no run. src/README.md:80 says that files are listed only if they are
world-readable, and directories only if they are world-executable too; `gopherlist.c` looks at
S_IXOTH of regular files, to choose their type, and at no other permission, so it lists what the
server then refuses: `ListFile` has no such guard, and treats the kind "private" as any other. If
readdir fails in the middle of a directory (`gopherlist.c:142`) the lister prints the names it has,
with a footer, and exits with success (`ReadEnds` with `unread` not empty). One file that vanishes
before stat ends the listing there (`gopherlist.c:223`). `gophertester` does not stop while a server
keeps sending, whatever its duration, although src/README.md:56 says that it runs for a set one.
Names with a tab, CR or LF make menu lines that cannot be read back. A link it prints may also be
longer than the longest request. A NUL in a selector ends the path for openat but not for the loop
that checks it; what is opened is a prefix of what was checked. And `pidfd_send_signal` fails
whenever a CGI program has ended just before, although a comment (`server.c:193`) has it that it
shouldn't; the code copes.

## Proofs

`SepollProofs` proves, from `NullAssumption` (NULL is no address, a closed descriptor no
file) and `SizeAssumption` alone, every safety property of `Sepoll` and its refinement of
`EventLoop`. The properties are not inductive: that the next batch holds no dangling
pointer depends on epoll's interest list, which depends on the tree. `SepollInv` is their
inductive strengthening:

- `TreeInv`: a registered callback is allocated, serves the file that is open at its
  descriptor and is watched there; no callback is registered twice;
- `HeapInv`: what is allocated is registered or waits to be freed, and what waits has no
  function;
- `WatchInv`: epoll watches only what is registered, under the descriptor it was
  registered for, and only watched entries are ready;
- `BatchInv`: the unread events refer to allocated callbacks, and those still registered
  are still watched under the same entry; between batches nothing is unread.

`NextInv` has one step for each action. `InvImplies` derives the properties.
`StepRefines` maps each step to a step of `EventLoop` or to none; the identity of a
registration is the address of its callback, and what makes this sound is that an address
which the batch mentions stays allocated. `StepKeepsEvents` is the action property.

`SupervisorProofs` proves every safety property of `Supervisor`, for any finite set of
workers (`WorkersAssumption`), any signals and any failures. `CountMatches` and
`ChildrenHeld` are part of the inductive invariant, `SupervisorInv`, but do not suffice:
that the decrement in `pidfd_event` never takes a worker off twice depends on what the loop
may still report. The other parts are

- `HoldInv`: a pidfd is held exactly for the children that are not reaped;
- `LoopInv`: what waits in a batch is registered still, has ended and is held;
- `EndInv`: a loop told to end holds no worker; main exits with success only after the loop.

`CountOne` is the step of the counter on cardinalities. `GoneInv` treats the four ways the
supervisor ends together. `LoopOutlastsWorkers` holds without exceptions; `ExitsLast`, that
the supervisor exits with success only after its workers, assumes that epoll_wait does not
fail, which is what `interrupted` shows to be necessary.

`WorkerProofs` proves every safety property of `Worker`, and that it uses its loop as
`EventLoop` allows, for any finite set of connections, any limit, any file sizes, any time-out
and any failures. `WorkerInv` is the inductive strengthening. It says of every connection, at
every step of every callback,

- `RegistrationInv`: whose socket or pidfd is registered, or is being served, is a client, and
  of a pidfd one that holds it; a pidfd in the batch is of a program that has ended, a
  socket there of a connection that was accepted, though it may be gone by now;
- `NoClientInv`: of what is no client nothing is kept or open, and no program runs;
- `ClientInv`: the mask of a socket tells how far its client is. One that waits for its request
  holds nothing and was told nothing, one that is sent a file holds the file and was told
  as much as `sentsize` says, one without events in its mask has a pidfd and no more;
- `LookupInv`: while a request is looked up, the worker holds what it has opened so far;
- `EventInv`: the events that were reported for a socket are still some that its mask asks for.

`WhereInv` ties the step the worker is at to the registration it serves, and `CountMatches` is
needed as it stands. `EventInv` is what rules out that a callback serves a client as something it is
no longer: the callback itself changes the mask, of a client that waits for its request to one that
is sent a file, while the event that was reported is in its hands. `NoLostWakeup` is inductive
together with `WorkerInv` (`Awake` is its part for one connection). The refinement of `EventLoop`
rests on `AddsNew`: a registration is only made under an identity that no event of the batch has,
since a connection in the backlog has no registration there, nor one without a program a pidfd.
`AcceptedUntilBlocked` needs `AcceptInv` (while there is a backlog the listening socket is reported,
waits in the batch, or is being served) and two hypotheses: that accept4 fails only when the backlog
is empty, which the run `accept` shows to be necessary, and that the listening socket was added to
the loop. `BootedInTime` needs that the clock advances only while the worker waits (`Prompt`) and
follows from `BootInv`: no client is older than two time-outs less what the timer has still to run
(`AgeBound`).

`RequestPathProofs` proves the four properties of `RequestPath` for requests of any length over
any letters and names of any length, from the assumptions on the constants alone. For
`FitsBuffer` and `Relative` the invariant is `PathInv`: while copying, the path is at most one
longer than the part of the selector that was read (`BoundInv`), since every component but the
first is preceded in the selector by the slash that is put in front of it; and it never ends
in a slash before a directory was found (`SlashInv`), so no slash meets another. `ExtendedPath` is
the step of one component. For `PathCorrect` it is `CopyInv`: what is kept of the selector up to
`pos`, and nothing else, is in the path, each character at the place of its rank among what
is kept. `ComponentKept` says what one component adds to what is kept, `ComponentCopied`
that the loop adds the same to the path. `LinksReopen` follows from the shape of the path that
`Relative` and `LinkInv` describe: in a selector without double or trailing slashes all is
kept (`PlainLeads`), and a link is such a selector (`EntryLeads`, `ParentLeads`). The last slash
that `Pathname` looks for exists because a set of numbers below a bound has a
greatest (`GreatestOf`).

`SbufferProofs` proves that `Sbuffer` implements `Stream`, for a buffer of any length and
texts of any length over any set of characters. The invariant, `BufferHolds`, says that what
was accepted is what was delivered followed by the unwritten part of the memory. `PushStep`
and `WriteStep` are the two steps that change it; the others move positions only.

`GopherlistProofs` proves the four properties of `Gopherlist` for directories of any size and
lines of any length that fit the buffer (`SizeAssumption`). `CollectInv` adds to `StoredWithin`
that the array has a place at all, without which doubling it would not help, and that the
names are names. `UsesBuffer` shows that the lister only steps its buffer as `SbNext`
allows: what it prints is a text, whatever was collected; the refinement is then that of
`SbufferProofs`. `WholeLines` and `Listed` speak of what the peer has, which is a prefix of what
the buffer has accepted, so that `MenuInv` speaks of the latter: it consists of whole lines of
the menu, in order, none behind the line that the program has come to (`Upto`, `Orderly`), and
unless a flush has failed no line before it is missing (`Gapless`). The menu grows while names
are read (`Found`) and is fixed once they are sorted, before anything is printed (`ReadStep`), so
it does not matter where readdir has stopped. That no line is
refused for want of room is `RoomInv`: whenever the
buffer is about to take a line of the list or of the footer, it holds no more than the
header, or than `sbuffer_checkflush` leaves, and what of the footer was printed behind that; in
both cases the line fits. `SortedNames` says of qsort that it
puts the names in order and loses none; `CanBeSorted` shows that there is such an order, by
rank, so that the choice in `Sorted` is not an empty one.

`GophertesterProofs` proves the three invariants of `Gophertester` for any number of workers and
attempts. `LateInv` relates the timer to where a worker is: an attempt begun late can only
reach its end through a poll that has reported the timer. `WorkerAddsUp` is the part of
`AttemptsAddUp` that concerns one worker: what it has counted is what it has scored, and the
attempt it is in. `ScoreInv` has it for all workers at once, since the scores share a table.
For the sum that is printed `ReportInv` adds what the parent knows: what wait has returned of
a worker is how it has ended, and before the parent adds anything up every worker has
ended, so that no attempt is under way in what it adds. `AlwaysTableFits` is the correctness of
the overflow check of `scalloc` for words of any width: a quotient that comes out right bounds
the true product by the wrapped one.

Only model-checked: liveness, which is beyond the prover's reach as everything is that
involves fairness. `EventDelivered`, `ExitEndsLoop`, `TermEnds`, `ClientsLeave`, `TermStopsAll`,
`EndsWithWorkers`, `NoSurvivors` and `TestEnds` hold on the instances of their runs. Every
other property of a run that passes is proved, and so is the type invariant of every program.

## Plan

Done: every program of the repository has its module and its runs, and every safety
property and refinement of a passing run its theorem. What may be added are theorems on
the way to the liveness properties that need no fairness: that the loop of a batch
comes to its end, or that each pass of a timer leaves the clients no older than before.

## Not modelled

The argp callbacks of `main.c` and `gophertester.c` (an assignment for each option) and what
odd values of options lead to: a server's timeout of 0, rates over a duration of 0, a billion
clients. Progress
messages, the build, the sample content. The table of extensions and the text of
a menu line in `gopherlist.c`. The limit on descriptors (`increasefdlimit`), which only is a
step of the set-up that may fail. `sfree`. Starvation by connections that arrive as fast as
they are accepted: the connections of the models are finite. Clocks that are set back.
