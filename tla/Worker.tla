-------------------------------- MODULE Worker --------------------------------
(***************************************************************************)
(* server.c: one worker process. It accepts connections, reads one request *)
(* from each, answers with a file or with the output of a CGI program, and *)
(* boots those that stay idle. It runs on an sepoll loop, taken here at    *)
(* the level of EventLoop.tla: `active` is what is registered, `queue`     *)
(* what is left of the current batch and `cur` whose callback runs.        *)
(*                                                                         *)
(* A callback is broken into a step for every system call that can fail or *)
(* whose result depends on what happens outside, so that peers, CGI        *)
(* programs, signals and the clock may act between any two of them.        *)
(*                                                                         *)
(* A member of Conns is one TCP connection from its arrival to its close;  *)
(* it is never used again. It also stands for its client_t.                *)
(***************************************************************************)
EXTENDS Integers, FiniteSets

CONSTANTS Conns,       \* the connections that may ever arrive
          NoConn,      \* what the three core registrations belong to
          MaxClients,  \* params->maxClients
          Timeout,     \* params->timeout, in ticks of the clock
          MaxFile,     \* the longest file, in units a sendfile may split
          PeerMay,     \* what peers do: send RequestKinds, "fin", "rst"
          Faults,      \* which failures of system calls may happen
          Prompt       \* TRUE: time passes only while the worker waits

RequestKinds == {"part", "full", "long"}

FaultKinds == {"setup", "accept", "malloc", "addsock", "addpid", "read",
               "sendfile", "sockopt", "truncate", "wait", "addcore"}

ASSUME ConnsAssumption == IsFiniteSet(Conns) /\ NoConn \notin Conns
ASSUME ParamsAssumption ==
    /\ MaxClients \in Nat \ {0}
    /\ Timeout \in Nat \ {0}
    /\ MaxFile \in Nat
ASSUME EnvAssumption ==
    /\ PeerMay \subseteq RequestKinds \cup {"fin", "rst"}
    /\ Faults \subseteq FaultKinds
    /\ Prompt \in BOOLEAN

VARIABLES
    pc,          \* where the worker is
    run,         \* loop->run
    core,        \* the descriptors of server_t that are open, and the loop
    clients,     \* server->clients
    numClients,  \* server->numClients
    has,         \* which of file, dirfd and pidfd of a client are not -1
    xfer,        \* filesize and sentsize of a client
    open,        \* kernel: the descriptors open on behalf of a connection
    active,      \* sepoll: the registrations
    queue,       \* sepoll: those the current batch has yet to report
    cur,         \* sepoll: the one whose callback runs
    ev,          \* the events reported for a socket and not yet handled
    net,         \* kernel: a connection and what epoll knows of its socket
    proc,        \* the CGI process of a connection
    age,         \* time(NULL) - client->timestamp
    quiet,       \* tcpi_last_data_sent
    timer,       \* kernel: the timerfd
    sig,         \* kernel: the signalfd, and SIGTERM
    knock        \* kernel: the listening socket is on epoll's ready list

clientvars == <<clients, numClients, has, xfer, open>>
loopvars == <<active, queue, cur, ev>>
clockvars == <<age, quiet, timer>>
vars == <<pc, run, core, clientvars, loopvars, net, proc, clockvars, sig, knock>>

CoreIds == {"signal", "timer", "listen"} \X {NoConn}
Ids == CoreIds \cup ({"socket", "pidfd"} \X Conns)
NoId == <<"none", NoConn>>

Flags == {"in", "out", "err"}

(***************************************************************************)
(* A connection as the kernel sees it:                                     *)
(*   st     it has not arrived, waits in the backlog, is accepted, closed  *)
(*   rx     what is there to read: nothing, a part of a request, a full    *)
(*          request, or a long one: MAX_REQUEST_SIZE bytes or more with a  *)
(*          CRLF in time, so that the read loop stops before it sees the   *)
(*          end of the stream                                              *)
(*   end    whether the peer has closed its side, or reset the connection  *)
(*   room   whether the send buffer has room                               *)
(*   mask   the events its registration asks for                           *)
(*   edge   it is on epoll's ready list                                    *)
(*   said   what the peer was sent so far, "mixed" if an error menu        *)
(*          follows something else                                         *)
(*   len    how long the file being sent really is                         *)
(***************************************************************************)
Connection ==
    [st   : {"new", "backlog", "accepted", "gone"},
     rx   : {"none"} \cup RequestKinds,
     end  : {"open", "fin", "rst"},
     room : BOOLEAN,
     mask : {"in", "out", "none"},
     edge : BOOLEAN,
     said : {"nothing", "error", "file", "cgi", "mixed"},
     len  : 0..MaxFile]

Fresh == [st |-> "new", rx |-> "none", end |-> "open", room |-> TRUE,
          mask |-> "none", edge |-> FALSE, said |-> "nothing", len |-> 0]

NoXfer == [size |-> 0, sent |-> 0]

(* The types of the variables.                                             *)
TypeOK ==
    /\ pc \in {"setup", "wait", "dispatch", "signal", "timer", "listen", "pidfd",
               "read", "open", "stat", "index", "exec", "send", "hup", "exit", "dead"}
    /\ run \in BOOLEAN
    /\ core \subseteq {"directory", "sigfd", "timerfd", "socket", "loop"}
    /\ clients \subseteq Conns
    /\ numClients \in 0..MaxClients
    /\ has \in [Conns -> SUBSET {"file", "dirfd", "pidfd"}]
    /\ xfer \in [Conns -> [size : 0..MaxFile, sent : 0..MaxFile]]
    /\ open \in [Conns -> SUBSET {"socket", "file", "dirfd", "pidfd"}]
    /\ active \subseteq Ids
    /\ queue \subseteq Ids
    /\ cur \in Ids \cup {NoId}
    /\ ev \in [Conns -> SUBSET Flags]
    /\ net \in [Conns -> Connection]
    /\ proc \in [Conns -> {"none", "running", "dying", "exited"}]
    /\ age \in [Conns -> 0..2 * Timeout]
    /\ quiet \in [Conns -> 0..2 * Timeout]
    /\ timer \in [left : 1..Timeout, expired : BOOLEAN]
    /\ sig \in [pending : BOOLEAN, edge : BOOLEAN]
    /\ knock \in BOOLEAN

Init ==
    /\ pc = "setup"
    /\ run = FALSE
    /\ core = {}
    /\ clients = {}
    /\ numClients = 0
    /\ has = [c \in Conns |-> {}]
    /\ xfer = [c \in Conns |-> NoXfer]
    /\ open = [c \in Conns |-> {}]
    /\ active = {}
    /\ queue = {}
    /\ cur = NoId
    /\ ev = [c \in Conns |-> {}]
    /\ net = [c \in Conns |-> Fresh]
    /\ proc = [c \in Conns |-> "none"]
    /\ age = [c \in Conns |-> 0]
    /\ quiet = [c \in Conns |-> 0]
    /\ timer = [left |-> Timeout, expired |-> FALSE]
    /\ sig = [pending |-> FALSE, edge |-> FALSE]
    /\ knock = FALSE

(***************************************************************************)
(* epoll.                                                                  *)
(***************************************************************************)

(* What epoll_wait would report for a connection in state r: EPOLLIN and   *)
(* EPOLLOUT if asked for, EPOLLERR and EPOLLHUP (both "err") always.       *)
Reports(r) ==
    {f \in Flags :
        \/ f = "in"  /\ r.mask = "in"  /\ (r.rx # "none" \/ r.end # "open")
        \/ f = "out" /\ r.mask = "out" /\ (r.room \/ r.end = "rst")
        \/ f = "err" /\ r.end = "rst"}

(* A registration whose connection has just become r goes on the ready     *)
(* list if there is something to report.                                   *)
Polled(r) == [r EXCEPT !.edge = @ \/ Reports(r) # {}]

Backlog == {c \in Conns : net[c].st = "backlog"}

IsReady(id) ==
    \/ id[1] = "signal" /\ sig.edge
    \/ id[1] = "timer" /\ timer.expired
    \/ id[1] = "listen" /\ knock /\ Backlog # {}
    \/ id[1] = "socket" /\ net[id[2]].edge /\ Reports(net[id[2]]) # {}
    \/ id[1] = "pidfd" /\ proc[id[2]] = "exited"

Ready == {id \in active : IsReady(id)}

(* The error menu is sent. A peer that has reset the connection never      *)
(* sees it.                                                                *)
Told(r) ==
    IF r.end = "rst" THEN r
    ELSE [r EXCEPT !.said = IF @ = "nothing" THEN "error" ELSE "mixed"]

Gone(r) == [Fresh EXCEPT !.st = "gone", !.said = r.said]

(***************************************************************************)
(* client_disconnect, for all clients in D; those in told are sent an      *)
(* error menu first.                                                       *)
(***************************************************************************)
(* Mutant: dirfd is not closed.                                            *)
OwnedButDir(c) == {"socket"} \cup (has[c] \ {"dirfd"})

Owned(c) == {"socket"} \cup has[c]

(* Mutant: the pidfd is not taken out of the loop.                         *)
RegistrationsButPid(c) == {<<"socket", c>>}

RegistrationsOf(c) ==
    {<<"socket", c>>} \cup (IF "pidfd" \in has[c] THEN {<<"pidfd", c>>} ELSE {})

(* Mutant: the counter goes down twice.                                    *)
CountTwice(D) == numClients - 2 * Cardinality(D)

CountWithout(D) == numClients - Cardinality(D)

Disconnect(D, told) ==
    LET Without(f, blank) == [c \in Conns |-> IF c \in D THEN blank ELSE f[c]] IN
    /\ open' = [c \in Conns |-> IF c \in D THEN open[c] \ Owned(c) ELSE open[c]]
    /\ active' = active \ UNION {RegistrationsOf(c) : c \in D}
    /\ clients' = clients \ D
    /\ numClients' = CountWithout(D)
    /\ net' = [c \in Conns |-> CASE c \in told     -> Gone(Told(net[c]))
                                 [] c \in D \ told -> Gone(net[c])
                                 [] OTHER          -> net[c]]
    /\ has' = Without(has, {})
    /\ xfer' = Without(xfer, NoXfer)
    /\ ev' = Without(ev, {})
    /\ age' = Without(age, 0)
    /\ quiet' = Without(quiet, 0)

(* pidfd_send_signal(SIGKILL) to the programs of K. It fails for those     *)
(* that have ended: they are reaped at once, SIGCHLD being ignored.        *)
Killed(K) == [c \in Conns |-> IF c \in K /\ proc[c] = "running" THEN "dying" ELSE proc[c]]

(* Mutant: the result of pidfd_send_signal is ignored.                     *)
KillUnchecked(c) == proc[c] = "lost"

KillFails(c) == proc[c] = "exited"

(***************************************************************************)
(* server_process: the descriptors of server_t are opened one by one, then *)
(* the loop is entered. Any failure ends the process through exit().       *)
(***************************************************************************)
Before(d) ==
    CASE d = "directory" -> {}
      [] d = "sigfd"     -> {"directory"}
      [] d = "timerfd"   -> {"directory", "sigfd"}
      [] d = "socket"    -> {"directory", "sigfd", "timerfd"}
      [] d = "loop"      -> {"directory", "sigfd", "timerfd", "socket"}

Setup(d) ==
    /\ pc = "setup"
    /\ core = Before(d)
    /\ core' = core \cup {d}
    /\ UNCHANGED <<pc, run, clientvars, loopvars, net, proc, clockvars, sig, knock>>

SetupFails ==
    /\ pc = "setup"
    /\ "setup" \in Faults
    /\ "loop" \notin core
    /\ pc' = "exit"
    /\ UNCHANGED <<run, core, clientvars, loopvars, net, proc, clockvars, sig, knock>>

(* The results of sepoll_add are ignored: the loop may be deaf to some.    *)
EnterLoop(deaf) ==
    /\ pc = "setup"
    /\ "loop" \in core
    /\ deaf # {} => "addcore" \in Faults
    /\ active' = CoreIds \ deaf
    /\ sig' = [sig EXCEPT !.edge = sig.pending /\ <<"signal", NoConn>> \notin deaf]
    /\ knock' = (Backlog # {} /\ <<"listen", NoConn>> \notin deaf)
    /\ run' = TRUE
    /\ pc' = "wait"
    /\ UNCHANGED <<core, clientvars, queue, cur, ev, net, proc, clockvars>>

(***************************************************************************)
(* sepoll_enter. The array holds maxClients + 3 events. The timerfd and    *)
(* the pidfds are level-triggered and stay ready.                          *)
(***************************************************************************)
EventsSize == MaxClients + 3

Batches ==
    IF Cardinality(Ready) <= EventsSize THEN {Ready}
    ELSE {R \in SUBSET Ready : Cardinality(R) = EventsSize}

Collect(R) ==
    /\ pc = "wait"
    /\ R # {}
    /\ queue' = R
    /\ ev' = [c \in Conns |-> IF <<"socket", c>> \in R THEN Reports(net[c]) ELSE {}]
    /\ net' = [c \in Conns |->
                 IF <<"socket", c>> \in R THEN [net[c] EXCEPT !.edge = FALSE] ELSE net[c]]
    /\ sig' = [sig EXCEPT !.edge = @ /\ <<"signal", NoConn>> \notin R]
    /\ knock' = (knock /\ <<"listen", NoConn>> \notin R)
    /\ pc' = "dispatch"
    /\ UNCHANGED <<run, core, clientvars, active, cur, proc, clockvars>>

(* The first branch of client_socket that the events of c lead to.         *)
Branch(flags) ==
    CASE "in" \in flags  -> "read"
      [] "in" \notin flags /\ "out" \in flags -> "send"
      [] OTHER -> "hup"

(* Mutant: the loop calls what has been removed.                           *)
CalledAnyway(id) == id \in Ids

Called(id) == id \in active

Dispatch(id) ==
    /\ pc = "dispatch"
    /\ id \in queue
    /\ queue' = queue \ {id}
    /\ IF Called(id)
         THEN /\ cur' = id
              /\ pc' = IF id[1] = "socket" THEN Branch(ev[id[2]]) ELSE id[1]
         ELSE UNCHANGED <<cur, pc>>
    /\ UNCHANGED <<run, core, clientvars, active, ev, net, proc, clockvars, sig, knock>>

EndBatch ==
    /\ pc = "dispatch"
    /\ queue = {}
    /\ pc' = IF run THEN "wait" ELSE "exit"
    /\ UNCHANGED <<run, core, clientvars, loopvars, net, proc, clockvars, sig, knock>>

(* epoll_wait fails, as it does with EINTR when the process is stopped and *)
(* continued: sepoll_enter returns and the worker exits.                   *)
WaitFails ==
    /\ pc = "wait"
    /\ "wait" \in Faults
    /\ run' = FALSE
    /\ pc' = "exit"
    /\ UNCHANGED <<core, clientvars, loopvars, net, proc, clockvars, sig, knock>>

Returns == cur' = NoId /\ pc' = "dispatch"

(***************************************************************************)
(* server_signal and server_timer.                                         *)
(***************************************************************************)
ServerSignal ==
    /\ pc = "signal"
    /\ run' = (run /\ ~sig.pending)
    /\ sig' = [sig EXCEPT !.pending = FALSE]
    /\ Returns
    /\ UNCHANGED <<core, clientvars, active, queue, ev, net, proc, clockvars, knock>>

(* Mutant: > for >=.                                                       *)
OverdueLate(c) == age[c] > Timeout

Overdue(c) == age[c] >= Timeout

(* getsockopt fails for the connections in blind.                          *)
ServerTimer(blind) ==
    LET old  == {c \in clients : Overdue(c)}
        idle == {c \in old : "pidfd" \notin has[c]}
        kill == {c \in old \ idle : c \in blind \/ quiet[c] >= Timeout}
        fail == {c \in kill : KillFails(c)}
    IN /\ pc = "timer"
       /\ blind # {} => "sockopt" \in Faults
       /\ timer' = [timer EXCEPT !.expired = FALSE]
       /\ Disconnect(idle \cup fail, {c \in idle : xfer[c].sent = 0})
       /\ proc' = Killed(kill)
       /\ Returns
       /\ UNCHANGED <<run, core, queue, sig, knock>>

(***************************************************************************)
(* server_socket: accept until the backlog is empty.                       *)
(***************************************************************************)
AtListener(c) == pc = "listen" /\ c \in Backlog

(* The connection is closed before it becomes a client.                    *)
TurnAway(c) ==
    /\ net' = [net EXCEPT ![c] = Gone(Told(net[c]))]
    /\ UNCHANGED <<pc, run, core, clientvars, loopvars, proc, clockvars, sig, knock>>

(* Mutant: > for ==.                                                       *)
FullLate == numClients > MaxClients

Full == numClients = MaxClients

AcceptFull(c) == AtListener(c) /\ Full /\ TurnAway(c)

AcceptNoMemory(c) == AtListener(c) /\ ~Full /\ "malloc" \in Faults /\ TurnAway(c)

(* Mutant: one connection is accepted for an event.                        *)
AcceptStops == Returns

AcceptLoops == UNCHANGED <<pc, cur>>

(* sepoll_add may fail; the client is kept all the same.                   *)
AcceptClient(c, registered) ==
    /\ AtListener(c)
    /\ ~Full
    /\ ~registered => "addsock" \in Faults
    /\ open' = [open EXCEPT ![c] = {"socket"}]
    /\ net' = [net EXCEPT ![c] = Polled([@ EXCEPT !.st = "accepted", !.mask = "in"])]
    /\ active' = IF registered THEN active \cup {<<"socket", c>>} ELSE active
    /\ clients' = clients \cup {c}
    /\ numClients' = numClients + 1
    /\ AcceptLoops
    /\ UNCHANGED <<run, core, has, xfer, queue, ev, proc, clockvars, sig, knock>>

AcceptBlocks ==
    /\ pc = "listen"
    /\ Backlog = {}
    /\ Returns
    /\ UNCHANGED <<run, core, clientvars, active, queue, ev, net, proc, clockvars, sig, knock>>

(* accept4 fails otherwise, for want of descriptors for instance.          *)
AcceptFails ==
    /\ pc = "listen"
    /\ "accept" \in Faults
    /\ Returns
    /\ UNCHANGED <<run, core, clientvars, active, queue, ev, net, proc, clockvars, sig, knock>>

(***************************************************************************)
(* client_socket. After the branch for EPOLLIN comes the one for EPOLLOUT, *)
(* then the one for errors, unless the client is gone by then.             *)
(***************************************************************************)
In(c, step) == pc = step /\ cur = <<"socket", c>>

AfterOut(c) ==
    IF "err" \in ev[c] THEN pc' = "hup" /\ cur' = cur ELSE Returns

AfterIn(c) ==
    IF "out" \in ev[c] THEN pc' = "send" /\ cur' = cur ELSE AfterOut(c)

(* client_disconnect and return, with or without an error menu.            *)
Drop(c) ==
    /\ Disconnect({c}, {})
    /\ Returns
    /\ UNCHANGED <<run, core, queue, proc, timer, sig, knock>>

Refuse(c) ==
    /\ Disconnect({c}, {c})
    /\ Returns
    /\ UNCHANGED <<run, core, queue, proc, timer, sig, knock>>

(* The end of the stream, or ECONNRESET, is met unless the buffer fills    *)
(* up before: even with a request in the buffer the client is dropped.     *)
MeetsEnd(c) == net[c].end # "open" /\ net[c].rx # "long"

ReadEnd(c) == In(c, "read") /\ MeetsEnd(c) /\ Drop(c)

ReadFails(c) == In(c, "read") /\ "read" \in Faults /\ Refuse(c)

ReadBad(c) ==
    /\ In(c, "read")
    /\ ~MeetsEnd(c)
    /\ net[c].rx \in {"none", "part"}
    /\ Refuse(c)

ReadRequest(c) ==
    /\ In(c, "read")
    /\ ~MeetsEnd(c)
    /\ net[c].rx \in {"full", "long"}
    /\ net' = [net EXCEPT ![c].rx = "none"]
    /\ pc' = "open"
    /\ UNCHANGED <<run, core, clientvars, loopvars, proc, clockvars, sig, knock>>

(* openat, for the requested path and for the index file of a directory.   *)
OpenFile(c) ==
    /\ In(c, "open") \/ In(c, "index")
    /\ open' = [open EXCEPT ![c] = @ \cup {"file"}]
    /\ has' = [has EXCEPT ![c] = @ \cup {"file"}]
    /\ pc' = "stat"
    /\ UNCHANGED <<run, core, clients, numClients, xfer, loopvars, net, proc,
                   clockvars, sig, knock>>

(* A path with a component that starts with a period is refused before     *)
(* that, with the same effect.                                             *)
OpenFails(c) == (In(c, "open") \/ In(c, "index")) /\ Refuse(c)

StatRegular(c) ==
    /\ In(c, "stat")
    /\ pc' = "exec"
    /\ UNCHANGED <<run, core, clientvars, loopvars, net, proc, clockvars, sig, knock>>

(* A directory: its descriptor moves from file to dirfd.                   *)
StatDirectory(c) ==
    /\ In(c, "stat")
    /\ "dirfd" \notin has[c]
    /\ has' = [has EXCEPT ![c] = {"dirfd"}]
    /\ open' = [open EXCEPT ![c] = (@ \ {"file"}) \cup {"dirfd"}]
    /\ pc' = "index"
    /\ UNCHANGED <<run, core, clients, numClients, xfer, loopvars, net, proc,
                   clockvars, sig, knock>>

(* fstat fails, or it is neither a file nor a directory, or the index file *)
(* is not a file.                                                          *)
StatRefused(c) == In(c, "stat") /\ Refuse(c)

(* Mutant: the socket of a CGI program keeps the mask it had.              *)
CgiMaskKept == "in"

(* The masks client_socket gives the socket for a file and for a CGI       *)
(* program: the second reports only errors.                                *)
FileMask == "out"
CgiMask == "none"

(* The file is to be sent: its size is what fstat said.                    *)
StartFile(c, size) ==
    /\ In(c, "exec")
    /\ has' = [has EXCEPT ![c] = @ \ {"dirfd"}]
    /\ open' = [open EXCEPT ![c] = @ \ {"dirfd"}]
    /\ xfer' = [xfer EXCEPT ![c].size = size]
    /\ net' = [net EXCEPT ![c] = Polled([@ EXCEPT !.mask = FileMask, !.len = size])]
    /\ age' = [age EXCEPT ![c] = 0]
    /\ AfterIn(c)
    /\ UNCHANGED <<run, core, clients, numClients, active, queue, ev, proc,
                   quiet, timer, sig, knock>>

(* The file is executable: sfork returns once the child has called execve  *)
(* or has ended without; in the second case it sends the error menu. The   *)
(* pidfd may fail to be registered.                                        *)
StartCgi(c, execs, registered) ==
    /\ In(c, "exec")
    /\ ~registered => "addpid" \in Faults
    /\ has' = [has EXCEPT ![c] = {"pidfd"}]
    /\ open' = [open EXCEPT ![c] = (@ \ {"file", "dirfd"}) \cup {"pidfd"}]
    /\ proc' = [proc EXCEPT ![c] = IF execs THEN "running" ELSE "exited"]
    /\ net' = [net EXCEPT ![c] =
                 LET r == [@ EXCEPT !.mask = CgiMask]
                 IN Polled(IF execs THEN r ELSE Told(r))]
    /\ active' = IF registered THEN active \cup {<<"pidfd", c>>} ELSE active
    /\ age' = [age EXCEPT ![c] = 0]
    /\ AfterIn(c)
    /\ UNCHANGED <<run, core, clients, numClients, xfer, queue, ev, quiet, timer,
                   sig, knock>>

ForkFails(c) == In(c, "exec") /\ Refuse(c)

(* sendfile moves n units, as far as the file still reaches; the send      *)
(* buffer may be full then. The loop goes on until everything is sent.     *)
Unsent(c) == xfer[c].size - xfer[c].sent

Available(c) == net[c].len - xfer[c].sent

(* Mutant: one sendfile for an event.                                      *)
SendStops(c) == AfterOut(c)

SendLoops(c) == pc' = "send" /\ cur' = cur

Sendable(c) == net[c].end # "rst" /\ net[c].room

SendSome(c, n) ==
    /\ In(c, "send")
    /\ Sendable(c)
    /\ n < Unsent(c)
    /\ n <= Available(c)
    /\ \E room \in BOOLEAN :
         net' = [net EXCEPT ![c].room = room,
                            ![c].said = IF @ \in {"nothing", "file"} THEN "file" ELSE "mixed"]
    /\ xfer' = [xfer EXCEPT ![c].sent = @ + n]
    /\ SendLoops(c)
    /\ UNCHANGED <<run, core, clients, numClients, has, open, active, queue, ev, proc,
                   clockvars, sig, knock>>

(* The last piece, or an empty file.                                       *)
SendLast(c) ==
    /\ In(c, "send")
    /\ Sendable(c)
    /\ Unsent(c) <= Available(c) \/ Unsent(c) = 0
    /\ Drop(c)

(* The file has become shorter than it was: sendfile returns 0, and the    *)
(* loop calls it again.                                                    *)
SendNothing(c) ==
    /\ In(c, "send")
    /\ net[c].end # "rst"
    /\ Unsent(c) > 0
    /\ Available(c) <= 0
    /\ UNCHANGED vars

SendBlocks(c) ==
    /\ In(c, "send")
    /\ net[c].end # "rst"
    /\ ~net[c].room
    /\ Unsent(c) > 0
    /\ Available(c) > 0
    /\ age' = [age EXCEPT ![c] = 0]
    /\ AfterOut(c)
    /\ UNCHANGED <<run, core, clientvars, active, queue, ev, net, proc, quiet, timer,
                   sig, knock>>

(* Mutant: the error menu is sent whatever was sent before.                *)
TellsAlways(c) == c \in Conns

TellsFailure(c) == xfer[c].sent = 0

(* EPIPE, or an error of its own: then the peer is told, but only if it    *)
(* has not been sent a part of the file.                                   *)
SendFails(c) ==
    /\ In(c, "send")
    /\ net[c].end = "rst" \/ "sendfile" \in Faults
    /\ IF TellsFailure(c) THEN Refuse(c) ELSE Drop(c)

(* EPOLLERR, EPOLLHUP: a CGI program is killed, and its end will be what   *)
(* disconnects the client.                                                 *)
Hangup(c) ==
    /\ In(c, "hup")
    /\ "pidfd" \notin has[c] \/ KillFails(c)
    /\ Drop(c)

HangupKills(c) ==
    /\ In(c, "hup")
    /\ "pidfd" \in has[c]
    /\ ~KillFails(c)
    /\ proc' = Killed({c})
    /\ Returns
    /\ UNCHANGED <<run, core, clientvars, active, queue, ev, net, clockvars, sig, knock>>

(* client_pidfd: the CGI program has ended.                                *)
ClientPidfd(c) ==
    /\ pc = "pidfd"
    /\ cur = <<"pidfd", c>>
    /\ Drop(c)

(***************************************************************************)
(* exit(): server_cleanup kills the CGI programs and closes everything.    *)
(* numClients is not kept up to date any more.                             *)
(***************************************************************************)
(* Mutant: exit() leaves the CGI programs alone.                           *)
CleanupSpares == clients \cap {}

CleanupKills == {c \in clients : "pidfd" \in has[c]}

(* What is left open by a process that is gone: nothing.                   *)
AllClosed ==
    /\ core' = {}
    /\ clients' = {}
    /\ has' = [c \in Conns |-> {}]
    /\ xfer' = [c \in Conns |-> NoXfer]
    /\ open' = [c \in Conns |-> {}]
    /\ active' = {}
    /\ ev' = [c \in Conns |-> {}]
    /\ net' = [c \in Conns |-> IF net[c].st = "new" THEN net[c] ELSE Gone(net[c])]
    /\ age' = [c \in Conns |-> 0]
    /\ quiet' = [c \in Conns |-> 0]
    /\ pc' = "dead"

ServerCleanup ==
    /\ pc = "exit"
    /\ proc' = Killed(CleanupKills)
    /\ AllClosed
    /\ UNCHANGED <<run, numClients, queue, cur, timer, sig, knock>>

(***************************************************************************)
(* The outside.                                                            *)
(***************************************************************************)

(* SIGTERM, from the supervisor or because it has died. Until the worker   *)
(* has blocked it, on its way to the signalfd, it kills the process.       *)
SigTerm ==
    /\ pc # "dead"
    /\ IF "sigfd" \in core
         THEN /\ sig' = [pending |-> TRUE, edge |-> sig.edge \/ <<"signal", NoConn>> \in active]
              /\ UNCHANGED <<pc, run, core, clientvars, loopvars, net, proc, clockvars, knock>>
         ELSE /\ AllClosed
              /\ UNCHANGED <<run, numClients, queue, cur, proc, timer, sig, knock>>

Connect(c) ==
    /\ "socket" \in core
    /\ net[c].st = "new"
    /\ net' = [net EXCEPT ![c].st = "backlog"]
    /\ knock' = (<<"listen", NoConn>> \in active)
    /\ UNCHANGED <<pc, run, core, clientvars, loopvars, proc, clockvars, sig>>

(* Something happens at the other end of the connection.                   *)
PeerActs(c, r) ==
    /\ net[c].st \in {"backlog", "accepted"}
    /\ r # net[c]
    /\ net' = [net EXCEPT ![c] = IF <<"socket", c>> \in active THEN Polled(r) ELSE r]
    /\ UNCHANGED <<pc, run, core, clientvars, loopvars, proc, clockvars, sig, knock>>

PeerSends(c, what) ==
    /\ net[c].end = "open"
    /\ \/ net[c].rx = "none"
       \/ net[c].rx = "part" /\ what # "part"
       \/ net[c].rx = "full" /\ what = "long"
    /\ PeerActs(c, [net[c] EXCEPT !.rx = what])

PeerCloses(c) ==
    /\ "fin" \in PeerMay
    /\ net[c].end = "open"
    /\ PeerActs(c, [net[c] EXCEPT !.end = "fin"])

PeerResets(c) ==
    /\ "rst" \in PeerMay
    /\ PeerActs(c, [net[c] EXCEPT !.end = "rst"])

PeerReads(c) == PeerActs(c, [net[c] EXCEPT !.room = TRUE])

(* A CGI program writes to the socket it has as its standard output.       *)
CgiWrites(c) ==
    /\ proc[c] = "running"
    /\ net[c].end # "rst"
    /\ net[c].st = "accepted"
    /\ net' = [net EXCEPT ![c].said = IF @ \in {"nothing", "cgi"} THEN "cgi" ELSE "mixed"]
    /\ quiet' = [quiet EXCEPT ![c] = 0]
    /\ UNCHANGED <<pc, run, core, clientvars, loopvars, proc, age, timer, sig, knock>>

CgiEnds(c) ==
    /\ proc[c] \in {"running", "dying"}
    /\ proc' = [proc EXCEPT ![c] = "exited"]
    /\ UNCHANGED <<pc, run, core, clientvars, loopvars, net, clockvars, sig, knock>>

Truncate(c) ==
    /\ "truncate" \in Faults
    /\ "file" \in has[c]
    /\ net[c].len > 0
    /\ net' = [net EXCEPT ![c].len = @ - 1]
    /\ UNCHANGED <<pc, run, core, clientvars, loopvars, proc, clockvars, sig, knock>>

(* The clock. Ages are counted no further than anything looks: the worker  *)
(* compares them with the timeout, BootedInTime with twice the timeout.    *)
(* How long a socket has been quiet counts from when a program is started  *)
(* on it: the worker asks only once the program is as old as the timeout.  *)
AgeLimit == IF Prompt THEN 2 * Timeout ELSE Timeout

Older(f, S) ==
    [c \in Conns |-> IF c \in S /\ f[c] < AgeLimit THEN f[c] + 1 ELSE f[c]]

Tick ==
    /\ pc # "dead"
    /\ Prompt => pc = "wait" /\ Ready = {}
    /\ age' = Older(age, clients)
    /\ quiet' = Older(quiet, {c \in clients : "pidfd" \in has[c]})
    /\ timer' = IF "timerfd" \notin core THEN timer
                ELSE IF timer.left > 1 THEN [timer EXCEPT !.left = @ - 1]
                ELSE [left |-> Timeout, expired |-> TRUE]
    /\ UNCHANGED <<pc, run, core, clientvars, loopvars, net, proc, sig, knock>>

(***************************************************************************)
(* The next-state relation.                                                *)
(***************************************************************************)
AcceptNext ==
    \/ \E c \in Conns :
         \/ AcceptFull(c) \/ AcceptNoMemory(c)
         \/ \E registered \in BOOLEAN : AcceptClient(c, registered)
    \/ AcceptBlocks \/ AcceptFails

ReadNext ==
    \E c \in Conns :
       \/ ReadEnd(c) \/ ReadFails(c) \/ ReadBad(c) \/ ReadRequest(c)
       \/ OpenFile(c) \/ OpenFails(c)
       \/ StatRegular(c) \/ StatDirectory(c) \/ StatRefused(c)
       \/ \E size \in 0..MaxFile : StartFile(c, size)
       \/ \E execs, registered \in BOOLEAN : StartCgi(c, execs, registered)
       \/ ForkFails(c)

SendNext ==
    \E c \in Conns :
       \/ \E n \in 1..MaxFile : SendSome(c, n)
       \/ SendLast(c) \/ SendNothing(c) \/ SendBlocks(c) \/ SendFails(c)

WorkerNext ==
    \/ \E d \in {"directory", "sigfd", "timerfd", "socket", "loop"} : Setup(d)
    \/ SetupFails \/ \E deaf \in SUBSET CoreIds : EnterLoop(deaf)
    \/ \E R \in Batches : Collect(R)
    \/ \E id \in queue : Dispatch(id)
    \/ EndBatch
    \/ ServerSignal \/ \E blind \in SUBSET clients : ServerTimer(blind)
    \/ AcceptNext \/ ReadNext \/ SendNext
    \/ \E c \in Conns : Hangup(c) \/ HangupKills(c) \/ ClientPidfd(c)
    \/ ServerCleanup

OutsideNext ==
    \/ SigTerm
    \/ \E c \in Conns :
         \/ Connect(c) \/ \E what \in PeerMay \cap RequestKinds : PeerSends(c, what)
         \/ PeerCloses(c) \/ PeerResets(c) \/ PeerReads(c)
         \/ CgiWrites(c) \/ CgiEnds(c) \/ Truncate(c)
    \/ Tick

Next == WorkerNext \/ WaitFails \/ OutsideNext

Spec == Init /\ [][Next]_vars

(***************************************************************************)
(* Fairness. The worker is a single thread that the system runs; epoll     *)
(* serves its ready list in turn; time passes; a process that was sent     *)
(* SIGKILL ends. Nothing is asked of peers, of CGI programs, or of those   *)
(* who send signals. Fair turns of the sockets are left out: nothing below *)
(* needs them.                                                             *)
(***************************************************************************)
Patient == {<<"signal", NoConn>>, <<"timer", NoConn>>} \cup ({"pidfd"} \X Conns)

FairSpec ==
    /\ Spec
    /\ WF_vars(WorkerNext)
    /\ \A id \in Patient : SF_vars(\E R \in Batches : id \in R /\ Collect(R))
    /\ WF_vars(Tick)
    /\ \A c \in Conns : WF_vars(proc[c] = "dying" /\ CgiEnds(c))

(***************************************************************************)
(* Properties.                                                             *)
(***************************************************************************)

(* The counter that limits the clients is the length of their list, which  *)
(* never exceeds maxClients (server.c:183, 688, 722).                      *)
CountMatches ==
    pc # "dead" => numClients = Cardinality(clients) /\ numClients <= MaxClients

(* No descriptor leaks and none is closed twice: what is open on behalf of *)
(* a connection is at every step what its client_t holds, and nothing once *)
(* that is freed, whichever error path was taken (server.c:153-184).       *)
FdsMatchRecords ==
    \A c \in Conns : open[c] = IF c \in clients THEN {"socket"} \cup has[c] ELSE {}

(* No callback runs for a client that has been freed, although one client  *)
(* may have two registrations in the same batch and either may disconnect  *)
(* it (server.c:167-180).                                                  *)
CallsLiveClient ==
    /\ cur[2] \in Conns => cur[2] \in clients
    /\ \A id \in active : id[2] \in Conns => id[2] \in clients

(* A CGI program never runs on without a client that holds its pidfd, so   *)
(* whenever the worker gives up on it, or exits, it kills it               *)
(* (server.c:643-653, 804-815, 1053-1057).                                 *)
NoOrphanCgi ==
    \A c \in Conns : proc[c] = "running" => c \in clients /\ "pidfd" \in has[c]

(* A peer is never sent an error menu after a part of a file or of the     *)
(* output of a CGI program, nor the one after the other (server.c:618-622, *)
(* 819-823).                                                               *)
OneReply == \A c \in Conns : net[c].said # "mixed"

(* Edge-triggered events are not lost: unless the callback of a socket is  *)
(* about to run or running, whatever could be done for its client now is   *)
(* on epoll's ready list. Nothing is to be done for one whose CGI program  *)
(* has been killed or has ended, until its pidfd says so (server.c:223-255,*)
(* 602-629, 643-648).                                                      *)
NoLostWakeup ==
    \A c \in Conns :
        /\ <<"socket", c>> \in active \ (queue \cup {cur})
        /\ Reports(net[c]) # {}
        /\ "pidfd" \in has[c] => proc[c] = "running"
        => net[c].edge

(* "Accept incoming connections until it blocks" (server.c:665): when the  *)
(* worker waits again, no connection is left in the backlog that epoll     *)
(* would not report.                                                       *)
AcceptedUntilBlocked == pc = "wait" /\ Backlog # {} => knock

(* "Do sendfile until it would block or is complete" (server.c:602): the   *)
(* loop comes to its end.                                                  *)
SendfileEnds == pc = "send" ~> pc # "send"

(* As long as the worker keeps up with the clock, and the loop has been    *)
(* told of the timer, no client is idle for two timeouts, and no CGI       *)
(* program older than that is silent for as long (server.c:787-829).       *)
BootedInTime ==
    <<"timer", NoConn>> \in active => \A c \in clients :
        IF "pidfd" \in has[c]
          THEN proc[c] = "running" => age[c] < 2 * Timeout \/ quiet[c] < 2 * Timeout
          ELSE age[c] < 2 * Timeout

(* SIGTERM ends the worker, whatever its clients do (server.c:762-766,     *)
(* main.c:149-166), and with it all its CGI programs.                      *)
TermEnds ==
    sig.pending ~> (pc = "dead" /\ \A c \in Conns : proc[c] \in {"none", "exited"})

(* No client stays for ever, unless its CGI program keeps writing,         *)
(* whatever its peer does or fails to do (server.c:774-831).               *)
ClientsLeave ==
    \A c \in Conns : []<>(c \notin clients \/ ("pidfd" \in has[c] /\ quiet[c] = 0))

(* The worker uses its event loop as EventLoop.tla allows, and so may rely *)
(* on what Sepoll.tla is shown to deliver.                                 *)
EL == INSTANCE EventLoop WITH current <- cur

ImplementsEventLoop == EL!ELSpec

(***************************************************************************)
(* The invariant that implies them, in parts.                              *)
(***************************************************************************)
ClientSteps == {"read", "open", "stat", "index", "exec", "send", "hup"}

(* Whose callback runs is where the worker is.                             *)
Callback ==
    CASE pc \in {"signal", "timer", "listen", "pidfd"} -> pc
      [] pc \in ClientSteps -> "socket"
      [] OTHER -> "none"

(* Between batches nothing is left of one; the loop comes after the set-up.*)
WhereInv ==
    /\ cur[1] = Callback
    /\ cur \notin queue
    /\ pc \in {"setup", "wait", "exit", "dead"} => queue = {}
    /\ pc \notin {"setup", "exit", "dead"} => "loop" \in core
    /\ "loop" \in core => {"sigfd", "timerfd", "socket"} \subseteq core
    /\ pc = "setup" \/ "loop" \notin core => clients = {} /\ active = {}

(* What the registrations of a connection say of it.                       *)
RegistrationInv(c) ==
    /\ <<"socket", c>> \in active \cup {cur} => c \in clients
    /\ <<"pidfd", c>> \in active \cup {cur} => c \in clients /\ "pidfd" \in has[c]
    /\ <<"pidfd", c>> \in queue \cup {cur} => proc[c] = "exited"
    /\ <<"socket", c>> \in queue => net[c].st \in {"accepted", "gone"}

(* Nothing is kept of what is not a client.                                *)
NoClientInv(c) ==
    /\ has[c] = {} /\ open[c] = {} /\ ev[c] = {}
    /\ xfer[c] = NoXfer
    /\ age[c] = 0 /\ quiet[c] = 0
    /\ proc[c] # "running"
    /\ net[c].st # "accepted"
    /\ net[c].st \in {"new", "backlog"} => proc[c] = "none" /\ net[c].said = "nothing"

(* A request is being looked up.                                           *)
LooksUp(c) == cur = <<"socket", c>> /\ pc \in {"stat", "index", "exec"}

(* The mask of a client says how far it is: it waits for its request, is   *)
(* sent a file, or has a CGI program.                                      *)
ClientInv(c) ==
    /\ net[c].st = "accepted"
    /\ open[c] = {"socket"} \cup has[c]
    /\ proc[c] = "none" <=> "pidfd" \notin has[c]
    /\ net[c].mask = "in" =>
          /\ xfer[c] = NoXfer
          /\ net[c].said = "nothing"
          /\ "pidfd" \notin has[c]
          /\ ~LooksUp(c) => has[c] = {}
    /\ net[c].mask = "out" =>
          /\ has[c] = {"file"}
          /\ net[c].said = IF xfer[c].sent = 0 THEN "nothing" ELSE "file"
    /\ net[c].mask = "none" =>
          /\ has[c] = {"pidfd"}
          /\ proc[c] = "running" => net[c].said \in {"nothing", "cgi"}

(* While a request is looked up, the worker holds what it has opened.      *)
LookupInv(c) ==
    LooksUp(c) => has[c] \in IF pc = "index" THEN {{"dirfd"}}
                             ELSE {{"file"}, {"file", "dirfd"}}

(* The events reported for a socket are still those its mask asks for.     *)
EventInv(c) ==
    /\ "in" \in ev[c] => "out" \notin ev[c]
    /\ "out" \in ev[c] => net[c].mask = "out"
    /\ "in" \in ev[c] /\ <<"socket", c>> \in queue => net[c].mask = "in"
    /\ cur = <<"socket", c>> /\ pc \in ClientSteps \ {"send", "hup"} =>
          "in" \in ev[c] /\ net[c].mask = "in"
    /\ cur = <<"socket", c>> /\ pc = "send" => net[c].mask = "out"

ConnInv(c) ==
    /\ RegistrationInv(c)
    /\ c \notin clients => NoClientInv(c)
    /\ c \in clients => ClientInv(c)
    /\ LookupInv(c)
    /\ EventInv(c)
    /\ net[c].said # "mixed"

WorkerInv ==
    /\ TypeOK
    /\ WhereInv
    /\ CountMatches
    /\ \A c \in Conns : ConnInv(c)

(* If time passes only while the worker waits: an age counts from the last *)
(* time the timer was served, which was before the timer's present period. *)
AgeBound ==
    IF timer.expired THEN 2 * Timeout - 1 ELSE 2 * Timeout - 1 - timer.left

Bounded(c) ==
    IF "pidfd" \in has[c]
      THEN proc[c] = "running" => age[c] <= AgeBound \/ quiet[c] <= AgeBound
      ELSE age[c] <= AgeBound

BootInv ==
    /\ pc = "setup" => ~timer.expired
    /\ <<"timer", NoConn>> \in active =>
          /\ timer.expired => timer.left = Timeout
          /\ \A c \in clients : Bounded(c)

(* Until the backlog is empty, the listening socket is reported, waits in  *)
(* the batch, or is being served.                                          *)
AcceptInv ==
    pc \notin {"setup", "exit", "dead"} =>
        /\ CoreIds \subseteq active
        /\ Backlog # {} => knock \/ <<"listen", NoConn>> \in queue \/ pc = "listen"

=============================================================================
