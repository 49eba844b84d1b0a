----------------------------- MODULE Gophertester -----------------------------
(***************************************************************************)
(* gophertester.c: the benchmark. A parent forks workers, each of which    *)
(* makes one attempt after another at a server until a timer expires, and  *)
(* scores every attempt in memory it shares with the parent. The parent    *)
(* waits for all of them and adds up the scores of those that have         *)
(* succeeded. The server does what it likes.                               *)
(***************************************************************************)
EXTENDS Integers, FiniteSets, SharedAlloc

CONSTANTS Workers,      \* numWorkers of them
          Expected,     \* args->size
          Duration,     \* args->duration: 0 disarms the timer
          Timeout,      \* args->timeout: negative for none
          MaxData,      \* bound: what a socket holds of a reply of any length
          MaxAttempts,  \* bound: no more are begun before the timer expires
          Faults        \* what may fail

ASSUME WorkersAssumption == IsFiniteSet(Workers)
ASSUME BoundsAssumption == Expected \in Nat /\ MaxData \in Nat /\ MaxAttempts \in Nat \ {0}
ASSUME ArgsAssumption == Duration \in Nat /\ Timeout \in Int
ASSUME FaultsAssumption == Faults \subseteq {"alloc", "fork", "setup", "poll"}

VARIABLES
    main,      \* where the parent is
    untried,   \* the workers its loop, to fork or to add up, has not come to
    status,    \* what wait has returned of a worker
    report,    \* the sums that are printed
    step,      \* where a worker is
    results,   \* its counters, in shared memory
    timer,     \* its timerfd: armed, expired, or seen by poll (poll_list[0].fd = -1)
    events,    \* poll_list[1].events
    received,
    conn,      \* kernel: its connection
    late       \* how many attempts it has begun since the timer expired

parentvars == <<main, untried, status, report>>
vars == <<parentvars, step, results, timer, events, received, conn, late>>

Scores == {"total", "successful", "timeout", "mismatch"}
NoScore == [s \in Scores |-> 0]

(* What is there to read, and whether the connection is open and whether   *)
(* the server has ended its part of it.                                    *)
Connection == [st : {"connecting", "open", "reset"}, data : 0..MaxData, end : BOOLEAN]
NewConn == [st |-> "connecting", data |-> 0, end |-> FALSE]

(* The types of the variables.                                             *)
TypeOK ==
    /\ main \in {"alloc", "fork", "wait", "add", "success", "failure"}
    /\ untried \subseteq Workers
    /\ status \in [Workers -> {"unknown", "success", "failure"}]
    /\ report \in [Scores -> Nat]
    /\ step \in [Workers -> {"none", "setup", "attempt", "poll", "write", "read", "close",
                             "success", "failure"}]
    /\ results \in [Workers -> [Scores -> Nat]]
    /\ timer \in [Workers -> {"armed", "expired", "seen"}]
    /\ events \in [Workers -> {"out", "in"}]
    /\ received \in [Workers -> Nat]
    /\ conn \in [Workers -> Connection]
    /\ late \in [Workers -> Nat]

Init ==
    /\ main = "alloc"
    /\ untried = Workers
    /\ status = [w \in Workers |-> "unknown"]
    /\ report = NoScore
    /\ step = [w \in Workers |-> "none"]
    /\ results = [w \in Workers |-> NoScore]
    /\ timer = [w \in Workers |-> "armed"]
    /\ events = [w \in Workers |-> "out"]
    /\ received = [w \in Workers |-> 0]
    /\ conn = [w \in Workers |-> NewConn]
    /\ late = [w \in Workers |-> 0]

(***************************************************************************)
(* The parent.                                                             *)
(***************************************************************************)
workervars == <<results, timer, events, received, conn, late>>

Alloc ==
    /\ main = "alloc"
    /\ main' = "fork"
    /\ UNCHANGED <<untried, status, report, step, workervars>>

AllocFails ==
    /\ main = "alloc"
    /\ "alloc" \in Faults
    /\ main' = "failure"
    /\ UNCHANGED <<untried, status, report, step, workervars>>

Fork(w) ==
    /\ main = "fork"
    /\ w \in untried
    /\ untried' = untried \ {w}
    /\ step' = [step EXCEPT ![w] = "setup"]
    /\ UNCHANGED <<main, status, report, workervars>>

ForkFails(w) ==
    /\ main = "fork"
    /\ "fork" \in Faults
    /\ w \in untried
    /\ untried' = untried \ {w}
    /\ UNCHANGED <<main, status, report, step, workervars>>

AllForked ==
    /\ main = "fork"
    /\ untried = {}
    /\ main' = IF \E w \in Workers : step[w] # "none" THEN "wait" ELSE "failure"
    /\ UNCHANGED <<untried, status, report, step, workervars>>

(* The children wait has not returned.                                     *)
Children == {w \in Workers : step[w] # "none" /\ status[w] = "unknown"}

Wait(w) ==
    /\ main = "wait"
    /\ w \in Children
    /\ step[w] \in {"success", "failure"}
    /\ status' = [status EXCEPT ![w] = step[w]]
    /\ UNCHANGED <<main, untried, report, step, workervars>>

(* Mutant: the workers that have failed count as well.                     *)
CountedAll == {w \in Workers : status[w] # "unknown"}

Counted == {w \in Workers : status[w] = "success"}

StillRunning == Children # {}

WaitEnds ==
    /\ main = "wait"
    /\ ~StillRunning
    /\ main' = "add"
    /\ untried' = Workers
    /\ UNCHANGED <<status, report, step, workervars>>

AddUp(w) ==
    /\ main = "add"
    /\ w \in untried
    /\ untried' = untried \ {w}
    /\ report' = IF w \in Counted THEN [s \in Scores |-> report[s] + results[w][s]] ELSE report
    /\ UNCHANGED <<main, status, step, workervars>>

Report ==
    /\ main = "add"
    /\ untried = {}
    /\ main' = IF Counted = {} THEN "failure" ELSE "success"
    /\ UNCHANGED <<untried, status, report, step, workervars>>

(***************************************************************************)
(* worker_process.                                                         *)
(***************************************************************************)
At(w, s) == step[w] = s

Goes(w, s) == step' = [step EXCEPT ![w] = s]

Counts(w, score) == results' = [results EXCEPT ![w][score] = @ + 1]

(* The descriptors are closed, and the variables of the attempt are gone.  *)
Leaves(w, s) ==
    /\ Goes(w, s)
    /\ events' = [events EXCEPT ![w] = "out"]
    /\ received' = [received EXCEPT ![w] = 0]
    /\ conn' = [conn EXCEPT ![w] = NewConn]

SetTimer(w) ==
    /\ At(w, "setup")
    /\ Goes(w, "attempt")
    /\ UNCHANGED <<parentvars, workervars>>

(* timerfd_create or timerfd_settime fails.                                *)
SetTimerFails(w) ==
    /\ At(w, "setup")
    /\ "setup" \in Faults
    /\ Goes(w, "failure")
    /\ UNCHANGED <<parentvars, workervars>>

(* socket and connect; they may fail, after the attempt was counted. The   *)
(* bound stands for the time that attempts take.                           *)
Attempt(w, connects) ==
    /\ At(w, "attempt")
    /\ ~connects => "setup" \in Faults
    /\ results[w]["total"] < MaxAttempts \/ timer[w] # "armed"
    /\ Counts(w, "total")
    /\ late' = [late EXCEPT ![w] = IF timer[w] = "armed" THEN @ ELSE @ + 1]
    /\ Goes(w, IF connects THEN "poll" ELSE "failure")
    /\ UNCHANGED <<parentvars, timer, events, received, conn>>

SocketReady(w) ==
    IF events[w] = "out" THEN conn[w].st # "connecting"
    ELSE conn[w].data > 0 \/ conn[w].end \/ conn[w].st = "reset"

(* Mutant: poll waits for ever.                                            *)
SilentNever(w) == FALSE

Silent(w) == ~SocketReady(w) /\ timer[w] # "expired"

TimesOut(w) ==
    /\ At(w, "poll")
    /\ Timeout >= 0
    /\ Silent(w)
    /\ Counts(w, "timeout")
    /\ Goes(w, "close")
    /\ UNCHANGED <<parentvars, timer, events, received, conn, late>>

(* Mutant: the timer is looked at when the socket has nothing to report.   *)
SeenAlone(w) == IF SocketReady(w) THEN timer[w] ELSE "seen"

TimerSeen(w) == IF timer[w] = "expired" THEN "seen" ELSE timer[w]

PollReturns(w) ==
    /\ At(w, "poll")
    /\ SocketReady(w) \/ timer[w] = "expired"
    /\ timer' = [timer EXCEPT ![w] = TimerSeen(w)]
    /\ Goes(w, IF ~SocketReady(w) THEN "poll"
               ELSE IF events[w] = "out" THEN "write" ELSE "read")
    /\ UNCHANGED <<parentvars, results, events, received, conn, late>>

PollFails(w) ==
    /\ At(w, "poll")
    /\ "poll" \in Faults
    /\ Leaves(w, "failure")
    /\ UNCHANGED <<parentvars, results, timer, late>>

(* The request is written in one go, or the worker gives up.               *)
Write(w) ==
    /\ At(w, "write")
    /\ conn[w].st = "open"
    /\ events' = [events EXCEPT ![w] = "in"]
    /\ Goes(w, "poll")
    /\ UNCHANGED <<parentvars, results, timer, received, conn, late>>

WriteFails(w) ==
    /\ At(w, "write")
    /\ conn[w].st = "reset"
    /\ Leaves(w, "failure")
    /\ UNCHANGED <<parentvars, results, timer, late>>

(* Replies of any length are told apart by what they are compared with:    *)
(* the bound Expected + 1 stands for all that is longer.                   *)
Accumulated(w, n) == IF received[w] + n > Expected THEN Expected + 1 ELSE received[w] + n

ReadSome(w, n) ==
    /\ At(w, "read")
    /\ conn[w].st = "open"
    /\ n \in 1..conn[w].data
    /\ received' = [received EXCEPT ![w] = Accumulated(w, n)]
    /\ conn' = [conn EXCEPT ![w].data = @ - n]
    /\ UNCHANGED <<parentvars, step, results, timer, events, late>>

(* The end of the reply: a success, or of a size that was not expected.    *)
ReadEnd(w) ==
    /\ At(w, "read")
    /\ conn[w].st = "open" /\ conn[w].data = 0 /\ conn[w].end
    /\ Counts(w, IF Expected > 0 /\ received[w] # Expected THEN "mismatch" ELSE "successful")
    /\ Goes(w, "close")
    /\ UNCHANGED <<parentvars, timer, events, received, conn, late>>

ReadBlocks(w) ==
    /\ At(w, "read")
    /\ conn[w].st = "open" /\ conn[w].data = 0 /\ ~conn[w].end
    /\ Goes(w, "poll")
    /\ UNCHANGED <<parentvars, workervars>>

ReadFails(w) ==
    /\ At(w, "read")
    /\ conn[w].st = "reset"
    /\ Leaves(w, "failure")
    /\ UNCHANGED <<parentvars, results, timer, late>>

(* running is whether poll has not reported the timer yet.                 *)
Close(w) ==
    /\ At(w, "close")
    /\ Leaves(w, IF timer[w] = "seen" THEN "success" ELSE "attempt")
    /\ UNCHANGED <<parentvars, results, timer, late>>

(***************************************************************************)
(* The outside: time and the server.                                       *)
(***************************************************************************)
Running(w) == step[w] \notin {"none", "setup", "success", "failure"}

Expire(w) ==
    /\ Running(w)
    /\ Duration > 0
    /\ timer[w] = "armed"
    /\ timer' = [timer EXCEPT ![w] = "expired"]
    /\ UNCHANGED <<parentvars, step, results, events, received, conn, late>>

ServerActs(w, c) ==
    /\ step[w] \in {"poll", "write", "read"}
    /\ conn[w].st # "reset"
    /\ conn' = [conn EXCEPT ![w] = c]
    /\ UNCHANGED <<parentvars, step, results, timer, events, received, late>>

Accepts(w) == conn[w].st = "connecting" /\ ServerActs(w, [conn[w] EXCEPT !.st = "open"])

Resets(w) == ServerActs(w, [conn[w] EXCEPT !.st = "reset", !.data = 0])

Replies(w, n) ==
    /\ conn[w].st = "open" /\ ~conn[w].end
    /\ conn[w].data + n <= MaxData
    /\ ServerActs(w, [conn[w] EXCEPT !.data = @ + n])

Ends(w) ==
    /\ conn[w].st = "open" /\ ~conn[w].end
    /\ ServerActs(w, [conn[w] EXCEPT !.end = TRUE])

ParentNext ==
    \/ Alloc \/ AllocFails \/ AllForked \/ WaitEnds \/ Report
    \/ \E w \in Workers : Fork(w) \/ ForkFails(w) \/ Wait(w) \/ AddUp(w)

WorkerNext(w) ==
    \/ SetTimer(w) \/ SetTimerFails(w) \/ \E connects \in BOOLEAN : Attempt(w, connects)
    \/ TimesOut(w) \/ PollReturns(w) \/ Write(w) \/ WriteFails(w)
    \/ \E n \in 1..MaxData : ReadSome(w, n)
    \/ ReadEnd(w) \/ ReadBlocks(w) \/ ReadFails(w) \/ Close(w)

ServerNext(w) ==
    Accepts(w) \/ Resets(w) \/ Ends(w) \/ \E n \in 1..MaxData : Replies(w, n)

Next ==
    \/ ParentNext
    \/ \E w \in Workers : WorkerNext(w) \/ PollFails(w) \/ Expire(w) \/ ServerNext(w)

Spec == Init /\ [][Next]_vars

(* Parent and workers run, poll times out where it may, and time passes;   *)
(* nothing is asked of the server.                                         *)
FairSpec ==
    /\ Spec
    /\ WF_vars(ParentNext)
    /\ \A w \in Workers : WF_vars(WorkerNext(w)) /\ WF_vars(Expire(w))

(***************************************************************************)
(* Properties.                                                             *)
(***************************************************************************)
Sum(r) == r["successful"] + r["timeout"] + r["mismatch"]

(* What a worker has counted and not scored: the attempt that it is        *)
(* making, or has failed in.                                               *)
WorkerAddsUp(w) ==
    results[w]["total"] - Sum(results[w]) \in
        CASE step[w] \in {"poll", "write", "read"} -> {1}
          [] step[w] = "failure" -> {0, 1}
          [] OTHER -> {0}

(* Every attempt a worker has counted is scored once, but for that one;    *)
(* and so do the numbers that are printed add up, with none that is of a   *)
(* worker that has failed or still runs (gophertester.c:232-377, 503-551). *)
AttemptsAddUp ==
    /\ \A w \in Workers : WorkerAddsUp(w)
    /\ report["total"] = Sum(report)
    /\ main = "success" => \A w \in Workers : step[w] \in {"none", "success", "failure"}

(* "If timerfd ticks, we're done after the next completion or timeout"     *)
(* (gophertester.c:289): no worker begins a second attempt afterwards,     *)
(* whatever else poll reports with the timer.                              *)
OneLateAttempt == \A w \in Workers : late[w] <= 1

(* From some time on the server sends this worker nothing more.            *)
StopsSending(w) == <>[][\A n \in 1..MaxData : ~Replies(w, n)]_vars

(* With a duration, and a timeout that is not negative, the benchmark ends *)
(* whether the server accepts, answers, ends the reply, resets, or falls   *)
(* silent anywhere, as long as it does not send for ever: neither the      *)
(* timer nor the timeout ends an attempt while there is more to read       *)
(* (gophertester.c:264-373). Without a timeout (gophertester.c:80,         *)
(* src/README.md:66) a silent server, and without a duration any that      *)
(* answers, keeps it running (gophertester.c:205-307, 480-498).            *)
TestEnds ==
    /\ Duration > 0
    /\ Timeout >= 0
    /\ \A w \in Workers : StopsSending(w)
    => <>(main \in {"success", "failure"})

(* The table of workers is as long as it should be.                        *)
TableFits == main = "alloc" => \A nmemb, size \in Sizes : ArrayFits(nmemb, size)
=============================================================================
