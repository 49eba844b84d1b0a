------------------------------ MODULE Supervisor ------------------------------
(***************************************************************************)
(* main.c: the supervisor. It spawns the workers, passes SIGTERM on to     *)
(* them, collects them as they end, and ends itself when none is left. The *)
(* workers are those of server.c as far as the supervisor can tell: how    *)
(* far they have come with their signals, and whether they have ended.     *)
(***************************************************************************)
EXTENDS Integers, FiniteSets

CONSTANTS Workers,  \* numWorkers of them
          Signals,  \* which signals the supervisor may be sent
          Faults    \* what may fail

FaultKinds == {"fork", "setup", "add", "wait", "crash"}

ASSUME WorkersAssumption == IsFiniteSet(Workers) /\ {"signal", "none"} \cap Workers = {}
ASSUME OutsideAssumption == Signals \subseteq {"term", "kill"} /\ Faults \subseteq FaultKinds

VARIABLES
    pc,             \* where the supervisor is
    code,           \* what it has called exit() with, or "killed"
    untried,        \* the workers the spawning loop has not come to
    pidfds,         \* the workers whose pidfd is not -1
    activeWorkers,  \* supervisor->activeWorkers
    run,            \* loop->run
    active,         \* sepoll: the registrations, by worker, or "signal"
    queue,          \* sepoll: those the current batch has yet to report
    cur,            \* sepoll: the one whose callback runs
    term,           \* kernel: SIGTERM is blocked, pending, on the ready list
    worker          \* the workers

loopvars == <<run, active, queue, cur>>
childvars == <<pidfds, activeWorkers, worker>>
vars == <<pc, code, untried, childvars, loopvars, term>>

Ids == Workers \cup {"signal"}

(***************************************************************************)
(* A worker: not spawned; born, which is before it asks for SIGTERM at the *)
(* death of its parent; guarded, which is before it blocks SIGTERM;        *)
(* serving; told by SIGTERM to end; ended; and reaped by the supervisor.   *)
(***************************************************************************)
Stages == {"none", "born", "guarded", "serving", "told", "ended", "reaped"}

Alive(w) == worker[w] \in {"born", "guarded", "serving", "told"}

(* The types of the variables.                                             *)
TypeOK ==
    /\ pc \in {"spawn", "block", "signalfd", "loop", "wait", "dispatch", "signal",
               "pidfd", "exit", "dead"}
    /\ code \in {"none", "success", "failure", "killed"}
    /\ untried \subseteq Workers
    /\ pidfds \subseteq Workers
    /\ activeWorkers \in 0..Cardinality(Workers)
    /\ run \in BOOLEAN
    /\ active \subseteq Ids
    /\ queue \subseteq Ids
    /\ cur \in Ids \cup {"none"}
    /\ term \in [blocked : BOOLEAN, pending : BOOLEAN, edge : BOOLEAN]
    /\ worker \in [Workers -> Stages]

Init ==
    /\ pc = "spawn"
    /\ code = "none"
    /\ untried = Workers
    /\ pidfds = {}
    /\ activeWorkers = 0
    /\ run = FALSE
    /\ active = {}
    /\ queue = {}
    /\ cur = "none"
    /\ term = [blocked |-> FALSE, pending |-> FALSE, edge |-> FALSE]
    /\ worker = [w \in Workers |-> "none"]

(***************************************************************************)
(* Signals. SIGTERM ends a worker that has not blocked it, and tells the   *)
(* others; those that have ended already take no notice.                   *)
(***************************************************************************)
AfterTerm(stage) ==
    IF stage \in {"born", "guarded"} THEN "ended"
    ELSE IF stage = "serving" THEN "told" ELSE stage

AfterKill(stage) ==
    IF stage \in {"born", "guarded", "serving", "told"} THEN "ended" ELSE stage

(* Mutant: the loop over the workers ends at one that has ended.           *)
TermUntilEnded ==
    IF \E w \in pidfds : worker[w] = "ended" THEN worker
    ELSE [w \in Workers |-> AfterTerm(worker[w])]

(* signal_all_workers with SIGTERM, with SIGKILL.                          *)
TermAll == [w \in Workers |-> IF w \in pidfds THEN AfterTerm(worker[w]) ELSE worker[w]]
KillAll == [w \in Workers |-> IF w \in pidfds THEN AfterKill(worker[w]) ELSE worker[w]]

(* The supervisor is gone: the workers that have asked for it get SIGTERM. *)
Orphaned(children) ==
    [w \in Workers |-> IF children[w] = "born" THEN "born" ELSE AfterTerm(children[w])]

Gone(children) ==
    /\ worker' = Orphaned(children)
    /\ pc' = "dead"
    /\ active' = {}

(***************************************************************************)
(* main, up to the event loop.                                             *)
(***************************************************************************)
(* Mutant: a failure is taken off a counter that does not include it.      *)
SpawnFailsCounted(w) ==
    /\ pc = "spawn"
    /\ "fork" \in Faults
    /\ w \in untried
    /\ untried' = untried \ {w}
    /\ activeWorkers' = activeWorkers - 1
    /\ UNCHANGED <<pc, code, pidfds, worker, loopvars, term>>

SpawnWorker(w) ==
    /\ pc = "spawn"
    /\ w \in untried
    /\ untried' = untried \ {w}
    /\ pidfds' = pidfds \cup {w}
    /\ activeWorkers' = activeWorkers + 1
    /\ worker' = [worker EXCEPT ![w] = "born"]
    /\ UNCHANGED <<pc, code, loopvars, term>>

SpawnFails(w) ==
    /\ pc = "spawn"
    /\ "fork" \in Faults
    /\ w \in untried
    /\ untried' = untried \ {w}
    /\ UNCHANGED <<pc, code, childvars, loopvars, term>>

ExitWith(c) == pc' = "exit" /\ code' = c

AllTried ==
    /\ pc = "spawn"
    /\ untried = {}
    /\ IF activeWorkers = 0
         THEN ExitWith("failure")
         ELSE pc' = "block" /\ UNCHANGED code
    /\ UNCHANGED <<untried, childvars, loopvars, term>>

BlockTerm ==
    /\ pc = "block"
    /\ term' = [term EXCEPT !.blocked = TRUE]
    /\ pc' = "signalfd"
    /\ UNCHANGED <<code, untried, childvars, loopvars>>

OpenSigfd ==
    /\ pc = "signalfd"
    /\ pc' = "loop"
    /\ UNCHANGED <<code, untried, childvars, loopvars, term>>

(* sigprocmask, signalfd or sepoll_create fails.                           *)
SetupFails ==
    /\ pc \in {"block", "signalfd", "loop"}
    /\ "setup" \in Faults
    /\ ExitWith("failure")
    /\ UNCHANGED <<untried, childvars, loopvars, term>>

(* The results of sepoll_add are ignored: the loop may be deaf to some.    *)
EnterLoop(deaf) ==
    /\ pc = "loop"
    /\ deaf # {} => "add" \in Faults
    /\ active' = (pidfds \cup {"signal"}) \ deaf
    /\ term' = [term EXCEPT !.edge = @ \/ term.pending]
    /\ run' = TRUE
    /\ pc' = "wait"
    /\ UNCHANGED <<code, untried, childvars, queue, cur>>

(***************************************************************************)
(* The event loop, with an array of numWorkers + 1 events. The pidfds are  *)
(* level-triggered, the signalfd edge-triggered.                           *)
(***************************************************************************)
Ready ==
    {id \in active : IF id = "signal" THEN term.edge ELSE worker[id] \in {"ended", "reaped"}}

Collect ==
    /\ pc = "wait"
    /\ Ready # {}
    /\ queue' = Ready
    /\ term' = [term EXCEPT !.edge = @ /\ "signal" \notin Ready]
    /\ pc' = "dispatch"
    /\ UNCHANGED <<code, untried, childvars, run, active, cur>>

Dispatch(id) ==
    /\ pc = "dispatch"
    /\ id \in queue
    /\ queue' = queue \ {id}
    /\ IF id \in active
         THEN cur' = id /\ pc' = IF id = "signal" THEN "signal" ELSE "pidfd"
         ELSE UNCHANGED <<pc, cur>>
    /\ UNCHANGED <<code, untried, childvars, run, active, term>>

EndBatch ==
    /\ pc = "dispatch"
    /\ queue = {}
    /\ IF run THEN pc' = "wait" /\ UNCHANGED code ELSE ExitWith("success")
    /\ UNCHANGED <<untried, childvars, loopvars, term>>

(* epoll_wait fails: sepoll_enter returns, and main does not look at what. *)
WaitFails ==
    /\ pc = "wait"
    /\ "wait" \in Faults
    /\ run' = FALSE
    /\ ExitWith("success")
    /\ UNCHANGED <<untried, childvars, active, queue, cur, term>>

Returns == cur' = "none" /\ pc' = "dispatch"

(* Mutant: a worker that has ended is not reaped.                          *)
ReapedNever(w) == worker

Reaped(w) ==
    [worker EXCEPT ![w] = IF @ = "ended" THEN "reaped" ELSE @]

(* Mutant: the last but one worker ends the loop.                          *)
LastButOne == activeWorkers <= 2

(* Mutant: the counter is compared before it is decremented.               *)
LastBefore == activeWorkers = 0

(* The worker whose end is being handled was the last.                     *)
LastOne == activeWorkers = 1

SigfdEvent ==
    /\ pc = "signal"
    /\ worker' = IF term.pending THEN TermAll ELSE worker
    /\ term' = [term EXCEPT !.pending = FALSE]
    /\ Returns
    /\ UNCHANGED <<code, untried, pidfds, activeWorkers, run, active, queue>>

PidfdEvent(w) ==
    /\ pc = "pidfd"
    /\ cur = w
    /\ worker' = Reaped(w)
    /\ active' = active \ {w}
    /\ pidfds' = pidfds \ {w}
    /\ activeWorkers' = activeWorkers - 1
    /\ run' = (run /\ ~LastOne)
    /\ Returns
    /\ UNCHANGED <<code, untried, queue, term>>

(* Mutant: the clean-up leaves the workers alone.                          *)
CleanupSpares == worker

(* What exit() does to the workers: only after a failure are there any     *)
(* that could still run.                                                   *)
CleanedUp == IF code = "failure" THEN KillAll ELSE worker

SupervisorCleanup ==
    /\ pc = "exit"
    /\ Gone(CleanedUp)
    /\ UNCHANGED <<code, untried, pidfds, activeWorkers, run, queue, cur, term>>

(***************************************************************************)
(* The outside: signals to the supervisor, and the workers.                *)
(***************************************************************************)
TermComes ==
    /\ pc # "dead"
    /\ "term" \in Signals
    /\ IF term.blocked
         THEN /\ term' = [term EXCEPT !.pending = TRUE, !.edge = @ \/ active # {}]
              /\ UNCHANGED <<pc, code, untried, childvars, loopvars>>
         ELSE /\ Gone(worker)
              /\ code' = "killed"
              /\ UNCHANGED <<untried, pidfds, activeWorkers, run, queue, cur, term>>

(* SIGKILL, or SIGINT from the terminal.                                   *)
KillComes ==
    /\ pc # "dead"
    /\ "kill" \in Signals
    /\ Gone(worker)
    /\ code' = "killed"
    /\ UNCHANGED <<untried, pidfds, activeWorkers, run, queue, cur, term>>

Becomes(w, stage) ==
    /\ worker' = [worker EXCEPT ![w] = stage]
    /\ UNCHANGED <<pc, code, untried, pidfds, activeWorkers, loopvars, term>>

(* prctl(PR_SET_PDEATHSIG, SIGTERM).                                       *)
WorkerGuards(w) == worker[w] = "born" /\ Becomes(w, "guarded")

(* open_sigfd.                                                             *)
WorkerBlocks(w) == worker[w] = "guarded" /\ Becomes(w, "serving")

(* A failure before the event loop, or the end of a worker for a reason of *)
(* its own.                                                                *)
WorkerCrashes(w) == "crash" \in Faults /\ Alive(w) /\ Becomes(w, "ended")

(* What Worker.tla calls TermEnds.                                         *)
WorkerEnds(w) == worker[w] = "told" /\ Becomes(w, "ended")

SupervisorNext ==
    \/ \E w \in Workers : SpawnWorker(w) \/ SpawnFails(w) \/ PidfdEvent(w)
    \/ AllTried \/ BlockTerm \/ OpenSigfd \/ SetupFails
    \/ \E deaf \in SUBSET Ids : EnterLoop(deaf)
    \/ Collect \/ \E id \in queue : Dispatch(id)
    \/ EndBatch \/ SigfdEvent \/ SupervisorCleanup

WorkerNext(w) == WorkerGuards(w) \/ WorkerBlocks(w) \/ WorkerEnds(w)

Next ==
    \/ SupervisorNext
    \/ \E w \in Workers : WorkerNext(w) \/ WorkerCrashes(w)
    \/ WaitFails \/ TermComes \/ KillComes

Spec == Init /\ [][Next]_vars

(* The supervisor and the workers run; nobody is made to send signals, and *)
(* a wait is not made to fail.                                             *)
FairSpec ==
    /\ Spec
    /\ WF_vars(SupervisorNext)
    /\ \A w \in Workers : WF_vars(WorkerNext(w))

(***************************************************************************)
(* Properties.                                                             *)
(***************************************************************************)

(* The counter that ends the loop is the number of workers whose end the   *)
(* supervisor has not seen, failures to spawn included (main.c:389-405,    *)
(* 225-236).                                                               *)
CountMatches == activeWorkers = Cardinality(pidfds)

(* A pidfd is held for every child from its birth until it is reaped, and  *)
(* waitid is called for a child that has ended and is not reaped yet: it   *)
(* cannot fail, nor block the loop, and no signal is ever sent to a        *)
(* process that is not the worker (main.c:155, 216-228).                   *)
ChildrenHeld ==
    /\ \A w \in Workers : w \in pidfds <=> worker[w] \notin {"none", "reaped"}
    /\ pc = "pidfd" => worker[cur] = "ended"

(* The supervisor ends its loop itself only when no worker is alive: none  *)
(* that is still starting, and none whose end is in the same batch but has *)
(* not been handled, which would be left without waitid (main.c:229-236).  *)
LoopEndsLast ==
    pc \in {"dispatch", "signal", "pidfd"} /\ ~run =>
        \A w \in Workers : worker[w] \in {"none", "reaped"}

(* "Event loop doesn't exit until all children exit" (main.c:465).         *)
ExitsAfterChildren == code = "success" => \A w \in Workers : ~Alive(w)

(* A registration that failed, and a wait that failed, are the two things  *)
(* the supervisor does not notice; what follows says what holds but for    *)
(* them.                                                                   *)
Deaf ==
    /\ pc \in {"wait", "dispatch", "signal", "pidfd"}
    /\ ~(pidfds \cup {"signal"} \subseteq active)

Interrupted == code = "success" /\ pidfds # {}

(* Once SIGTERM has reached the supervisor's signalfd, everything ends:    *)
(* workers that are still setting up, serve, or are ending (main.c:149-202,*)
(* 229-236).                                                               *)
TermStopsAll ==
    term.pending /\ term.blocked
        ~> \/ pc = "dead" /\ \A w \in Workers : ~Alive(w)
           \/ Deaf \/ Interrupted \/ code = "killed"

(* The supervisor does not outlive its workers, whether they end one by    *)
(* one, together, or before it has entered the loop (main.c:229-236, 412). *)
EndsWithWorkers ==
    untried = {} /\ (\A w \in Workers : ~Alive(w)) ~> pc = "dead" \/ Deaf

(* When the supervisor exits, after a failure as well, no worker remains   *)
(* (main.c:246-254).                                                       *)
NoSurvivors ==
    pc = "dead" /\ code # "killed" /\ ~Interrupted
        ~> \A w \in Workers : ~Alive(w)

(* "We want to get SIGTERM if the parent dies" (server.c:839): no worker   *)
(* outlives the supervisor, however that ends.                             *)
DiesWithParent == pc = "dead" ~> \A w \in Workers : ~Alive(w)

(***************************************************************************)
(* Why the invariants hold: the inductive invariant.                       *)
(***************************************************************************)

(* A pidfd is held for the children that are not reaped, and only for      *)
(* workers the spawning loop has come to.                                  *)
HoldInv ==
    /\ \A w \in Workers : w \in pidfds <=> worker[w] \notin {"none", "reaped"}
    /\ untried \cap pidfds = {}
    /\ \A w \in untried : worker[w] = "none"
    /\ pc \notin {"spawn", "dead"} => untried = {}

(* While the supervisor lives, the loop reports workers that have ended    *)
(* and whose pidfds it still holds, each of them once.                     *)
LoopInv ==
    /\ active \subseteq pidfds \cup {"signal"}
    /\ pc # "dead" => queue \subseteq active
    /\ \A w \in queue \cap Workers : worker[w] = "ended"
    /\ pc = "pidfd" => cur \in (active \cap Workers) \ queue /\ worker[cur] = "ended"

(* The loop is told to end when no worker is left, and main calls exit()   *)
(* once, with success only after the loop.                                 *)
EndInv ==
    /\ pc \in {"spawn", "block", "signalfd", "loop"} => queue = {}
    /\ pc = "wait" => run
    /\ pc \in {"dispatch", "signal", "pidfd"} /\ ~run => pidfds = {}
    /\ pc \notin {"exit", "dead"} => code = "none"
    /\ code = "success" /\ "wait" \notin Faults => pidfds = {}

SupervisorInv == TypeOK /\ CountMatches /\ HoldInv /\ LoopInv /\ EndInv
=============================================================================
