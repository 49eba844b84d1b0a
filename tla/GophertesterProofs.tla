--------------------------- MODULE GophertesterProofs ---------------------------
(***************************************************************************)
(* The benchmark, with any number of workers: each begins at most one      *)
(* attempt after its timer has expired, the scores add up, and the table   *)
(* of workers is as long as it should be.                                  *)
(***************************************************************************)
EXTENDS Gophertester, TLAPS

(* What OneLateAttempt needs of a worker: an attempt begun late is one     *)
(* whose socket reports together with the timer, and the worker is done    *)
(* when it is over.                                                        *)
LateInv(w) ==
    /\ late[w] \in {0, 1}
    /\ timer[w] = "armed" => late[w] = 0
    /\ step[w] \in {"none", "setup", "attempt"} => timer[w] # "seen" /\ late[w] = 0
    /\ step[w] \in {"write", "read", "close"} /\ late[w] = 1 => timer[w] = "seen"

(* The inductive invariant.                                                *)
TimerInv ==
    /\ step \in [Workers -> {"none", "setup", "attempt", "poll", "write", "read", "close",
                             "success", "failure"}]
    /\ timer \in [Workers -> {"armed", "expired", "seen"}]
    /\ late \in [Workers -> Nat]
    /\ untried \subseteq Workers
    /\ main \in {"alloc", "fork"} => \A w \in untried : step[w] = "none"
    /\ \A w \in Workers : LateInv(w)

(* A worker that has not begun keeps the invariant.                        *)
LEMMA InitTimer == Init => TimerInv
  BY DEF Init, TimerInv, LateInv

(* What the parent does to a worker is to fork it.                         *)
LEMMA ParentStep ==
    ASSUME TimerInv, ParentNext
    PROVE  TimerInv'
<1>1. ASSUME NEW w \in Workers, Fork(w)
      PROVE  TimerInv'
    BY <1>1 DEF Fork, TimerInv, LateInv, workervars
<1>2. ASSUME NEW w \in Workers, ForkFails(w) \/ Wait(w)
      PROVE  TimerInv'
    BY <1>2 DEF ForkFails, Wait, TimerInv, LateInv, workervars
<1>3. CASE Alloc \/ AllocFails \/ AllForked
    BY <1>3 DEF Alloc, AllocFails, AllForked, TimerInv, LateInv, workervars
<1>4. CASE WaitEnds \/ Report \/ \E w \in Workers : AddUp(w)
  <2>1. UNCHANGED <<step, timer, late>> /\ untried' \subseteq Workers
      BY <1>4 DEF WaitEnds, AddUp, Report, TimerInv, workervars
  <2>2. main' \notin {"alloc", "fork"}
      BY <1>4 DEF WaitEnds, AddUp, Report
  <2> QED
      BY <2>1, <2>2 DEF TimerInv, LateInv
<1> QED
    BY <1>1, <1>2, <1>3, <1>4 DEF ParentNext

(* A step of one worker leaves the others as they are.                     *)
LEMMA WorkerStep ==
    ASSUME TimerInv, NEW w \in Workers,
           WorkerNext(w) \/ PollFails(w) \/ Expire(w) \/ ServerNext(w)
    PROVE  TimerInv'
<1> USE DEF TimerInv, At, Goes, Leaves, workervars, parentvars
<1>1. /\ step' \in [Workers -> {"none", "setup", "attempt", "poll", "write", "read", "close",
                                "success", "failure"}]
      /\ \A v \in Workers \ {w} : step'[v] = step[v]
    BY DEF WorkerNext, SetTimer, SetTimerFails, Attempt, TimesOut, PollReturns, Write,
           WriteFails, ReadSome, ReadEnd, ReadBlocks, ReadFails, Close, PollFails, Expire,
           ServerNext, Accepts, Resets, Ends, Replies, ServerActs
<1>2. /\ timer' \in [Workers -> {"armed", "expired", "seen"}]
      /\ \A v \in Workers \ {w} : timer'[v] = timer[v]
    BY DEF WorkerNext, SetTimer, SetTimerFails, Attempt, TimesOut, PollReturns, Write,
           WriteFails, ReadSome, ReadEnd, ReadBlocks, ReadFails, Close, PollFails, Expire,
           ServerNext, Accepts, Resets, Ends, Replies, ServerActs, TimerSeen
<1>3. /\ late' \in [Workers -> Nat]
      /\ \A v \in Workers \ {w} : late'[v] = late[v]
    BY DEF WorkerNext, SetTimer, SetTimerFails, Attempt, TimesOut, PollReturns, Write,
           WriteFails, ReadSome, ReadEnd, ReadBlocks, ReadFails, Close, PollFails, Expire,
           ServerNext, Accepts, Resets, Ends, Replies, ServerActs
<1>4. step[w] # "none" /\ UNCHANGED <<main, untried>>
    BY DEF WorkerNext, SetTimer, SetTimerFails, Attempt, TimesOut, PollReturns, Write,
           WriteFails, ReadSome, ReadEnd, ReadBlocks, ReadFails, Close, PollFails, Expire,
           Running, ServerNext, Accepts, Resets, Ends, Replies, ServerActs
<1>5. LateInv(w)'
  <2>1. CASE SetTimer(w) \/ SetTimerFails(w)
      BY <2>1 DEF SetTimer, SetTimerFails, LateInv
  <2>2. ASSUME NEW connects \in BOOLEAN, Attempt(w, connects)
        PROVE  LateInv(w)'
      BY <2>2 DEF Attempt, LateInv
  <2>3. CASE TimesOut(w)
      BY <2>3 DEF TimesOut, Silent, LateInv
  <2>4. CASE PollReturns(w)
      BY <2>4 DEF PollReturns, TimerSeen, LateInv
  <2>5. CASE Write(w) \/ WriteFails(w) \/ ReadEnd(w) \/ ReadBlocks(w) \/ ReadFails(w)
             \/ PollFails(w)
      BY <2>5 DEF Write, WriteFails, ReadEnd, ReadBlocks, ReadFails, PollFails, LateInv
  <2>6. ASSUME NEW n \in 1..MaxData, ReadSome(w, n)
        PROVE  LateInv(w)'
      BY <2>6 DEF ReadSome, LateInv
  <2>7. CASE Close(w)
      BY <2>7 DEF Close, LateInv
  <2>8. CASE Expire(w)
      BY <2>8 DEF Expire, Running, LateInv
  <2>9. CASE ServerNext(w)
      BY <2>9 DEF ServerNext, Accepts, Resets, Ends, Replies, ServerActs, LateInv
  <2> QED
      BY <2>1, <2>2, <2>3, <2>4, <2>5, <2>6, <2>7, <2>8, <2>9 DEF WorkerNext
<1>6. \A v \in Workers \ {w} : LateInv(v)'
    BY <1>1, <1>2, <1>3 DEF LateInv
<1> QED
    BY <1>1, <1>2, <1>3, <1>4, <1>5, <1>6

(* A step keeps the invariant.                                             *)
LEMMA NextTimer == TimerInv /\ [Next]_vars => TimerInv'
<1> SUFFICES ASSUME TimerInv, [Next]_vars PROVE TimerInv'
    OBVIOUS
<1>1. CASE UNCHANGED vars
    BY <1>1 DEF vars, parentvars, TimerInv, LateInv
<1> QED
    BY <1>1, ParentStep, WorkerStep DEF Next

(* "If timerfd ticks, we're done after the next completion or timeout"     *)
(* (gophertester.c:289), for any number of workers, attempts and faults.   *)
THEOREM AlwaysOneLateAttempt == Spec => []OneLateAttempt
<1>1. TimerInv => OneLateAttempt
    BY DEF TimerInv, LateInv, OneLateAttempt
<1> QED
    BY InitTimer, NextTimer, <1>1, PTL DEF Spec

(* What the scores of the workers need to be for them to add up.           *)
ScoreInv ==
    /\ step \in [Workers -> {"none", "setup", "attempt", "poll", "write", "read", "close",
                             "success", "failure"}]
    /\ results \in [Workers -> [Scores -> Nat]]
    /\ untried \subseteq Workers
    /\ main \in {"alloc", "fork"} => \A w \in untried : step[w] = "none"
    /\ \A w \in Workers : WorkerAddsUp(w)

(* Nothing is scored before the first attempt.                             *)
LEMMA InitScore == Init => ScoreInv
  BY DEF Init, ScoreInv, WorkerAddsUp, Sum, NoScore, Scores

(* The parent scores nothing.                                              *)
LEMMA ParentScores ==
    ASSUME ScoreInv, ParentNext
    PROVE  ScoreInv'
<1>1. ASSUME NEW w \in Workers, Fork(w)
      PROVE  ScoreInv'
    BY <1>1 DEF Fork, ScoreInv, WorkerAddsUp, Sum, workervars
<1>2. ASSUME NEW w \in Workers, ForkFails(w) \/ Wait(w)
      PROVE  ScoreInv'
    BY <1>2 DEF ForkFails, Wait, ScoreInv, WorkerAddsUp, Sum, workervars
<1>3. CASE Alloc \/ AllocFails \/ AllForked
    BY <1>3 DEF Alloc, AllocFails, AllForked, ScoreInv, WorkerAddsUp, Sum, workervars
<1>4. CASE WaitEnds \/ Report \/ \E w \in Workers : AddUp(w)
  <2>1. UNCHANGED <<step, results>> /\ untried' \subseteq Workers
      BY <1>4 DEF WaitEnds, AddUp, Report, ScoreInv, workervars
  <2>2. main' \notin {"alloc", "fork"}
      BY <1>4 DEF WaitEnds, AddUp, Report
  <2> QED
      BY <2>1, <2>2 DEF ScoreInv, WorkerAddsUp, Sum
<1> QED
    BY <1>1, <1>2, <1>3, <1>4 DEF ParentNext

(* To count one of the scores.                                             *)
LEMMA CountOne ==
    ASSUME ScoreInv, NEW w \in Workers, NEW score \in Scores, Counts(w, score)
    PROVE  /\ results' \in [Workers -> [Scores -> Nat]]
           /\ \A v \in Workers \ {w} : results'[v] = results[v]
           /\ results'[w][score] = results[w][score] + 1
           /\ \A s \in Scores \ {score} : results'[w][s] = results[w][s]
  BY DEF ScoreInv, Counts

(* A worker's step counts an attempt, scores it, or leaves the scores.     *)
LEMMA WorkerScores ==
    ASSUME ScoreInv, NEW w \in Workers,
           WorkerNext(w) \/ PollFails(w) \/ Expire(w) \/ ServerNext(w)
    PROVE  ScoreInv'
<1> USE DEF ScoreInv, At, Goes, Leaves, workervars, parentvars
<1>1. /\ step' \in [Workers -> {"none", "setup", "attempt", "poll", "write", "read", "close",
                                "success", "failure"}]
      /\ \A v \in Workers \ {w} : step'[v] = step[v]
      /\ step[w] # "none"
      /\ UNCHANGED <<main, untried>>
    BY DEF WorkerNext, SetTimer, SetTimerFails, Attempt, TimesOut, PollReturns, Write,
           WriteFails, ReadSome, ReadEnd, ReadBlocks, ReadFails, Close, PollFails, Expire,
           Running, ServerNext, Accepts, Resets, Ends, Replies, ServerActs
<1> DEFINE Scored == /\ results' \in [Workers -> [Scores -> Nat]]
                     /\ \A v \in Workers \ {w} : results'[v] = results[v]
                     /\ WorkerAddsUp(w)'
<1>a. \A v \in Workers, s \in Scores : results[v][s] \in Nat
    OBVIOUS
<1>2. Scored
  <2>1. ASSUME NEW connects \in BOOLEAN, Attempt(w, connects)
        PROVE  Scored
    <3>1. Counts(w, "total") /\ "total" \in Scores
        BY <2>1 DEF Attempt, Scores
    <3>2. step[w] = "attempt" /\ step'[w] \in {"poll", "failure"}
        BY <2>1 DEF Attempt
    <3> QED
        BY <1>a, <3>1, <3>2, CountOne, SMTT(30) DEF WorkerAddsUp, Sum, Scores
  <2>2. CASE TimesOut(w)
    <3>1. Counts(w, "timeout") /\ "timeout" \in Scores
        BY <2>2 DEF TimesOut, Scores
    <3>2. step[w] = "poll" /\ step'[w] = "close"
        BY <2>2 DEF TimesOut
    <3> QED
        BY <1>a, <3>1, <3>2, CountOne, SMTT(30) DEF WorkerAddsUp, Sum, Scores
  <2>3. CASE ReadEnd(w)
    <3>1. PICK score \in {"mismatch", "successful"} : Counts(w, score)
        BY <2>3 DEF ReadEnd
    <3>2. step[w] = "read" /\ step'[w] = "close"
        BY <2>3 DEF ReadEnd
    <3>3. CASE score = "mismatch"
        BY <1>a, <3>1, <3>2, <3>3, CountOne, SMTT(30) DEF WorkerAddsUp, Sum, Scores
    <3>4. CASE score = "successful"
        BY <1>a, <3>1, <3>2, <3>4, CountOne, SMTT(30) DEF WorkerAddsUp, Sum, Scores
    <3> QED
        BY <3>1, <3>3, <3>4
  <2>4. CASE SetTimer(w) \/ PollReturns(w) \/ Write(w) \/ ReadBlocks(w) \/ Close(w)
      BY <2>4 DEF SetTimer, PollReturns, Write, ReadBlocks, Close, WorkerAddsUp, Sum
  <2>5. CASE SetTimerFails(w) \/ WriteFails(w) \/ ReadFails(w) \/ PollFails(w)
      BY <2>5 DEF SetTimerFails, WriteFails, ReadFails, PollFails, WorkerAddsUp, Sum
  <2>6. CASE Expire(w) \/ ServerNext(w) \/ \E n \in 1..MaxData : ReadSome(w, n)
    <3>1. UNCHANGED <<step, results>>
        BY <2>6 DEF Expire, ServerNext, Accepts, Resets, Ends, Replies, ServerActs, ReadSome
    <3> QED
        BY <3>1 DEF WorkerAddsUp, Sum
  <2> QED
      BY <2>1, <2>2, <2>3, <2>4, <2>5, <2>6 DEF WorkerNext
<1>3. \A v \in Workers \ {w} : WorkerAddsUp(v)'
    BY <1>1, <1>2 DEF WorkerAddsUp, Sum
<1> QED
    BY <1>1, <1>2, <1>3

(* A step keeps the invariant.                                             *)
LEMMA NextScore == ScoreInv /\ [Next]_vars => ScoreInv'
<1> SUFFICES ASSUME ScoreInv, [Next]_vars PROVE ScoreInv'
    OBVIOUS
<1>1. CASE UNCHANGED vars
    BY <1>1 DEF vars, parentvars, ScoreInv, WorkerAddsUp, Sum
<1> QED
    BY <1>1, ParentScores, WorkerScores DEF Next

(* What the report needs: the parent knows of a worker how it has ended,   *)
(* and has heard of all of them before it adds up.                         *)
ReportInv ==
    /\ ScoreInv
    /\ status \in [Workers -> {"unknown", "success", "failure"}]
    /\ report \in [Scores -> Nat]
    /\ report["total"] = Sum(report)
    /\ \A w \in Workers : status[w] # "unknown" => step[w] = status[w]
    /\ main \in {"add", "success"} =>
         \A w \in Workers : step[w] \in {"none", "success", "failure"}

(* Nothing is reported yet.                                                *)
LEMMA InitReport == Init => ReportInv
<1> SUFFICES ASSUME Init PROVE ReportInv
    OBVIOUS
<1>1. ScoreInv
    BY InitScore
<1> QED
    BY <1>1 DEF Init, ReportInv, Sum, NoScore, Scores

(* The scores of a worker that has succeeded add up, and so do the report  *)
(* and they together.                                                      *)
LEMMA AddStep ==
    ASSUME ReportInv, NEW w \in Workers, AddUp(w)
    PROVE  report' \in [Scores -> Nat] /\ (report["total"] = Sum(report))'
<1>1. CASE w \notin Counted
    BY <1>1 DEF AddUp, ReportInv, Sum
<1>2. CASE w \in Counted
  <2>1. step[w] = "success"
      BY <1>2 DEF Counted, ReportInv
  <2>2. results[w]["total"] - Sum(results[w]) \in {0}
      BY <2>1 DEF ReportInv, ScoreInv, WorkerAddsUp
  <2>3. \A s \in {"total", "successful", "timeout", "mismatch"} :
            results[w][s] \in Nat /\ report[s] \in Nat
      BY DEF ReportInv, ScoreInv, Scores
  <2>4. report' = [s \in Scores |-> report[s] + results[w][s]]
      BY <1>2 DEF AddUp
  <2>5. report' \in [Scores -> Nat]
      BY <2>3, <2>4 DEF Scores
  <2>6. \A s \in {"total", "successful", "timeout", "mismatch"} :
            report'[s] = report[s] + results[w][s]
      BY <2>4 DEF Scores
  <2>7. report["total"] = Sum(report)
      BY DEF ReportInv
  <2> QED
      BY <2>2, <2>3, <2>5, <2>6, <2>7 DEF Sum
<1> QED
    BY <1>1, <1>2

(* A step keeps the invariant.                                             *)
LEMMA NextReport == ReportInv /\ [Next]_vars => ReportInv'
<1> SUFFICES ASSUME ReportInv, [Next]_vars PROVE ReportInv'
    OBVIOUS
<1>1. ScoreInv'
    BY NextScore DEF ReportInv
<1> USE DEF Sum
<1>2. CASE UNCHANGED vars
    BY <1>1, <1>2 DEF vars, parentvars, ReportInv
<1>3. CASE Alloc \/ AllocFails \/ AllForked
    BY <1>1, <1>3 DEF Alloc, AllocFails, AllForked, ReportInv, workervars
<1>4. ASSUME NEW w \in Workers, Fork(w)
      PROVE  ReportInv'
  <2>1. step[w] = "none" /\ step \in [Workers -> {"none", "setup", "attempt", "poll", "write",
                                                  "read", "close", "success", "failure"}]
      BY <1>4 DEF Fork, ReportInv, ScoreInv
  <2>2. status[w] = "unknown"
      BY <2>1 DEF ReportInv
  <2> QED
      BY <1>1, <1>4, <2>1, <2>2 DEF Fork, ReportInv, workervars
<1>5. ASSUME NEW w \in Workers, ForkFails(w)
      PROVE  ReportInv'
    BY <1>1, <1>5 DEF ForkFails, ReportInv, workervars
<1>6. ASSUME NEW w \in Workers, Wait(w)
      PROVE  ReportInv'
    BY <1>1, <1>6 DEF Wait, ReportInv, workervars
<1>7. CASE WaitEnds
  <2>1. \A w \in Workers : step[w] = "none" \/ status[w] # "unknown"
      BY <1>7 DEF WaitEnds, StillRunning, Children
  <2>2. \A w \in Workers : step[w] \in {"none", "success", "failure"}
      BY <2>1 DEF ReportInv
  <2> QED
      BY <1>1, <1>7, <2>2 DEF WaitEnds, ReportInv, workervars
<1>8. ASSUME NEW w \in Workers, AddUp(w)
      PROVE  ReportInv'
  <2>1. UNCHANGED <<main, status, step>>
      BY <1>8 DEF AddUp
  <2> QED
      BY <1>1, <1>8, <2>1, AddStep DEF ReportInv
<1>9. CASE Report
    BY <1>1, <1>9 DEF Report, ReportInv, workervars
<1>10. ASSUME NEW w \in Workers,
              WorkerNext(w) \/ PollFails(w) \/ Expire(w) \/ ServerNext(w)
       PROVE  ReportInv'
  <2> USE DEF At, Goes, Leaves, workervars, parentvars
  <2>a. step \in [Workers -> {"none", "setup", "attempt", "poll", "write", "read", "close",
                               "success", "failure"}]
      BY DEF ReportInv, ScoreInv
  <2>1. /\ \A v \in Workers \ {w} : step'[v] = step[v]
        /\ UNCHANGED <<main, status, report>>
        /\ step[w] \notin {"none", "success", "failure"} \/ UNCHANGED step
      BY <1>10, <2>a DEF WorkerNext, SetTimer, SetTimerFails, Attempt, TimesOut, PollReturns,
             Write, WriteFails, ReadSome, ReadEnd, ReadBlocks, ReadFails, Close, PollFails,
             Expire, ServerNext, Accepts, Resets, Ends, Replies, ServerActs
  <2> QED
      BY <1>1, <2>1 DEF ReportInv
<1> QED
    BY <1>2, <1>3, <1>4, <1>5, <1>6, <1>7, <1>8, <1>9, <1>10 DEF Next, ParentNext

(* Every attempt that a worker has counted is scored, but for the one it   *)
(* is making or has failed in; so the numbers that are printed add up: for *)
(* any number of workers and of attempts.                                  *)
THEOREM AlwaysAddUp == Spec => []AttemptsAddUp
<1>1. ReportInv => AttemptsAddUp
    BY DEF ReportInv, ScoreInv, AttemptsAddUp
<1> QED
    BY InitReport, NextReport, <1>1, PTL DEF Spec

(* What is left of type correctness: where the parent is, and what a worker *)
(* has of its attempt.                                                     *)
AttemptInv ==
    /\ main \in {"alloc", "fork", "wait", "add", "success", "failure"}
    /\ events \in [Workers -> {"out", "in"}]
    /\ received \in [Workers -> Nat]
    /\ conn \in [Workers -> Connection]

(* A connection that is not there yet.                                     *)
LEMMA NoConnection == NewConn \in Connection
  BY BoundsAssumption DEF NewConn, Connection

(* What a connection holds never leaves the bound on replies.              *)
LEMMA ConnectionStep ==
    ASSUME NEW c \in Connection
    PROVE  /\ c.data \in 0..MaxData
           /\ [c EXCEPT !.st = "open"] \in Connection
           /\ [c EXCEPT !.st = "reset", !.data = 0] \in Connection
           /\ [c EXCEPT !.end = TRUE] \in Connection
           /\ \A d \in 0..MaxData : [c EXCEPT !.data = d] \in Connection
<1>1. 0 \in 0..MaxData
    BY BoundsAssumption
<1>2. /\ c.data \in 0..MaxData
      /\ [c EXCEPT !.st = "open"] \in Connection
      /\ [c EXCEPT !.end = TRUE] \in Connection
    BY DEF Connection
<1>3. [c EXCEPT !.st = "reset", !.data = 0] \in Connection
    BY <1>1 DEF Connection
<1>4. ASSUME NEW d \in 0..MaxData PROVE [c EXCEPT !.data = d] \in Connection
    BY DEF Connection
<1> QED
    BY <1>2, <1>3, <1>4

(* A worker's attempt, and what the server does to it.                     *)
LEMMA AttemptStep ==
    ASSUME AttemptInv, NEW w \in Workers,
           WorkerNext(w) \/ PollFails(w) \/ Expire(w) \/ ServerNext(w)
    PROVE  AttemptInv'
<1> USE DEF AttemptInv
<1>0. conn[w] \in Connection /\ conn[w].data \in 0..MaxData /\ received[w] \in Nat
  <2>1. conn[w] \in Connection /\ received[w] \in Nat
      OBVIOUS
  <2> QED
      BY <2>1, ConnectionStep
<1>1. main' = main
    BY DEF WorkerNext, SetTimer, SetTimerFails, Attempt, TimesOut, PollReturns, Write,
           WriteFails, ReadSome, ReadEnd, ReadBlocks, ReadFails, Close, PollFails, Expire,
           ServerNext, Accepts, Resets, Ends, Replies, ServerActs, parentvars
<1>2. CASE SetTimer(w) \/ SetTimerFails(w) \/ TimesOut(w) \/ PollReturns(w) \/ Write(w)
           \/ ReadEnd(w) \/ ReadBlocks(w) \/ Expire(w)
           \/ \E connects \in BOOLEAN : Attempt(w, connects)
  <2>1. UNCHANGED <<received, conn>> /\ events' \in [Workers -> {"out", "in"}]
      BY <1>2 DEF SetTimer, SetTimerFails, TimesOut, PollReturns, Write, ReadEnd, ReadBlocks,
                  Expire, Attempt, workervars
  <2> QED
      BY <1>1, <2>1
<1>3. CASE WriteFails(w) \/ ReadFails(w) \/ PollFails(w) \/ Close(w)
  <2>1. /\ events' = [events EXCEPT ![w] = "out"]
        /\ received' = [received EXCEPT ![w] = 0]
        /\ conn' = [conn EXCEPT ![w] = NewConn]
      BY <1>3 DEF WriteFails, ReadFails, PollFails, Close, Leaves
  <2> QED
      BY <1>1, <2>1, NoConnection
<1>4. ASSUME NEW n \in 1..MaxData, ReadSome(w, n)
      PROVE  AttemptInv'
  <2>1. n \in 1..conn[w].data /\ conn' = [conn EXCEPT ![w].data = @ - n]
        /\ received' = [received EXCEPT ![w] = Accumulated(w, n)] /\ UNCHANGED events
      BY <1>4 DEF ReadSome
  <2>2. conn[w].data - n \in 0..MaxData /\ Accumulated(w, n) \in Nat
      BY <1>0, <2>1, BoundsAssumption DEF Accumulated
  <2>3. conn' = [conn EXCEPT ![w] = [conn[w] EXCEPT !.data = conn[w].data - n]]
      BY <2>1
  <2>4. [conn[w] EXCEPT !.data = conn[w].data - n] \in Connection
      BY <1>0, <2>2, ConnectionStep
  <2> QED
      BY <1>1, <2>1, <2>2, <2>3, <2>4
<1>5. CASE ServerNext(w)
  <2>1. PICK c : ServerActs(w, c) /\ c \in Connection
    <3>1. CASE Accepts(w) \/ Resets(w) \/ Ends(w)
        BY <1>0, <3>1, ConnectionStep DEF Accepts, Resets, Ends
    <3>2. ASSUME NEW n \in 1..MaxData, Replies(w, n)
          PROVE  \E c : ServerActs(w, c) /\ c \in Connection
      <4>1. conn[w].data + n \in 0..MaxData
          BY <1>0, <3>2, BoundsAssumption DEF Replies
      <4>2. [conn[w] EXCEPT !.data = conn[w].data + n] \in Connection
          BY <1>0, <4>1, ConnectionStep
      <4>3. ServerActs(w, [conn[w] EXCEPT !.data = conn[w].data + n])
          BY <3>2 DEF Replies
      <4> QED
          BY <4>2, <4>3
    <3> QED
        BY <1>5, <3>1, <3>2 DEF ServerNext
  <2>2. conn' = [conn EXCEPT ![w] = c] /\ UNCHANGED <<events, received>>
      BY <2>1 DEF ServerActs
  <2> QED
      BY <1>1, <2>1, <2>2
<1> QED
    BY <1>2, <1>3, <1>4, <1>5 DEF WorkerNext

(* The variables keep their types: counters are numbers, and no more is    *)
(* held of a reply than the socket has room for.                           *)
THEOREM TypeCorrect == Spec => []TypeOK
<1>1. Init => AttemptInv
    BY NoConnection DEF Init, AttemptInv
<1>2. AttemptInv /\ [Next]_vars => AttemptInv'
  <2> SUFFICES ASSUME AttemptInv, [Next]_vars PROVE AttemptInv'
      OBVIOUS
  <2>1. CASE UNCHANGED vars
      BY <2>1 DEF vars, parentvars, AttemptInv
  <2>2. CASE ParentNext
    <3>1. UNCHANGED <<events, received, conn>>
        BY <2>2 DEF ParentNext, Alloc, AllocFails, Fork, ForkFails, AllForked, Wait, WaitEnds,
                    AddUp, Report, workervars
    <3>2. main' \in {"alloc", "fork", "wait", "add", "success", "failure"}
        BY <2>2 DEF ParentNext, Alloc, AllocFails, Fork, ForkFails, AllForked, Wait, WaitEnds,
                    AddUp, Report, AttemptInv
    <3> QED
        BY <3>1, <3>2 DEF AttemptInv
  <2> QED
      BY <2>1, <2>2, AttemptStep DEF Next
<1>3. TimerInv /\ ReportInv /\ AttemptInv => TypeOK
    BY DEF TimerInv, ReportInv, ScoreInv, AttemptInv, TypeOK
<1> QED
    BY InitTimer, NextTimer, InitReport, NextReport, <1>1, <1>2, <1>3, PTL DEF Spec

(* What division and remainder are, for the numbers of a multiplication.   *)
LEMMA Remainder ==
    ASSUME NEW x \in Nat, NEW m \in Nat \ {0}
    PROVE  x % m \in 0..m - 1 /\ (x < m => x % m = x)
  OBVIOUS

(* A quotient times its divisor is no more than the dividend.              *)
LEMMA Quotient ==
    ASSUME NEW x \in Nat, NEW m \in Nat \ {0}
    PROVE  x \div m \in Nat /\ m * (x \div m) <= x
  OBVIOUS

(* The product of two numbers is a number.                                 *)
LEMMA Product ==
    ASSUME NEW a \in Nat, NEW b \in Nat
    PROVE  a * b \in Nat
  OBVIOUS

(* scalloc and smalloc: the check of the product misses nothing.           *)
LEMMA ArrayAlwaysFits ==
    ASSUME NEW nmemb \in Sizes, NEW size \in Sizes
    PROVE  ArrayFits(nmemb, size)
<1>1. CASE nmemb = 0 \/ size = 0 \/ Wraps(nmemb, size)
    BY <1>1 DEF ArrayFits, Scalloc
<1>2. CASE nmemb # 0 /\ size # 0 /\ ~Wraps(nmemb, size)
  <2> DEFINE product == nmemb * size
             wrapped == product % Word
  <2>1. nmemb \in Nat \ {0} /\ size \in Nat /\ Word \in Nat \ {0} /\ Prefix \in 1..Word - 1
      BY <1>2, WordAssumption DEF Sizes
  <2>2. product \in Nat
      BY <2>1, Product
  <2>3. wrapped \div nmemb = size
      BY <1>2 DEF Wraps
  <2> HIDE DEF product
  <2>4. wrapped \in 0..Word - 1 /\ (product < Word => wrapped = product)
      BY <2>1, <2>2, Remainder
  <2> HIDE DEF wrapped
  <2>5. nmemb * (wrapped \div nmemb) <= wrapped
      BY <2>1, <2>4, Quotient
  <2>6. product <= wrapped
      BY <2>3, <2>5 DEF product
  <2>7. product < Word /\ wrapped = product
    <3>1. wrapped \in Nat /\ wrapped < Word
        BY <2>1, <2>4
    <3>2. product < Word
        BY <2>1, <2>2, <2>6, <3>1
    <3> QED
        BY <2>4, <3>2
  <2>8. Scalloc(nmemb, size) = Smalloc(product)
      BY <1>2, <2>7 DEF Scalloc, product, wrapped
  <2>9. product # 0
      BY <1>2, <2>1 DEF product
  <2>10. CASE product + Prefix < Word
    <3> DEFINE sum == Prefix + product
    <3>1. sum \in Nat /\ sum < Word /\ sum = product + Prefix
        BY <2>1, <2>2, <2>10
    <3> HIDE DEF sum
    <3>2. sum % Word = product + Prefix
        BY <2>1, <3>1, Remainder
    <3>3. Smalloc(product) = product + Prefix
        BY <2>9, <3>2 DEF Smalloc, sum
    <3> QED
        BY <2>8, <3>3 DEF ArrayFits, product
  <2>11. CASE product + Prefix >= Word
    <3>1. product \in Word - Prefix..Word - 1
        BY <2>1, <2>2, <2>7, <2>11
    <3> QED
        BY <3>1 DEF ArrayFits, product
  <2> QED
      BY <2>1, <2>2, <2>10, <2>11
<1> QED
    BY <1>1, <1>2

(* The table of workers has the memory it asks for, or there is none, in   *)
(* a word of any width.                                                    *)
THEOREM AlwaysTableFits == Spec => []TableFits
<1>1. TableFits
    BY ArrayAlwaysFits DEF TableFits
<1> QED
    BY <1>1, PTL
=============================================================================
