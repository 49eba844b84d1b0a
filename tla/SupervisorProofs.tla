--------------------------- MODULE SupervisorProofs ---------------------------
(***************************************************************************)
(* The safety of the supervisor, for any number of workers.                *)
(***************************************************************************)
EXTENDS Supervisor, FiniteSetTheorems, TLAPS

(* The counter follows a worker that is spawned, or one that is reaped, and *)
(* the workers held are never more than there are.                         *)
LEMMA CountOne ==
    ASSUME pidfds \subseteq Workers, NEW w \in Workers
    PROVE  /\ IsFiniteSet(pidfds)
           /\ Cardinality(pidfds) \in 0..Cardinality(Workers)
           /\ w \notin pidfds => Cardinality(pidfds \cup {w}) = Cardinality(pidfds) + 1
           /\ w \in pidfds => Cardinality(pidfds \ {w}) = Cardinality(pidfds) - 1
           /\ Cardinality(pidfds) = 0 <=> pidfds = {}
<1>1. IsFiniteSet(pidfds) /\ Cardinality(pidfds) <= Cardinality(Workers)
    BY WorkersAssumption, FS_Subset
<1>2. Cardinality(pidfds) \in Nat /\ Cardinality(Workers) \in Nat
    BY <1>1, WorkersAssumption, FS_CardinalityType
<1>3. w \notin pidfds => Cardinality(pidfds \cup {w}) = Cardinality(pidfds) + 1
    BY <1>1, FS_AddElement
<1>4. w \in pidfds => Cardinality(pidfds \ {w}) = Cardinality(pidfds) - 1
    BY <1>1, FS_RemoveElement
<1>5. Cardinality(pidfds) = 0 <=> pidfds = {}
    BY <1>1, FS_EmptySet
<1> QED
    BY <1>1, <1>2, <1>3, <1>4, <1>5

(* A supervisor that has just started satisfies the invariant.             *)
LEMMA InitInv == Init => SupervisorInv
<1> SUFFICES ASSUME Init PROVE SupervisorInv
    OBVIOUS
<1>1. Cardinality({}) = 0 /\ Cardinality(Workers) \in Nat
    BY WorkersAssumption, FS_EmptySet, FS_CardinalityType
<1>2. TypeOK
  <2>1. worker \in [Workers -> Stages]
      BY DEF Init, Stages
  <2>2. term \in [blocked : BOOLEAN, pending : BOOLEAN, edge : BOOLEAN]
      BY DEF Init
  <2>3. activeWorkers \in 0..Cardinality(Workers)
      BY <1>1 DEF Init
  <2> QED
      BY <2>1, <2>2, <2>3 DEF Init, TypeOK, Ids
<1>3. CountMatches
    BY <1>1 DEF Init, CountMatches
<1>4. HoldInv /\ LoopInv /\ EndInv
    BY DEF Init, HoldInv, LoopInv, EndInv
<1> QED
    BY <1>2, <1>3, <1>4 DEF SupervisorInv

(* Signals and the death of the supervisor leave it as it is who was       *)
(* spawned, who has ended and who was reaped.                              *)
LEMMA SignalsKeep ==
    ASSUME TypeOK, NEW children \in [Workers -> Stages],
           children \in {worker, TermAll, KillAll}
    PROVE  /\ children \in [Workers -> Stages]
           /\ Orphaned(children) \in [Workers -> Stages]
           /\ \A w \in Workers :
                 /\ worker[w] \in {"none", "ended", "reaped"} =>
                       children[w] = worker[w] /\ Orphaned(children)[w] = worker[w]
                 /\ worker[w] \notin {"none", "ended", "reaped"} =>
                       /\ children[w] \notin {"none", "reaped"}
                       /\ Orphaned(children)[w] \notin {"none", "reaped"}
<1> USE DEF TypeOK, Stages
<1>1. \A st \in Stages :
        /\ AfterTerm(st) \in Stages /\ AfterKill(st) \in Stages
        /\ st \in {"none", "ended", "reaped"} => AfterTerm(st) = st /\ AfterKill(st) = st
        /\ st \notin {"none", "reaped"} => /\ AfterTerm(st) \notin {"none", "reaped"}
                                          /\ AfterKill(st) \notin {"none", "reaped"}
    BY DEF AfterTerm, AfterKill
<1>2. \A w \in Workers :
        /\ worker[w] \in Stages
        /\ children[w] \in {worker[w], AfterTerm(worker[w]), AfterKill(worker[w])}
    BY DEF TermAll, KillAll
<1>3. \A w \in Workers : Orphaned(children)[w] \in {children[w], AfterTerm(children[w])}
    BY DEF Orphaned
<1>4. Orphaned(children) \in [Workers -> Stages]
    BY <1>1, <1>3 DEF Orphaned
<1> QED
    BY <1>1, <1>2, <1>3, <1>4

(* The supervisor dies, with the workers as a clean-up may leave them.     *)
LEMMA GoneInv ==
    ASSUME SupervisorInv, Gone(worker) \/ Gone(CleanedUp),
           code' \in {code, "killed"}, code' = "success" => code = "success",
           pc = "exit" \/ code' = "killed",
           UNCHANGED <<untried, pidfds, activeWorkers, run, queue, cur, term>>
    PROVE  SupervisorInv'
<1> USE DEF SupervisorInv
<1>1. PICK children \in {worker, KillAll} : Gone(children)
    BY DEF CleanedUp
<1>2. children \in [Workers -> Stages] /\ children \in {worker, TermAll, KillAll}
    BY <1>1 DEF TypeOK, KillAll, AfterKill, Stages
<1>3. /\ worker' = Orphaned(children)
      /\ pc' = "dead"
      /\ active' = {}
    BY <1>1 DEF Gone
<1>4. /\ worker' \in [Workers -> Stages]
      /\ \A w \in Workers :
            /\ worker[w] \in {"none", "ended", "reaped"} => worker'[w] = worker[w]
            /\ worker[w] \notin {"none", "ended", "reaped"} =>
                  worker'[w] \notin {"none", "reaped"}
    BY <1>2, <1>3, SignalsKeep
<1>5. TypeOK'
    BY <1>3, <1>4 DEF TypeOK
<1>6. HoldInv'
    BY <1>3, <1>4 DEF HoldInv, TypeOK, Stages
<1>7. LoopInv' /\ EndInv'
    BY <1>3, <1>4 DEF LoopInv, EndInv, TypeOK
<1>8. CountMatches'
    BY DEF CountMatches
<1> QED
    BY <1>5, <1>6, <1>7, <1>8

(* Every step of the supervisor, of its workers and of those who send it   *)
(* signals keeps the invariant.                                            *)
LEMMA NextInv == SupervisorInv /\ [Next]_vars => SupervisorInv'
<1> SUFFICES ASSUME SupervisorInv, [Next]_vars
             PROVE  SupervisorInv'
    OBVIOUS
<1> USE WorkersAssumption
    DEF SupervisorInv, TypeOK, CountMatches, HoldInv, LoopInv, EndInv, Ids, Stages
<1>1. ASSUME NEW w \in Workers, SpawnWorker(w)
      PROVE  SupervisorInv'
  <2>1. /\ w \notin pidfds
        /\ pidfds' = pidfds \cup {w}
        /\ activeWorkers' = activeWorkers + 1
        /\ worker' = [worker EXCEPT ![w] = "born"]
      BY <1>1 DEF SpawnWorker
  <2>2. /\ activeWorkers' = Cardinality(pidfds')
        /\ activeWorkers' \in 0..Cardinality(Workers)
    <3>1. pidfds' \subseteq Workers
        BY <2>1
    <3>2. /\ IsFiniteSet(pidfds')
          /\ Cardinality(pidfds') <= Cardinality(Workers)
          /\ Cardinality(pidfds') \in Nat
          /\ Cardinality(Workers) \in Nat
        BY <3>1, FS_Subset, FS_CardinalityType
    <3> QED
        BY <2>1, <3>2, CountOne
  <2> QED
      BY <1>1, <2>1, <2>2 DEF SpawnWorker, loopvars
<1>2. ASSUME NEW w \in Workers, SpawnFails(w)
      PROVE  SupervisorInv'
    BY <1>2 DEF SpawnFails, childvars, loopvars
<1>3. CASE AllTried
  <2>1. activeWorkers = 0 => pidfds = {}
      BY FS_Subset, FS_EmptySet
  <2> QED
      BY <1>3, <2>1 DEF AllTried, ExitWith, childvars, loopvars
<1>4. CASE BlockTerm \/ OpenSigfd \/ SetupFails
  <2>1. CASE BlockTerm
      BY <2>1 DEF BlockTerm, childvars, loopvars
  <2>2. CASE OpenSigfd
      BY <2>2 DEF OpenSigfd, childvars, loopvars
  <2>3. CASE SetupFails
      BY <2>3 DEF SetupFails, ExitWith, childvars, loopvars
  <2> QED
      BY <1>4, <2>1, <2>2, <2>3
<1>5. ASSUME NEW deaf \in SUBSET Ids, EnterLoop(deaf)
      PROVE  SupervisorInv'
    BY <1>5 DEF EnterLoop, childvars
<1>6. CASE Collect
  <2>1. /\ queue' = Ready
        /\ Ready \subseteq active
        /\ \A w \in Ready \cap Workers : worker[w] \in {"ended", "reaped"}
      BY <1>6 DEF Collect, Ready
  <2>2. \A w \in active \cap Workers : worker[w] # "reaped"
      OBVIOUS
  <2> QED
      BY <1>6, <2>1, <2>2 DEF Collect, childvars
<1>7. ASSUME NEW id \in queue, Dispatch(id)
      PROVE  SupervisorInv'
    BY <1>7 DEF Dispatch, childvars
<1>8. CASE EndBatch
    BY <1>8 DEF EndBatch, ExitWith, childvars, loopvars
<1>9. CASE WaitFails
    BY <1>9 DEF WaitFails, ExitWith, childvars
<1>10. CASE SigfdEvent
  <2>1. worker' \in {worker, TermAll}
      BY <1>10 DEF SigfdEvent
  <2>2. TermAll \in [Workers -> Stages]
      BY DEF TermAll, AfterTerm
  <2>3. /\ worker' \in [Workers -> Stages]
        /\ \A w \in Workers :
              /\ worker[w] \in {"none", "ended", "reaped"} => worker'[w] = worker[w]
              /\ worker[w] \notin {"none", "ended", "reaped"} =>
                    worker'[w] \notin {"none", "reaped"}
      BY <2>1, <2>2, SignalsKeep
  <2> QED
      BY <1>10, <2>3 DEF SigfdEvent, Returns
<1>11. ASSUME NEW w \in Workers, PidfdEvent(w)
       PROVE  SupervisorInv'
  <2>1. /\ w \in pidfds
        /\ w \notin queue
        /\ worker[w] = "ended"
        /\ worker' = [worker EXCEPT ![w] = "reaped"]
        /\ pidfds' = pidfds \ {w}
        /\ active' = active \ {w}
        /\ queue' = queue
        /\ activeWorkers' = activeWorkers - 1
        /\ pc = "pidfd" /\ pc' = "dispatch"
        /\ UNCHANGED <<code, untried, term>>
        /\ cur' = "none"
        /\ run' = (run /\ activeWorkers # 1)
      BY <1>11 DEF PidfdEvent, Reaped, Returns, LastOne
  <2>2. /\ activeWorkers' = Cardinality(pidfds')
        /\ activeWorkers' \in 0..Cardinality(Workers)
        /\ activeWorkers = 1 => pidfds' = {}
    <3>1. /\ Cardinality(pidfds \ {w}) = Cardinality(pidfds) - 1
          /\ Cardinality(pidfds) \in 0..Cardinality(Workers)
          /\ IsFiniteSet(pidfds')
        BY <2>1, CountOne, FS_Subset
    <3>2. Cardinality(pidfds') \in Nat
        BY <3>1, FS_CardinalityType
    <3>3. Cardinality(pidfds') = 0 => pidfds' = {}
        BY <3>1, FS_EmptySet
    <3>4. Cardinality(Workers) \in Nat
        BY FS_CardinalityType
    <3> QED
        BY <2>1, <3>1, <3>2, <3>3, <3>4
  <2> QED
      BY <2>1, <2>2
<1>12. CASE SupervisorCleanup
    BY <1>12, GoneInv DEF SupervisorCleanup
<1>13. ASSUME NEW w \in Workers, WorkerNext(w) \/ WorkerCrashes(w)
       PROVE  SupervisorInv'
  <2>1. PICK stage \in {"guarded", "serving", "ended"} :
            Becomes(w, stage) /\ worker[w] \in {"born", "guarded", "serving", "told"}
      BY <1>13 DEF WorkerNext, WorkerGuards, WorkerBlocks, WorkerEnds, WorkerCrashes, Alive
  <2>2. /\ worker' = [worker EXCEPT ![w] = stage]
        /\ UNCHANGED <<pc, code, untried, pidfds, activeWorkers, run, active, queue, cur, term>>
      BY <2>1 DEF Becomes, loopvars
  <2> QED
      BY <2>1, <2>2
<1>14. CASE TermComes
  <2>1. CASE term.blocked
    <3>1. PICK edge \in BOOLEAN :
              term' = [term EXCEPT !.pending = TRUE, !.edge = edge]
        BY <1>14, <2>1 DEF TermComes
    <3>2. UNCHANGED <<pc, code, untried, childvars, loopvars>>
        BY <1>14, <2>1 DEF TermComes
    <3>3. term' \in [blocked : BOOLEAN, pending : BOOLEAN, edge : BOOLEAN]
        BY <3>1
    <3> QED
        BY <3>2, <3>3 DEF childvars, loopvars
  <2>2. CASE ~term.blocked
      BY <1>14, <2>2, GoneInv DEF TermComes
  <2> QED
      BY <2>1, <2>2
<1>15. CASE KillComes
    BY <1>15, GoneInv DEF KillComes
<1>16. CASE UNCHANGED vars
    BY <1>16 DEF vars, childvars, loopvars
<1> QED
    BY <1>1, <1>2, <1>3, <1>4, <1>5, <1>6, <1>7, <1>8, <1>9, <1>10, <1>11, <1>12,
       <1>13, <1>14, <1>15, <1>16 DEF Next, SupervisorNext

(* The inductive invariant holds in every state.                           *)
THEOREM Invariance == Spec => []SupervisorInv
  BY InitInv, NextInv, PTL DEF Spec

(* Type correctness.                                                       *)
THEOREM TypeCorrect == Spec => []TypeOK
<1>1. SupervisorInv => TypeOK
    BY DEF SupervisorInv
<1> QED
    BY <1>1, Invariance, PTL

(* The counter that ends the loop is right for any number of workers,      *)
(* whichever of them could not be spawned.                                 *)
THEOREM Counted == Spec => []CountMatches
<1>1. SupervisorInv => CountMatches
    BY DEF SupervisorInv
<1> QED
    BY <1>1, Invariance, PTL

(* Every child is held until it is reaped, which happens once, after its   *)
(* end.                                                                    *)
THEOREM HeldUntilReaped == Spec => []ChildrenHeld
<1>1. SupervisorInv => ChildrenHeld
    BY DEF SupervisorInv, HoldInv, LoopInv, ChildrenHeld
<1> QED
    BY <1>1, Invariance, PTL

(* The loop of the supervisor is ended only by the last worker.            *)
THEOREM LoopOutlastsWorkers == Spec => []LoopEndsLast
<1>1. SupervisorInv => LoopEndsLast
  <2> SUFFICES ASSUME TypeOK, HoldInv, EndInv,
                      pc \in {"dispatch", "signal", "pidfd"}, ~run, NEW w \in Workers
               PROVE  worker[w] \in {"none", "reaped"}
    BY DEF SupervisorInv, LoopEndsLast
  <2>1. w \notin pidfds
    BY DEF EndInv
  <2> QED
    BY <2>1 DEF HoldInv
<1> QED
    BY <1>1, Invariance, PTL

(* Unless epoll_wait fails, the supervisor exits with success only when    *)
(* none of its workers is alive.                                           *)
THEOREM ExitsLast ==
    ASSUME "wait" \notin Faults
    PROVE  Spec => []ExitsAfterChildren
<1>1. SupervisorInv => ExitsAfterChildren
    BY DEF SupervisorInv, HoldInv, EndInv, ExitsAfterChildren, Alive
<1> QED
    BY <1>1, Invariance, PTL
=============================================================================
