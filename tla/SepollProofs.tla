----------------------------- MODULE SepollProofs -----------------------------
(***************************************************************************)
(* The safety of the event loop, for any number of descriptors, files and  *)
(* callbacks, any size of the event array, with and without a hook.        *)
(***************************************************************************)
EXTENDS Sepoll, TLAPS

(* A loop that was just created satisfies the inductive invariant.         *)
LEMMA InitInv == Init => SepollInv
  BY NullAssumption, SizeAssumption
  DEF Init, SepollInv, TypeOK, TreeInv, HeapInv, WatchInv, BatchInv, Registered

(* Every step, of the loop, of its user and of the kernel, keeps it. Remove *)
(* and Add need all of its parts; the others disturb one or two.           *)
LEMMA NextInv == SepollInv /\ [Next]_vars => SepollInv'
<1> SUFFICES ASSUME SepollInv, [Next]_vars
             PROVE  SepollInv'
    OBVIOUS
<1> USE NullAssumption, SizeAssumption
        DEF SepollInv, TypeOK, TreeInv, HeapInv, WatchInv, BatchInv,
            Registered, InUser, Entries
<1>1. ASSUME NEW fd \in Fds, NEW file \in Files, OpenFd(fd, file)
      PROVE  SepollInv'
  <2>1. tree[fd] = NoCb /\ fdt' = [fdt EXCEPT ![fd] = file]
      BY <1>1 DEF OpenFd
  <2>2. \A d \in Fds : tree[d] # NoCb => fdt'[d] = fdt[d]
      BY <2>1
  <2> QED
      BY <1>1, <2>1, <2>2 DEF OpenFd, loopvars
<1>2. ASSUME NEW fd \in Fds, NEW cb \in Cbs, Add(fd, cb)
      PROVE  SepollInv'
  <2>1. /\ tree[fd] = NoCb
        /\ tree' = [tree EXCEPT ![fd] = cb]
        /\ fn' = [fn EXCEPT ![cb] = fdt[fd]]
        /\ \A d \in Fds : tree[d] # cb
      BY <1>2 DEF Add, Inserted
  <2>2. TypeOK'
      BY <1>2, <2>1 DEF Add
  <2>3. TreeInv'
      BY <1>2, <2>1 DEF Add
  <2>4. HeapInv'
      <3>1. Registered' = Registered \cup {cb}
          BY <2>1
      <3> QED
          BY <1>2, <2>1, <3>1 DEF Add
  <2>5. WatchInv'
      BY <1>2, <2>1 DEF Add
  <2>6. BatchInv'
      BY <1>2, <2>1 DEF Add
  <2> QED
      BY <2>2, <2>3, <2>4, <2>5, <2>6
<1>3. ASSUME NEW fd \in Fds, NEW cb \in Cbs, AddRefused(fd, cb)
      PROVE  SepollInv'
  <2>1. tree' = tree
      BY <1>3 DEF AddRefused, AfterRefusal, Inserted
  <2> QED
      BY <1>3, <2>1 DEF AddRefused, kernelvars
<1>4. ASSUME NEW fd \in Fds, CloseFd(fd)
      PROVE  SepollInv'
    BY <1>4 DEF CloseFd, MayClose, Surviving, loopvars
<1>5. ASSUME NEW fd \in Fds, AddFails(fd)
      PROVE  SepollInv'
    BY <1>5 DEF AddFails, vars, loopvars, kernelvars
<1>6. ASSUME NEW fd \in Fds, Modify(fd)
      PROVE  SepollInv'
    BY <1>6, ZenonT(60) DEF Modify, EntriesOf
<1>7. ASSUME NEW fd \in Fds, Remove(fd)
      PROVE  SepollInv'
  <2> DEFINE old == tree[fd]
  <2>1. /\ old \in heap \ gc
        /\ tree' = [tree EXCEPT ![fd] = NoCb]
        /\ fn' = [fn EXCEPT ![old] = NoFile]
        /\ gc' = gc \cup {old}
        /\ heap' = heap
        /\ \A d \in Fds \ {fd} : tree[d] # old
      BY <1>7 DEF Remove, Retired
  <2>2. \A e \in interest' : e \in interest /\ e.fd # fd
      BY <1>7 DEF Remove, Watched, EntriesOf
  <2>3. \A e \in interest : e.fd # fd => e \in interest'
      BY <1>7 DEF Remove, Watched, EntriesOf
  <2>4. TypeOK'
      BY <1>7, <2>1, <2>2 DEF Remove
  <2>5. TreeInv'
      BY <1>7, <2>1, <2>3 DEF Remove
  <2>6. HeapInv'
      <3>1. Registered' = Registered \ {old}
          BY <2>1
      <3> QED
          BY <1>7, <2>1, <3>1 DEF Remove
  <2>7. WatchInv'
      BY <1>7, <2>1, <2>2 DEF Remove
  <2>8. BatchInv'
      BY <1>7, <2>1, <2>3 DEF Remove
  <2> QED
      BY <2>4, <2>5, <2>6, <2>7, <2>8
<1>8. ASSUME NEW file \in Files, Fork(file)
      PROVE  SepollInv'
    BY <1>8 DEF Fork, loopvars
<1>9. ASSUME NEW file \in Files, ChildExit(file)
      PROVE  SepollInv'
    BY <1>9 DEF ChildExit, Surviving, loopvars
<1>10. ASSUME NEW e \in interest, KernelEvent(e)
       PROVE  SepollInv'
    BY <1>10 DEF KernelEvent, loopvars
<1>11. CASE Enter
    BY <1>11 DEF Enter, kernelvars
<1>12. CASE WaitEmpty
    BY <1>12 DEF WaitEmpty, kernelvars
<1>13. ASSUME NEW R \in SUBSET ready, Wait(R)
       PROVE  SepollInv'
    BY <1>13 DEF Wait
<1>14. ASSUME NEW e \in batch, Dispatch(e)
       PROVE  SepollInv'
    BY <1>14 DEF Dispatch, Unread, Callable, kernelvars
<1>15. CASE CallbackReturns
    BY <1>15 DEF CallbackReturns, kernelvars
<1>16. CASE EndBatch
    BY <1>16 DEF EndBatch, kernelvars
<1>17. CASE HookReturns
    BY <1>17 DEF HookReturns, kernelvars
<1>18. CASE Sweep
    BY <1>18 DEF Sweep, Swept, AfterSweep, kernelvars
<1>19. CASE Exit
    BY <1>19 DEF Exit, kernelvars
<1>20. ASSUME NEW n \in 1..MaxSize, Resize(n)
       PROVE  SepollInv'
    BY <1>20 DEF Resize, kernelvars
<1>21. CASE Destroy
    BY <1>21 DEF Destroy, Swept
<1>22. CASE UNCHANGED vars
    BY <1>22 DEF vars, loopvars, kernelvars
<1> QED
    BY <1>1, <1>2, <1>3, <1>4, <1>5, <1>6, <1>7, <1>8, <1>9, <1>10, <1>11, <1>12,
       <1>13, <1>14, <1>15, <1>16, <1>17, <1>18, <1>19, <1>20, <1>21, <1>22 DEF Next

(* The inductive invariant holds in every state.                           *)
THEOREM Invariance == Spec => []SepollInv
  BY InitInv, NextInv, PTL DEF Spec

(* The invariant is strong enough for every safety property the runs check. *)
LEMMA InvImplies ==
    SepollInv => TypeOK /\ NoDanglingPointer /\ NoStaleCall /\ NoLeak /\ KernelAgrees
<1> SUFFICES ASSUME SepollInv
             PROVE  /\ TypeOK
                    /\ NoDanglingPointer
                    /\ NoStaleCall
                    /\ NoLeak
                    /\ KernelAgrees
    OBVIOUS
<1> USE NullAssumption DEF SepollInv, TypeOK, TreeInv, HeapInv, WatchInv, BatchInv
<1>1. \A e \in interest : /\ e.fd \in Fds
                           /\ tree[e.fd] = e.ptr
                           /\ e.ptr \in Cbs
                           /\ e.ptr # NoCb
    BY DEF Entries
<1>2. NoDanglingPointer
  <2>1. \A e \in interest : e.ptr \in heap \ gc
      BY <1>1
  <2> QED
      BY <2>1 DEF NoDanglingPointer
<1>3. NoStaleCall
  <2> SUFFICES ASSUME NEW e \in batch, fn[e.ptr] # NoFile
               PROVE  fdt[e.fd] = e.file /\ fn[e.ptr] = e.file
      BY DEF NoStaleCall, Callable
  <2>1. /\ e.ptr \in heap
        /\ e.ptr \notin gc
      BY DEF Entries
  <2>2. e.ptr \in Registered
      BY <2>1
  <2>3. e \in interest
      BY <2>2
  <2>4. e.fd \in Fds /\ tree[e.fd] = e.ptr /\ e.ptr # NoCb
      BY <1>1, <2>3
  <2> QED
      BY <2>3, <2>4, ZenonT(60)
<1>4. NoLeak
  <2>1. ASSUME NEW cb \in Registered
        PROVE  cb \in heap \ gc
    <3>1. PICK d \in Fds : tree[d] = cb
        BY DEF Registered
    <3>2. tree[d] # NoCb
        BY <3>1 DEF Registered
    <3> QED
        BY <3>1, <3>2
  <2>2. heap \subseteq Registered \cup gc /\ gc \subseteq heap
      OBVIOUS
  <2>3. heap = Registered \cup gc
      BY <2>1, <2>2
  <2>4. Registered \cap gc = {}
      BY <2>1
  <2> QED
      BY <2>3, <2>4 DEF NoLeak
<1>5. KernelAgrees
  <2> DEFINE entry(d) == [fd |-> d, file |-> fdt[d], ptr |-> tree[d]]
             watched == {d \in Fds : tree[d] # NoCb}
  <2>1. ASSUME NEW e \in interest
        PROVE  e.fd \in watched /\ e = entry(e.fd)
    <3>1. e.fd \in watched
        BY <1>1
    <3>2. e = [fd |-> e.fd, file |-> e.file, ptr |-> e.ptr]
        BY DEF Entries
    <3> QED
        BY <3>1, <3>2
  <2>2. \A d \in watched : entry(d) \in interest
      OBVIOUS
  <2>3. interest = {entry(d) : d \in watched}
      BY <2>1, <2>2
  <2> QED
      BY <2>3 DEF KernelAgrees
<1> QED
    BY <1>2, <1>3, <1>4, <1>5

(* Type correctness.                                                       *)
THEOREM TypeCorrect == Spec => []TypeOK
  BY Invariance, InvImplies, PTL

(* sepoll.c never follows a pointer to a callback that has been freed.     *)
THEOREM NeverDangling == Spec => []NoDanglingPointer
  BY Invariance, InvImplies, PTL

(* It never calls a function for the event of a file the function was not  *)
(* registered for.                                                         *)
THEOREM NeverStale == Spec => []NoStaleCall
  BY Invariance, InvImplies, PTL

(* Every allocated callback is registered or waits to be freed.            *)
THEOREM NeverLeaks == Spec => []NoLeak
  BY Invariance, InvImplies, PTL

(* The tree and the kernel's interest list are the same map.               *)
THEOREM TreeIsInterest == Spec => []KernelAgrees
  BY Invariance, InvImplies, PTL

(***************************************************************************)
(* The loop implements EventLoop.                                          *)
(***************************************************************************)

(* A step that touches neither the tree, nor the batch, nor cur is a       *)
(* stuttering step of the abstract loop.                                   *)
LEMMA Stutters == UNCHANGED <<tree, batch, cur>> => UNCHANGED EL!elvars
  BY DEF EL!elvars, Registered

(* A change of the tree that registers only fresh callbacks is one the     *)
(* abstract loop allows.                                                   *)
LEMMA Changes ==
    ASSUME SepollInv, batch' = batch, cur' \in {cur, NoCb},
           \A cb \in Registered' : cb \in Registered \/ cb \notin heap
    PROVE  EL!Change
<1>1. \A cb \in {e.ptr : e \in batch} \cup {cur} : cb \in heap \/ cb = NoCb
    BY DEF SepollInv, BatchInv
<1>2. \A cb \in Registered' : cb \in Cbs /\ cb # NoCb
    BY NullAssumption DEF Registered
<1>3. (Registered' \ Registered) \cap ({e.ptr : e \in batch} \cup {cur}) = {}
    BY <1>1, <1>2
<1> QED
    BY <1>2, <1>3 DEF EL!Change

(* Every step of sepoll.c is a step of EventLoop, or changes nothing there. *)
LEMMA StepRefines == SepollInv /\ [Next]_vars => [EL!ELNext]_(EL!elvars)
<1> SUFFICES ASSUME SepollInv, [Next]_vars
             PROVE  EL!ELNext \/ UNCHANGED EL!elvars
    OBVIOUS
<1> USE NullAssumption
<1>1. ASSUME NEW fd \in Fds, NEW cb \in Cbs, Add(fd, cb)
      PROVE  EL!Change
  <2>1. batch' = batch /\ cur' = cur /\ cb \notin heap /\ tree' = [tree EXCEPT ![fd] = cb]
      BY <1>1 DEF Add, Inserted
  <2>2. \A c \in Registered' : c \in Registered \/ c = cb
      BY <2>1 DEF Registered, SepollInv, TypeOK
  <2> QED
      BY <2>1, <2>2, Changes
<1>2. ASSUME NEW fd \in Fds, Remove(fd)
      PROVE  EL!Change
  <2>1. batch' = batch /\ cur' = cur /\ tree' = [tree EXCEPT ![fd] = NoCb]
      BY <1>2 DEF Remove
  <2>2. \A c \in Registered' : c \in Registered
      BY <2>1 DEF Registered, SepollInv, TypeOK
  <2> QED
      BY <2>1, <2>2, Changes
<1>3. CASE Destroy
  <2>1. batch' = batch /\ cur' = cur /\ tree' = [d \in Fds |-> NoCb]
      BY <1>3 DEF Destroy
  <2>2. Registered' = {}
      BY <2>1 DEF Registered
  <2> QED
      BY <2>1, <2>2, Changes DEF EL!ELNext
<1>4. CASE CallbackReturns
  <2>1. batch' = batch /\ cur' = NoCb /\ tree' = tree
      BY <1>4 DEF CallbackReturns
  <2>2. Registered' = Registered
      BY <2>1 DEF Registered
  <2> QED
      BY <2>1, <2>2, Changes DEF EL!ELNext
<1>5. ASSUME NEW R \in SUBSET ready, Wait(R)
      PROVE  EL!Collect
  <2>1. batch = {} /\ cur = NoCb /\ batch' = R /\ tree' = tree /\ cur' = cur
      BY <1>5 DEF Wait, SepollInv, BatchInv
  <2>2. \A e \in R : e.ptr \in Registered
      BY DEF SepollInv, TypeOK, WatchInv, Registered, Entries
  <2>3. Registered' = Registered
      BY <2>1 DEF Registered
  <2>4. {e.ptr : e \in batch'} \in SUBSET Registered
      BY <2>1, <2>2
  <2>5. {e.ptr : e \in batch} = {}
      BY <2>1
  <2> QED
      BY <2>1, <2>3, <2>4, <2>5 DEF EL!Collect
<1>6. ASSUME NEW e \in batch, Dispatch(e)
      PROVE  EL!ELNext
  <2>1. /\ pc = "dispatch"
        /\ cur = NoCb
        /\ batch' = batch \ {e}
        /\ tree' = tree
        /\ e.ptr \in Cbs
      BY <1>6 DEF Dispatch, Unread, SepollInv, TypeOK, BatchInv, Entries
  <2>2. {f.ptr : f \in batch'} = {f.ptr : f \in batch} \ {e.ptr}
      BY <2>1 DEF SepollInv, BatchInv
  <2>3. Registered' = Registered
      BY <2>1 DEF Registered
  <2>4. CASE Callable(e.ptr)
    <3>1. cur' = e.ptr
        BY <1>6, <2>4 DEF Dispatch
    <3>2. e.ptr \in Registered
        BY <2>4 DEF Callable, SepollInv, BatchInv, HeapInv
    <3> QED
        BY <2>1, <2>2, <2>3, <3>1, <3>2 DEF EL!Deliver, EL!ELNext
  <2>5. CASE ~Callable(e.ptr)
    <3>1. cur' = cur
        BY <1>6, <2>5 DEF Dispatch
    <3>2. e.ptr \notin Registered
        BY <2>5 DEF Callable, Registered, SepollInv, TypeOK, TreeInv
    <3> QED
        BY <2>1, <2>2, <2>3, <3>1, <3>2 DEF EL!Skip, EL!ELNext
  <2> QED
      BY <2>4, <2>5
<1>7. ASSUME NEW fd \in Fds, NEW cb \in Cbs, AddRefused(fd, cb)
      PROVE  UNCHANGED EL!elvars
  <2>1. tree' = tree
      BY <1>7 DEF AddRefused, AfterRefusal, Inserted, SepollInv, TypeOK
  <2> QED
      BY <1>7, <2>1, Stutters DEF AddRefused
<1>8. ASSUME NEW fd \in Fds,
             \/ \E file \in Files : OpenFd(fd, file)
             \/ CloseFd(fd) \/ AddFails(fd) \/ Modify(fd)
      PROVE  UNCHANGED EL!elvars
    BY <1>8, Stutters DEF OpenFd, CloseFd, AddFails, Modify, vars, loopvars
<1>9. CASE \/ \E file \in Files : Fork(file) \/ ChildExit(file)
           \/ \E e \in interest : KernelEvent(e)
           \/ Enter \/ WaitEmpty \/ EndBatch \/ HookReturns \/ Sweep
           \/ Exit \/ \E n \in 1..MaxSize : Resize(n)
           \/ UNCHANGED vars
    BY <1>9, Stutters DEF Fork, ChildExit, KernelEvent, Enter, WaitEmpty, EndBatch,
       HookReturns, Sweep, Exit, Resize, vars, loopvars
<1> QED
    BY <1>1, <1>2, <1>3, <1>4, <1>5, <1>6, <1>7, <1>8, <1>9 DEF Next, EL!ELNext

(* Every behaviour of sepoll.c is one of EventLoop.                        *)
THEOREM Refinement == Spec => ImplementsEventLoop
<1>1. Init => EL!ELInit
    BY NullAssumption DEF Init, EL!ELInit, Registered
<1> QED
    BY <1>1, StepRefines, Invariance, PTL DEF Spec, ImplementsEventLoop, EL!ELSpec

(***************************************************************************)
(* No event is lost.                                                       *)
(***************************************************************************)

(* What a step may do to the event of a registered callback.               *)
KeptOrServed(cb) ==
    \/ Pending(cb)'
    \/ cur' = cb
    \/ cb \notin Registered'
    \/ \E fd \in Fds : tree[fd] = cb /\ Modify(fd)

(* One step does no more to a recorded event than NoEventLost allows.      *)
LEMMA StepKeepsEvents ==
    ASSUME SepollInv, [Next]_vars, NEW cb \in Cbs, Pending(cb)
    PROVE  KeptOrServed(cb)
<1> USE NullAssumption
<1>1. PICK e \in ready \cup batch : e.ptr = cb
    BY DEF Pending
<1>2. e \in ready => /\ e \in interest
                     /\ e.fd \in Fds
                     /\ tree[e.fd] = cb
                     /\ fdt[e.fd] = e.file
                     /\ cb # NoCb
    BY <1>1 DEF SepollInv, TypeOK, WatchInv, Entries
<1>3. ASSUME e \in ready' \cup batch'
      PROVE  KeptOrServed(cb)
    BY <1>1, <1>3 DEF KeptOrServed, Pending
<1>4. ASSUME NEW fd \in Fds, Remove(fd)
      PROVE  KeptOrServed(cb)
  <2>1. CASE e \in ready /\ e.fd = fd
    <3>1. tree[fd] = cb /\ tree' = [tree EXCEPT ![fd] = NoCb]
        BY <1>2, <1>4, <2>1 DEF Remove
    <3>2. \A d \in Fds : tree'[d] # cb
        BY <1>2, <2>1, <3>1 DEF SepollInv, TypeOK, TreeInv
    <3> QED
        BY <3>2 DEF KeptOrServed, Registered
  <2>2. CASE e \in ready /\ e.fd # fd
      BY <1>2, <1>3, <1>4, <2>2 DEF Remove, Watched, EntriesOf
  <2>3. CASE e \in batch
      BY <1>3, <1>4, <2>3 DEF Remove
  <2> QED
      BY <2>1, <2>2, <2>3
<1>5. ASSUME NEW fd \in Fds, Modify(fd)
      PROVE  KeptOrServed(cb)
  <2>1. CASE e \in EntriesOf(fd) /\ e \in ready
      BY <1>2, <1>5, <2>1 DEF KeptOrServed, EntriesOf
  <2>2. CASE ~(e \in EntriesOf(fd) /\ e \in ready)
      BY <1>3, <1>5, <2>2 DEF Modify
  <2> QED
      BY <2>1, <2>2
<1>6. ASSUME NEW fd \in Fds, CloseFd(fd)
      PROVE  KeptOrServed(cb)
  <2>1. e \in ready => e.fd # fd
      BY <1>2, <1>6 DEF CloseFd, MayClose
  <2>2. fdt' = [fdt EXCEPT ![fd] = NoFile] /\ interest' = Surviving(fdt', dup)
      BY <1>6 DEF CloseFd
  <2>3. e \in ready => e \in interest'
      BY <1>2, <2>1, <2>2 DEF Surviving, SepollInv, TypeOK
  <2> QED
      BY <1>3, <1>6, <2>3 DEF CloseFd, loopvars
<1>7. ASSUME NEW file \in Files, ChildExit(file)
      PROVE  KeptOrServed(cb)
    BY <1>2, <1>3, <1>7 DEF ChildExit, Surviving, loopvars
<1>8. ASSUME NEW R \in SUBSET ready, Wait(R)
      PROVE  KeptOrServed(cb)
    BY <1>3, <1>8 DEF Wait, SepollInv, BatchInv
<1>9. ASSUME NEW f \in batch, Dispatch(f)
      PROVE  KeptOrServed(cb)
  <2>1. CASE e = f /\ Callable(cb)
      BY <1>1, <1>9, <2>1 DEF Dispatch, KeptOrServed
  <2>2. CASE e = f /\ ~Callable(cb)
    <3>1. tree' = tree
        BY <1>9 DEF Dispatch
    <3>2. cb \notin Registered
        BY <2>2 DEF Callable, Registered, SepollInv, TypeOK, TreeInv
    <3> QED
        BY <3>1, <3>2 DEF KeptOrServed, Registered
  <2>3. CASE e # f
      BY <1>3, <1>9, <2>3 DEF Dispatch, Unread, kernelvars
  <2> QED
      BY <2>1, <2>2, <2>3
<1>10. CASE Destroy
    BY <1>10 DEF Destroy, KeptOrServed, Registered
<1>11. ASSUME batch' = batch, ready \subseteq ready'
       PROVE  KeptOrServed(cb)
    BY <1>3, <1>11
<1>12. ASSUME NEW fd \in Fds,
              \/ \E file \in Files : OpenFd(fd, file)
              \/ \E c \in Cbs : Add(fd, c) \/ AddRefused(fd, c)
              \/ AddFails(fd)
       PROVE  KeptOrServed(cb)
    BY <1>11, <1>12 DEF OpenFd, Add, AddRefused, AddFails, vars, loopvars, kernelvars
<1>13. CASE \/ \E file \in Files : Fork(file)
            \/ \E f \in interest : KernelEvent(f)
            \/ Enter \/ WaitEmpty \/ CallbackReturns \/ EndBatch
            \/ HookReturns \/ Sweep
            \/ Exit \/ \E n \in 1..MaxSize : Resize(n)
            \/ UNCHANGED vars
    BY <1>11, <1>13 DEF Fork, KernelEvent, Enter, WaitEmpty, CallbackReturns, EndBatch,
       HookReturns, Sweep, Exit, Resize, vars, loopvars, kernelvars
<1> QED
    BY <1>4, <1>5, <1>6, <1>7, <1>8, <1>9, <1>10, <1>12, <1>13 DEF Next

(* A recorded event goes away only by being served, or because its         *)
(* callback is removed or its mask is changed.                             *)
THEOREM EventsKept == Spec => NoEventLost
<1>1. SepollInv /\ [Next]_vars =>
        [\A cb \in Cbs :
           Pending(cb) => \/ Pending(cb)'
                          \/ cur' = cb
                          \/ cb \notin Registered'
                          \/ \E fd \in Fds : tree[fd] = cb /\ Modify(fd)]_vars
    BY StepKeepsEvents DEF KeptOrServed
<1> QED
    BY <1>1, Invariance, PTL DEF Spec, NoEventLost
=============================================================================
