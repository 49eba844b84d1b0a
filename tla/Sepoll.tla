-------------------------------- MODULE Sepoll --------------------------------
(***************************************************************************)
(* sepoll.c: the event loop under the supervisor and under every worker,   *)
(* with the heap its callbacks live in and the part of the kernel it talks *)
(* to (the descriptor table, open file descriptions, and the interest list *)
(* and ready list of epoll).                                               *)
(*                                                                         *)
(* epoll hands back the pointer it was given at EPOLL_CTL_ADD, so a        *)
(* callback must stay allocated for as long as the kernel or an unread     *)
(* part of epoll_events refers to it.  The user of the loop is the rest of *)
(* the program: it makes the calls of sepoll.h in any order, from inside   *)
(* callbacks or while the loop is not running.                             *)
(***************************************************************************)
EXTENDS Naturals, FiniteSets

CONSTANTS Fds,      \* descriptor numbers
          Files,    \* open file descriptions, what a descriptor refers to
          Cbs,      \* addresses malloc may return for a callback
          NoFile,   \* no file: a descriptor that is closed, a NULL function
          NoCb,     \* no callback: NULL
          MaxSize,  \* largest size of epoll_events
          HasHook   \* whether sepoll_enter is given a function of its own

ASSUME NullAssumption == NoFile \notin Files /\ NoCb \notin Cbs
ASSUME SizeAssumption == MaxSize \in Nat \ {0} /\ HasHook \in BOOLEAN

VARIABLES
    tree,      \* callbacks_tree: the callback registered for each descriptor
    gc,        \* callbacks_gc_list
    heap,      \* the callbacks that are allocated
    fn,        \* callback->function and its userdata, as the file they serve
    size,      \* epoll_events_size
    batch,     \* epoll_events[i..n-1], what epoll_wait returned and is not read
    run,       \* loop->run
    pc,        \* where sepoll_enter is
    cur,       \* the callback whose function is running
    fdt,       \* kernel: the file each descriptor refers to
    dup,       \* kernel: files that a child process holds too
    interest,  \* kernel: the interest list of the epoll instance
    ready      \* kernel: the entries of it that have an event to report

loopvars == <<tree, gc, heap, fn, size, batch, run, pc, cur>>
kernelvars == <<fdt, dup, interest, ready>>
vars == <<loopvars, kernelvars>>

Entries == [fd : Fds, file : Files, ptr : Cbs]

(***************************************************************************)
(* TRUE while code outside sepoll.c runs that may call sepoll.h: a         *)
(* callback, the function given to sepoll_enter, or the program before and *)
(* after it enters the loop.                                               *)
(***************************************************************************)
InUser == pc \in {"out", "call", "hook"}

Registered == {cb \in Cbs : \E fd \in Fds : tree[fd] = cb}

(* The types of the variables.                                             *)
TypeOK ==
    /\ tree \in [Fds -> Cbs \cup {NoCb}]
    /\ gc \subseteq Cbs
    /\ heap \subseteq Cbs
    /\ fn \in [Cbs -> Files \cup {NoFile}]
    /\ size \in 1..MaxSize
    /\ batch \subseteq Entries
    /\ run \in BOOLEAN
    /\ pc \in {"out", "wait", "dispatch", "call", "hook", "gc", "destroyed"}
    /\ cur \in Cbs \cup {NoCb}
    /\ fdt \in [Fds -> Files \cup {NoFile}]
    /\ dup \subseteq Files
    /\ interest \subseteq Entries
    /\ ready \subseteq Entries

(* sepoll_create: an empty loop of any size, not yet entered. It leaves    *)
(* run as malloc returned it.                                              *)
Init ==
    /\ tree = [fd \in Fds |-> NoCb]
    /\ gc = {}
    /\ heap = {}
    /\ fn = [cb \in Cbs |-> NoFile]
    /\ size \in 1..MaxSize
    /\ batch = {}
    /\ run \in BOOLEAN
    /\ pc = "out"
    /\ cur = NoCb
    /\ fdt = [fd \in Fds |-> NoFile]
    /\ dup = {}
    /\ interest = {}
    /\ ready = {}

(***************************************************************************)
(* The kernel.                                                             *)
(***************************************************************************)

(* The entries that survive when the descriptor table becomes t and the    *)
(* files held by children become d: epoll drops an entry only when the     *)
(* last reference to its file is gone, whichever process holds it.         *)
Surviving(t, d) ==
    {e \in interest : e.file \in d \/ \E fd \in Fds : t[fd] = e.file}

(* open, accept4, pidfd_open: a new file at a free descriptor.             *)
OpenFd(fd, file) ==
    /\ InUser
    /\ fdt[fd] = NoFile
    /\ file \notin dup
    /\ \A other \in Fds : fdt[other] # file
    /\ fdt' = [fdt EXCEPT ![fd] = file]
    /\ UNCHANGED <<loopvars, dup, interest, ready>>

(* Mutant: the program closes a descriptor it has not taken out.           *)
MayCloseAny(fd) == TRUE

(* The descriptors the program may close: it takes one out of the loop     *)
(* first.                                                                  *)
MayClose(fd) == tree[fd] = NoCb

CloseFd(fd) ==
    /\ InUser \/ pc = "destroyed"
    /\ fdt[fd] # NoFile
    /\ MayClose(fd)
    /\ fdt' = [fdt EXCEPT ![fd] = NoFile]
    /\ interest' = Surviving(fdt', dup)
    /\ ready' = ready \cap interest'
    /\ UNCHANGED <<loopvars, dup>>

(* sfork: a child that keeps one of the files, as a CGI program keeps the  *)
(* socket as its standard output.                                          *)
Fork(file) ==
    /\ InUser
    /\ \E fd \in Fds : fdt[fd] = file
    /\ dup' = dup \cup {file}
    /\ UNCHANGED <<loopvars, fdt, interest, ready>>

ChildExit(file) ==
    /\ file \in dup
    /\ dup' = dup \ {file}
    /\ interest' = Surviving(fdt, dup')
    /\ ready' = ready \cap interest'
    /\ UNCHANGED <<loopvars, fdt>>

(* Something happens to a file that an entry watches for.                  *)
KernelEvent(e) ==
    /\ e \in interest \ ready
    /\ ready' = ready \cup {e}
    /\ UNCHANGED <<loopvars, fdt, dup, interest>>

(***************************************************************************)
(* sepoll_add, sepoll_mod*, sepoll_remove.                                 *)
(***************************************************************************)
EntriesOf(fd) == {e \in interest : e.fd = fd /\ e.file = fdt[fd]}

Inserted(fd, cb) == [tree EXCEPT ![fd] = cb]

(* malloc returns cb, tsearch inserts it and epoll_ctl accepts it; the     *)
(* function that is registered serves the file that is open at fd now. An  *)
(* entry is ready at once if its event has already happened (KernelEvent). *)
Add(fd, cb) ==
    /\ InUser
    /\ cb \notin heap
    /\ tree[fd] = NoCb
    /\ fdt[fd] # NoFile
    /\ EntriesOf(fd) = {}
    /\ heap' = heap \cup {cb}
    /\ fn' = [fn EXCEPT ![cb] = fdt[fd]]
    /\ tree' = Inserted(fd, cb)
    /\ interest' = interest \cup {[fd |-> fd, file |-> fdt[fd], ptr |-> cb]}
    /\ UNCHANGED <<gc, size, batch, run, pc, cur, fdt, dup, ready>>

(* What sepoll_add leaves in the tree when epoll_ctl refuses the           *)
(* descriptor: it takes out again what tsearch has put in.                 *)
AfterRefusal(fd, cb) == [Inserted(fd, cb) EXCEPT ![fd] = NoCb]

(* epoll_ctl fails, for want of memory or because fd cannot be watched;    *)
(* the callback is freed before anybody has seen it.                       *)
AddRefused(fd, cb) ==
    /\ InUser
    /\ cb \notin heap
    /\ tree[fd] = NoCb
    /\ tree' = AfterRefusal(fd, cb)
    /\ UNCHANGED <<gc, heap, fn, size, batch, run, pc, cur, kernelvars>>

(* The other failures (no memory, EEXIST) free the callback and leave the  *)
(* tree as tsearch found it.                                               *)
AddFails(fd) ==
    /\ InUser
    /\ heap = Cbs \/ tree[fd] # NoCb
    /\ UNCHANGED vars

(* sepoll_mod, sepoll_mod_events: epoll_ctl looks at the file again with   *)
(* the new mask. sepoll_mod and sepoll_mod_callback set the function too,  *)
(* here to one for the file that is open.                                  *)
Modify(fd) ==
    /\ InUser
    /\ tree[fd] # NoCb
    /\ fn' = [fn EXCEPT ![tree[fd]] = fdt[fd]]
    /\ ready' \in {ready \ EntriesOf(fd), ready \cup EntriesOf(fd)}
    /\ UNCHANGED <<tree, gc, heap, size, batch, run, pc, cur,
                   fdt, dup, interest>>

(* Mutant: sepoll_remove frees the callback itself.                        *)
FreedAtOnce(cb) == heap \ {cb}

(* What is allocated once cb is out of the tree: cb still is, because the  *)
(* batch may refer to it.                                                  *)
Retired(cb) == heap

(* Mutant: sepoll_remove forgets EPOLL_CTL_DEL.                            *)
WatchedStill(fd) == interest

Watched(fd) == interest \ EntriesOf(fd)

Remove(fd) ==
    /\ InUser
    /\ tree[fd] # NoCb
    /\ fn' = [fn EXCEPT ![tree[fd]] = NoFile]
    /\ tree' = [tree EXCEPT ![fd] = NoCb]
    /\ gc' = gc \cup {tree[fd]}
    /\ heap' = Retired(tree[fd])
    /\ interest' = Watched(fd)
    /\ ready' = ready \cap interest'
    /\ UNCHANGED <<size, batch, run, pc, cur, fdt, dup>>

(***************************************************************************)
(* sepoll_enter, sepoll_exit, sepoll_resize, sepoll_destroy.               *)
(***************************************************************************)
Enter ==
    /\ pc = "out"
    /\ run' = TRUE
    /\ pc' = "wait"
    /\ UNCHANGED <<tree, gc, heap, fn, size, batch, cur, kernelvars>>

(* epoll_wait fills epoll_events from the ready list. Entries that are     *)
(* level-triggered, and have something left to report, stay on the list.   *)
Wait(R) ==
    /\ pc = "wait"
    /\ R # {}
    /\ IF Cardinality(ready) <= size THEN R = ready ELSE Cardinality(R) = size
    /\ batch' = R
    /\ \E again \in SUBSET R : ready' = (ready \ R) \cup again
    /\ pc' = "dispatch"
    /\ UNCHANGED <<tree, gc, heap, fn, size, run, cur, fdt, dup, interest>>

(* epoll_wait times out or fails (EINTR). Without a function to report it  *)
(* to, the loop ends.                                                      *)
WaitEmpty ==
    /\ pc = "wait"
    /\ run' = (run /\ HasHook)
    /\ pc' = IF HasHook THEN "hook" ELSE "gc"
    /\ UNCHANGED <<tree, gc, heap, fn, size, batch, cur, kernelvars>>

(* Mutant: the loop does not look for a NULL function.                     *)
CallableAnyway(cb) == cb \in Cbs

Callable(cb) == fn[cb] # NoFile

(* Mutants: the loop stops after one event; it reads the same one again.   *)
UnreadDropped(e) == batch \cap {}
UnreadAgain(e) == batch \cup {e}

Unread(e) == batch \ {e}

Dispatch(e) ==
    /\ pc = "dispatch"
    /\ e \in batch
    /\ batch' = Unread(e)
    /\ IF Callable(e.ptr)
          THEN cur' = e.ptr /\ pc' = "call"
          ELSE UNCHANGED <<cur, pc>>
    /\ UNCHANGED <<tree, gc, heap, fn, size, run, kernelvars>>

CallbackReturns ==
    /\ pc = "call"
    /\ cur' = NoCb
    /\ pc' = "dispatch"
    /\ UNCHANGED <<tree, gc, heap, fn, size, batch, run, kernelvars>>

EndBatch ==
    /\ pc = "dispatch"
    /\ batch = {}
    /\ pc' = IF HasHook THEN "hook" ELSE "gc"
    /\ UNCHANGED <<tree, gc, heap, fn, size, batch, run, cur, kernelvars>>

HookReturns ==
    /\ pc = "hook"
    /\ pc' = "gc"
    /\ UNCHANGED <<tree, gc, heap, fn, size, batch, run, cur, kernelvars>>

(* Mutant: the sweep empties the list without freeing what is on it.       *)
SweptNothing == heap

Swept == heap \ gc

(* Mutant: the loop does not look at run.                                  *)
AfterSweepOn == "wait"

AfterSweep == IF run THEN "wait" ELSE "out"

Sweep ==
    /\ pc = "gc"
    /\ heap' = Swept
    /\ gc' = {}
    /\ pc' = AfterSweep
    /\ UNCHANGED <<tree, fn, size, batch, run, cur, kernelvars>>

Exit ==
    /\ InUser
    /\ run' = FALSE
    /\ UNCHANGED <<tree, gc, heap, fn, size, batch, pc, cur, kernelvars>>

(* Mutant: a size of zero is not rejected.                                 *)
ResizeUnchecked(n) ==
    /\ pc \in {"out", "hook"}
    /\ size' = n - 1
    /\ UNCHANGED <<tree, gc, heap, fn, batch, run, pc, cur, kernelvars>>

(* A callback may not resize: the batch being read would move.             *)
Resize(n) ==
    /\ pc \in {"out", "hook"}
    /\ size' = n
    /\ UNCHANGED <<tree, gc, heap, fn, batch, run, pc, cur, kernelvars>>

Destroy ==
    /\ pc = "out"
    /\ tree' = [fd \in Fds |-> NoCb]
    /\ heap' = Swept \ Registered
    /\ gc' = {}
    /\ interest' = {}
    /\ ready' = {}
    /\ pc' = "destroyed"
    /\ UNCHANGED <<fn, size, batch, run, cur, fdt, dup>>

Next ==
    \/ \E fd \in Fds :
          \/ \E file \in Files : OpenFd(fd, file)
          \/ \E cb \in Cbs : Add(fd, cb) \/ AddRefused(fd, cb)
          \/ CloseFd(fd) \/ AddFails(fd) \/ Modify(fd) \/ Remove(fd)
    \/ \E file \in Files : Fork(file) \/ ChildExit(file)
    \/ \E e \in interest : KernelEvent(e)
    \/ Enter \/ WaitEmpty \/ \E R \in SUBSET ready : Wait(R)
    \/ \E e \in batch : Dispatch(e)
    \/ CallbackReturns \/ EndBatch \/ HookReturns \/ Sweep
    \/ Exit \/ \E n \in 1..MaxSize : Resize(n)
    \/ Destroy

Spec == Init /\ [][Next]_vars

(***************************************************************************)
(* Fairness. The loop runs on while it can, callbacks and the hook return  *)
(* (every one in server.c and main.c is meant to, see README), and epoll   *)
(* serves its ready list round robin, so an entry that stays on it is not  *)
(* passed over for ever.                                                   *)
(***************************************************************************)
FairSpec ==
    /\ Spec
    /\ WF_vars(\E e \in batch : Dispatch(e))
    /\ WF_vars(CallbackReturns)
    /\ WF_vars(EndBatch)
    /\ WF_vars(HookReturns)
    /\ WF_vars(Sweep)
    /\ \A e \in Entries : SF_vars(\E R \in SUBSET ready : e \in R /\ Wait(R))

(***************************************************************************)
(* Properties.                                                             *)
(***************************************************************************)

(* No pointer the loop will follow is dangling: what epoll_wait returned   *)
(* and is not read yet, and what epoll can still return, are allocated     *)
(* callbacks (sepoll.c:370-374), the latter also still registered.         *)
NoDanglingPointer ==
    /\ \A e \in batch : e.ptr \in heap
    /\ \A e \in interest : e.ptr \in heap \ gc

(* No function is called for an event of another file than it was          *)
(* registered for, although the descriptor may have been closed and opened *)
(* again in the middle of the batch (sepoll.c:339 and 372).                *)
NoStaleCall ==
    \A e \in batch : Callable(e.ptr) => fdt[e.fd] = e.file /\ fn[e.ptr] = e.file

(* Every callback is either registered or waits to be freed, never both,   *)
(* and a destroyed loop leaves nothing behind (sepoll.c:182-197).          *)
NoLeak ==
    /\ heap = Registered \cup gc
    /\ Registered \cap gc = {}

(* The tree and epoll agree: a descriptor is in the tree exactly if the    *)
(* file open at it is watched, by the entry that carries that callback,    *)
(* and epoll watches nothing else: no entry outlives its descriptor        *)
(* because a child still holds the file (sepoll.c:346, 249-254).           *)
KernelAgrees ==
    interest = {[fd |-> fd, file |-> fdt[fd], ptr |-> tree[fd]] :
                    fd \in {d \in Fds : tree[d] # NoCb}}

(***************************************************************************)
(* Why these hold: the inductive invariant. Its parts say how the tree,    *)
(* the heap, the garbage list, the batch and the kernel fit together.      *)
(***************************************************************************)

(* A registered callback serves the file open at its descriptor and is     *)
(* watched there; no callback is registered twice.                         *)
TreeInv ==
    /\ \A fd \in Fds : tree[fd] # NoCb =>
         /\ fdt[fd] # NoFile
         /\ fn[tree[fd]] = fdt[fd]
         /\ tree[fd] \in heap \ gc
         /\ [fd |-> fd, file |-> fdt[fd], ptr |-> tree[fd]] \in interest
    /\ \A d1, d2 \in Fds : tree[d1] = tree[d2] /\ tree[d1] # NoCb => d1 = d2

HeapInv ==
    /\ gc \subseteq heap
    /\ \A cb \in gc : fn[cb] = NoFile
    /\ heap \subseteq Registered \cup gc

WatchInv ==
    /\ \A e \in interest : tree[e.fd] = e.ptr /\ fdt[e.fd] = e.file
    /\ ready \subseteq interest

BatchInv ==
    /\ \A e \in batch : e.ptr \in heap /\ (e.ptr \in Registered => e \in interest)
    /\ \A e1, e2 \in batch : e1.ptr = e2.ptr => e1 = e2
    /\ pc \notin {"dispatch", "call"} => batch = {}
    /\ cur # NoCb <=> pc = "call"
    /\ cur # NoCb => cur \in heap

SepollInv == TypeOK /\ TreeInv /\ HeapInv /\ WatchInv /\ BatchInv

(* The loop keeps the promise of EventLoop.tla.                            *)
EL == INSTANCE EventLoop WITH
        Ids     <- Cbs,
        NoId    <- NoCb,
        active  <- Registered,
        queue   <- {e.ptr : e \in batch},
        current <- cur

ImplementsEventLoop == EL!ELSpec

Pending(cb) == \E e \in ready \cup batch : e.ptr = cb

(* No event is lost: a recorded event goes away only because its callback  *)
(* is called or removed, or its mask is changed. Edge-triggered events     *)
(* would not be reported a second time (sepoll.c:368-376).                 *)
NoEventLost ==
    [][\A cb \in Cbs :
         Pending(cb) => \/ Pending(cb)'
                        \/ cur' = cb
                        \/ cb \notin Registered'
                        \/ \E fd \in Fds : tree[fd] = cb /\ Modify(fd)]_vars

(* While the loop runs no event waits for ever, however busy the others    *)
(* are (sepoll.c:360-376).                                                 *)
EventDelivered ==
    \A cb \in Cbs :
        Pending(cb) ~> (cur = cb \/ ~Pending(cb) \/ pc = "out")

(* A call of sepoll_exit from a callback ends the loop, once the rest of   *)
(* the batch has been served.                                              *)
ExitEndsLoop ==
    ~run ~> pc \in {"out", "destroyed"}
=============================================================================
