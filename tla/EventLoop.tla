------------------------------ MODULE EventLoop ------------------------------
(***************************************************************************)
(* What an sepoll loop promises the program that runs on it, without its   *)
(* tree, its garbage list or the kernel.  A registration has an identity.  *)
(* The loop collects a batch of registrations with something to report and *)
(* works through it, one callback at a time.  The program may remove and   *)
(* add registrations at any moment, also from inside a callback and also   *)
(* ones that still wait in the batch.  The promise:                        *)
(*                                                                         *)
(*   - a registration removed while it waits in the batch is passed over;  *)
(*   - an identity is never given to a new registration while the batch,   *)
(*     or the callback that is running, still refers to the old one, so an *)
(*     event is never reported to somebody it was not meant for;           *)
(*   - a batch is worked through to its end before the next is collected.  *)
(*                                                                         *)
(* Sepoll.tla and Worker.tla are both shown to implement this module.      *)
(***************************************************************************)
CONSTANTS Ids,     \* identities of registrations
          NoId     \* no callback is running

VARIABLES active,  \* the registrations that exist
          queue,   \* the registrations the current batch has yet to report
          current  \* the registration whose callback is running, or NoId

elvars == <<active, queue, current>>

ELTypeOK ==
    /\ active \subseteq Ids
    /\ queue \subseteq Ids
    /\ current \in Ids \cup {NoId}

ELInit ==
    /\ active = {}
    /\ queue = {}
    /\ current = NoId

(* The program, in a callback or between two batches, adds and removes      *)
(* registrations; what was removed may come back only once nothing refers  *)
(* to it.  It may do so as the last thing the running callback does.       *)
Change ==
    /\ active' \in SUBSET Ids
    /\ (active' \ active) \cap (queue \cup {current}) = {}
    /\ current' \in {current, NoId}
    /\ UNCHANGED queue

Collect ==
    /\ queue = {}
    /\ current = NoId
    /\ queue' \in SUBSET active
    /\ UNCHANGED <<active, current>>

Deliver(id) ==
    /\ current = NoId
    /\ id \in queue \cap active
    /\ queue' = queue \ {id}
    /\ current' = id
    /\ UNCHANGED active

Skip(id) ==
    /\ current = NoId
    /\ id \in queue \ active
    /\ queue' = queue \ {id}
    /\ UNCHANGED <<active, current>>

ELNext ==
    \/ Change
    \/ Collect
    \/ \E id \in Ids : Deliver(id) \/ Skip(id)

ELSpec == ELInit /\ [][ELNext]_elvars
=============================================================================
