---------------------------- MODULE EventHandoff ----------------------------
(***************************************************************************)
(* What the outbox promises to the services that enqueue events (the       *)
(* contract of outbox.service.ts, ADR-0006): an event is handed to its     *)
(* queue only after its transaction committed, and is closed only when a   *)
(* job stood under its id as it was handed over, or when it was tried      *)
(* Limit times.  The job is the event's own unless the caller's ids are    *)
(* shared: the queue answers an add with the job it already holds.  Who    *)
(* publishes, with which leases and claims, is left out.                   *)
(***************************************************************************)
EXTENDS Integers

CONSTANTS
    Events,
    Ids,       \* ids of jobs
    Id,        \* the id of an event's job
    DirectIds, \* ids under which others add jobs too
    Nobody,    \* no job
    Outsider,  \* a job that is no event's
    Limit      \* failed attempts after which an event may be given up

VARIABLES
    committed, \* events whose transaction committed
    slot,      \* whose job the queue holds under an id
    served,    \* whose job stood under its id when an event was handed over
    tried,     \* failed attempts to hand it over
    closed     \* events nobody is to hand over any more

vars == <<committed, slot, served, tried, closed>>

Init ==
    /\ committed = {}
    /\ slot = [i \in Ids |-> Nobody]
    /\ served = [e \in Events |-> Nobody]
    /\ tried = [e \in Events |-> 0]
    /\ closed = {}

Commit(e) ==
    /\ e \notin committed
    /\ committed' = committed \union {e}
    /\ UNCHANGED <<slot, served, tried, closed>>

(* A free id takes the event's own job; a held one answers for it. *)
Handoff(e) ==
    /\ e \in committed
    /\ \/ slot[Id[e]] = Nobody /\ slot' = [slot EXCEPT ![Id[e]] = e]
       \/ slot[Id[e]] # Nobody /\ UNCHANGED slot
    /\ served' = [served EXCEPT ![e] = slot'[Id[e]]]
    /\ UNCHANGED <<committed, tried, closed>>

(* Others use the queue as well, and jobs leave it. *)
Direct(i) ==
    /\ i \in DirectIds
    /\ slot[i] = Nobody
    /\ slot' = [slot EXCEPT ![i] = Outsider]
    /\ UNCHANGED <<committed, served, tried, closed>>

Leave(i) ==
    /\ slot' = [slot EXCEPT ![i] = Nobody]
    /\ UNCHANGED <<committed, served, tried, closed>>

Close(e) ==
    /\ served[e] # Nobody
    /\ closed' = closed \union {e}
    /\ UNCHANGED <<committed, slot, served, tried>>

(* A failed attempt leaves the event to be tried again, also one that was  *)
(* closed meanwhile, or gives it up.                                       *)
Failed(e) ==
    /\ e \in committed
    /\ tried' = [tried EXCEPT ![e] = @ + 1]
    /\ \/ closed' = closed \ {e}
       \/ tried'[e] >= Limit /\ closed' = closed \union {e}
    /\ UNCHANGED <<committed, slot, served>>

Next ==
    \/ \E e \in Events : Commit(e) \/ Handoff(e) \/ Close(e) \/ Failed(e)
    \/ \E i \in Ids : Direct(i) \/ Leave(i)

Spec == Init /\ [][Next]_vars
=============================================================================
