------------------------- MODULE WebhookInboxProofs -------------------------
(***************************************************************************)
(* Safety of the webhook inbox for any number of deliveries, runs of the   *)
(* job, events, leases and faults.                                         *)
(***************************************************************************)
EXTENDS WebhookInbox, TLAPS

(* The initial state of the inbox is well typed. *)
LEMMA TypeInit == Init => TypeOK
  BY InboxAssumption DEF Init, TypeOK, Statuses, PCs, Procs

(* Every step of a delivery, of the job or of the clock keeps the types. *)
LEMMA TypeStep == TypeOK /\ [Next]_vars => TypeOK'
  <1> SUFFICES ASSUME TypeOK, [Next]_vars PROVE TypeOK'
    OBVIOUS
  <1> USE InboxAssumption DEF Procs, rowVars, procVars, stripeVars,
          histVars, TypeOK, Statuses, PCs
  <1>1. ASSUME NEW e \in Events, Emit(e) PROVE TypeOK'
    BY <1>1 DEF Emit
  <1>2. ASSUME NEW w \in Workers, NEW e \in Events, Deliver(w, e) PROVE TypeOK'
    BY <1>2 DEF Deliver
  <1>3. ASSUME NEW w \in Workers, FindRow(w) PROVE TypeOK'
    BY <1>3 DEF FindRow, Route, Answer, Forget, Goto
  <1>4. ASSUME NEW w \in Workers, CreateRow(w) PROVE TypeOK'
    BY <1>4 DEF CreateRow, Claimed, Goto
  <1>5. ASSUME NEW w \in Workers, FindRaced(w) PROVE TypeOK'
    BY <1>5 DEF FindRaced, Route, Answer, Forget, Goto
  <1>6. ASSUME NEW w \in Workers, ClaimExpired(w) PROVE TypeOK'
    BY <1>6 DEF ClaimExpired, Claimed, Answer, Forget, Goto
  <1>7. ASSUME NEW w \in Workers, ClaimFailed(w) PROVE TypeOK'
    BY <1>7 DEF ClaimFailed, StillFailed, Claimed, Answer, Forget, Goto
  <1>8. ASSUME NEW r \in Reconcilers, StartRun(r) PROVE TypeOK'
    BY <1>8 DEF StartRun, Goto
  <1>9. ASSUME NEW r \in Reconcilers, FindStuck(r) PROVE TypeOK'
    BY <1>9 DEF FindStuck, Stuck, Goto
  <1>10. ASSUME NEW r \in Reconcilers, NEW e \in Events, ClaimStuck(r, e) PROVE TypeOK'
    BY <1>10 DEF ClaimStuck, Stuck, Claimed, Goto, Expired
  <1>11. ASSUME NEW r \in Reconcilers, EndRun(r) PROVE TypeOK'
    BY <1>11 DEF EndRun, Forget, Goto
  <1>12. ASSUME NEW w \in Procs, Dispatch(w) PROVE TypeOK'
    BY <1>12 DEF Dispatch, Goto
  <1>13. ASSUME NEW w \in Procs, DispatchThrows(w) PROVE TypeOK'
    BY <1>13 DEF DispatchThrows, Fault, Goto
  <1>14. ASSUME NEW w \in Procs, MarkProcessed(w) PROVE TypeOK'
    BY <1>14 DEF MarkProcessed, Finish, Answer, Forget, Goto
  <1>15. ASSUME NEW w \in Procs, MarkThrows(w) PROVE TypeOK'
    BY <1>15 DEF MarkThrows, Fault, Goto
  <1>16. ASSUME NEW w \in Procs, MarkFailed(w) PROVE TypeOK'
    BY <1>16 DEF MarkFailed, GiveUp, Forget, Goto
  <1>17. ASSUME NEW w \in Procs, MarkFailedThrows(w) PROVE TypeOK'
    BY <1>17 DEF MarkFailedThrows, Fault, GiveUp, Forget, Goto
  <1>18. ASSUME NEW w \in Procs, Crash(w) PROVE TypeOK'
    BY <1>18 DEF Crash, Fault, Forget, Goto
  <1>19. CASE Tick
    BY <1>19 DEF Tick
  <1>20. CASE UNCHANGED vars
    BY <1>20 DEF vars
  <1> QED
    BY <1>1, <1>2, <1>3, <1>4, <1>5, <1>6, <1>7, <1>8,
       <1>9, <1>10, <1>11, <1>12, <1>13, <1>14, <1>15, <1>16,
       <1>17, <1>18, <1>19, <1>20
    DEF Next, WorkerStep, ReconcilerStep, Handle

(* The inbox is type correct, and only a delivery or a run of the job that  *)
(* is about a sent event writes its row.                                   *)
THEOREM TypeCorrect == Spec => []TypeOK
  BY TypeInit, TypeStep, PTL DEF Spec

-----------------------------------------------------------------------------
(* A delivery past its first look has seen a row, and rows do not go away. *)
RecordedInv ==
    /\ AckedIsRecorded
    /\ \A w \in Procs :
          pc[w] \in {"raced", "claimExpired", "claimFailed", "dispatch", "mark", "markFailed"}
             => status[ev[w]] # "absent"
    /\ \A w \in Procs : \A e \in batch[w] : status[e] # "absent"

(* A worker that is about to write PROCESSED has run the handler. *)
AppliedInv ==
    /\ ProcessedWasApplied
    /\ \A w \in Procs : pc[w] = "mark" => applied[ev[w]] >= 1

(* A row nobody handles and that may be claimed has a claim to spare. *)
ClaimInv ==
    /\ ClaimsAccounted
    /\ \A e \in Events :
          status[e] \in {"absent", "FAILED"} => claims[e] <= failures[e] + takeovers[e]

(* Until a lease on it has run out an event has one handler at most, and   *)
(* its row is not up for claiming.                                         *)
HandlerInv ==
    \A e \in Events : takeovers[e] = 0 =>
        /\ \A v, w \in Procs : Handling(v, e) /\ Handling(w, e) => v = w
        /\ \A w \in Procs : Handling(w, e) => status[e] \in {"PENDING", "PROCESSED"}

(* No step answers 200 for an event that is not in the table. *)
LEMMA RecordedStep == TypeOK /\ RecordedInv /\ [Next]_vars => RecordedInv'
  <1> SUFFICES ASSUME TypeOK, RecordedInv, [Next]_vars PROVE RecordedInv'
    OBVIOUS
  <1> USE InboxAssumption DEF TypeOK, Procs, rowVars, procVars, stripeVars,
          histVars, RecordedInv, AckedIsRecorded
  <1>1. ASSUME NEW e \in Events, Emit(e) PROVE RecordedInv'
    BY <1>1 DEF Emit
  <1>2. ASSUME NEW w \in Workers, NEW e \in Events, Deliver(w, e) PROVE RecordedInv'
    BY <1>2 DEF Deliver
  <1>3. ASSUME NEW w \in Workers, FindRow(w) PROVE RecordedInv'
    BY <1>3 DEF FindRow, Route, Answer, Forget, Goto
  <1>4. ASSUME NEW w \in Workers, CreateRow(w) PROVE RecordedInv'
    BY <1>4 DEF CreateRow, Claimed, Goto
  <1>5. ASSUME NEW w \in Workers, FindRaced(w) PROVE RecordedInv'
    BY <1>5 DEF FindRaced, Route, Answer, Forget, Goto
  <1>6. ASSUME NEW w \in Workers, ClaimExpired(w) PROVE RecordedInv'
    BY <1>6 DEF ClaimExpired, Claimed, Answer, Forget, Goto
  <1>7. ASSUME NEW w \in Workers, ClaimFailed(w) PROVE RecordedInv'
    BY <1>7 DEF ClaimFailed, StillFailed, Claimed, Answer, Forget, Goto
  <1>8. ASSUME NEW r \in Reconcilers, StartRun(r) PROVE RecordedInv'
    BY <1>8 DEF StartRun, Goto
  <1>9. ASSUME NEW r \in Reconcilers, FindStuck(r) PROVE RecordedInv'
    BY <1>9 DEF FindStuck, Stuck, Goto, Expired
  <1>10. ASSUME NEW r \in Reconcilers, NEW e \in Events, ClaimStuck(r, e) PROVE RecordedInv'
    BY <1>10 DEF ClaimStuck, Stuck, Claimed, Goto
  <1>11. ASSUME NEW r \in Reconcilers, EndRun(r) PROVE RecordedInv'
    BY <1>11 DEF EndRun, Forget, Goto
  <1>12. ASSUME NEW w \in Procs, Dispatch(w) PROVE RecordedInv'
    BY <1>12 DEF Dispatch, Goto
  <1>13. ASSUME NEW w \in Procs, DispatchThrows(w) PROVE RecordedInv'
    BY <1>13 DEF DispatchThrows, Fault, Goto
  <1>14. ASSUME NEW w \in Procs, MarkProcessed(w) PROVE RecordedInv'
    BY <1>14 DEF MarkProcessed, Finish, Answer, Forget, Goto
  <1>15. ASSUME NEW w \in Procs, MarkThrows(w) PROVE RecordedInv'
    BY <1>15 DEF MarkThrows, Fault, Goto
  <1>16. ASSUME NEW w \in Procs, MarkFailed(w) PROVE RecordedInv'
    BY <1>16 DEF MarkFailed, GiveUp, Forget, Goto
  <1>17. ASSUME NEW w \in Procs, MarkFailedThrows(w) PROVE RecordedInv'
    BY <1>17 DEF MarkFailedThrows, Fault, GiveUp, Forget, Goto
  <1>18. ASSUME NEW w \in Procs, Crash(w) PROVE RecordedInv'
    BY <1>18 DEF Crash, Fault, Forget, Goto
  <1>19. CASE Tick
    BY <1>19 DEF Tick
  <1>20. CASE UNCHANGED vars
    BY <1>20 DEF vars
  <1> QED
    BY <1>1, <1>2, <1>3, <1>4, <1>5, <1>6, <1>7, <1>8,
       <1>9, <1>10, <1>11, <1>12, <1>13, <1>14, <1>15, <1>16,
       <1>17, <1>18, <1>19, <1>20
    DEF Next, WorkerStep, ReconcilerStep, Handle

(* No step marks an event whose handler did not end. *)
LEMMA AppliedStep == TypeOK /\ AppliedInv /\ [Next]_vars => AppliedInv'
  <1> SUFFICES ASSUME TypeOK, AppliedInv, [Next]_vars PROVE AppliedInv'
    OBVIOUS
  <1> USE InboxAssumption DEF TypeOK, Procs, rowVars, procVars, stripeVars,
          histVars, AppliedInv, ProcessedWasApplied
  <1>1. ASSUME NEW e \in Events, Emit(e) PROVE AppliedInv'
    BY <1>1 DEF Emit
  <1>2. ASSUME NEW w \in Workers, NEW e \in Events, Deliver(w, e) PROVE AppliedInv'
    BY <1>2 DEF Deliver
  <1>3. ASSUME NEW w \in Workers, FindRow(w) PROVE AppliedInv'
    BY <1>3 DEF FindRow, Route, Answer, Forget, Goto
  <1>4. ASSUME NEW w \in Workers, CreateRow(w) PROVE AppliedInv'
    BY <1>4 DEF CreateRow, Claimed, Goto
  <1>5. ASSUME NEW w \in Workers, FindRaced(w) PROVE AppliedInv'
    BY <1>5 DEF FindRaced, Route, Answer, Forget, Goto
  <1>6. ASSUME NEW w \in Workers, ClaimExpired(w) PROVE AppliedInv'
    BY <1>6 DEF ClaimExpired, Claimed, Answer, Forget, Goto
  <1>7. ASSUME NEW w \in Workers, ClaimFailed(w) PROVE AppliedInv'
    BY <1>7 DEF ClaimFailed, StillFailed, Claimed, Answer, Forget, Goto
  <1>8. ASSUME NEW r \in Reconcilers, StartRun(r) PROVE AppliedInv'
    BY <1>8 DEF StartRun, Goto
  <1>9. ASSUME NEW r \in Reconcilers, FindStuck(r) PROVE AppliedInv'
    BY <1>9 DEF FindStuck, Stuck, Goto
  <1>10. ASSUME NEW r \in Reconcilers, NEW e \in Events, ClaimStuck(r, e) PROVE AppliedInv'
    BY <1>10 DEF ClaimStuck, Stuck, Claimed, Goto
  <1>11. ASSUME NEW r \in Reconcilers, EndRun(r) PROVE AppliedInv'
    BY <1>11 DEF EndRun, Forget, Goto
  <1>12. ASSUME NEW w \in Procs, Dispatch(w) PROVE AppliedInv'
    BY <1>12 DEF Dispatch, Goto
  <1>13. ASSUME NEW w \in Procs, DispatchThrows(w) PROVE AppliedInv'
    BY <1>13 DEF DispatchThrows, Fault, Goto
  <1>14. ASSUME NEW w \in Procs, MarkProcessed(w) PROVE AppliedInv'
    BY <1>14 DEF MarkProcessed, Finish, Answer, Forget, Goto
  <1>15. ASSUME NEW w \in Procs, MarkThrows(w) PROVE AppliedInv'
    BY <1>15 DEF MarkThrows, Fault, Goto
  <1>16. ASSUME NEW w \in Procs, MarkFailed(w) PROVE AppliedInv'
    BY <1>16 DEF MarkFailed, GiveUp, Forget, Goto
  <1>17. ASSUME NEW w \in Procs, MarkFailedThrows(w) PROVE AppliedInv'
    BY <1>17 DEF MarkFailedThrows, Fault, GiveUp, Forget, Goto
  <1>18. ASSUME NEW w \in Procs, Crash(w) PROVE AppliedInv'
    BY <1>18 DEF Crash, Fault, Forget, Goto
  <1>19. CASE Tick
    BY <1>19 DEF Tick
  <1>20. CASE UNCHANGED vars
    BY <1>20 DEF vars
  <1> QED
    BY <1>1, <1>2, <1>3, <1>4, <1>5, <1>6, <1>7, <1>8,
       <1>9, <1>10, <1>11, <1>12, <1>13, <1>14, <1>15, <1>16,
       <1>17, <1>18, <1>19, <1>20
    DEF Next, WorkerStep, ReconcilerStep, Handle

(* No step starts a handler without a reason. *)
LEMMA ClaimStep == TypeOK /\ ClaimInv /\ [Next]_vars => ClaimInv'
  <1> SUFFICES ASSUME TypeOK, ClaimInv, [Next]_vars PROVE ClaimInv'
    OBVIOUS
  <1> USE InboxAssumption DEF TypeOK, Procs, rowVars, procVars, stripeVars,
          histVars, ClaimInv, ClaimsAccounted
  <1>1. ASSUME NEW e \in Events, Emit(e) PROVE ClaimInv'
    BY <1>1 DEF Emit
  <1>2. ASSUME NEW w \in Workers, NEW e \in Events, Deliver(w, e) PROVE ClaimInv'
    BY <1>2 DEF Deliver
  <1>3. ASSUME NEW w \in Workers, FindRow(w) PROVE ClaimInv'
    BY <1>3 DEF FindRow, Route, Answer, Forget, Goto
  <1>4. ASSUME NEW w \in Workers, CreateRow(w) PROVE ClaimInv'
    BY <1>4 DEF CreateRow, Claimed, Goto, Expired, LeaseHeld
  <1>5. ASSUME NEW w \in Workers, FindRaced(w) PROVE ClaimInv'
    BY <1>5 DEF FindRaced, Route, Answer, Forget, Goto
  <1>6. ASSUME NEW w \in Workers, ClaimExpired(w) PROVE ClaimInv'
    BY <1>6 DEF ClaimExpired, Claimed, Answer, Forget, Goto, Expired, LeaseHeld
  <1>7. ASSUME NEW w \in Workers, ClaimFailed(w) PROVE ClaimInv'
    BY <1>7 DEF ClaimFailed, StillFailed, Claimed, Answer, Forget, Goto, Expired, LeaseHeld
  <1>8. ASSUME NEW r \in Reconcilers, StartRun(r) PROVE ClaimInv'
    BY <1>8 DEF StartRun, Goto
  <1>9. ASSUME NEW r \in Reconcilers, FindStuck(r) PROVE ClaimInv'
    BY <1>9 DEF FindStuck, Stuck, Goto
  <1>10. ASSUME NEW r \in Reconcilers, NEW e \in Events, ClaimStuck(r, e) PROVE ClaimInv'
    BY <1>10 DEF ClaimStuck, Stuck, Claimed, Goto, Expired, LeaseHeld
  <1>11. ASSUME NEW r \in Reconcilers, EndRun(r) PROVE ClaimInv'
    BY <1>11 DEF EndRun, Forget, Goto
  <1>12. ASSUME NEW w \in Procs, Dispatch(w) PROVE ClaimInv'
    BY <1>12 DEF Dispatch, Goto
  <1>13. ASSUME NEW w \in Procs, DispatchThrows(w) PROVE ClaimInv'
    BY <1>13 DEF DispatchThrows, Fault, Goto
  <1>14. ASSUME NEW w \in Procs, MarkProcessed(w) PROVE ClaimInv'
    BY <1>14 DEF MarkProcessed, Finish, Answer, Forget, Goto
  <1>15. ASSUME NEW w \in Procs, MarkThrows(w) PROVE ClaimInv'
    BY <1>15 DEF MarkThrows, Fault, Goto
  <1>16. ASSUME NEW w \in Procs, MarkFailed(w) PROVE ClaimInv'
    BY <1>16 DEF MarkFailed, GiveUp, Forget, Goto
  <1>17. ASSUME NEW w \in Procs, MarkFailedThrows(w) PROVE ClaimInv'
    BY <1>17 DEF MarkFailedThrows, Fault, GiveUp, Forget, Goto
  <1>18. ASSUME NEW w \in Procs, Crash(w) PROVE ClaimInv'
    BY <1>18 DEF Crash, Fault, Forget, Goto
  <1>19. CASE Tick
    BY <1>19 DEF Tick
  <1>20. CASE UNCHANGED vars
    BY <1>20 DEF vars
  <1> QED
    BY <1>1, <1>2, <1>3, <1>4, <1>5, <1>6, <1>7, <1>8,
       <1>9, <1>10, <1>11, <1>12, <1>13, <1>14, <1>15, <1>16,
       <1>17, <1>18, <1>19, <1>20
    DEF Next, WorkerStep, ReconcilerStep, Handle

(* No step starts a second handler within the lease of the first. *)
LEMMA HandlerStep == TypeOK /\ HandlerInv /\ [Next]_vars => HandlerInv'
  <1> SUFFICES ASSUME TypeOK, HandlerInv, [Next]_vars PROVE HandlerInv'
    OBVIOUS
  <1> USE InboxAssumption DEF TypeOK, Procs, rowVars, procVars, stripeVars,
          histVars, HandlerInv, Handling
  <1>1. ASSUME NEW e \in Events, Emit(e) PROVE HandlerInv'
    BY <1>1 DEF Emit
  <1>2. ASSUME NEW w \in Workers, NEW e \in Events, Deliver(w, e) PROVE HandlerInv'
    BY <1>2 DEF Deliver
  <1>3. ASSUME NEW w \in Workers, FindRow(w) PROVE HandlerInv'
    BY <1>3 DEF FindRow, Route, Answer, Forget, Goto
  <1>4. ASSUME NEW w \in Workers, CreateRow(w) PROVE HandlerInv'
    BY <1>4 DEF CreateRow, Claimed, Goto, Expired, LeaseHeld
  <1>5. ASSUME NEW w \in Workers, FindRaced(w) PROVE HandlerInv'
    BY <1>5 DEF FindRaced, Route, Answer, Forget, Goto
  <1>6. ASSUME NEW w \in Workers, ClaimExpired(w) PROVE HandlerInv'
    BY <1>6 DEF ClaimExpired, Claimed, Answer, Forget, Goto, Expired, LeaseHeld
  <1>7. ASSUME NEW w \in Workers, ClaimFailed(w) PROVE HandlerInv'
    BY <1>7 DEF ClaimFailed, StillFailed, Claimed, Answer, Forget, Goto, Expired, LeaseHeld
  <1>8. ASSUME NEW r \in Reconcilers, StartRun(r) PROVE HandlerInv'
    BY <1>8 DEF StartRun, Goto
  <1>9. ASSUME NEW r \in Reconcilers, FindStuck(r) PROVE HandlerInv'
    BY <1>9 DEF FindStuck, Stuck, Goto
  <1>10. ASSUME NEW r \in Reconcilers, NEW e \in Events, ClaimStuck(r, e) PROVE HandlerInv'
    BY <1>10 DEF ClaimStuck, Stuck, Claimed, Goto, Expired, LeaseHeld
  <1>11. ASSUME NEW r \in Reconcilers, EndRun(r) PROVE HandlerInv'
    BY <1>11 DEF EndRun, Forget, Goto
  <1>12. ASSUME NEW w \in Procs, Dispatch(w) PROVE HandlerInv'
    BY <1>12 DEF Dispatch, Goto
  <1>13. ASSUME NEW w \in Procs, DispatchThrows(w) PROVE HandlerInv'
    BY <1>13 DEF DispatchThrows, Fault, Goto
  <1>14. ASSUME NEW w \in Procs, MarkProcessed(w) PROVE HandlerInv'
    BY <1>14 DEF MarkProcessed, Finish, Answer, Forget, Goto
  <1>15. ASSUME NEW w \in Procs, MarkThrows(w) PROVE HandlerInv'
    BY <1>15 DEF MarkThrows, Fault, Goto
  <1>16. ASSUME NEW w \in Procs, MarkFailed(w) PROVE HandlerInv'
    BY <1>16 DEF MarkFailed, GiveUp, Forget, Goto
  <1>17. ASSUME NEW w \in Procs, MarkFailedThrows(w) PROVE HandlerInv'
    BY <1>17 DEF MarkFailedThrows, Fault, GiveUp, Forget, Goto
  <1>18. ASSUME NEW w \in Procs, Crash(w) PROVE HandlerInv'
    BY <1>18 DEF Crash, Fault, Forget, Goto
  <1>19. CASE Tick
    BY <1>19 DEF Tick
  <1>20. CASE UNCHANGED vars
    BY <1>20 DEF vars
  <1> QED
    BY <1>1, <1>2, <1>3, <1>4, <1>5, <1>6, <1>7, <1>8,
       <1>9, <1>10, <1>11, <1>12, <1>13, <1>14, <1>15, <1>16,
       <1>17, <1>18, <1>19, <1>20
    DEF Next, WorkerStep, ReconcilerStep, Handle

(* Stripe is answered 200 only for an event that is in the table. *)
THEOREM NothingAckedIsLost == Spec => []AckedIsRecorded
  <1>1. Init => RecordedInv
    BY InboxAssumption DEF Init, RecordedInv, AckedIsRecorded, Handling, Procs
  <1>2. TypeOK /\ RecordedInv => AckedIsRecorded
    BY InboxAssumption DEF RecordedInv
  <1> QED
    BY TypeInit, TypeStep, <1>1, RecordedStep, <1>2, PTL DEF Spec

(* A row says PROCESSED only if the event's handler ran to its end. *)
THEOREM ProcessedMeansHandled == Spec => []ProcessedWasApplied
  <1>1. Init => AppliedInv
    BY InboxAssumption DEF Init, AppliedInv, ProcessedWasApplied, Handling, Procs
  <1>2. TypeOK /\ AppliedInv => ProcessedWasApplied
    BY InboxAssumption DEF AppliedInv
  <1> QED
    BY TypeInit, TypeStep, <1>1, AppliedStep, <1>2, PTL DEF Spec

(* Each start of a handler has a reason of its own: the first delivery, a
   recorded failure or an expired lease. *)
THEOREM HandlersHaveReasons == Spec => []ClaimsAccounted
  <1>1. Init => ClaimInv
    BY InboxAssumption DEF Init, ClaimInv, ClaimsAccounted, Handling, Procs
  <1>2. TypeOK /\ ClaimInv => ClaimsAccounted
    BY InboxAssumption DEF ClaimInv
  <1> QED
    BY TypeInit, TypeStep, <1>1, ClaimStep, <1>2, PTL DEF Spec

(* Two handlers of one event overlap only after a lease ran out. *)
THEOREM HandlersExclude == Spec => []OneHandlerPerLease
  <1>1. Init => HandlerInv
    BY InboxAssumption DEF Init, HandlerInv, Handling, Procs
  <1>2. TypeOK /\ HandlerInv => OneHandlerPerLease
    BY InboxAssumption DEF TypeOK, OneHandlerPerLease, HandlerInv
  <1> QED
    BY TypeInit, TypeStep, <1>1, HandlerStep, <1>2, PTL DEF Spec

=============================================================================
