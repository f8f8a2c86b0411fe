---------------------------- MODULE OutboxProofs ----------------------------
(***************************************************************************)
(* Safety of the transactional outbox for any number of processes and rows *)
(* and any lease, retry limit, batch size and fault budget.                *)
(***************************************************************************)
EXTENDS Outbox, FiniteSetTheorems, TLAPS

(* A row that may still be published, or a copy of one, has tries left. *)
TriesLeft ==
    /\ \A e \in Events :
          status[e] \in {"absent", "PENDING", "PROCESSING"} =>
              retryCount[e] < MaxRetries
    /\ \A p \in Publishers : \A e \in Events :
          seen[p][e].retryCount < MaxRetries

(* The loop body works on a row it has taken off the batch, and only the   *)
(* loop has a batch.                                                       *)
SweepShape ==
    \A p \in Publishers :
        /\ pc[p] \in {"publish", "mark", "fail"} => cur[p] \in Events \ batch[p]
        /\ pc[p] \in {"idle", "find"} => batch[p] = {}

(* The rows a sweep has still to visit were candidates when it read them. *)
SeenCandidates ==
    \A p \in Publishers : \A e \in batch[p] :
        \/ seen[p][e].status = "PENDING"
        \/ /\ seen[p][e].status = "PROCESSING"
           /\ seen[p][e].updatedAt <= sweepNow[p] - Lease

TypeInv == TypeOK /\ TriesLeft /\ SweepShape /\ SeenCandidates

-----------------------------------------------------------------------------
(* No commit order position is anything but a number. *)
LEMMA CommittedCount == Cardinality(Committed) \in Nat
  <1>1. Committed \in SUBSET Events
    BY DEF Committed
  <1>2. IsFiniteSet(Events)
    BY OutboxAssumption
  <1>3. IsFiniteSet(Committed)
    BY <1>1, <1>2, FS_Subset
  <1> QED
    BY <1>3, FS_CardinalityType

(* The initial state of the outbox is well typed. *)
LEMMA TypeInit == Init => TypeInv
  BY OutboxAssumption, SMT
  DEF Init, TypeInv, TypeOK, TriesLeft, SweepShape, SeenCandidates,
      NothingSeen, Statuses, Row, PCs

(* An iteration that ends forgets its event, and touches nothing of the    *)
(* other publishers.                                                       *)
Forgets(p, e) ==
    /\ seen' \in [Publishers -> [Events -> Row]]
    /\ cur' = [cur EXCEPT ![p] = NoEvent]
    /\ \A q \in Publishers : \A f \in Events :
          /\ seen'[q][f].retryCount <= seen[q][f].retryCount
          /\ q # p \/ f # e => seen'[q][f] = seen[q][f]

LEMMA IterateForgets ==
    ASSUME TypeOK, NEW p \in Publishers, NEW e \in Events, Iterate(p, e)
    PROVE  Forgets(p, e)
  <1>1. NothingSeen[e] \in Row /\ NothingSeen[e].retryCount = 0
    BY DEF NothingSeen, Row, Statuses
  <1>2. seen \in [Publishers -> [Events -> Row]]
    BY DEF TypeOK
  <1>3. seen' = [seen EXCEPT ![p] = [seen[p] EXCEPT ![e] = NothingSeen[e]]]
    BY DEF Iterate
  <1>4. [seen[p] EXCEPT ![e] = NothingSeen[e]] \in [Events -> Row]
    BY <1>1, <1>2
  <1>5. seen' \in [Publishers -> [Events -> Row]]
    BY <1>2, <1>3, <1>4
  <1>6. \A q \in Publishers : \A f \in Events :
            /\ seen'[q][f].retryCount <= seen[q][f].retryCount
            /\ q # p \/ f # e => seen'[q][f] = seen[q][f]
    <2> SUFFICES ASSUME NEW q \in Publishers, NEW f \in Events
                 PROVE  /\ seen'[q][f].retryCount <= seen[q][f].retryCount
                        /\ q # p \/ f # e => seen'[q][f] = seen[q][f]
      OBVIOUS
    <2>1. seen[q][f] \in Row /\ seen[q][f].retryCount \in Nat
      BY <1>2 DEF Row
    <2>2. CASE q = p /\ f = e
      BY <1>1, <1>2, <1>3, <2>1, <2>2
    <2>3. CASE q # p \/ f # e
      <3>1. seen'[q][f] = seen[q][f]
        BY <1>2, <1>3, <2>3
      <3> QED
        BY <2>1, <2>3, <3>1
    <2> QED
      BY <2>2, <2>3
  <1> QED
    BY <1>1, <1>5, <1>6 DEF Iterate, Forgets

(* Every step of a publisher, of a transaction, of the queue or of the     *)
(* clock keeps the rows and the sweeps' locals well typed.                 *)
LEMMA TypeStep == TypeInv /\ [Next]_vars => TypeInv'
  <1> SUFFICES ASSUME TypeInv, [Next]_vars PROVE TypeInv'
    OBVIOUS
  <1> USE OutboxAssumption DEF TypeInv, TypeOK, Statuses, PCs, rowVars, pubVars,
          jobVars, histVars
  <1>1. ASSUME NEW e \in Events, Enqueue(e) PROVE TypeInv'
    <2> USE <1>1 DEF Enqueue
    <2>1. TypeOK'
      BY CommittedCount
    <2>2. TriesLeft'
      BY DEF TriesLeft
    <2>3. SweepShape'
      BY DEF SweepShape
    <2>4. SeenCandidates'
      BY DEF SeenCandidates, SweepShape
    <2> QED
      BY <2>1, <2>2, <2>3, <2>4
  <1>2. ASSUME NEW p \in Publishers, StartSweep(p) PROVE TypeInv'
    <2> USE <1>2 DEF StartSweep
    <2>1. TypeOK'
      OBVIOUS
    <2>2. TriesLeft'
      BY DEF TriesLeft
    <2>3. SweepShape'
      BY DEF SweepShape
    <2>4. SeenCandidates'
      BY DEF SeenCandidates, SweepShape
    <2> QED
      BY <2>1, <2>2, <2>3, <2>4
  <1>3. ASSUME NEW p \in Publishers, FindCandidates(p) PROVE TypeInv'
    <2> USE <1>3 DEF FindCandidates, Oldest
    <2>1. TypeOK'
      BY DEF NothingSeen, Row
    <2>2. TriesLeft'
      BY DEF TriesLeft, IsCandidate, Expired, NothingSeen, Row
    <2>3. SweepShape'
      BY DEF SweepShape
    <2>4. SeenCandidates'
      BY DEF SeenCandidates, IsCandidate, Expired
    <2> QED
      BY <2>1, <2>2, <2>3, <2>4
  <1>4. ASSUME NEW p \in Publishers, NEW e \in Events, Claim(p, e) PROVE TypeInv'
    <2> USE <1>4 DEF Claim, NextInBatch
    <2>1. TypeOK'
      OBVIOUS
    <2>2. TriesLeft'
      BY DEF TriesLeft, Unmoved, SeenCandidates
    <2>3. SweepShape'
      BY DEF SweepShape
    <2>4. SeenCandidates'
      BY DEF SeenCandidates, SweepShape
    <2> QED
      BY <2>1, <2>2, <2>3, <2>4
  <1>5. ASSUME NEW p \in Publishers, NEW e \in Events, Skip(p, e) PROVE TypeInv'
    <2> USE <1>5 DEF Skip, NextInBatch
    <2>0. Forgets(p, e)
      BY IterateForgets
    <2> USE <2>0 DEF Forgets
    <2>1. TypeOK'
      OBVIOUS
    <2>2. TriesLeft'
      <3>1. \A q \in Publishers : \A f \in Events : seen'[q][f].retryCount < MaxRetries
        <4> SUFFICES ASSUME NEW q \in Publishers, NEW f \in Events
                     PROVE  seen'[q][f].retryCount < MaxRetries
          OBVIOUS
        <4>1. /\ seen[q][f].retryCount \in Nat
              /\ seen'[q][f].retryCount \in Nat
              /\ seen[q][f].retryCount < MaxRetries
              /\ seen'[q][f].retryCount <= seen[q][f].retryCount
          BY DEF Row, TriesLeft
        <4> QED
          BY <4>1
      <3> QED
        BY <3>1 DEF TriesLeft
    <2>3. SweepShape'
      BY DEF SweepShape
    <2>4. SeenCandidates'
      <3> SUFFICES ASSUME NEW q \in Publishers, NEW f \in batch'[q]
                   PROVE  \/ seen'[q][f].status = "PENDING"
                          \/ /\ seen'[q][f].status = "PROCESSING"
                             /\ seen'[q][f].updatedAt <= sweepNow'[q] - Lease
        BY DEF SeenCandidates
      <3>1. f \in batch[q] /\ f \in Events /\ (q # p \/ f # e)
        BY DEF SweepShape
      <3>2. seen'[q][f] = seen[q][f] /\ sweepNow'[q] = sweepNow[q]
        BY <3>1
      <3> QED
        BY <3>1, <3>2 DEF SeenCandidates
    <2> QED
      BY <2>1, <2>2, <2>3, <2>4
  <1>6. ASSUME NEW p \in Publishers, Add(p) PROVE TypeInv'
    <2> USE <1>6 DEF Add, Accept
    <2>0. cur[p] \in Events
      BY DEF SweepShape
    <2>1. TypeOK'
      OBVIOUS
    <2>2. TriesLeft'
      BY <2>0 DEF TriesLeft
    <2>3. SweepShape'
      BY <2>0 DEF SweepShape
    <2>4. SeenCandidates'
      BY DEF SeenCandidates, SweepShape
    <2> QED
      BY <2>1, <2>2, <2>3, <2>4
  <1>7. ASSUME NEW p \in Publishers, AddFails(p) PROVE TypeInv'
    <2> USE <1>7 DEF AddFails, Accept, Fault
    <2>0. cur[p] \in Events
      BY DEF SweepShape
    <2>1. TypeOK'
      <3>1. CASE Accept(cur[p])
        BY <2>0, <3>1
      <3>2. CASE UNCHANGED jobVars
        BY <2>0, <3>2
      <3> QED
        BY <3>1, <3>2
    <2>2. TriesLeft'
      BY <2>0 DEF TriesLeft
    <2>3. SweepShape'
      BY <2>0 DEF SweepShape
    <2>4. SeenCandidates'
      BY DEF SeenCandidates, SweepShape
    <2> QED
      BY <2>1, <2>2, <2>3, <2>4
  <1>8. ASSUME NEW p \in Publishers, MarkPublished(p) PROVE TypeInv'
    <2> USE <1>8 DEF MarkPublished
    <2>0. cur[p] \in Events
      BY DEF SweepShape
    <2>5. Forgets(p, cur[p])
      BY <2>0, IterateForgets
    <2> USE <2>5 DEF Forgets
    <2>1. TypeOK'
      BY <2>0
    <2>2. TriesLeft'
      <3>1. \A q \in Publishers : \A f \in Events : seen'[q][f].retryCount < MaxRetries
        <4> SUFFICES ASSUME NEW q \in Publishers, NEW f \in Events
                     PROVE  seen'[q][f].retryCount < MaxRetries
          OBVIOUS
        <4>1. /\ seen[q][f].retryCount \in Nat
              /\ seen'[q][f].retryCount \in Nat
              /\ seen[q][f].retryCount < MaxRetries
              /\ seen'[q][f].retryCount <= seen[q][f].retryCount
          BY DEF Row, TriesLeft
        <4> QED
          BY <4>1
      <3> QED
        BY <3>1, <2>0 DEF TriesLeft
    <2>3. SweepShape'
      BY <2>0 DEF SweepShape
    <2>4. SeenCandidates'
      <3> SUFFICES ASSUME NEW q \in Publishers, NEW f \in batch'[q]
                   PROVE  \/ seen'[q][f].status = "PENDING"
                          \/ /\ seen'[q][f].status = "PROCESSING"
                             /\ seen'[q][f].updatedAt <= sweepNow'[q] - Lease
        BY DEF SeenCandidates
      <3>1. f \in batch[q] /\ f \in Events /\ (q # p \/ f # cur[p])
        BY <2>0 DEF SweepShape
      <3>2. seen'[q][f] = seen[q][f] /\ sweepNow'[q] = sweepNow[q]
        BY <3>1
      <3> QED
        BY <3>1, <3>2 DEF SeenCandidates
    <2> QED
      BY <2>1, <2>2, <2>3, <2>4
  <1>9. ASSUME NEW p \in Publishers, MarkFails(p) PROVE TypeInv'
    <2> USE <1>9 DEF MarkFails, Fault
    <2>0. cur[p] \in Events
      BY DEF SweepShape
    <2>1. TypeOK'
      <3>1. CASE UNCHANGED rowVars
        BY <2>0, <3>1
      <3>2. CASE status' = [status EXCEPT ![cur[p]] = "PUBLISHED"]
        BY <2>0, <3>2
      <3> QED
        BY <3>1, <3>2
    <2>2. TriesLeft'
      BY <2>0 DEF TriesLeft
    <2>3. SweepShape'
      BY <2>0 DEF SweepShape
    <2>4. SeenCandidates'
      BY DEF SeenCandidates, SweepShape
    <2> QED
      BY <2>1, <2>2, <2>3, <2>4
  <1>10. ASSUME NEW p \in Publishers, RecordFailure(p) PROVE TypeInv'
    <2> USE <1>10 DEF RecordFailure
    <2>0. cur[p] \in Events
      BY DEF SweepShape
    <2>5. Forgets(p, cur[p])
      BY <2>0, IterateForgets
    <2> USE <2>5 DEF Forgets
    <2>1. TypeOK'
      BY <2>0 DEF TriesLeft, Row, IsFinalFailure, NextRetry
    <2>2. TriesLeft'
      <3>1. \A q \in Publishers : \A f \in Events : seen'[q][f].retryCount < MaxRetries
        <4> SUFFICES ASSUME NEW q \in Publishers, NEW f \in Events
                     PROVE  seen'[q][f].retryCount < MaxRetries
          OBVIOUS
        <4>1. /\ seen[q][f].retryCount \in Nat
              /\ seen'[q][f].retryCount \in Nat
              /\ seen[q][f].retryCount < MaxRetries
              /\ seen'[q][f].retryCount <= seen[q][f].retryCount
          BY DEF Row, TriesLeft
        <4> QED
          BY <4>1
      <3> QED
        BY <3>1, <2>0 DEF TriesLeft, IsFinalFailure, NextRetry, Row
    <2>3. SweepShape'
      BY <2>0 DEF SweepShape
    <2>4. SeenCandidates'
      <3> SUFFICES ASSUME NEW q \in Publishers, NEW f \in batch'[q]
                   PROVE  \/ seen'[q][f].status = "PENDING"
                          \/ /\ seen'[q][f].status = "PROCESSING"
                             /\ seen'[q][f].updatedAt <= sweepNow'[q] - Lease
        BY DEF SeenCandidates
      <3>1. f \in batch[q] /\ f \in Events /\ (q # p \/ f # cur[p])
        BY <2>0 DEF SweepShape
      <3>2. seen'[q][f] = seen[q][f] /\ sweepNow'[q] = sweepNow[q]
        BY <3>1
      <3> QED
        BY <3>1, <3>2 DEF SeenCandidates
    <2> QED
      BY <2>1, <2>2, <2>3, <2>4
  <1>11. ASSUME NEW p \in Publishers, EndSweep(p) PROVE TypeInv'
    <2> USE <1>11 DEF EndSweep, Return
    <2>1. TypeOK'
      BY DEF NothingSeen, Row
    <2>2. TriesLeft'
      BY DEF TriesLeft, NothingSeen
    <2>3. SweepShape'
      BY DEF SweepShape
    <2>4. SeenCandidates'
      BY DEF SeenCandidates, SweepShape
    <2> QED
      BY <2>1, <2>2, <2>3, <2>4
  <1>12. ASSUME NEW p \in Publishers, AbortSweep(p) PROVE TypeInv'
    <2> USE <1>12 DEF AbortSweep, Return, Fault
    <2>1. TypeOK'
      BY DEF NothingSeen, Row
    <2>2. TriesLeft'
      BY DEF TriesLeft, NothingSeen
    <2>3. SweepShape'
      BY DEF SweepShape
    <2>4. SeenCandidates'
      BY DEF SeenCandidates, SweepShape
    <2> QED
      BY <2>1, <2>2, <2>3, <2>4
  <1>13. ASSUME NEW p \in Publishers, Crash(p) PROVE TypeInv'
    <2> USE <1>13 DEF Crash, Return, Fault
    <2>1. TypeOK'
      BY DEF NothingSeen, Row
    <2>2. TriesLeft'
      BY DEF TriesLeft, NothingSeen
    <2>3. SweepShape'
      BY DEF SweepShape
    <2>4. SeenCandidates'
      BY DEF SeenCandidates, SweepShape
    <2> QED
      BY <2>1, <2>2, <2>3, <2>4
  <1>14. ASSUME NEW i \in JobIds, AddDirectly(i) \/ WorkJob(i) PROVE TypeInv'
    <2> USE <1>14 DEF AddDirectly, WorkJob
    <2>1. TypeOK'
      OBVIOUS
    <2>2. TriesLeft'
      BY DEF TriesLeft
    <2>3. SweepShape'
      BY DEF SweepShape
    <2>4. SeenCandidates'
      BY DEF SeenCandidates, SweepShape
    <2> QED
      BY <2>1, <2>2, <2>3, <2>4
  <1>15. CASE Tick
    BY <1>15 DEF Tick, TriesLeft, SweepShape, SeenCandidates
  <1>16. CASE UNCHANGED vars
    BY <1>16 DEF vars, TriesLeft, SweepShape, SeenCandidates
  <1> QED
    BY <1>1, <1>2, <1>3, <1>4, <1>5, <1>6, <1>7, <1>8, <1>9, <1>10, <1>11,
       <1>12, <1>13, <1>14, <1>15, <1>16 DEF Next, Step

(* The outbox is type correct. *)
THEOREM TypeCorrect == Spec => []TypeOK
  <1>1. TypeInv => TypeOK
    BY DEF TypeInv
  <1> QED
    BY TypeInit, TypeStep, <1>1, PTL DEF Spec

-----------------------------------------------------------------------------
(* Whoever is publishing an event found its row in the table. *)
HeldInv ==
    \A p \in Publishers : pc[p] \in {"publish", "mark", "fail"} => status[cur[p]] # "absent"

(* Rows do not go away while they are published. *)
LEMMA HeldStep == TypeInv /\ HeldInv /\ [Next]_vars => HeldInv'
  <1> SUFFICES ASSUME TypeInv, HeldInv, [Next]_vars PROVE HeldInv'
    OBVIOUS
  <1> USE DEF TypeInv, TypeOK, rowVars, pubVars, jobVars, histVars, HeldInv, PCs
  <1>1. ASSUME NEW e \in Events, Enqueue(e) PROVE HeldInv'
    BY <1>1 DEF Enqueue, SweepShape
  <1>2. ASSUME NEW p \in Publishers, NEW e \in Events, Claim(p, e) PROVE HeldInv'
    BY <1>2 DEF Claim, NextInBatch, SweepShape
  <1>3. ASSUME NEW p \in Publishers,
               MarkPublished(p) \/ MarkFails(p) \/ RecordFailure(p)
        PROVE  HeldInv'
    <2>1. \A q \in Publishers : pc'[q] \in {"publish", "mark", "fail"} =>
             pc[q] \in {"publish", "mark", "fail"} /\ cur'[q] = cur[q]
      BY <1>3 DEF MarkPublished, MarkFails, RecordFailure, Iterate
    <2>2. \A e \in Events : status'[e] = "absent" => status[e] = "absent"
      BY <1>3 DEF MarkPublished, MarkFails, RecordFailure
    <2> QED
      BY <2>1, <2>2 DEF SweepShape
  <1>4. ASSUME NEW p \in Publishers,
               StartSweep(p) \/ FindCandidates(p) \/ Add(p) \/ AddFails(p)
        PROVE  HeldInv'
    BY <1>4 DEF StartSweep, FindCandidates, Add, AddFails
  <1>5. ASSUME NEW p \in Publishers, NEW e \in Events, Skip(p, e) PROVE HeldInv'
    BY <1>5 DEF Skip, NextInBatch, Iterate
  <1>6. ASSUME NEW p \in Publishers, EndSweep(p) \/ AbortSweep(p) \/ Crash(p) PROVE HeldInv'
    BY <1>6 DEF EndSweep, AbortSweep, Crash, Return
  <1>7. CASE (\E i \in JobIds : AddDirectly(i) \/ WorkJob(i)) \/ Tick \/ UNCHANGED vars
    BY <1>7 DEF AddDirectly, WorkJob, Tick, vars
  <1> QED
    BY <1>1, <1>2, <1>3, <1>4, <1>5, <1>6, <1>7 DEF Next, Step

(* PUBLISHED is written only from "mark", and a publisher stands there only *)
(* after the queue answered its add; a job the queue holds is a committed   *)
(* event's of that id, or one added past the outbox.                        *)
QueueInv ==
    /\ \A i \in JobIds :
          /\ job[i] \in Events => job[i] \in Committed /\ JobId[job[i]] = i
          /\ job[i] = DirectJob => i \in DirectIds
    /\ \A e \in Events : answer[e] # NoEvent => Answered(e)
    /\ \A e \in Events : status[e] = "PUBLISHED" => answer[e] # NoEvent
    /\ \A p \in Publishers : pc[p] = "mark" => answer[cur[p]] # NoEvent

(* No copy of retryCount, however stale, counts more failures than there   *)
(* were.                                                                   *)
RetryInv ==
    /\ GivenUpOnlyAfterRetries
    /\ \A e \in Events : retryCount[e] <= failures[e]
    /\ \A p \in Publishers : \A e \in Events : seen[p][e].retryCount <= failures[e]

(* A row waiting to be claimed has a claim to spare. *)
ClaimInv ==
    /\ AttemptsAccounted
    /\ \A e \in Events :
          status[e] \in {"absent", "PENDING"} => claims[e] <= failures[e] + takeovers[e]

(* Until a lease on it has run out, a row has one holder at most, and a    *)
(* held row is not up for claiming.                                        *)
HolderInv ==
    \A e \in Events : takeovers[e] = 0 =>
        /\ \A p, q \in Publishers : Holds(p, e) /\ Holds(q, e) => p = q
        /\ \A p \in Publishers : Holds(p, e) => status[e] \in {"PROCESSING", "PUBLISHED"}

(* A row never goes away: what was committed stays so. *)
LEMMA CommittedStays == TypeInv /\ HeldInv /\ [Next]_vars => Committed \subseteq Committed'
  <1> SUFFICES ASSUME TypeInv, HeldInv, [Next]_vars,
                      NEW f \in Events, status[f] # "absent", status'[f] = "absent"
               PROVE  FALSE
    BY DEF Committed
  <1> USE DEF TypeInv, TypeOK, rowVars
  <1>1. CASE \E e \in Events : Enqueue(e)
    BY <1>1 DEF Enqueue
  <1>2. CASE \E p \in Publishers : \E e \in Events : Claim(p, e)
    BY <1>2 DEF Claim
  <1>3. CASE \E p \in Publishers : MarkPublished(p) \/ MarkFails(p) \/ RecordFailure(p)
    BY <1>3 DEF MarkPublished, MarkFails, RecordFailure
  <1>4. CASE UNCHANGED status
    BY <1>4
  <1> QED
    BY <1>1, <1>2, <1>3, <1>4
    DEF Next, Step, StartSweep, FindCandidates, Skip, Add, AddFails, EndSweep,
        AbortSweep, Crash, WorkJob, AddDirectly, Tick, vars

(* What stands under an event's id, and what answers for it, is rightly    *)
(* there after an add.                                                     *)
LEMMA AcceptAnswers ==
    ASSUME TypeInv, QueueInv, NEW e \in Events, status[e] # "absent", Accept(e),
           UNCHANGED status
    PROVE  /\ \A i \in JobIds :
                 /\ job'[i] \in Events => job'[i] \in Committed /\ JobId[job'[i]] = i
                 /\ job'[i] = DirectJob => i \in DirectIds
           /\ \A f \in Events : answer'[f] # NoEvent => Answered(f)'
           /\ \A f \in Events : answer[f] # NoEvent => answer'[f] # NoEvent
           /\ answer'[e] # NoEvent
  <1> USE OutboxAssumption DEF TypeInv, TypeOK, QueueInv
  <1> DEFINE i == JobId[e]
             holder == IF job[i] = NoEvent THEN e ELSE job[i]
  <1>1. i \in JobIds /\ e \in Committed
    BY DEF Committed
  <1>2. /\ job' = [job EXCEPT ![i] = holder]
        /\ answer' = [answer EXCEPT ![e] = holder]
    BY DEF Accept
  <1>3. /\ holder # NoEvent
        /\ \/ holder \in Committed /\ JobId[holder] = i
           \/ holder = DirectJob /\ i \in DirectIds
    BY <1>1
  <1> HIDE DEF holder
  <1>4. Committed' = Committed
    BY DEF Committed
  <1>5. \A j \in JobIds :
            /\ job'[j] \in Events => job'[j] \in Committed /\ JobId[job'[j]] = j
            /\ job'[j] = DirectJob => j \in DirectIds
    <2> SUFFICES ASSUME NEW j \in JobIds
                 PROVE  /\ job'[j] \in Events => job'[j] \in Committed /\ JobId[job'[j]] = j
                        /\ job'[j] = DirectJob => j \in DirectIds
      BY <1>4
    <2>1. CASE j = i
      <3>1. job'[j] = holder
        BY <1>1, <1>2, <2>1
      <3>2. \A f \in Committed : f # DirectJob
        BY DEF Committed
      <3>3. DirectJob \notin Events
        OBVIOUS
      <3> QED
        BY <1>3, <2>1, <3>1, <3>2, <3>3
    <2>2. CASE j # i
      BY <1>2, <2>2
    <2> QED
      BY <2>1, <2>2
  <1>6. \A f \in Events : answer'[f] # NoEvent => Answered(f)'
    BY <1>1, <1>2, <1>3, <1>4 DEF Answered
  <1> QED
    BY <1>2, <1>3, <1>5, <1>6

(* No step loses an event. *)
LEMMA QueueStep == TypeInv /\ HeldInv /\ QueueInv /\ [Next]_vars => QueueInv'
  <1> SUFFICES ASSUME TypeInv, HeldInv, QueueInv, [Next]_vars PROVE QueueInv'
    OBVIOUS
  <1> USE OutboxAssumption DEF TypeInv, TypeOK, rowVars, pubVars, jobVars,
          histVars, QueueInv
  <1>0. Committed \subseteq Committed'
    BY CommittedStays
  <1>1. ASSUME UNCHANGED jobVars,
               \A e \in Events : status'[e] = "PUBLISHED" =>
                   status[e] = "PUBLISHED" \/ answer[e] # NoEvent,
               \A p \in Publishers : pc'[p] = "mark" => pc[p] = "mark" /\ cur'[p] = cur[p]
        PROVE  QueueInv'
    <2>1. \A e \in Events : Answered(e) => Answered(e)'
      BY <1>0, <1>1 DEF Answered
    <2> QED
      BY <1>0, <1>1, <2>1
  <1>2. ASSUME NEW e \in Events, Enqueue(e) PROVE QueueInv'
    BY <1>1, <1>2 DEF Enqueue
  <1>3. ASSUME NEW p \in Publishers, StartSweep(p) \/ FindCandidates(p) PROVE QueueInv'
    BY <1>1, <1>3 DEF StartSweep, FindCandidates
  <1>4. ASSUME NEW p \in Publishers, NEW e \in Events, Claim(p, e) \/ Skip(p, e)
        PROVE  QueueInv'
    BY <1>1, <1>4 DEF Claim, Skip, NextInBatch, Iterate, PCs
  <1>5. ASSUME NEW p \in Publishers, Add(p) PROVE QueueInv'
    <2>1. cur[p] \in Events /\ status[cur[p]] # "absent" /\ Accept(cur[p]) /\ UNCHANGED status
      BY <1>5 DEF Add, SweepShape, HeldInv
    <2>2. \A q \in Publishers : pc[q] = "mark" => cur[q] \in Events
      BY DEF SweepShape
    <2>3. UNCHANGED Committed
      BY <2>1 DEF Committed
    <2> QED
      BY <1>5, <2>1, <2>2, <2>3, AcceptAnswers DEF Add
  <1>6. ASSUME NEW p \in Publishers, AddFails(p) PROVE QueueInv'
    <2>1. cur[p] \in Events /\ status[cur[p]] # "absent" /\ UNCHANGED status
      BY <1>6 DEF AddFails, SweepShape, HeldInv
    <2>2. \A q \in Publishers : pc[q] = "mark" => cur[q] \in Events
      BY DEF SweepShape
    <2>3. UNCHANGED Committed
      BY <2>1 DEF Committed
    <2>4. CASE Accept(cur[p])
      BY <1>6, <2>1, <2>2, <2>3, <2>4, AcceptAnswers DEF AddFails
    <2>5. CASE UNCHANGED jobVars
      BY <1>1, <1>6, <2>1, <2>5 DEF AddFails
    <2> QED
      BY <1>6, <2>4, <2>5 DEF AddFails
  <1>7. ASSUME NEW p \in Publishers, MarkPublished(p) \/ MarkFails(p) PROVE QueueInv'
    <2>1. /\ cur[p] \in Events
          /\ pc[p] = "mark"
          /\ UNCHANGED status \/ status' = [status EXCEPT ![cur[p]] = "PUBLISHED"]
          /\ UNCHANGED jobVars
      BY <1>7 DEF MarkPublished, MarkFails, SweepShape
    <2>2. \A q \in Publishers : pc'[q] = "mark" => pc[q] = "mark" /\ cur'[q] = cur[q]
      BY <1>7 DEF MarkPublished, MarkFails, Iterate
    <2>3. \A e \in Events : status'[e] = "PUBLISHED" =>
             status[e] = "PUBLISHED" \/ answer[e] # NoEvent
      BY <2>1
    <2> QED
      BY <1>1, <2>1, <2>2, <2>3
  <1>8. ASSUME NEW p \in Publishers, RecordFailure(p) PROVE QueueInv'
    <2>1. \A q \in Publishers : pc'[q] = "mark" => pc[q] = "mark" /\ cur'[q] = cur[q]
      BY <1>8 DEF RecordFailure, Iterate
    <2>2. \A e \in Events : status'[e] = "PUBLISHED" => status[e] = "PUBLISHED"
      BY <1>8 DEF RecordFailure, SweepShape
    <2> QED
      BY <1>1, <1>8, <2>1, <2>2 DEF RecordFailure
  <1>9. ASSUME NEW p \in Publishers, EndSweep(p) \/ AbortSweep(p) \/ Crash(p) PROVE QueueInv'
    BY <1>1, <1>9 DEF EndSweep, AbortSweep, Crash, Return
  <1>10. ASSUME NEW i \in JobIds, AddDirectly(i) \/ WorkJob(i) PROVE QueueInv'
    <2>1. UNCHANGED Committed
      BY <1>10 DEF AddDirectly, WorkJob, Committed
    <2>2. \A e \in Events : Answered(e) => Answered(e)'
      BY <1>10, <2>1 DEF AddDirectly, WorkJob, Answered
    <2> QED
      BY <1>10, <2>1, <2>2 DEF AddDirectly, WorkJob
  <1>11. CASE Tick \/ UNCHANGED vars
    BY <1>1, <1>11 DEF Tick, vars
  <1> QED
    BY <1>2, <1>3, <1>4, <1>5, <1>6, <1>7, <1>8, <1>9, <1>10, <1>11 DEF Next, Step

(* No step gives an event up early. *)
LEMMA RetryStep == TypeInv /\ RetryInv /\ [Next]_vars => RetryInv'
  <1> SUFFICES ASSUME TypeInv, RetryInv, [Next]_vars PROVE RetryInv'
    OBVIOUS
  <1> USE OutboxAssumption DEF TypeInv, TypeOK, rowVars, pubVars, jobVars,
          histVars, RetryInv, GivenUpOnlyAfterRetries
  <1>1. ASSUME NEW e \in Events, Enqueue(e) PROVE RetryInv'
    BY <1>1 DEF Enqueue
  <1>2. ASSUME NEW p \in Publishers, StartSweep(p) PROVE RetryInv'
    BY <1>2 DEF StartSweep
  <1>3. ASSUME NEW p \in Publishers, FindCandidates(p) PROVE RetryInv'
    BY <1>3 DEF FindCandidates, Oldest, NothingSeen, Row
  <1>4. ASSUME NEW p \in Publishers, NEW e \in Events, Claim(p, e) PROVE RetryInv'
    BY <1>4 DEF Claim, NextInBatch
  <1>5. ASSUME NEW p \in Publishers, NEW e \in Events, Skip(p, e) PROVE RetryInv'
    <2>1. Forgets(p, e)
      BY <1>5, IterateForgets DEF Skip
    <2>3. \A q \in Publishers : \A f \in Events : seen'[q][f].retryCount <= failures[f]
      <3> SUFFICES ASSUME NEW q \in Publishers, NEW f \in Events
                   PROVE  seen'[q][f].retryCount <= failures[f]
        OBVIOUS
      <3>1. /\ seen[q][f].retryCount \in Nat /\ failures[f] \in Nat
            /\ seen'[q][f].retryCount \in Nat
            /\ seen[q][f].retryCount <= failures[f]
            /\ seen'[q][f].retryCount <= seen[q][f].retryCount
        BY <2>1 DEF Row, Forgets
      <3> QED
        BY <3>1
    <2> QED
      BY <1>5, <2>1, <2>3 DEF Skip, NextInBatch
  <1>6. ASSUME NEW p \in Publishers, Add(p) PROVE RetryInv'
    BY <1>6 DEF Add, Accept, SweepShape
  <1>7. ASSUME NEW p \in Publishers, AddFails(p) PROVE RetryInv'
    BY <1>7 DEF AddFails, Accept, Fault, SweepShape
  <1>8. ASSUME NEW p \in Publishers, MarkPublished(p) PROVE RetryInv'
    <2>1. cur[p] \in Events
      BY <1>8 DEF MarkPublished, SweepShape
    <2>2. Forgets(p, cur[p])
      BY <1>8, <2>1, IterateForgets DEF MarkPublished
    <2>3. \A q \in Publishers : \A f \in Events : seen'[q][f].retryCount <= failures[f]
      <3> SUFFICES ASSUME NEW q \in Publishers, NEW f \in Events
                   PROVE  seen'[q][f].retryCount <= failures[f]
        OBVIOUS
      <3>1. /\ seen[q][f].retryCount \in Nat /\ failures[f] \in Nat
            /\ seen'[q][f].retryCount \in Nat
            /\ seen[q][f].retryCount <= failures[f]
            /\ seen'[q][f].retryCount <= seen[q][f].retryCount
        BY <2>1, <2>2 DEF Row, Forgets
      <3> QED
        BY <3>1
    <2> QED
      BY <1>8, <2>1, <2>3 DEF MarkPublished
  <1>9. ASSUME NEW p \in Publishers, MarkFails(p) PROVE RetryInv'
    BY <1>9 DEF MarkFails, Fault, SweepShape
  <1>10. ASSUME NEW p \in Publishers, RecordFailure(p) PROVE RetryInv'
    <2>1. cur[p] \in Events
      BY <1>10 DEF RecordFailure, SweepShape
    <2>2. Forgets(p, cur[p])
      BY <1>10, <2>1, IterateForgets DEF RecordFailure
    <2>3. \A q \in Publishers : \A f \in Events : seen'[q][f].retryCount <= failures[f]
      <3> SUFFICES ASSUME NEW q \in Publishers, NEW f \in Events
                   PROVE  seen'[q][f].retryCount <= failures[f]
        OBVIOUS
      <3>1. /\ seen[q][f].retryCount \in Nat /\ failures[f] \in Nat
            /\ seen'[q][f].retryCount \in Nat
            /\ seen[q][f].retryCount <= failures[f]
            /\ seen'[q][f].retryCount <= seen[q][f].retryCount
        BY <2>1, <2>2 DEF Row, Forgets
      <3> QED
        BY <3>1
    <2> QED
      <3> DEFINE e == cur[p]
                 n == seen[p][e].retryCount
      <3>1. /\ n \in Nat /\ failures[e] \in Nat /\ n <= failures[e]
            /\ failures' = [failures EXCEPT ![e] = failures[e] + 1]
            /\ retryCount' = [retryCount EXCEPT ![e] = n + 1]
            /\ status' = [status EXCEPT ![e] =
                              IF IsFinalFailure(n + 1) THEN "FAILED" ELSE "PENDING"]
        BY <1>10, <2>1 DEF RecordFailure, NextRetry, Row
      <3>2. \A f \in Events : failures'[f] >= failures[f] /\ failures'[f] \in Nat
        BY <2>1, <3>1
      <3>3. \A f \in Events : retryCount'[f] <= failures'[f]
        BY <2>1, <3>1
      <3>4. \A f \in Events : status'[f] = "FAILED" => failures'[f] >= MaxRetries
        BY <2>1, <3>1 DEF IsFinalFailure
      <3>5. \A q \in Publishers : \A f \in Events : seen'[q][f].retryCount <= failures'[f]
        <4> SUFFICES ASSUME NEW q \in Publishers, NEW f \in Events
                     PROVE  seen'[q][f].retryCount <= failures'[f]
          OBVIOUS
        <4>1. seen'[q][f].retryCount \in Nat
          BY <2>2 DEF Forgets, Row
        <4>2. seen'[q][f].retryCount <= failures[f]
          BY <2>3
        <4> QED
          BY <3>2, <4>1, <4>2
      <3> QED
        BY <3>3, <3>4, <3>5
  <1>11. ASSUME NEW p \in Publishers, EndSweep(p) PROVE RetryInv'
    BY <1>11 DEF EndSweep, Return, NothingSeen
  <1>12. ASSUME NEW p \in Publishers, AbortSweep(p) PROVE RetryInv'
    BY <1>12 DEF AbortSweep, Return, Fault, NothingSeen
  <1>13. ASSUME NEW p \in Publishers, Crash(p) PROVE RetryInv'
    BY <1>13 DEF Crash, Return, Fault, NothingSeen
  <1>14. ASSUME NEW i \in JobIds, AddDirectly(i) \/ WorkJob(i) PROVE RetryInv'
    BY <1>14 DEF AddDirectly, WorkJob
  <1>15. CASE Tick
    BY <1>15 DEF Tick
  <1>16. CASE UNCHANGED vars
    BY <1>16 DEF vars
  <1> QED
    BY <1>1, <1>2, <1>3, <1>4, <1>5, <1>6, <1>7, <1>8,
       <1>9, <1>10, <1>11, <1>12, <1>13, <1>14, <1>15, <1>16 DEF Next, Step

(* No step gives out a claim without a reason. *)
LEMMA ClaimStep == TypeInv /\ ClaimInv /\ [Next]_vars => ClaimInv'
  <1> SUFFICES ASSUME TypeInv, ClaimInv, [Next]_vars PROVE ClaimInv'
    OBVIOUS
  <1> USE OutboxAssumption DEF TypeInv, TypeOK, rowVars, pubVars, jobVars,
          histVars, ClaimInv, AttemptsAccounted
  <1>1. ASSUME NEW e \in Events, Enqueue(e) PROVE ClaimInv'
    BY <1>1 DEF Enqueue
  <1>2. ASSUME NEW p \in Publishers, StartSweep(p) PROVE ClaimInv'
    BY <1>2 DEF StartSweep
  <1>3. ASSUME NEW p \in Publishers, FindCandidates(p) PROVE ClaimInv'
    BY <1>3 DEF FindCandidates, Oldest
  <1>4. ASSUME NEW p \in Publishers, NEW e \in Events, Claim(p, e) PROVE ClaimInv'
    BY <1>4 DEF Claim, NextInBatch, Unmoved, Expired, SeenCandidates
  <1>5. ASSUME NEW p \in Publishers, NEW e \in Events, Skip(p, e) PROVE ClaimInv'
    BY <1>5 DEF Skip, NextInBatch
  <1>6. ASSUME NEW p \in Publishers, Add(p) PROVE ClaimInv'
    BY <1>6 DEF Add, Accept, SweepShape
  <1>7. ASSUME NEW p \in Publishers, AddFails(p) PROVE ClaimInv'
    BY <1>7 DEF AddFails, Accept, Fault, SweepShape
  <1>8. ASSUME NEW p \in Publishers, MarkPublished(p) PROVE ClaimInv'
    BY <1>8 DEF MarkPublished, SweepShape
  <1>9. ASSUME NEW p \in Publishers, MarkFails(p) PROVE ClaimInv'
    BY <1>9 DEF MarkFails, Fault, SweepShape
  <1>10. ASSUME NEW p \in Publishers, RecordFailure(p) PROVE ClaimInv'
    BY <1>10 DEF RecordFailure, NextRetry, SweepShape
  <1>11. ASSUME NEW p \in Publishers, EndSweep(p) PROVE ClaimInv'
    BY <1>11 DEF EndSweep, Return
  <1>12. ASSUME NEW p \in Publishers, AbortSweep(p) PROVE ClaimInv'
    BY <1>12 DEF AbortSweep, Return, Fault
  <1>13. ASSUME NEW p \in Publishers, Crash(p) PROVE ClaimInv'
    BY <1>13 DEF Crash, Return, Fault
  <1>14. ASSUME NEW i \in JobIds, AddDirectly(i) \/ WorkJob(i) PROVE ClaimInv'
    BY <1>14 DEF AddDirectly, WorkJob
  <1>15. CASE Tick
    BY <1>15 DEF Tick
  <1>16. CASE UNCHANGED vars
    BY <1>16 DEF vars
  <1> QED
    BY <1>1, <1>2, <1>3, <1>4, <1>5, <1>6, <1>7, <1>8,
       <1>9, <1>10, <1>11, <1>12, <1>13, <1>14, <1>15, <1>16 DEF Next, Step

(* No step lets two publishers hold an event within its lease. *)
LEMMA HolderStep == TypeInv /\ HolderInv /\ [Next]_vars => HolderInv'
  <1> SUFFICES ASSUME TypeInv, HolderInv, [Next]_vars PROVE HolderInv'
    OBVIOUS
  <1> USE OutboxAssumption DEF TypeInv, TypeOK, rowVars, pubVars, jobVars,
          histVars, HolderInv, Holds, PCs
  <1>1. ASSUME NEW e \in Events, Enqueue(e) PROVE HolderInv'
    BY <1>1 DEF Enqueue
  <1>2. ASSUME NEW p \in Publishers, StartSweep(p) PROVE HolderInv'
    BY <1>2 DEF StartSweep, SweepShape
  <1>3. ASSUME NEW p \in Publishers, FindCandidates(p) PROVE HolderInv'
    BY <1>3 DEF FindCandidates, Oldest
  <1>4. ASSUME NEW p \in Publishers, NEW e \in Events, Claim(p, e) PROVE HolderInv'
    BY <1>4 DEF Claim, NextInBatch, Unmoved, Expired, SeenCandidates
  <1>5. ASSUME NEW p \in Publishers, NEW e \in Events, Skip(p, e) PROVE HolderInv'
    <2>1. Forgets(p, e)
      BY <1>5, IterateForgets DEF Skip
    <2> QED
      BY <1>5, <2>1 DEF Skip, NextInBatch, Forgets
  <1>6. ASSUME NEW p \in Publishers, Add(p) PROVE HolderInv'
    BY <1>6 DEF Add, Accept, SweepShape
  <1>7. ASSUME NEW p \in Publishers, AddFails(p) PROVE HolderInv'
    BY <1>7 DEF AddFails, Accept, Fault, SweepShape
  <1>8. ASSUME NEW p \in Publishers, MarkPublished(p) PROVE HolderInv'
    <2>1. cur[p] \in Events
      BY <1>8 DEF MarkPublished, SweepShape
    <2>2. Forgets(p, cur[p])
      BY <1>8, <2>1, IterateForgets DEF MarkPublished
    <2> QED
      BY <1>8, <2>1, <2>2 DEF MarkPublished, SweepShape, Forgets
  <1>9. ASSUME NEW p \in Publishers, MarkFails(p) PROVE HolderInv'
    BY <1>9 DEF MarkFails, Fault, SweepShape
  <1>10. ASSUME NEW p \in Publishers, RecordFailure(p) PROVE HolderInv'
    <2>1. cur[p] \in Events
      BY <1>10 DEF RecordFailure, SweepShape
    <2>2. Forgets(p, cur[p])
      BY <1>10, <2>1, IterateForgets DEF RecordFailure
    <2> QED
      BY <1>10, <2>1, <2>2 DEF RecordFailure, NextRetry, SweepShape, Forgets
  <1>11. ASSUME NEW p \in Publishers, EndSweep(p) PROVE HolderInv'
    BY <1>11 DEF EndSweep, Return
  <1>12. ASSUME NEW p \in Publishers, AbortSweep(p) PROVE HolderInv'
    BY <1>12 DEF AbortSweep, Return, Fault
  <1>13. ASSUME NEW p \in Publishers, Crash(p) PROVE HolderInv'
    BY <1>13 DEF Crash, Return, Fault
  <1>14. ASSUME NEW i \in JobIds, AddDirectly(i) \/ WorkJob(i) PROVE HolderInv'
    BY <1>14 DEF AddDirectly, WorkJob
  <1>15. CASE Tick
    BY <1>15 DEF Tick
  <1>16. CASE UNCHANGED vars
    BY <1>16 DEF vars
  <1> QED
    BY <1>1, <1>2, <1>3, <1>4, <1>5, <1>6, <1>7, <1>8,
       <1>9, <1>10, <1>11, <1>12, <1>13, <1>14, <1>15, <1>16 DEF Next, Step

(* A row marked PUBLISHED was handed to its queue, whatever crashed or was
   retried before: a committed event's job stood under its id, or one added past
   the outbox. *)
THEOREM NoEventLost == Spec => []PublishedWasQueued
  <1>1. Init => QueueInv /\ HeldInv
    BY OutboxAssumption DEF Init, QueueInv, HeldInv
  <1>2. TypeInv /\ QueueInv => PublishedWasQueued
    BY DEF QueueInv, PublishedWasQueued
  <1> QED
    BY TypeInit, TypeStep, <1>1, HeldStep, QueueStep, <1>2, PTL DEF Spec

(* Nobody else adds jobs under the event's id. *)
IdIsItsOwn(e) ==
    /\ JobId[e] \notin DirectIds
    /\ \A f \in Committed \ {e} : JobId[f] # JobId[e]

OwnJob == \A e \in Events : status[e] = "PUBLISHED" /\ IdIsItsOwn(e) => answer[e] = e

(* The job that stood under the id of a PUBLISHED row is the event's own where
   nobody else has that id, as with the default id outbox-<event id>. *)
THEOREM OwnIdOwnJob == Spec => []OwnJob
  <1>1. PublishedWasQueued => OwnJob
    BY OutboxAssumption DEF PublishedWasQueued, OwnJob, Answered, IdIsItsOwn
  <1> QED
    BY NoEventLost, <1>1, PTL

(* A row is FAILED only after MaxRetries attempts failed, although the
   attempts are counted from stale copies of the row. *)
THEOREM NeverGivenUpEarly == Spec => []GivenUpOnlyAfterRetries
  <1>1. Init => RetryInv
    BY OutboxAssumption DEF Init, RetryInv, GivenUpOnlyAfterRetries, NothingSeen
  <1>2. TypeInv /\ RetryInv => GivenUpOnlyAfterRetries
    BY OutboxAssumption DEF RetryInv
  <1> QED
    BY TypeInit, TypeStep, <1>1, RetryStep, <1>2, PTL DEF Spec

(* Each claim on a row has a reason of its own: the commit, a failed attempt
   or an expired lease. *)
THEOREM ClaimsHaveReasons == Spec => []AttemptsAccounted
  <1>1. Init => ClaimInv
    BY OutboxAssumption DEF Init, ClaimInv, AttemptsAccounted
  <1>2. TypeInv /\ ClaimInv => AttemptsAccounted
    BY OutboxAssumption DEF ClaimInv
  <1> QED
    BY TypeInit, TypeStep, <1>1, ClaimStep, <1>2, PTL DEF Spec

(* Two processes publish one event at once only after a lease on it expired. *)
THEOREM OneHolderPerLease == Spec => []OverlapOnlyAfterExpiry
  <1>1. Init => HolderInv
    BY OutboxAssumption DEF Init, HolderInv, Holds
  <1>2. TypeInv /\ HolderInv => OverlapOnlyAfterExpiry
    BY OutboxAssumption DEF TypeInv, TypeOK, OverlapOnlyAfterExpiry, HolderInv
  <1> QED
    BY TypeInit, TypeStep, <1>1, HolderStep, <1>2, PTL DEF Spec


-----------------------------------------------------------------------------
(* A step of the outbox is a step of the promise, or none. *)
LEMMA HandoffStep ==
    TypeInv /\ QueueInv /\ RetryInv /\ HeldInv /\ [Next]_vars
        => [Promise!Next]_(Promise!vars)
  <1> DEFINE Closed == {e \in Events : status[e] \in {"PUBLISHED", "FAILED"}}
             promised == <<Committed, job, answer, failures, Closed>>
  <1> SUFFICES ASSUME TypeInv, QueueInv, RetryInv, HeldInv, [Next]_vars
               PROVE  Promise!Next \/ UNCHANGED promised
    BY DEF Promise!vars
  <1> USE OutboxAssumption DEF TypeInv, TypeOK, rowVars, pubVars, jobVars, histVars
  <1>0. ASSUME UNCHANGED <<status, jobVars, failures>>
        PROVE  UNCHANGED promised
    BY <1>0 DEF Committed
  <1>1. ASSUME NEW e \in Events, Enqueue(e) PROVE Promise!Next
    <2>1. e \notin Committed /\ Committed' = Committed \union {e} /\ Closed' = Closed
      BY <1>1 DEF Enqueue, Committed
    <2>2. UNCHANGED <<job, answer, failures>>
      BY <1>1 DEF Enqueue
    <2> QED
      BY <2>1, <2>2 DEF Promise!Next, Promise!Commit
  <1>2. ASSUME NEW p \in Publishers, NEW e \in Events, Claim(p, e)
        PROVE  UNCHANGED promised
    <2>1. status[e] \in {"PENDING", "PROCESSING"}
      BY <1>2 DEF Claim, NextInBatch, Unmoved, SeenCandidates
    <2>2. UNCHANGED <<Committed, Closed>>
      BY <1>2, <2>1 DEF Claim, Committed
    <2> QED
      BY <1>2, <2>2 DEF Claim
  <1>3. ASSUME NEW p \in Publishers, Add(p) \/ AddFails(p)
        PROVE  Promise!Next \/ UNCHANGED promised
    <2>1. cur[p] \in Events /\ cur[p] \in Committed
      BY <1>3 DEF Add, AddFails, SweepShape, HeldInv, Committed
    <2>2. UNCHANGED <<status, failures>>
      BY <1>3 DEF Add, AddFails
    <2>3. UNCHANGED <<Committed, Closed>>
      BY <2>2 DEF Committed
    <2>4. CASE UNCHANGED jobVars
      BY <1>0, <2>2, <2>4
    <2>5. CASE Accept(cur[p])
      <3> DEFINE e == cur[p]
                 i == JobId[e]
      <3>1. i \in JobIds
        BY <2>1
      <3>2. CASE job[i] = NoEvent
        <4>1. job' = [job EXCEPT ![i] = e] /\ answer' = [answer EXCEPT ![e] = e] /\ job'[i] = e
          BY <2>5, <3>1, <3>2 DEF Accept
        <4>2. Promise!Handoff(e)
          BY <2>1, <2>2, <2>3, <3>2, <4>1 DEF Promise!Handoff
        <4> QED
          BY <2>1, <4>2 DEF Promise!Next
      <3>3. CASE job[i] # NoEvent
        <4>1. job' = [job EXCEPT ![i] = job[i]] /\ answer' = [answer EXCEPT ![e] = job[i]]
          BY <2>5, <3>3 DEF Accept
        <4>2. job' = job
          BY <3>1, <4>1
        <4>3. Promise!Handoff(e)
          BY <2>1, <2>2, <2>3, <3>3, <4>1, <4>2 DEF Promise!Handoff
        <4> QED
          BY <2>1, <4>3 DEF Promise!Next
      <3> QED
        BY <3>2, <3>3
    <2> QED
      BY <1>3, <2>4, <2>5 DEF Add, AddFails
  <1>4. ASSUME NEW p \in Publishers, MarkPublished(p) \/ MarkFails(p)
        PROVE  Promise!Next \/ UNCHANGED promised
    <2>1. cur[p] \in Events /\ answer[cur[p]] # NoEvent /\ status[cur[p]] # "absent"
      BY <1>4 DEF MarkPublished, MarkFails, SweepShape, QueueInv, HeldInv
    <2>2. UNCHANGED <<job, answer, failures>>
      BY <1>4 DEF MarkPublished, MarkFails
    <2>3. UNCHANGED status \/ status' = [status EXCEPT ![cur[p]] = "PUBLISHED"]
      BY <1>4 DEF MarkPublished, MarkFails
    <2>4. CASE UNCHANGED status
      BY <1>0, <2>2, <2>4
    <2>5. CASE status' = [status EXCEPT ![cur[p]] = "PUBLISHED"]
      <3>1. UNCHANGED Committed /\ Closed' = Closed \union {cur[p]}
        BY <2>1, <2>5 DEF Committed
      <3> QED
        BY <2>1, <2>2, <3>1 DEF Promise!Next, Promise!Close
    <2> QED
      BY <2>3, <2>4, <2>5
  <1>5. ASSUME NEW p \in Publishers, RecordFailure(p) PROVE Promise!Next
    <2>1. cur[p] \in Events /\ status[cur[p]] # "absent"
      BY <1>5 DEF RecordFailure, SweepShape, HeldInv
    <2>2. /\ failures' = [failures EXCEPT ![cur[p]] = @ + 1]
          /\ failures'[cur[p]] = failures[cur[p]] + 1
          /\ UNCHANGED <<job, answer>>
      BY <1>5, <2>1 DEF RecordFailure
    <2>3. NextRetry(p) <= failures[cur[p]] + 1
      BY <2>1 DEF NextRetry, RetryInv, Row
    <2>4. UNCHANGED Committed /\ cur[p] \in Committed
      BY <1>5, <2>1 DEF RecordFailure, Committed
    <2>5. CASE IsFinalFailure(NextRetry(p))
      <3>1. Closed' = Closed \union {cur[p]}
        BY <1>5, <2>1, <2>5 DEF RecordFailure
      <3>2. NextRetry(p) \in Nat /\ failures[cur[p]] \in Nat
        BY <2>1 DEF NextRetry, Row
      <3>3. failures'[cur[p]] >= MaxRetries
        BY <2>2, <2>3, <2>5, <3>2 DEF IsFinalFailure
      <3> QED
        BY <2>1, <2>2, <2>4, <3>1, <3>3 DEF Promise!Next, Promise!Failed
    <2>6. CASE ~IsFinalFailure(NextRetry(p))
      <3>1. Closed' = Closed \ {cur[p]}
        BY <1>5, <2>1, <2>6 DEF RecordFailure
      <3> QED
        BY <2>1, <2>2, <2>4, <3>1 DEF Promise!Next, Promise!Failed
    <2> QED
      BY <2>5, <2>6
  <1>6. ASSUME NEW p \in Publishers,
               \/ StartSweep(p) \/ FindCandidates(p) \/ EndSweep(p) \/ AbortSweep(p)
               \/ Crash(p) \/ \E e \in Events : Skip(p, e)
        PROVE  UNCHANGED promised
    BY <1>6, <1>0 DEF StartSweep, FindCandidates, EndSweep, AbortSweep, Crash, Skip
  <1>7. ASSUME NEW i \in JobIds, AddDirectly(i) \/ WorkJob(i) PROVE Promise!Next
    <2>1. UNCHANGED <<Committed, answer, failures, Closed>>
      BY <1>7 DEF AddDirectly, WorkJob, Committed
    <2>2. CASE AddDirectly(i)
      BY <2>1, <2>2 DEF AddDirectly, Promise!Next, Promise!Direct
    <2>3. CASE WorkJob(i)
      BY <2>1, <2>3 DEF WorkJob, Promise!Next, Promise!Leave
    <2> QED
      BY <1>7, <2>2, <2>3
  <1>8. CASE Tick \/ UNCHANGED vars
    BY <1>8, <1>0 DEF Tick, vars
  <1> QED
    BY <1>1, <1>2, <1>3, <1>4, <1>5, <1>6, <1>7, <1>8 DEF Next, Step

(* The outbox implements its promise: publishers, claims, leases, stale    *)
(* copies and crashes show as another attempt at most.                     *)
THEOREM OutboxImplementsHandoff == Spec => ImplementsHandoff
  <1>1. Init => Promise!Init
    BY DEF Init, Promise!Init, Committed
  <1>2. Init => QueueInv /\ RetryInv /\ HeldInv
    BY OutboxAssumption
    DEF Init, QueueInv, RetryInv, GivenUpOnlyAfterRetries, NothingSeen, HeldInv
  <1> QED
    BY <1>1, <1>2, TypeInit, TypeStep, QueueStep, RetryStep, HeldStep, HandoffStep, PTL
    DEF Spec, ImplementsHandoff, Promise!Spec
=============================================================================
