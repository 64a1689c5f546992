--------------------------- MODULE DeliveryProofs ---------------------------
(***************************************************************************)
(* For any number of operations, dispatchers and faults: the types of the  *)
(* delivery component, that a row is marked dispatched only after the queue*)
(* has accepted its job and then for good, and that nothing is queued for  *)
(* an operation before its approval has committed.                         *)
(***************************************************************************)
EXTENDS Delivery, TLAPS

\* What a cycle will mark as dispatched has been published.
SentIsPublished == \A d \in Dispatchers : cycle[d].sent \subseteq published

\* The inductive invariant.  DispatchedMeansPublished alone is not inductive: the
\* step that marks the rows knows them only as the ones its cycle has sent.
DeliveryInv == TypeOK /\ SentIsPublished /\ DispatchedMeansPublished

\* The initial states are as DeliveryInv says.
LEMMA DeliveryStart == Init => DeliveryInv
BY DeliveryAssumption
   DEF Init, DeliveryInv, TypeOK, SentIsPublished, DispatchedMeansPublished, Row, Idle, JobState

\* Steps that write one field of a row keep it a row.
LEMMA RowsTyped ==
  ASSUME TypeOK,
         \/ \E o \in Ops : Approve(o) \/ TimePasses(o) \/ LeaseLost(o)
         \/ \E d \in Dispatchers : CycleDies(d)
  PROVE  row' \in [Ops -> Row]
<1>1. row \in [Ops -> Row]
  BY DEF TypeOK
<1>2. ASSUME NEW r \in Row
      PROVE  /\ [r EXCEPT !.status = "PENDING"] \in Row
             /\ [r EXCEPT !.due = TRUE] \in Row
             /\ [r EXCEPT !.holder = Dead] \in Row
  BY DEF Row
<1>3. ASSUME NEW o \in Ops, Approve(o) PROVE row' \in [Ops -> Row]
  <2>1. row' = [row EXCEPT ![o] = [row[o] EXCEPT !.status = "PENDING"]]
    BY <1>3 DEF Approve
  <2>2. QED
    BY <1>1, <1>2, <2>1
<1>4. ASSUME NEW o \in Ops, TimePasses(o) \/ LeaseLost(o) PROVE row' \in [Ops -> Row]
  <2>1. row' = [row EXCEPT ![o] = [row[o] EXCEPT !.due = TRUE]]
    BY <1>4 DEF TimePasses, LeaseLost
  <2>2. QED
    BY <1>1, <1>2, <2>1
<1>5. ASSUME NEW d \in Dispatchers, CycleDies(d) PROVE row' \in [Ops -> Row]
  BY <1>1, <1>2, <1>5 DEF CycleDies
<1>6. QED
  BY <1>3, <1>4, <1>5

\* Every step preserves the types.
LEMMA DeliveryTypes == ASSUME TypeOK, Next PROVE TypeOK'
<1>1. ASSUME NEW o \in Ops, Approve(o) PROVE TypeOK'
  <2>1. row' \in [Ops -> Row]
    BY <1>1, RowsTyped
  <2>2. QED
    BY <1>1, <2>1 DEF Approve, TypeOK
<1>2. ASSUME NEW o \in Ops, TimePasses(o) PROVE TypeOK'
  <2>1. row' \in [Ops -> Row]
    BY <1>2, RowsTyped
  <2>2. QED
    BY <1>2, <2>1 DEF TimePasses, TypeOK
<1>3. ASSUME NEW o \in Ops, LeaseLost(o) PROVE TypeOK'
  <2>1. faults' \in 0..MaxFaults
    BY <1>3, DeliveryAssumption DEF LeaseLost, Fault, TypeOK
  <2>2. row' \in [Ops -> Row]
    BY <1>3, RowsTyped
  <2>3. QED
    BY <1>3, <2>1, <2>2 DEF LeaseLost, TypeOK
<1> USE DeliveryAssumption DEF TypeOK, Row, JobState
<1>4. ASSUME NEW o \in Ops, Deliver(o) PROVE TypeOK'
  BY <1>4 DEF Deliver, ClaimOperation
<1>5. ASSUME NEW o \in Ops, JobFails(o) PROVE TypeOK'
  <2>1. faults' \in 0..MaxFaults
    BY <1>5 DEF JobFails, Fault
  <2>2. outboxJob' \in [Ops -> JobState] /\ sweepJob' \in [Ops -> JobState]
    BY <1>5 DEF JobFails
  <2>3. QED
    BY <1>5, <2>1, <2>2 DEF JobFails
<1>6. ASSUME NEW o \in Ops, DropKept(o) PROVE TypeOK'
  BY <1>6 DEF DropKept
<1>7. ASSUME NEW o \in Ops, Requeue(o) PROVE TypeOK'
  BY <1>7 DEF Requeue
<1>8. ASSUME NEW d \in Dispatchers, ClaimPendingOutbox(d) PROVE TypeOK'
  BY <1>8 DEF ClaimPendingOutbox, Candidates
<1>9. ASSUME NEW d \in Dispatchers, FinishCycle(d) PROVE TypeOK'
  BY <1>9 DEF FinishCycle, MarkDispatched, Dispatched, Idle
<1>10. ASSUME NEW d \in Dispatchers, CycleDies(d) PROVE TypeOK'
  <2>1. faults' \in 0..MaxFaults
    BY <1>10 DEF CycleDies, Fault
  <2>2. row' \in [Ops -> Row]
    BY <1>10, RowsTyped
  <2>3. QED
    BY <1>10, <2>1, <2>2 DEF CycleDies, Idle
<1>11. ASSUME NEW d \in Dispatchers, NEW o \in Ops, Publish(d, o) PROVE TypeOK'
  <2>1. [cycle[d] EXCEPT !.todo = @ \ {o}, !.sent = @ \cup {o}]
          \in [busy : BOOLEAN, todo : SUBSET Ops, sent : SUBSET Ops]
    OBVIOUS
  <2>2. cycle' = [cycle EXCEPT ![d] = [cycle[d] EXCEPT !.todo = @ \ {o}, !.sent = @ \cup {o}]]
    BY <1>11 DEF Publish
  <2>3. cycle' \in [Dispatchers -> [busy : BOOLEAN, todo : SUBSET Ops, sent : SUBSET Ops]]
    BY <2>1, <2>2
  <2>4. outboxJob' \in [Ops -> JobState] /\ published' \subseteq Ops
    BY <1>11 DEF Publish
  <2>5. QED
    BY <1>11, <2>3, <2>4 DEF Publish
<1>12. ASSUME NEW d \in Dispatchers, NEW o \in Ops, PublishFails(d, o) PROVE TypeOK'
  <2>1. faults' \in 0..MaxFaults
    BY <1>12 DEF PublishFails, Fault
  <2>2. row' \in [Ops -> Row]
    BY <1>12 DEF PublishFails, Reschedule
  <2>3. cycle' \in [Dispatchers -> [busy : BOOLEAN, todo : SUBSET Ops, sent : SUBSET Ops]]
    <3>1. cycle' = [cycle EXCEPT ![d] = [cycle[d] EXCEPT !.todo = @ \ {o}]]
      BY <1>12 DEF PublishFails
    <3>2. [cycle[d] EXCEPT !.todo = @ \ {o}] \in [busy : BOOLEAN, todo : SUBSET Ops, sent : SUBSET Ops]
      OBVIOUS
    <3>3. QED
      BY <3>1, <3>2
  <2>4. QED
    BY <1>12, <2>1, <2>2, <2>3 DEF PublishFails
<1>13. CASE FlushRedis
  BY <1>13 DEF FlushRedis, Fault
<1>14. QED
  BY <1>1, <1>2, <1>3, <1>4, <1>5, <1>6, <1>7, <1>8, <1>9, <1>10, <1>11, <1>12, <1>13
     DEF Next

\* Every step keeps what cycles have sent, and what is dispatched, published.
LEMMA DeliveryKept ==
  ASSUME DeliveryInv, Next
  PROVE  SentIsPublished' /\ DispatchedMeansPublished'
<1> USE DEF DeliveryInv, TypeOK, Row, SentIsPublished, DispatchedMeansPublished
<1>1. ASSUME NEW o \in Ops, Approve(o) PROVE SentIsPublished' /\ DispatchedMeansPublished'
  BY <1>1 DEF Approve
<1>2. ASSUME NEW o \in Ops, TimePasses(o)
      PROVE SentIsPublished' /\ DispatchedMeansPublished'
  BY <1>2 DEF TimePasses
<1>3. ASSUME NEW o \in Ops, LeaseLost(o) PROVE SentIsPublished' /\ DispatchedMeansPublished'
  BY <1>3 DEF LeaseLost
<1>4. ASSUME NEW o \in Ops, Deliver(o) \/ JobFails(o) \/ DropKept(o) \/ Requeue(o)
      PROVE SentIsPublished' /\ DispatchedMeansPublished'
  BY <1>4 DEF Deliver, JobFails, DropKept, Requeue
<1>5. ASSUME NEW d \in Dispatchers, ClaimPendingOutbox(d)
      PROVE SentIsPublished' /\ DispatchedMeansPublished'
  BY <1>5 DEF ClaimPendingOutbox
<1>6. ASSUME NEW d \in Dispatchers, FinishCycle(d)
      PROVE SentIsPublished' /\ DispatchedMeansPublished'
  BY <1>6 DEF FinishCycle, MarkDispatched, Dispatched, Idle
<1>7. ASSUME NEW d \in Dispatchers, CycleDies(d)
      PROVE SentIsPublished' /\ DispatchedMeansPublished'
  BY <1>7 DEF CycleDies, Idle
<1>8. ASSUME NEW d \in Dispatchers, NEW o \in Ops, Publish(d, o)
      PROVE SentIsPublished' /\ DispatchedMeansPublished'
  BY <1>8 DEF Publish
<1>9. ASSUME NEW d \in Dispatchers, NEW o \in Ops, PublishFails(d, o)
      PROVE SentIsPublished' /\ DispatchedMeansPublished'
  BY <1>9 DEF PublishFails, Reschedule
<1>10. CASE FlushRedis
  BY <1>10 DEF FlushRedis
<1>11. QED
  BY <1>1, <1>2, <1>3, <1>4, <1>5, <1>6, <1>7, <1>8, <1>9, <1>10 DEF Next

\* The invariant holds in every reachable state.
THEOREM DeliveryInvariant == Spec => []DeliveryInv
<1>1. DeliveryInv /\ [Next]_vars => DeliveryInv'
  <2>1. SUFFICES ASSUME DeliveryInv, [Next]_vars PROVE DeliveryInv'
    OBVIOUS
  <2>2. CASE Next
    BY <2>1, <2>2, DeliveryTypes, DeliveryKept DEF DeliveryInv
  <2>3. CASE UNCHANGED vars
    BY <2>1, <2>3
       DEF vars, DeliveryInv, TypeOK, SentIsPublished, DispatchedMeansPublished, Row
  <2>4. QED
    BY <2>1, <2>2, <2>3
<1>2. QED
  BY DeliveryStart, <1>1, PTL DEF Spec

\* dispatchOnce and markOutboxDispatched: whatever leases are lost and cycles die, a
\* DISPATCHED row has been accepted by the queue.
THEOREM NothingMarkedUnpublished == Spec => []DispatchedMeansPublished
<1>1. DeliveryInv => DispatchedMeansPublished
  BY DEF DeliveryInv
<1>2. QED
  BY DeliveryInvariant, <1>1, PTL

\* Every variable of the outbox, the dispatchers and the queue keeps its kind.
THEOREM DeliveryTyped == Spec => []TypeOK
<1>1. DeliveryInv => TypeOK
  BY DEF DeliveryInv
<1>2. QED
  BY DeliveryInvariant, <1>1, PTL

-----------------------------------------------------------------------------
(* Nothing is queued before the approval *)

\* An operation that waits for its approval has no outbox row, so no dispatcher has
\* taken one up and the queue holds no job for it.  The last part alone is not
\* inductive: Publish looks only at what its cycle took up.
Unapproved(o) ==
  /\ row[o].status = "NONE"
  /\ outboxJob[o] = "absent" /\ sweepJob[o] = "absent"
  /\ \A d \in Dispatchers : o \notin cycle[d].todo

ApprovalComesFirst == \A o \in Ops : op[o] = "PENDING_APPROVAL" => Unapproved(o)

LEMMA ApprovalKept == ASSUME TypeOK, ApprovalComesFirst, Next PROVE ApprovalComesFirst'
<1> USE DEF TypeOK, Row, ApprovalComesFirst, Unapproved
<1>1. ASSUME NEW o \in Ops, Approve(o) PROVE ApprovalComesFirst'
  BY <1>1 DEF Approve
<1>2. ASSUME NEW o \in Ops, TimePasses(o) \/ LeaseLost(o) PROVE ApprovalComesFirst'
  BY <1>2 DEF TimePasses, LeaseLost
<1>3. ASSUME NEW o \in Ops, Deliver(o) PROVE ApprovalComesFirst'
  BY <1>3 DEF Deliver, ClaimOperation
<1>4. ASSUME NEW o \in Ops, JobFails(o) \/ DropKept(o) PROVE ApprovalComesFirst'
  BY <1>4 DEF JobFails, DropKept
<1>5. ASSUME NEW o \in Ops, Requeue(o) PROVE ApprovalComesFirst'
  BY <1>5 DEF Requeue
<1>6. ASSUME NEW d \in Dispatchers, ClaimPendingOutbox(d) PROVE ApprovalComesFirst'
  <2>1. PICK S \in SUBSET Candidates :
          /\ row' = [o \in Ops |->
                       IF o \in S THEN [status |-> "CLAIMED", holder |-> d, due |-> FALSE]
                       ELSE row[o]]
          /\ cycle' = [cycle EXCEPT ![d] = [busy |-> TRUE, todo |-> S, sent |-> {}]]
    BY <1>6 DEF ClaimPendingOutbox
  <2>2. \A o \in Ops : op[o] = "PENDING_APPROVAL" => o \notin S
    BY <2>1 DEF Candidates
  <2>3. QED
    BY <1>6, <2>1, <2>2 DEF ClaimPendingOutbox
<1>7. ASSUME NEW d \in Dispatchers, FinishCycle(d) PROVE ApprovalComesFirst'
  BY <1>7 DEF FinishCycle, MarkDispatched, Idle
<1>8. ASSUME NEW d \in Dispatchers, CycleDies(d) PROVE ApprovalComesFirst'
  BY <1>8 DEF CycleDies, Idle
<1>9. ASSUME NEW d \in Dispatchers, NEW o \in Ops, Publish(d, o) PROVE ApprovalComesFirst'
  BY <1>9 DEF Publish
<1>10. ASSUME NEW d \in Dispatchers, NEW o \in Ops, PublishFails(d, o)
       PROVE ApprovalComesFirst'
  BY <1>10 DEF PublishFails, Reschedule
<1>11. CASE FlushRedis
  BY <1>11 DEF FlushRedis
<1>12. QED
  BY <1>1, <1>2, <1>3, <1>4, <1>5, <1>6, <1>7, <1>8, <1>9, <1>10, <1>11 DEF Next

\* Before its approval has committed, an operation has no row to publish and no job.
THEOREM ApprovalFirst == Spec => []ApprovalComesFirst
<1>1. Init => ApprovalComesFirst
  BY DEF Init, ApprovalComesFirst, Unapproved, Idle
<1>2. TypeOK /\ ApprovalComesFirst /\ [Next]_vars => ApprovalComesFirst'
  BY ApprovalKept DEF ApprovalComesFirst, Unapproved, vars
<1>3. QED
  BY <1>1, <1>2, DeliveryTyped, PTL DEF Spec

\* recordDecision commits READY and the outbox row together, and the sweep only queues
\* READY operations: neither the dispatchers nor the sweep queue anything earlier.
THEOREM NothingQueuedBeforeApproval == Spec => []NoJobBeforeApproval
<1>1. ApprovalComesFirst => NoJobBeforeApproval
  BY DEF ApprovalComesFirst, Unapproved, NoJobBeforeApproval
<1>2. QED
  BY ApprovalFirst, <1>1, PTL

-----------------------------------------------------------------------------
(* A dispatched row stays dispatched *)

RowsStayDispatched ==
  \A o \in Ops : row[o].status = "DISPATCHED" => row'[o].status = "DISPATCHED"

LEMMA StepKeepsDispatched ==
  ASSUME TypeOK, ApprovalComesFirst, [Next]_vars PROVE RowsStayDispatched
<1> USE DEF TypeOK, Row, RowsStayDispatched
<1>1. ASSUME NEW o \in Ops, Approve(o) PROVE RowsStayDispatched
  BY <1>1 DEF Approve, ApprovalComesFirst, Unapproved
<1>2. ASSUME NEW o \in Ops, TimePasses(o) \/ LeaseLost(o) PROVE RowsStayDispatched
  BY <1>2 DEF TimePasses, LeaseLost
<1>3. ASSUME NEW d \in Dispatchers, ClaimPendingOutbox(d) PROVE RowsStayDispatched
  BY <1>3 DEF ClaimPendingOutbox, Candidates
<1>4. ASSUME NEW d \in Dispatchers, FinishCycle(d) PROVE RowsStayDispatched
  BY <1>4 DEF FinishCycle, MarkDispatched
<1>5. ASSUME NEW d \in Dispatchers, CycleDies(d) PROVE RowsStayDispatched
  BY <1>5 DEF CycleDies
<1>6. ASSUME NEW d \in Dispatchers, NEW o \in Ops, PublishFails(d, o) PROVE RowsStayDispatched
  BY <1>6 DEF PublishFails, Reschedule
<1>7. CASE UNCHANGED row
  BY <1>7
<1>8. QED
  BY <1>1, <1>2, <1>3, <1>4, <1>5, <1>6, <1>7
     DEF Next, vars, Deliver, JobFails, DropKept, Requeue, Publish, FlushRedis

\* rescheduleOutbox and markOutboxDispatched act only under the claim token of their
\* cycle: a dispatcher that lost its lease never takes back a completed row.
THEOREM DispatchedForGood == Spec => DispatchedIsFinal
<1>1. TypeOK /\ ApprovalComesFirst /\ [Next]_vars => [RowsStayDispatched]_vars
  BY StepKeepsDispatched
<1>2. QED
  BY <1>1, DeliveryTyped, ApprovalFirst, PTL DEF Spec, DispatchedIsFinal, RowsStayDispatched
=============================================================================
