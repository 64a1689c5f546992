------------------------------ MODULE Delivery ------------------------------
(***************************************************************************)
(* From an approved operation to the worker that claims it: the            *)
(* transactional outbox, the dispatchers that lease its rows and publish   *)
(* them, the BullMQ queue, the worker callback and the part of the recovery*)
(* sweep that queues a READY operation again.                              *)
(*                                                                         *)
(* Each operation has one outbox row.  Every db.transaction and every Redis*)
(* call is one step.  The clock is left open: a back-off and the lease of a*)
(* dead dispatcher end some time.  Faults are counted and bounded by       *)
(* MaxFaults, so that what is promised once they stop can be stated.       *)
(***************************************************************************)
EXTENDS FiniteSets, Integers

CONSTANTS Ops, Dispatchers, BatchSize, MaxFaults

\* A claim token whose dispatch cycle is over.
CONSTANT Dead

ASSUME DeliveryAssumption ==
  /\ BatchSize \in Nat \ {0}
  /\ MaxFaults \in Nat
  /\ Dead \notin Dispatchers

VARIABLES op,         \* state of each operation
          row,        \* its row of the outbox
          cycle,      \* the dispatch cycle of each dispatcher
          outboxJob,  \* the job outbox-<row id>
          sweepJob,   \* the newest job recovery-<operation id>-<time>
          published,  \* history: the queue has accepted the row's job
          faults

vars == <<op, row, cycle, outboxJob, sweepJob, published, faults>>

\* A job Redis does not know, one to be delivered, one that is completed or failed
\* and kept by the retention.
JobState == {"absent", "waiting", "kept"}

Row ==
  [status : {"NONE", "PENDING", "CLAIMED", "DISPATCHED"},
   holder : Dispatchers \cup {Dead},
   due    : BOOLEAN]     \* available_at, or claim_expires_at, has passed

Idle == [busy |-> FALSE, todo |-> {}, sent |-> {}]

TypeOK ==
  /\ op \in [Ops -> {"PENDING_APPROVAL", "READY", "PREPARING"}]
  /\ row \in [Ops -> Row]
  /\ cycle \in [Dispatchers -> [busy : BOOLEAN, todo : SUBSET Ops, sent : SUBSET Ops]]
  /\ outboxJob \in [Ops -> JobState]
  /\ sweepJob \in [Ops -> JobState]
  /\ published \subseteq Ops
  /\ faults \in 0..MaxFaults

Init ==
  /\ op = [o \in Ops |-> "PENDING_APPROVAL"]
  /\ row = [o \in Ops |-> [status |-> "NONE", holder |-> Dead, due |-> TRUE]]
  /\ cycle = [d \in Dispatchers |-> Idle]
  /\ outboxJob = [o \in Ops |-> "absent"]
  /\ sweepJob = [o \in Ops |-> "absent"]
  /\ published = {}
  /\ faults = 0

Fault == faults < MaxFaults /\ faults' = faults + 1

-----------------------------------------------------------------------------
(* The approval service *)

\* Mutant: the work item is queued with the first approval.
EnqueueEarly(o) ==
  /\ op[o] = "PENDING_APPROVAL"
  /\ op' = [op EXCEPT ![o] = IF row[o].status = "NONE" THEN @ ELSE "READY"]
  /\ row' = [row EXCEPT ![o].status = IF @ = "NONE" THEN "PENDING" ELSE @]
  /\ UNCHANGED <<cycle, outboxJob, sweepJob, published, faults>>

\* recordDecision: the move to READY and the outbox row commit together.
Approve(o) ==
  /\ op[o] = "PENDING_APPROVAL"
  /\ op' = [op EXCEPT ![o] = "READY"]
  /\ row' = [row EXCEPT ![o].status = "PENDING"]
  /\ UNCHANGED <<cycle, outboxJob, sweepJob, published, faults>>

-----------------------------------------------------------------------------
(* OutboxDispatcher and the outbox repository *)

\* Mutant: only rows that nobody has claimed are candidates.
PendingOnly == {o \in Ops : row[o].status = "PENDING" /\ row[o].due}

\* The rows a claim may take: pending and due, or claimed under an expired lease.
Candidates == {o \in Ops : row[o].status \in {"PENDING", "CLAIMED"} /\ row[o].due}

\* dispatchOnce: a dispatcher has one cycle at a time, with a fresh claim token.
ClaimPendingOutbox(d) ==
  /\ ~cycle[d].busy
  /\ \E S \in SUBSET Candidates \ {{}} :
       /\ S = Candidates \/ (Cardinality(S) = BatchSize)
       /\ Cardinality(S) <= BatchSize
       /\ row' = [o \in Ops |->
                    IF o \in S THEN [status |-> "CLAIMED", holder |-> d, due |-> FALSE]
                    ELSE row[o]]
       /\ cycle' = [cycle EXCEPT ![d] = [busy |-> TRUE, todo |-> S, sent |-> {}]]
  /\ UNCHANGED <<op, outboxJob, sweepJob, published, faults>>

\* The job id is derived from the row, so a job Redis still knows is not added again.
Publish(d, o) ==
  /\ o \in cycle[d].todo
  /\ outboxJob' = [outboxJob EXCEPT ![o] = IF @ = "absent" THEN "waiting" ELSE @]
  /\ published' = published \cup {o}
  /\ cycle' = [cycle EXCEPT ![d].todo = @ \ {o}, ![d].sent = @ \cup {o}]
  /\ UNCHANGED <<op, row, sweepJob, faults>>

\* Mutant: the row is given back whoever holds it by now.
RescheduleAnyway(d, o) ==
  row' = [row EXCEPT ![o] = [status |-> "PENDING", holder |-> Dead, due |-> FALSE]]

\* rescheduleOutbox: only under the claim token of this cycle.
Reschedule(d, o) ==
  row' = IF row[o].status = "CLAIMED" /\ row[o].holder = d
         THEN [row EXCEPT ![o] = [status |-> "PENDING", holder |-> Dead, due |-> FALSE]]
         ELSE row

\* Mutant: the error is swallowed and the row counted as published.
PublishErrorSwallowed(d, o) ==
  /\ Fault
  /\ o \in cycle[d].todo
  /\ cycle' = [cycle EXCEPT ![d].todo = @ \ {o}, ![d].sent = @ \cup {o}]
  /\ UNCHANGED <<op, row, outboxJob, sweepJob, published>>

\* The queue refuses the job; the loop goes on with the next row.
PublishFails(d, o) ==
  /\ Fault
  /\ o \in cycle[d].todo
  /\ Reschedule(d, o)
  /\ cycle' = [cycle EXCEPT ![d].todo = @ \ {o}]
  /\ UNCHANGED <<op, outboxJob, sweepJob, published>>

\* Mutant: the row takes the queue's word for a job that is done.
CompletedRow(r) == [status |-> "COMPLETED", holder |-> Dead, due |-> r.due]

Dispatched(r) == [status |-> "DISPATCHED", holder |-> Dead, due |-> r.due]

\* markOutboxDispatched: what was published, under the claim token of this cycle.
MarkDispatched(d) ==
  row' = [o \in Ops |->
            IF o \in cycle[d].sent /\ row[o].status = "CLAIMED" /\ row[o].holder = d
            THEN Dispatched(row[o]) ELSE row[o]]

FinishCycle(d) ==
  /\ cycle[d].busy
  /\ cycle[d].todo = {}
  /\ MarkDispatched(d)
  /\ cycle' = [cycle EXCEPT ![d] = Idle]
  /\ UNCHANGED <<op, outboxJob, sweepJob, published, faults>>

\* The process dies, or a statement of the cycle throws out of dispatchOnce.
CycleDies(d) ==
  /\ Fault
  /\ cycle[d].busy
  /\ cycle' = [cycle EXCEPT ![d] = Idle]
  /\ row' = [o \in Ops |-> IF row[o].holder = d THEN [row[o] EXCEPT !.holder = Dead]
                           ELSE row[o]]
  /\ UNCHANGED <<op, outboxJob, sweepJob, published>>

\* A back-off ends, or the lease of a cycle that is over.
TimePasses(o) ==
  /\ row[o].status \in {"PENDING", "CLAIMED"}
  /\ row[o].holder = Dead
  /\ ~row[o].due
  /\ row' = [row EXCEPT ![o].due = TRUE]
  /\ UNCHANGED <<op, cycle, outboxJob, sweepJob, published, faults>>

\* A cycle outlives its lease.
LeaseLost(o) ==
  /\ Fault
  /\ row[o].status = "CLAIMED"
  /\ row[o].holder # Dead
  /\ ~row[o].due
  /\ row' = [row EXCEPT ![o].due = TRUE]
  /\ UNCHANGED <<op, cycle, outboxJob, sweepJob, published>>

-----------------------------------------------------------------------------
(* The queue, its worker and the sweep *)

\* execute claims a READY operation and skips any other; the job is done either way.
ClaimOperation(o) ==
  op' = [op EXCEPT ![o] = IF @ = "READY" THEN "PREPARING" ELSE @]

Deliver(o) ==
  /\ \/ /\ outboxJob[o] = "waiting"
        /\ outboxJob' = [outboxJob EXCEPT ![o] = "kept"]
        /\ UNCHANGED sweepJob
     \/ /\ sweepJob[o] = "waiting"
        /\ sweepJob' = [sweepJob EXCEPT ![o] = "kept"]
        /\ UNCHANGED outboxJob
  /\ ClaimOperation(o)
  /\ UNCHANGED <<row, cycle, published, faults>>

\* All attempts of a job throw before the claim commits.
JobFails(o) ==
  /\ Fault
  /\ \/ /\ outboxJob[o] = "waiting"
        /\ outboxJob' = [outboxJob EXCEPT ![o] = "kept"]
        /\ UNCHANGED sweepJob
     \/ /\ sweepJob[o] = "waiting"
        /\ sweepJob' = [sweepJob EXCEPT ![o] = "kept"]
        /\ UNCHANGED outboxJob
  /\ UNCHANGED <<op, row, cycle, published>>

\* The retention removes a job that is done.
DropKept(o) ==
  /\ outboxJob[o] = "kept"
  /\ outboxJob' = [outboxJob EXCEPT ![o] = "absent"]
  /\ UNCHANGED <<op, row, cycle, sweepJob, published, faults>>

\* Redis loses all it holds.
FlushRedis ==
  /\ Fault
  /\ \E o \in Ops : outboxJob[o] # "absent" \/ sweepJob[o] # "absent"
  /\ outboxJob' = [o \in Ops |-> "absent"]
  /\ sweepJob' = [o \in Ops |-> "absent"]
  /\ UNCHANGED <<op, row, cycle, published>>

\* Mutant: the job id has no time stamp, so a job that is kept hides the new one.
RequeueUnderFixedId(o) ==
  /\ op[o] = "READY"
  /\ sweepJob' = [sweepJob EXCEPT ![o] = IF @ = "absent" THEN "waiting" ELSE @]
  /\ UNCHANGED <<op, row, cycle, outboxJob, published, faults>>

\* recoverOne on a stale READY operation.
Requeue(o) ==
  /\ op[o] = "READY"
  /\ sweepJob' = [sweepJob EXCEPT ![o] = "waiting"]
  /\ UNCHANGED <<op, row, cycle, outboxJob, published, faults>>

-----------------------------------------------------------------------------
Next ==
  \/ \E o \in Ops : Approve(o) \/ TimePasses(o) \/ LeaseLost(o) \/ Deliver(o)
                    \/ JobFails(o) \/ DropKept(o) \/ Requeue(o)
  \/ \E d \in Dispatchers : ClaimPendingOutbox(d) \/ FinishCycle(d) \/ CycleDies(d)
  \/ \E d \in Dispatchers, o \in Ops : Publish(d, o) \/ PublishFails(d, o)
  \/ FlushRedis

\* The dispatchers poll on a timer, the worker takes what the queue holds, the sweep
\* runs on an interval, and clocks move.  Nothing is assumed of the approvers.
Fairness ==
  /\ \A d \in Dispatchers :
       /\ WF_vars(ClaimPendingOutbox(d))
       /\ WF_vars(FinishCycle(d))
       /\ WF_vars(\E o \in Ops : Publish(d, o))
  /\ \A o \in Ops : WF_vars(TimePasses(o)) /\ WF_vars(Deliver(o)) /\ WF_vars(Requeue(o))

Spec == Init /\ [][Next]_vars /\ Fairness

-----------------------------------------------------------------------------
(* Properties *)

\* A row is marked dispatched only after the queue has accepted its job, whichever
\* dispatcher marks it and however often its lease changed hands.
DispatchedMeansPublished == \A o \in Ops : row[o].status = "DISPATCHED" => o \in published

\* A dispatcher that lost its lease never takes back a row another one completed.
DispatchedIsFinal ==
  [][\A o \in Ops : row[o].status = "DISPATCHED" => row'[o].status = "DISPATCHED"]_vars

\* A job exists only for an operation whose approval has committed.
NoJobBeforeApproval ==
  \A o \in Ops : outboxJob[o] # "absent" \/ sweepJob[o] # "absent"
                   => op[o] # "PENDING_APPROVAL"

\* "A dispatcher that dies mid-cycle strands nothing": every committed row is
\* dispatched in the end.
RowsAreDispatched ==
  \A o \in Ops : row[o].status = "PENDING" ~> row[o].status = "DISPATCHED"

\* Every READY operation is claimed in the end, also when Redis is wiped after its
\* row was dispatched or its job has used up its attempts.
ReadyIsClaimed == \A o \in Ops : op[o] = "READY" ~> op[o] = "PREPARING"
=============================================================================
