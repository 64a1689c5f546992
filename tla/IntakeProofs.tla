---------------------------- MODULE IntakeProofs ----------------------------
(***************************************************************************)
(* For any number of requests, keys, users and operations: the types of the*)
(* intake, the two-person rule, and what an idempotency key guarantees.    *)
(***************************************************************************)
EXTENDS Intake, TLAPS

\* A request at work has a key and a body.
WorkHasKey ==
  \A r \in Requests : http[r].pc # "idle" => http[r].key \in Keys /\ http[r].body \in Bodies

\* A key named by a request at work has its row.
WorkHasRow ==
  \A r \in Requests : http[r].pc # "idle" => idem[http[r].key] # NoKey

\* Two requests are never at work on one key.
OneOwner ==
  \A r, q \in Requests :
    http[r].pc # "idle" /\ http[q].pc # "idle" /\ http[r].key = http[q].key => r = q

\* The persons who decided on d do not include its requester.
Impartial(d) == d.key.actor \notin d.approve \cup d.reject

\* What a READY operation has behind it.
Carried(d) == d.state = "READY" => Cardinality(d.approve) >= Required /\ d.reject = {}

ApprovalInv == \A o \in DOMAIN ops : Impartial(ops[o]) /\ Carried(ops[o])

\* The inductive invariant.  The rule counts the approvers without the requester; it
\* is inductive only with the fact that the requester never is among them.
IntakeInv == TypeOK /\ WorkHasKey /\ WorkHasRow /\ OneOwner /\ ApprovalInv

\* What a decision makes of an operation that is waiting.
LEMMA DecisionOK ==
  ASSUME NEW d \in Operation, NEW u \in Users, d.state = "PENDING_APPROVAL",
         Impartial(d), u # d.key.actor, NEW e \in Operation,
         \/ e = [d EXCEPT !.approve = @ \cup {u}]
         \/ e = [d EXCEPT !.reject = @ \cup {u}]
  PROVE  Outcome(e) \in Operation /\ Impartial(Outcome(e)) /\ Carried(Outcome(e))
<1> DEFINE f == Outcome(e)
<1>1. Tally(e) \in {"PENDING", "APPROVED", "REJECTED"}
  BY DEF Tally
<1>2. StateAfter[Tally(e)] \in {"PENDING_APPROVAL", "READY", "CANCELLED"}
  BY <1>1 DEF StateAfter
<1>3. f \in Operation /\ f.key = e.key /\ f.approve = e.approve /\ f.reject = e.reject
      /\ f.state = StateAfter[Tally(e)]
  BY <1>1, <1>2 DEF Outcome, Operation
<1>4. Impartial(f)
  BY <1>3 DEF Impartial, Operation
<1>5. f.state = "READY" => Tally(e) = "APPROVED"
  BY <1>1, <1>3 DEF StateAfter
<1>6. Carried(f)
  BY <1>3, <1>5 DEF Carried, Tally
<1>7. QED
  BY <1>3, <1>4, <1>6

\* What a decision makes of the operations.
LEMMA DecisionStep ==
  ASSUME TypeOK, ApprovalInv, NEW o \in DOMAIN ops, NEW u \in Users,
         NEW kind \in {"APPROVE", "REJECT"}, RecordDecision(o, u, kind)
  PROVE  /\ ops' \in Seq(Operation)
         /\ Len(ops') = Len(ops)
         /\ DOMAIN ops' = DOMAIN ops
         /\ \A p \in DOMAIN ops : Impartial(ops'[p]) /\ Carried(ops'[p])
<1> DEFINE d == ops[o]
           e == WithDecision(d, u, kind)
<1>1. d \in Operation /\ Impartial(d)
  BY DEF TypeOK, ApprovalInv
<1>2. e \in Operation
  BY <1>1 DEF Operation, WithDecision
<1>3. Outcome(e) \in Operation /\ Impartial(Outcome(e)) /\ Carried(Outcome(e))
  <2>1. d.state = "PENDING_APPROVAL" /\ u # d.key.actor
    BY DEF RecordDecision, MayDecide
  <2>2. QED
    BY <1>1, <1>2, <2>1, DecisionOK DEF WithDecision
<1>4. ops' = [ops EXCEPT ![o] = Outcome(e)]
  BY DEF RecordDecision
<1> HIDE DEF e
<1>5. QED
  BY <1>3, <1>4 DEF TypeOK, ApprovalInv

\* A new operation has no decisions yet.
LEMMA NewOperationOK ==
  ASSUME TypeOK, NEW k \in Keys, NEW b \in Bodies
  PROVE  /\ NewOperation(k, b) \in Operation
         /\ Impartial(NewOperation(k, b))
         /\ Carried(NewOperation(k, b))
BY DEF TypeOK, NewOperation, Operation, Impartial, Carried

\* The initial states are as IntakeInv says.
LEMMA IntakeStart == Init => IntakeInv
BY IntakeAssumption
   DEF Init, IntakeInv, TypeOK, WorkHasKey, WorkHasRow, OneOwner, ApprovalInv, Quiet, None

\* Every step preserves the types and the bookkeeping of the keys.
LEMMA IntakeTypes ==
  ASSUME IntakeInv, Next
  PROVE  TypeOK' /\ WorkHasKey' /\ WorkHasRow' /\ OneOwner'
<1> DEFINE Goal == TypeOK /\ WorkHasKey /\ WorkHasRow /\ OneOwner
<1> USE IntakeAssumption, NoKeyAssumption
    DEF IntakeInv, TypeOK, WorkHasKey, WorkHasRow, OneOwner, None
<1>1. ASSUME NEW r \in Requests, NEW k \in Keys, NEW b \in Bodies, ClaimKey(r, k, b)
      PROVE Goal'
  <2>1. Claimed(b) \in Row /\ Claimed(b) # NoKey
    BY DEF Claimed, Row
  <2>2. QED
    BY <1>1, <2>1 DEF ClaimKey, Asked
<1>2. ASSUME NEW r \in Requests, NEW k \in Keys, NEW b \in Bodies, Replay(r, k, b)
      PROVE Goal'
  <2>1. idem[k].op \in 0..MaxOps
    BY <1>2 DEF Replay, Row
  <2>2. QED
    BY <1>2, <2>1 DEF Replay, Asked
<1>3. ASSUME NEW r \in Requests, Work(r) PROVE Goal'
  <2> DEFINE k == http[r].key
  <2>1. k \in Keys /\ http[r].body \in Bodies /\ idem[k] \in Row
    BY <1>3 DEF Work
  <2>2. ops' \in Seq(Operation) /\ Len(ops') = Len(ops) + 1 /\ Len(ops') <= MaxOps
    BY <1>3, <2>1, NewOperationOK DEF Work, CommitWork
  <2>2a. Len(ops) + 1 \in 0..MaxOps
    BY <1>3 DEF Work
  <2>3. idem' \in [Keys -> Row \cup {NoKey}] /\ \A j \in Keys : idem[j] # NoKey => idem'[j] # NoKey
    <3>1. [idem[k] EXCEPT !.status = "COMPLETED", !.op = Len(ops) + 1] \in Row
      BY <2>1, <2>2a DEF Row
    <3>2. idem' = [idem EXCEPT ![k] = [idem[k] EXCEPT !.status = "COMPLETED", !.op = Len(ops) + 1]]
      BY <1>3 DEF Work, CommitWork
    <3>3. QED
      BY <2>1, <3>1, <3>2
  <2>4. CASE http' = [http EXCEPT ![r].pc = "idle", ![r].answer = Len(ops) + 1]
              /\ UNCHANGED ackLost
    <3>1. http' \in [Requests -> [pc : {"idle", "work", "release"}, key : Keys \cup {NoKey},
                                  body : Bodies \cup {NoKey}, answer : 0..MaxOps]]
      <4>1. http' = [http EXCEPT ![r] = [http[r] EXCEPT !.pc = "idle", !.answer = Len(ops) + 1]]
        BY <2>4
      <4>2. http[r] \in [pc : {"idle", "work", "release"}, key : Keys \cup {NoKey},
                         body : Bodies \cup {NoKey}, answer : 0..MaxOps]
        OBVIOUS
      <4>3. QED
        BY <2>2a, <4>1, <4>2
    <3>2. /\ \A q \in Requests : http'[q].pc # "idle" => http'[q] = http[q]
          /\ UNCHANGED version
      BY <1>3, <2>4 DEF Work
    <3>3. TypeOK' /\ WorkHasKey'
      BY <2>2, <2>3, <2>4, <3>1, <3>2
    <3>4. WorkHasRow' /\ OneOwner'
      BY <2>3, <3>2
    <3>5. QED
      BY <3>3, <3>4
  <2>5. CASE http' = [http EXCEPT ![r].pc = "release"] /\ ackLost' = ackLost \cup {k}
    <3>1. http[r].pc = "work" /\ version' = version
      BY <1>3 DEF Work
    <3>2. \A q \in Requests : /\ http'[q].key = http[q].key /\ http'[q].body = http[q].body
                              /\ http'[q].answer = http[q].answer
                              /\ (http'[q].pc # "idle" <=> http[q].pc # "idle")
      BY <2>5, <3>1
    <3>3. http' \in [Requests -> [pc : {"idle", "work", "release"}, key : Keys \cup {NoKey},
                                  body : Bodies \cup {NoKey}, answer : 0..MaxOps]]
      <4>1. http' = [http EXCEPT ![r] = [http[r] EXCEPT !.pc = "release"]]
        BY <2>5
      <4>2. http[r] \in [pc : {"idle", "work", "release"}, key : Keys \cup {NoKey},
                         body : Bodies \cup {NoKey}, answer : 0..MaxOps]
        OBVIOUS
      <4>3. QED
        BY <4>1, <4>2
    <3>4. TypeOK'
      BY <2>1, <2>2, <2>3, <2>5, <3>1, <3>3
    <3>5. WorkHasKey' /\ WorkHasRow' /\ OneOwner'
      BY <2>3, <3>1, <3>2, <3>3
    <3>6. QED
      BY <3>4, <3>5
  <2>6. QED
    BY <1>3, <2>4, <2>5 DEF Work
<1>4. ASSUME NEW r \in Requests, WorkThrows(r) PROVE Goal'
  BY <1>4 DEF WorkThrows
<1>5. ASSUME NEW r \in Requests, Release(r) PROVE Goal'
  <2>1. http' = [http EXCEPT ![r] = Quiet] /\ UNCHANGED <<ops, version, ackLost>>
    BY <1>5 DEF Release
  <2>2. TypeOK'
    BY <1>5, <2>1 DEF Release, Quiet
  <2>3. \A q \in Requests : http'[q].pc # "idle" => q # r /\ http'[q] = http[q]
    BY <2>1 DEF Quiet
  <2>4. \A q \in Requests : http'[q].pc # "idle" => idem'[http[q].key] = idem[http[q].key]
    BY <1>5, <2>3 DEF Release
  <2>5. WorkHasKey' /\ OneOwner'
    BY <2>3
  <2>6. WorkHasRow'
    BY <2>3, <2>4
  <2>7. QED
    BY <2>2, <2>5, <2>6
<1>6. ASSUME NEW r \in Requests, Crash(r) PROVE Goal'
  BY <1>6 DEF Crash, Quiet
<1>7. ASSUME NEW o \in DOMAIN ops, NEW u \in Users, NEW kind \in {"APPROVE", "REJECT"},
             RecordDecision(o, u, kind)
      PROVE Goal'
  <2>1. ops' \in Seq(Operation) /\ Len(ops') = Len(ops)
    BY <1>7, DecisionStep DEF ApprovalInv
  <2>2. QED
    BY <1>7, <2>1 DEF RecordDecision
<1>8. CASE Redefine
  BY <1>8 DEF Redefine
<1>9. QED
  BY <1>1, <1>2, <1>3, <1>4, <1>5, <1>6, <1>7, <1>8 DEF Next

\* Every step keeps decisions impartial and READY operations carried.
LEMMA ApprovalsKept == ASSUME IntakeInv, Next PROVE ApprovalInv'
<1> USE DEF IntakeInv
<1>1. ASSUME NEW r \in Requests, Work(r) PROVE ApprovalInv'
  <2> DEFINE n == NewOperation(http[r].key, http[r].body)
  <2>1. http[r].key \in Keys /\ http[r].body \in Bodies
    BY <1>1 DEF Work, WorkHasKey
  <2>2. n \in Operation /\ Impartial(n) /\ Carried(n)
    BY <2>1, NewOperationOK
  <2>3. ops' = Append(ops, n) /\ ops \in Seq(Operation)
    BY <1>1 DEF Work, CommitWork, TypeOK
  <2>4. \A o \in DOMAIN ops' : ops'[o] = n \/ (o \in DOMAIN ops /\ ops'[o] = ops[o])
    BY <2>2, <2>3
  <2>5. QED
    BY <2>2, <2>4 DEF ApprovalInv
<1>2. ASSUME NEW o \in DOMAIN ops, NEW u \in Users, NEW kind \in {"APPROVE", "REJECT"},
             RecordDecision(o, u, kind)
      PROVE ApprovalInv'
  BY <1>2, DecisionStep DEF ApprovalInv, TypeOK
<1>3. CASE UNCHANGED ops
  BY <1>3 DEF ApprovalInv
<1>4. QED
  BY <1>1, <1>2, <1>3
     DEF Next, ClaimKey, Replay, WorkThrows, Release, Crash, Redefine

\* The invariant holds in every reachable state.
THEOREM IntakeInvariant == Spec => []IntakeInv
<1>1. IntakeInv /\ [Next]_vars => IntakeInv'
  <2>1. SUFFICES ASSUME IntakeInv, [Next]_vars PROVE IntakeInv'
    OBVIOUS
  <2>2. CASE Next
    BY <2>1, <2>2, IntakeTypes, ApprovalsKept DEF IntakeInv
  <2>3. CASE UNCHANGED vars
    BY <2>1, <2>3
       DEF vars, IntakeInv, TypeOK, WorkHasKey, WorkHasRow, OneOwner, ApprovalInv
  <2>4. QED
    BY <2>1, <2>2, <2>3
<1>2. QED
  BY IntakeStart, <1>1, PTL DEF Spec

\* recordDecision: for every number of users and every threshold, an operation is READY
\* only with enough approvals of persons other than its requester and none against.
THEOREM TwoPersons == Spec => []TwoPersonRule
<1>1. IntakeInv => TwoPersonRule
  <2>1. SUFFICES ASSUME IntakeInv, NEW o \in DOMAIN ops, ops[o].state = "READY"
                 PROVE /\ Cardinality(ops[o].approve \ {ops[o].key.actor}) >= Required
                       /\ ops[o].reject = {}
    BY DEF TwoPersonRule
  <2>2. Impartial(ops[o]) /\ Carried(ops[o])
    BY <2>1 DEF IntakeInv, ApprovalInv
  <2>3. ops[o].approve \ {ops[o].key.actor} = ops[o].approve
    BY <2>2 DEF Impartial
  <2>4. QED
    BY <2>1, <2>2, <2>3 DEF Carried
<1>2. QED
  BY IntakeInvariant, <1>1, PTL

\* Every variable of the requests, the keys and the operations keeps its kind.
THEOREM IntakeTyped == Spec => []TypeOK
<1>1. IntakeInv => TypeOK
  BY DEF IntakeInv
<1>2. QED
  BY IntakeInvariant, <1>1, PTL

-----------------------------------------------------------------------------
(* What an idempotency key guarantees *)

\* A request at work holds the row it inserted, still open and for its own body; one
\* that is about to delete the row has stored nothing in it, unless a commit was
\* reported as failed.
HoldsOpenRow ==
  \A r \in Requests :
    /\ http[r].pc = "work" => /\ idem[http[r].key].status = "IN_PROGRESS"
                              /\ idem[http[r].key].body = http[r].body
    /\ http[r].pc = "release" => \/ idem[http[r].key].status = "IN_PROGRESS"
                                 \/ http[r].key \in ackLost

\* A stored answer names an operation of its key and body.
StoredIsTrue ==
  \A k \in Keys : idem[k] # NoKey /\ idem[k].status = "COMPLETED" =>
    /\ idem[k].op \in DOMAIN ops
    /\ ops[idem[k].op].key = k
    /\ ops[idem[k].op].body = idem[k].body

\* The answer that names an operation is stored, and closed.
Recorded ==
  \A o \in DOMAIN ops : ops[o].key \notin ackLost =>
    /\ idem[ops[o].key] # NoKey
    /\ idem[ops[o].key].status = "COMPLETED"
    /\ idem[ops[o].key].op = o
    /\ idem[ops[o].key].body = ops[o].body

\* What a caller was told exists, and is what it asked for.
Answered ==
  \A r \in Requests : http[r].answer # None =>
    /\ http[r].answer \in DOMAIN ops
    /\ ops[http[r].answer].key = http[r].key
    /\ ops[http[r].answer].body = http[r].body

KeyInv == HoldsOpenRow /\ StoredIsTrue /\ Recorded /\ Answered

\* No step removes an operation or changes what it was asked for.
LEMMA OperationsKept ==
  ASSUME IntakeInv, Next
  PROVE  \A o \in DOMAIN ops : /\ o \in DOMAIN ops'
                               /\ ops'[o].key = ops[o].key
                               /\ ops'[o].body = ops[o].body
<1> DEFINE Kept == \A o \in DOMAIN ops : /\ o \in DOMAIN ops'
                                         /\ ops'[o].key = ops[o].key
                                         /\ ops'[o].body = ops[o].body
<1>1. ASSUME NEW r \in Requests, Work(r) PROVE Kept
  <2>1. NewOperation(http[r].key, http[r].body) \in Operation
    BY <1>1, NewOperationOK DEF Work, IntakeInv, WorkHasKey
  <2>2. QED
    BY <1>1, <2>1 DEF Work, CommitWork, IntakeInv, TypeOK
<1>2. ASSUME NEW o \in DOMAIN ops, NEW u \in Users, NEW kind \in {"APPROVE", "REJECT"},
             RecordDecision(o, u, kind)
      PROVE Kept
  <2>1. ops[o] \in Operation /\ ops' = [ops EXCEPT ![o] = Outcome(WithDecision(ops[o], u, kind))]
    BY <1>2 DEF IntakeInv, TypeOK, RecordDecision
  <2>2. /\ Outcome(WithDecision(ops[o], u, kind)).key = ops[o].key
        /\ Outcome(WithDecision(ops[o], u, kind)).body = ops[o].body
    BY <2>1 DEF Outcome, WithDecision, Operation
  <2>3. QED
    BY <2>1, <2>2 DEF IntakeInv, TypeOK
<1>3. CASE UNCHANGED ops
  BY <1>3
<1>4. QED
  BY <1>1, <1>2, <1>3 DEF Next, ClaimKey, Replay, WorkThrows, Release, Crash, Redefine

LEMMA OperationsHaveKeys == ASSUME TypeOK PROVE \A o \in DOMAIN ops : ops[o].key \in Keys
<1>1. \A o \in DOMAIN ops : ops[o] \in Operation
  BY DEF TypeOK
<1>2. QED
  BY <1>1 DEF Operation

LEMMA KeysKept == ASSUME IntakeInv, KeyInv, Next PROVE KeyInv'
<1> DEFINE Kept == \A o \in DOMAIN ops : /\ o \in DOMAIN ops'
                                         /\ ops'[o].key = ops[o].key
                                         /\ ops'[o].body = ops[o].body
<1>0. Kept
  BY OperationsKept
<1> USE IntakeAssumption, NoKeyAssumption
    DEF KeyInv, HoldsOpenRow, StoredIsTrue, Recorded, Answered, None
<1>1. ASSUME NEW r \in Requests, NEW k \in Keys, NEW b \in Bodies, ClaimKey(r, k, b)
      PROVE KeyInv'
  <2>1. /\ idem[k] = NoKey /\ ops' = ops /\ ackLost' = ackLost
        /\ idem' = [idem EXCEPT ![k] = Claimed(b)]
        /\ http' = [http EXCEPT ![r] = Asked(k, b, "work", 0)]
    BY <1>1 DEF ClaimKey
  <2>2. \A q \in Requests : q # r /\ http[q].pc # "idle" => http[q].key # k
    BY <2>1 DEF IntakeInv, WorkHasRow
  <2>3. idem'[k] = [status |-> "IN_PROGRESS", body |-> b, op |-> 0]
        /\ \A j \in Keys : j # k => idem'[j] = idem[j]
    BY <2>1 DEF IntakeInv, TypeOK, Claimed
  <2>4. http'[r] = [pc |-> "work", key |-> k, body |-> b, answer |-> 0]
        /\ \A q \in Requests : q # r => http'[q] = http[q]
    BY <2>1 DEF IntakeInv, TypeOK, Asked
  <2>5. HoldsOpenRow'
    BY <2>1, <2>2, <2>3, <2>4 DEF IntakeInv, WorkHasKey
  <2>6. StoredIsTrue'
    BY <2>1, <2>3
  <2>7. Recorded'
    <3>1. \A o \in DOMAIN ops : ops[o].key \in Keys
      BY OperationsHaveKeys DEF IntakeInv
    <3>2. QED
      BY <2>1, <2>3, <3>1
  <2>8. Answered'
    BY <2>1, <2>4
  <2>9. QED
    BY <2>5, <2>6, <2>7, <2>8
<1>2. ASSUME NEW r \in Requests, NEW k \in Keys, NEW b \in Bodies, Replay(r, k, b)
      PROVE KeyInv'
  <2>1. http'[r] = [pc |-> "idle", key |-> k, body |-> b, answer |-> idem[k].op]
        /\ \A q \in Requests : q # r => http'[q] = http[q]
    BY <1>2 DEF Replay, IntakeInv, TypeOK, Asked
  <2>2. QED
    BY <1>2, <2>1 DEF Replay
<1>3. ASSUME NEW r \in Requests, Work(r) PROVE KeyInv'
  <2> DEFINE k == http[r].key
             b == http[r].body
             n == Len(ops) + 1
  <2>1. k \in Keys /\ b \in Bodies /\ idem[k] \in Row /\ Len(ops) \in Nat
    BY <1>3 DEF Work, IntakeInv, WorkHasKey, WorkHasRow, TypeOK
  <2>2. /\ idem'[k] # NoKey /\ idem'[k].status = "COMPLETED"
        /\ idem'[k].body = b /\ idem'[k].op = n
        /\ \A j \in Keys : j # k => idem'[j] = idem[j]
    <3> DEFINE row == [idem[k] EXCEPT !.status = "COMPLETED", !.op = n]
    <3>1. idem[k].body = b /\ n \in 0..MaxOps
      BY <1>3, <2>1 DEF Work
    <3>2. row \in Row /\ row.status = "COMPLETED" /\ row.body = b /\ row.op = n
      BY <2>1, <3>1 DEF Row
    <3>3. idem'[k] = row /\ \A j \in Keys : j # k => idem'[j] = idem[j]
      <4>1. idem' = [idem EXCEPT ![k].status = "COMPLETED", ![k].op = n]
        BY <1>3 DEF Work, CommitWork
      <4>2. DOMAIN idem = Keys
        BY DEF IntakeInv, TypeOK
      <4>3. QED
        BY <2>1, <4>1, <4>2
    <3> HIDE DEF row
    <3>4. row # NoKey
      BY <3>2, NoKeyAssumption
    <3>5. QED
      BY <3>2, <3>3, <3>4
  <2>3. NewOperation(k, b) \in Operation
    BY <2>1, NewOperationOK DEF IntakeInv
  <2>4. DOMAIN ops' = DOMAIN ops \cup {n} /\ n \notin DOMAIN ops
        /\ ops'[n].key = k /\ ops'[n].body = b
    <3>1. ops' = Append(ops, NewOperation(k, b)) /\ ops \in Seq(Operation)
      BY <1>3 DEF Work, CommitWork, IntakeInv, TypeOK
    <3>2. DOMAIN ops' = 1..n /\ DOMAIN ops = 1..Len(ops) /\ ops'[n] = NewOperation(k, b)
      BY <2>1, <2>3, <3>1
    <3>3. QED
      BY <2>1, <3>2 DEF NewOperation
  <2>5. \A q \in Requests : q # r /\ http[q].pc # "idle" => http[q].key \in Keys \ {k}
    BY <1>3 DEF Work, IntakeInv, OneOwner, WorkHasKey
  <2>6. \A q \in Requests : q # r => http'[q] = http[q]
    BY <1>3 DEF Work, IntakeInv, TypeOK
  <2>7. /\ http'[r].key = k /\ http'[r].body = b
        /\ \/ http'[r].pc = "idle" /\ http'[r].answer = n /\ ackLost' = ackLost
           \/ /\ http'[r].pc = "release" /\ http'[r].answer = http[r].answer
              /\ ackLost' = ackLost \cup {k}
    BY <1>3 DEF Work, IntakeInv, TypeOK
  <2> HIDE DEF n
  <2>8. HoldsOpenRow'
    BY <2>2, <2>5, <2>6, <2>7
  <2>9. StoredIsTrue'
    BY <1>0, <2>2, <2>4
  <2>10. Recorded'
    <3>1. ASSUME NEW o \in DOMAIN ops, ops[o].key \notin ackLost' PROVE ops[o].key # k
      BY <1>3, <2>7, <3>1 DEF Work
    <3>2. \A o \in DOMAIN ops : ops[o].key \in Keys
      BY OperationsHaveKeys DEF IntakeInv
    <3>3. ackLost \subseteq ackLost'
      BY <2>7
    <3>4. QED
      BY <1>0, <2>2, <2>4, <3>1, <3>2, <3>3
  <2>11. Answered'
    BY <1>0, <2>4, <2>6, <2>7
  <2>12. QED
    BY <2>8, <2>9, <2>10, <2>11
<1>4. ASSUME NEW r \in Requests, WorkThrows(r) PROVE KeyInv'
  <2>1. /\ UNCHANGED <<idem, ops, ackLost>> /\ http[r].pc = "work"
        /\ http' = [http EXCEPT ![r].pc = "release"]
    BY <1>4 DEF WorkThrows
  <2>2. /\ \A q \in Requests : q # r => http'[q] = http[q]
        /\ http'[r].pc = "release" /\ http'[r].key = http[r].key
        /\ http'[r].body = http[r].body /\ http'[r].answer = http[r].answer
    BY <2>1 DEF IntakeInv, TypeOK
  <2>3. HoldsOpenRow'
    BY <2>1, <2>2
  <2>4. QED
    BY <2>1, <2>2, <2>3
<1>5. ASSUME NEW r \in Requests, Release(r) PROVE KeyInv'
  <2> DEFINE k == http[r].key
  <2>1. /\ ops' = ops /\ ackLost' = ackLost /\ http'[r] = Quiet
        /\ k \in Keys /\ http[r].pc = "release"
        /\ \A q \in Requests : q # r => http'[q] = http[q]
        /\ \A j \in Keys : j # k => idem'[j] = idem[j]
        /\ idem'[k] \in {idem[k], NoKey}
    BY <1>5 DEF Release, IntakeInv, TypeOK, WorkHasKey
  <2>2. \A q \in Requests : q # r /\ http[q].pc # "idle" => http[q].key \in Keys \ {k}
    BY <2>1 DEF IntakeInv, OneOwner, WorkHasKey
  <2>3. HoldsOpenRow'
    BY <2>1, <2>2 DEF Quiet
  <2>4. StoredIsTrue' /\ Answered'
    BY <2>1 DEF Quiet
  <2>5. Recorded'
    <3>1. \A o \in DOMAIN ops : ops[o].key \in Keys
      BY OperationsHaveKeys DEF IntakeInv
    <3>2. \A o \in DOMAIN ops : ops[o].key \notin ackLost => ops[o].key # k
      BY <2>1
    <3>3. QED
      BY <2>1, <3>1, <3>2
  <2>6. QED
    BY <2>3, <2>4, <2>5
<1>6. ASSUME NEW r \in Requests, Crash(r) PROVE KeyInv'
  <2>1. /\ UNCHANGED <<idem, ops, ackLost>> /\ http'[r] = Quiet
        /\ \A q \in Requests : q # r => http'[q] = http[q]
    BY <1>6 DEF Crash, IntakeInv, TypeOK
  <2>2. QED
    BY <2>1 DEF Quiet
<1>7. ASSUME NEW o \in DOMAIN ops, NEW u \in Users, NEW kind \in {"APPROVE", "REJECT"},
             RecordDecision(o, u, kind)
      PROVE KeyInv'
  <2>1. DOMAIN ops' = DOMAIN ops /\ UNCHANGED <<http, idem, ackLost>>
    BY <1>7, DecisionStep DEF IntakeInv, RecordDecision
  <2>2. QED
    BY <1>0, <2>1
<1>8. CASE Redefine
  BY <1>8 DEF Redefine
<1> HIDE DEF KeyInv, HoldsOpenRow, StoredIsTrue, Recorded, Answered
<1>9. QED
  BY <1>1, <1>2, <1>3, <1>4, <1>5, <1>6, <1>7, <1>8 DEF Next

\* KeyInv holds in every state: retries, crashes, roll-backs and releases keep the row of a
\* key, its operation and the answers in agreement.
THEOREM KeyInvariant == Spec => []KeyInv
<1>1. Init => KeyInv
  BY DEF Init, KeyInv, HoldsOpenRow, StoredIsTrue, Recorded, Answered, Quiet, None
<1>2. IntakeInv /\ KeyInv /\ [Next]_vars => KeyInv'
  <2>1. SUFFICES ASSUME IntakeInv, KeyInv, [Next]_vars PROVE KeyInv'
    OBVIOUS
  <2>2. CASE UNCHANGED vars
    BY <2>1, <2>2 DEF vars, KeyInv, HoldsOpenRow, StoredIsTrue, Recorded, Answered
  <2>3. QED
    BY <2>1, <2>2, KeysKept
<1>3. QED
  BY <1>1, <1>2, IntakeInvariant, PTL DEF Spec

\* IdempotencyService.execute commits the operation and its answer in one transaction:
\* there is no operation without the stored answer that names it.
THEOREM OperationsAreRecorded == Spec => []ResultIsStored
<1>1. KeyInv => ResultIsStored
  BY DEF KeyInv, Recorded, ResultIsStored
<1>2. QED
  BY KeyInvariant, <1>1, PTL

\* However many requests race with one key, crash, roll back and are retried, it stands
\* for at most one operation, unless a commit that succeeded was reported as failed.
THEOREM OneOperationPerKey == Spec => []RetriesAreHarmless
<1>1. KeyInv => RetriesAreHarmless
  BY DEF KeyInv, Recorded, RetriesAreHarmless, Duplicated
<1>2. QED
  BY KeyInvariant, <1>1, PTL

\* A caller, replayed or not, is answered with the operation of its own key and body.
THEOREM AnswersAreTrue == Spec => []AnswersMatchRequest
<1>1. KeyInv => AnswersMatchRequest
  BY DEF KeyInv, Answered, AnswersMatchRequest
<1>2. QED
  BY KeyInvariant, <1>1, PTL
=============================================================================
