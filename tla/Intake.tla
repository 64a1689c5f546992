------------------------------- MODULE Intake -------------------------------
(***************************************************************************)
(* From the HTTP request for a mint to an approved operation: the          *)
(* idempotency key that guards the request, the operation it creates, and  *)
(* the approval request on which two persons other than the requester have *)
(* to agree.                                                               *)
(*                                                                         *)
(* Every db.transaction is one step.  The tests requestMint makes before it*)
(* claims the key (role, amount, asset, wallet, live compliance approval)  *)
(* only refuse a request; a request of the model has passed them.          *)
(***************************************************************************)
EXTENDS OperationStates, FiniteSets, Integers, Sequences

CONSTANTS Requests,      \* HTTP requests in progress
          Users,
          Keys,          \* [actor : Users, name : ...]: an idempotency identity
          Bodies,        \* canonical hashes of request bodies
          Required,      \* REQUIRED_MINT_APPROVALS
          MaxOps,        \* bound on the operations created
          MaxVersion     \* bound on the changes of the asset's definition

CONSTANT NoKey

ASSUME IntakeAssumption ==
  /\ Required \in Nat \ {0}
  /\ MaxOps \in Nat
  /\ MaxVersion \in Nat
  /\ NoKey \notin Keys
  /\ \A k \in Keys : k.actor \in Users

VARIABLES http,      \* what each request is doing, and with which key and body
          idem,      \* the table idempotency_keys; NoKey: no row
          ops,       \* the operations, each with its approval request
          version,   \* what the proposal hash covers besides the operation itself
          ackLost    \* history: keys for which a commit succeeded and reported an error

vars == <<http, idem, ops, version, ackLost>>

None == 0

Row == [status : {"IN_PROGRESS", "COMPLETED"}, body : Bodies, op : 0..MaxOps]

ASSUME NoKeyAssumption == NoKey \notin Row

Operation ==
  [key : Keys, body : Bodies, version : 0..MaxVersion,
   state : {"PENDING_APPROVAL", "READY", "CANCELLED"},
   request : {"PENDING", "APPROVED", "REJECTED"},
   approve : SUBSET Users, reject : SUBSET Users]

Quiet == [pc |-> "idle", key |-> NoKey, body |-> NoKey, answer |-> None]

Asked(k, b, pc, answer) == [pc |-> pc, key |-> k, body |-> b, answer |-> answer]

TypeOK ==
  /\ http \in [Requests -> [pc : {"idle", "work", "release"}, key : Keys \cup {NoKey},
                            body : Bodies \cup {NoKey}, answer : 0..MaxOps]]
  /\ idem \in [Keys -> Row \cup {NoKey}]
  /\ ops \in Seq(Operation)
  /\ Len(ops) <= MaxOps
  /\ version \in 0..MaxVersion
  /\ ackLost \subseteq Keys

Init ==
  /\ http = [r \in Requests |-> Quiet]
  /\ idem = [k \in Keys |-> NoKey]
  /\ ops = <<>>
  /\ version = 0
  /\ ackLost = {}

-----------------------------------------------------------------------------
(* IdempotencyService.execute *)

Claimed(b) == [status |-> "IN_PROGRESS", body |-> b, op |-> None]

\* The unique index lets one request insert the row.
ClaimKey(r, k, b) ==
  /\ http[r].pc = "idle"
  /\ idem[k] = NoKey
  /\ idem' = [idem EXCEPT ![k] = Claimed(b)]
  /\ http' = [http EXCEPT ![r] = Asked(k, b, "work", None)]
  /\ UNCHANGED <<ops, version, ackLost>>

\* Mutant: the stored answer is returned whatever was asked.
ReplayAnyBody(r, k, b) ==
  /\ http[r].pc = "idle"
  /\ idem[k] # NoKey
  /\ idem[k].status = "COMPLETED"
  /\ http' = [http EXCEPT ![r] = Asked(k, b, "idle", idem[k].op)]
  /\ UNCHANGED <<idem, ops, version, ackLost>>

\* A completed key with the same body answers with the stored result.  Another body,
\* or a key in progress, is refused.
Replay(r, k, b) ==
  /\ http[r].pc = "idle"
  /\ idem[k] # NoKey
  /\ idem[k].status = "COMPLETED"
  /\ idem[k].body = b
  /\ http' = [http EXCEPT ![r] = Asked(k, b, "idle", idem[k].op)]
  /\ UNCHANGED <<idem, ops, version, ackLost>>

\* requestMint's work: the operation and its approval request, bound to the hash of
\* the present definition.
NewOperation(k, b) ==
  [key |-> k, body |-> b, version |-> version,
   state |-> "PENDING_APPROVAL", request |-> "PENDING", approve |-> {}, reject |-> {}]

\* Mutant: the result is stored by a later transaction, which may not happen.
WorkUnrecorded(r, k) ==
  /\ ops' = Append(ops, NewOperation(k, http[r].body))
  /\ UNCHANGED idem

\* The operation and the stored answer commit together.
CommitWork(r, k) ==
  /\ ops' = Append(ops, NewOperation(k, http[r].body))
  /\ idem' = [idem EXCEPT ![k].status = "COMPLETED", ![k].op = Len(ops) + 1]

\* The connection can break at the commit, which then looks like a failure of it.
Work(r) ==
  LET k == http[r].key IN
  /\ http[r].pc = "work"
  /\ Len(ops) < MaxOps
  /\ CommitWork(r, k)
  /\ \/ /\ http' = [http EXCEPT ![r].pc = "idle", ![r].answer = Len(ops) + 1]
        /\ UNCHANGED ackLost
     \/ /\ http' = [http EXCEPT ![r].pc = "release"]
        /\ ackLost' = ackLost \cup {k}
  /\ UNCHANGED version

\* Mutant: the work has a transaction of its own, which stays when the storing of
\* its result fails.
WorkNotRolledBack(r) ==
  /\ http[r].pc = "work"
  /\ Len(ops) < MaxOps
  /\ ops' = Append(ops, NewOperation(http[r].key, http[r].body))
  /\ http' = [http EXCEPT ![r].pc = "release"]
  /\ UNCHANGED <<idem, version, ackLost>>

\* The transaction rolls back.
WorkThrows(r) ==
  /\ http[r].pc = "work"
  /\ http' = [http EXCEPT ![r].pc = "release"]
  /\ UNCHANGED <<idem, ops, version, ackLost>>

\* releaseIdempotencyKey deletes the row by its id; an error of it is ignored.
Release(r) ==
  /\ http[r].pc = "release"
  /\ \/ idem' = [idem EXCEPT ![http[r].key] = NoKey]
     \/ UNCHANGED idem
  /\ http' = [http EXCEPT ![r] = Quiet]
  /\ UNCHANGED <<ops, version, ackLost>>

\* The API process dies; nothing releases the key.
Crash(r) ==
  /\ http[r].pc # "idle"
  /\ http' = [http EXCEPT ![r] = Quiet]
  /\ UNCHANGED <<idem, ops, version, ackLost>>

-----------------------------------------------------------------------------
(* ApprovalService.recordDecision *)

\* Mutant: the requester's own decision is accepted.
OnceEach(o, u) ==
  u \notin ops[o].approve \cup ops[o].reject

\* One decision per person, none by the requester: tested here and enforced by the
\* constraints of approval_decisions.
MayDecide(o, u) ==
  /\ u # ops[o].key.actor
  /\ u \notin ops[o].approve \cup ops[o].reject

\* evaluateApprovalOutcome over the decisions of d.
Tally(d) ==
  IF d.reject # {} THEN "REJECTED"
  ELSE IF Cardinality(d.approve) >= Required THEN "APPROVED" ELSE "PENDING"

StateAfter == [PENDING |-> "PENDING_APPROVAL", APPROVED |-> "READY", REJECTED |-> "CANCELLED"]

\* Mutant: the operation is given the state of its approval request.
OutcomeMixed(d) == [d EXCEPT !.request = Tally(d), !.state = Tally(d)]

\* The tally closes the request and moves the operation with it.
Outcome(d) == [d EXCEPT !.request = Tally(d), !.state = StateAfter[Tally(d)]]

WithDecision(d, u, kind) ==
  IF kind = "APPROVE" THEN [d EXCEPT !.approve = @ \cup {u}]
  ELSE [d EXCEPT !.reject = @ \cup {u}]

\* A proposal whose hash no longer matches throws, and the SUPERSEDED it wrote is
\* rolled back with the transaction: nothing changes.
RecordDecision(o, u, kind) ==
  /\ ops[o].request = "PENDING"
  /\ ops[o].state = "PENDING_APPROVAL"
  /\ ops[o].version = version
  /\ MayDecide(o, u)
  /\ ops' = [ops EXCEPT ![o] = Outcome(WithDecision(ops[o], u, kind))]
  /\ UNCHANGED <<http, idem, version, ackLost>>

\* The asset or the wallet is redefined.  No code of the repository does it; the
\* hash exists because an operator can.
Redefine ==
  /\ version < MaxVersion
  /\ version' = version + 1
  /\ UNCHANGED <<http, idem, ops, ackLost>>

-----------------------------------------------------------------------------
Next ==
  \/ \E r \in Requests :
       \/ \E k \in Keys, b \in Bodies : ClaimKey(r, k, b) \/ Replay(r, k, b)
       \/ Work(r) \/ WorkThrows(r) \/ Release(r) \/ Crash(r)
  \/ \E o \in DOMAIN ops, u \in Users, kind \in {"APPROVE", "REJECT"} :
       RecordDecision(o, u, kind)
  \/ Redefine

Spec == Init /\ [][Next]_vars

-----------------------------------------------------------------------------
(* Properties *)

\* Two operations were created under one key.
Duplicated(k) ==
  \E o, p \in DOMAIN ops : o # p /\ ops[o].key = k /\ ops[p].key = k

\* However often a request is sent, with retries, crashes, roll-backs and concurrent
\* duplicates, its key stands for one operation, as long as every commit that succeeds
\* is reported as such.
RetriesAreHarmless == \A k \in Keys \ ackLost : ~Duplicated(k)

\* An operation never exists without the stored answer that names it, unless the
\* acknowledgement of a commit under its key was lost.
ResultIsStored ==
  \A o \in DOMAIN ops :
    LET k == ops[o].key IN
    k \notin ackLost => idem[k] # NoKey /\ idem[k].op = o /\ idem[k].body = ops[o].body

\* A caller is never answered with the operation of another request body or key.
AnswersMatchRequest ==
  \A r \in Requests :
    http[r].answer # None =>
      LET o == ops[http[r].answer] IN o.key = http[r].key /\ o.body = http[r].body

\* An operation is READY only when enough persons have approved it, the requester not
\* among them and no one against.
TwoPersonRule ==
  \A o \in DOMAIN ops :
    ops[o].state = "READY" =>
      /\ Cardinality(ops[o].approve \ {ops[o].key.actor}) >= Required
      /\ ops[o].reject = {}
=============================================================================
