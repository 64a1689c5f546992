-------------------------- MODULE ComplianceProofs --------------------------
(***************************************************************************)
(* For any number of decisions, syncs, sweepers and reorganisations: the   *)
(* types of the compliance component, that one sync is live at a time, and *)
(* that a grant which was overtaken or withdrawn does not come back to the *)
(* chain.                                                                  *)
(***************************************************************************)
EXTENDS Compliance, SequenceTheorems, FiniteSetTheorems, TLAPS

\* The deadline of a sync is the one of its own decision, or none.
UntilIsDec == \A s \in DOMAIN syncs : syncs[s].until \in {Withdrawn, syncs[s].dec}

\* The live sync is the last one queued.
LiveIsLast == \A s \in DOMAIN syncs : IsLive(s) => s = Len(syncs)

\* A sync that grants is for a decision recorded after those of all earlier syncs.
LaterGrant ==
  \A t \in DOMAIN syncs : syncs[t].until # Withdrawn =>
    \A s \in 1..(t - 1) : syncs[s].dec < syncs[t].until

Unsent == {"READY", "PREPARING"}

\* What a call chain may have established of a sync in a state.
Fits(state, step) ==
  /\ step = "resolved" => state = "PREPARING"
  /\ state \notin {"SUBMITTED", "INCLUDED"} => step \in {"none", "resolved"}

StepsFit == \A s \in DOMAIN syncs : Fits(syncs[s].state, syncs[s].step)

\* A sync takes a nonce when it is sent, once, after the syncs queued before it.
LaneInOrder ==
  /\ \A i \in DOMAIN lane : syncs[lane[i]].state \notin Unsent
  /\ \A i \in DOMAIN lane : \A j \in 1..(i - 1) : lane[j] < lane[i]

\* A transaction that took effect wrote the deadline of its sync.
WritesItsOwn == \A i \in DOMAIN chain : chain[i].ok => chain[i].until = syncs[lane[i]].until

\* Block j granted what the wallet has in block i, and it was not withdrawn between them.
Since(j, i) ==
  /\ chain[j].ok
  /\ \A k \in j..i : chain[k].until = chain[i].until

\* A deadline on the chain was written by a block and not withdrawn since.
GrantIsWritten ==
  \A i \in DOMAIN chain : chain[i].until # Withdrawn => \E j \in 1..i : Since(j, i)

\* Sync s took effect in one of the first n blocks.
TookEffect(s, n) == \E i \in 1..n : lane[i] = s /\ chain[i].ok

TakenForFinal(state, step) ==
  step \in {"finalized", "found", "matched"} \/ state = "SUCCEEDED"

\* What was canonical at the last reading still is, and what is taken for final is final,
\* unless it was misread.
Sightings ==
  \A s \in DOMAIN syncs :
    /\ syncs[s].step = "canonical" => TookEffect(s, Len(chain))
    /\ TakenForFinal(syncs[s].state, syncs[s].step) /\ s \notin misread
         => TookEffect(s, final)

\* The inductive invariant.  The live sync is the last one, so nonces follow the order of
\* the syncs, and a later sync grants only a later decision: a grant that is still out when
\* a withdrawal is final has to be mined before it.
ComplianceInv ==
  /\ TypeOK
  /\ Len(decisions) <= MaxDecisions
  /\ UntilIsDec
  /\ LiveIsLast
  /\ LaterGrant
  /\ StepsFit
  /\ LaneInOrder
  /\ WritesItsOwn
  /\ GrantIsWritten
  /\ Sightings

SyncState ==
  {"READY", "PREPARING", "SUBMITTED", "INCLUDED", "SUCCEEDED", "REVERTED", "FAILED",
   "CANCELLED"}

-----------------------------------------------------------------------------
(* What the helpers do to the two tables *)

\* A function on 1..n with values in S is a sequence over S of length n.
LEMMA FunctionIsSeq ==
  ASSUME NEW S, NEW n \in Nat, NEW f \in [1..n -> S]
  PROVE  f \in Seq(S) /\ Len(f) = n
<1>1. f \in Seq(S)
  BY SeqDef
<1>2. QED
  BY <1>1, LenProperties

\* The fields of a row of the table of syncs.
LEMMA SyncFields ==
  ASSUME TypeOK, NEW s \in DOMAIN syncs
  PROVE  /\ s \in 1..Len(syncs) /\ Len(syncs) \in Nat
         /\ syncs[s] \in Sync
         /\ syncs[s].dec \in 1..Len(decisions)
         /\ syncs[s].dec \in 1..MaxDecisions
         /\ syncs[s].until \in 0..MaxDecisions
         /\ syncs[s].state \in SyncState
         /\ syncs[s].step \in Steps
<1>1. syncs[s] \in Sync /\ s \in 1..Len(syncs) /\ Len(syncs) \in Nat
  BY LenProperties, ElementOfSeq DEF TypeOK
<1>2. syncs[s].dec <= Len(decisions) /\ Len(decisions) \in Nat
  BY LenProperties DEF TypeOK
<1>3. QED
  BY <1>1, <1>2, ComplianceBounds DEF Sync, SyncState

\* The fields of a row of the table of decisions.
LEMMA DecisionFields ==
  ASSUME TypeOK, NEW d \in DOMAIN decisions
  PROVE  /\ d \in 1..Len(decisions) /\ Len(decisions) \in Nat
         /\ decisions[d] \in Decision
         /\ decisions[d].superseded \in BOOLEAN
<1>1. decisions[d] \in Decision /\ d \in 1..Len(decisions) /\ Len(decisions) \in Nat
  BY LenProperties, ElementOfSeq DEF TypeOK
<1>2. QED
  BY <1>1 DEF Decision

\* The lengths of the sequences, and that a block has its nonce and a nonce its sync.
LEMMA Lengths ==
  ASSUME TypeOK
  PROVE  /\ Len(decisions) \in Nat /\ DOMAIN decisions = 1..Len(decisions)
         /\ Len(syncs) \in Nat /\ DOMAIN syncs = 1..Len(syncs)
         /\ Len(lane) \in Nat /\ DOMAIN lane = 1..Len(lane)
         /\ Len(chain) \in Nat /\ DOMAIN chain = 1..Len(chain)
         /\ final \in Nat /\ final <= Len(chain) /\ Len(chain) <= Len(lane)
         /\ \A i \in DOMAIN lane : lane[i] \in DOMAIN syncs
         /\ \A i \in DOMAIN chain : i \in DOMAIN lane /\ chain[i] \in Block
<1>1. /\ Len(decisions) \in Nat /\ DOMAIN decisions = 1..Len(decisions)
      /\ Len(syncs) \in Nat /\ DOMAIN syncs = 1..Len(syncs)
      /\ Len(lane) \in Nat /\ DOMAIN lane = 1..Len(lane)
      /\ Len(chain) \in Nat /\ DOMAIN chain = 1..Len(chain)
  BY LenProperties DEF TypeOK
<1>2. final \in Nat /\ final <= Len(chain) /\ Len(chain) <= Len(lane)
  BY <1>1 DEF TypeOK
<1>3. \A i \in DOMAIN lane : lane[i] \in DOMAIN syncs
  BY <1>1, ElementOfSeq DEF TypeOK
<1>4. \A i \in DOMAIN chain : chain[i] \in Block
  BY <1>1, ElementOfSeq DEF TypeOK
<1>5. \A i \in DOMAIN chain : i \in DOMAIN lane
  BY <1>1, <1>2
<1>6. QED
  BY <1>1, <1>2, <1>3, <1>4, <1>5

\* clearLiveEligibilitySync cancels the sync that is READY and leaves the others.
LEMMA Cleared ==
  ASSUME TypeOK
  PROVE  /\ ClearLive \in Seq(Sync)
         /\ Len(ClearLive) = Len(syncs)
         /\ \A s \in DOMAIN syncs :
              /\ ClearLive[s].dec = syncs[s].dec
              /\ ClearLive[s].until = syncs[s].until
              /\ ClearLive[s].step = syncs[s].step
              /\ ClearLive[s].state = IF syncs[s].state = "READY" THEN "CANCELLED"
                                      ELSE syncs[s].state
<1>1. Len(syncs) \in Nat /\ DOMAIN syncs = 1..Len(syncs)
  BY Lengths
<1>2. ASSUME NEW s \in DOMAIN syncs
      PROVE  /\ ClearLive[s] \in Sync
             /\ ClearLive[s].dec = syncs[s].dec
             /\ ClearLive[s].until = syncs[s].until
             /\ ClearLive[s].step = syncs[s].step
             /\ ClearLive[s].state = IF syncs[s].state = "READY" THEN "CANCELLED"
                                     ELSE syncs[s].state
  BY SyncFields DEF ClearLive, Sync
<1>3. ClearLive \in [1..Len(syncs) -> Sync]
  BY <1>1, <1>2 DEF ClearLive
<1>4. QED
  BY <1>1, <1>2, <1>3, FunctionIsSeq

\* enqueueEligibilitySync adds one READY sync after what it cleared.
LEMMA Enqueued ==
  ASSUME TypeOK, NEW d \in 1..MaxDecisions, NEW status, EnqueueSync(d, status)
  PROVE  /\ syncs' \in Seq(Sync)
         /\ Len(syncs') = Len(syncs) + 1
         /\ DOMAIN syncs' = DOMAIN syncs \cup {Len(syncs) + 1}
         /\ \A s \in DOMAIN syncs :
              /\ syncs'[s].dec = syncs[s].dec
              /\ syncs'[s].until = syncs[s].until
              /\ syncs'[s].step = syncs[s].step
              /\ syncs'[s].state = IF syncs[s].state = "READY" THEN "CANCELLED"
                                   ELSE syncs[s].state
         /\ syncs'[Len(syncs) + 1].dec = d
         /\ syncs'[Len(syncs) + 1].until = EligibleUntilFor(status, d)
         /\ syncs'[Len(syncs) + 1].step = "none"
         /\ syncs'[Len(syncs) + 1].state = "READY"
<1> DEFINE row == [dec |-> d, until |-> EligibleUntilFor(status, d), step |-> "none",
                   state |-> "READY"]
<1>1. row \in Sync
  BY ComplianceBounds DEF EligibleUntilFor, Sync, Steps, Withdrawn
<1>2. /\ row.dec = d /\ row.until = EligibleUntilFor(status, d)
      /\ row.step = "none" /\ row.state = "READY"
  OBVIOUS
<1>3. syncs' = Append(ClearLive, row)
  BY DEF EnqueueSync
<1> HIDE DEF row
<1>4. Len(syncs) \in Nat /\ DOMAIN syncs = 1..Len(syncs)
  BY Lengths
<1>5. /\ syncs' \in Seq(Sync) /\ Len(syncs') = Len(syncs) + 1
      /\ \A s \in 1..Len(syncs) : syncs'[s] = ClearLive[s]
      /\ syncs'[Len(syncs) + 1] = row
  BY <1>1, <1>3, <1>4, Cleared, AppendProperties
<1>6. DOMAIN syncs' = DOMAIN syncs \cup {Len(syncs) + 1}
  BY <1>4, <1>5, LenProperties
<1>7. QED
  BY <1>2, <1>4, <1>5, <1>6, Cleared

\* A transition of a sync changes its state and what has been established of it.
LEMMA Moved ==
  ASSUME TypeOK, NEW s \in DOMAIN syncs, NEW state \in SyncState, NEW step \in Steps,
         To(s, state, step)
  PROVE  /\ syncs' \in Seq(Sync)
         /\ Len(syncs') = Len(syncs)
         /\ DOMAIN syncs' = DOMAIN syncs
         /\ \A t \in DOMAIN syncs :
              /\ syncs'[t].dec = syncs[t].dec
              /\ syncs'[t].until = syncs[t].until
              /\ syncs'[t].state = IF t = s THEN state ELSE syncs[t].state
              /\ syncs'[t].step = IF t = s THEN step ELSE syncs[t].step
<1> DEFINE row == [syncs[s] EXCEPT !.state = state, !.step = step]
<1>1. /\ row \in Sync /\ row.dec = syncs[s].dec /\ row.until = syncs[s].until
      /\ row.state = state /\ row.step = step
  BY SyncFields DEF Sync, SyncState
<1>2. syncs' = [syncs EXCEPT ![s] = row]
  BY DEF To
<1> HIDE DEF row
<1>3. s \in 1..Len(syncs) /\ DOMAIN syncs = 1..Len(syncs)
  BY Lengths
<1>4. /\ syncs' \in Seq(Sync) /\ Len(syncs') = Len(syncs)
      /\ \A t \in 1..Len(syncs) : syncs'[t] = IF t = s THEN row ELSE syncs[t]
  BY <1>1, <1>2, <1>3, ExceptSeq DEF TypeOK
<1>5. DOMAIN syncs' = DOMAIN syncs
  BY <1>3, <1>4, LenProperties
<1>6. QED
  BY <1>1, <1>3, <1>4, <1>5

\* What is established of a sync leaves its state alone.
LEMMA EstablishMoves ==
  ASSUME TypeOK, NEW s \in DOMAIN syncs, NEW step \in Steps, Establish(s, step)
  PROVE  To(s, syncs[s].state, step)
<1>1. syncs[s] \in Sync
  BY SyncFields
<1>2. [syncs[s] EXCEPT !.state = syncs[s].state, !.step = step]
        = [syncs[s] EXCEPT !.step = step]
  BY <1>1 DEF Sync
<1>3. syncs' = [syncs EXCEPT ![s] = [syncs[s] EXCEPT !.step = step]]
  BY DEF Establish
<1>4. syncs' = [syncs EXCEPT ![s] = [syncs[s] EXCEPT !.state = syncs[s].state, !.step = step]]
  BY <1>2, <1>3
<1>5. QED
  BY <1>4 DEF To

\* supersedeActiveDecisions marks the approvals of one scope and changes nothing else.
LEMMA Superseded ==
  ASSUME TypeOK, NEW scope \in Scopes
  PROVE  /\ SupersedeActive(scope) \in Seq(Decision)
         /\ Len(SupersedeActive(scope)) = Len(decisions)
         /\ \A d \in DOMAIN decisions :
              /\ SupersedeActive(scope)[d].status = decisions[d].status
              /\ SupersedeActive(scope)[d].scope = decisions[d].scope
              /\ SupersedeActive(scope)[d].superseded =
                   (decisions[d].superseded \/ (IsActive(d) /\ decisions[d].scope = scope))
<1> DEFINE f == SupersedeActive(scope)
<1>1. Len(decisions) \in Nat /\ DOMAIN decisions = 1..Len(decisions)
  BY LenProperties DEF TypeOK
<1>2. ASSUME NEW d \in DOMAIN decisions
      PROVE  /\ f[d] \in Decision
             /\ f[d].status = decisions[d].status
             /\ f[d].scope = decisions[d].scope
             /\ f[d].superseded =
                  (decisions[d].superseded \/ (IsActive(d) /\ decisions[d].scope = scope))
  <2>1. CASE IsActive(d) /\ decisions[d].scope = scope
    <3>1. f[d] = [decisions[d] EXCEPT !.superseded = TRUE]
      BY <2>1 DEF SupersedeActive
    <3>2. QED
      BY <2>1, <3>1, DecisionFields DEF Decision
  <2>2. CASE ~(IsActive(d) /\ decisions[d].scope = scope)
    <3>1. f[d] = decisions[d]
      BY <2>2 DEF SupersedeActive
    <3>2. QED
      BY <2>2, <3>1, DecisionFields
  <2>3. QED
    BY <2>1, <2>2
<1>3. f \in [1..Len(decisions) -> Decision]
  BY <1>1, <1>2 DEF SupersedeActive
<1> HIDE DEF f
<1>4. f \in Seq(Decision) /\ Len(f) = Len(decisions)
  BY <1>1, <1>3, FunctionIsSeq
<1>5. QED
  BY <1>2, <1>4 DEF f

-----------------------------------------------------------------------------
(* What a step does to the syncs *)

\* Sync s moves on, with what its call chain has established by then.
SyncMove(s, state, step) ==
  /\ To(s, state, step)
  /\ IsLive(s)
  /\ Fits(state, step)
  /\ state \in Unsent => syncs[s].state \in Unsent
  /\ step = "resolved" => Resolves(s)
  /\ step = "canonical" => TookEffect(s, Len(chain))
  /\ TakenForFinal(state, step) => s \in misread' \/ TookEffect(s, final)

\* Sync s is moved by this step.
Moves(s) == \E state \in SyncState, step \in Steps : SyncMove(s, state, step)

\* A sync is queued for decision d; it grants only when d is recorded in this step.
SyncQueued(d, status) ==
  /\ MayEnqueue
  /\ EnqueueSync(d, status)
  /\ status = "APPROVED" => d = Len(decisions) + 1

\* A sync is queued for one of the decisions there are after this step.
Queues ==
  \E d \in 1..MaxDecisions, status \in {"APPROVED", "REVOKED", "EXPIRED"} :
    d <= Len(decisions') /\ SyncQueued(d, status)

\* A call chain that has established something of a sync drives a live one.
LEMMA EstablishedIsLive ==
  ASSUME ComplianceInv, NEW s \in DOMAIN syncs,
         syncs[s].step \notin {"none", "resolved"}
  PROVE  syncs[s].state \in {"SUBMITTED", "INCLUDED"} /\ IsLive(s)
BY DEF ComplianceInv, StepsFit, Fits, IsLive, TerminalStates

\* A block of sync s that is canonical and final is the one in which it took effect.
LEMMA FinalBlock ==
  ASSUME ComplianceInv, NEW s \in DOMAIN syncs, syncs[s].step = "canonical",
         NEW i \in BlocksOf(s), i <= final
  PROVE  TookEffect(s, final)
<1>1. TookEffect(s, Len(chain))
  BY DEF ComplianceInv, Sightings
<1>2. PICK j \in 1..Len(chain) : lane[j] = s /\ chain[j].ok
  BY <1>1 DEF TookEffect
<1>3. TypeOK
  BY DEF ComplianceInv
<1>4. /\ i \in DOMAIN lane /\ j \in DOMAIN lane /\ i \in Nat /\ j \in Nat
      /\ i >= 1 /\ lane[i] = s /\ s \in Nat
  BY <1>2, <1>3, Lengths DEF BlocksOf
<1>5. j \in 1..(i - 1) => lane[j] < lane[i]
  BY <1>4 DEF ComplianceInv, LaneInOrder
<1>6. i \in 1..(j - 1) => lane[i] < lane[j]
  BY <1>4 DEF ComplianceInv, LaneInOrder
<1>7. i = j
  BY <1>2, <1>4, <1>5, <1>6
<1>8. i \in 1..final
  BY <1>3, <1>4, Lengths
<1>9. QED
  BY <1>2, <1>7, <1>8 DEF TookEffect

\* What a call chain has established stays established while the sync moves.
LEMMA CarriedOn ==
  ASSUME ComplianceInv, NEW s \in DOMAIN syncs, misread \subseteq misread'
  PROVE  /\ syncs[s].step = "canonical" => TookEffect(s, Len(chain))
         /\ TakenForFinal(syncs[s].state, syncs[s].step) =>
              s \in misread' \/ TookEffect(s, final)
BY DEF ComplianceInv, Sightings

\* The steps of the worker move one sync.
LEMMA WorkerMoves ==
  ASSUME ComplianceInv, NEW s \in DOMAIN syncs,
         \/ ClaimSync(s) \/ PrepareSync(s) \/ SendSync(s) \/ FailSync(s)
         \/ ObserveSync(s) \/ ObserveReorg(s)
         \/ CheckCanonical(s) \/ ReadFinality(s)
         \/ ReconcileTarget(s) \/ ReconcileEligibility(s)
         \/ SettleSync(s) \/ SettleReverted(s) \/ StopObserving(s)
  PROVE  Moves(s)
<1> DEFINE old == syncs[s]
<1>1. TypeOK /\ Fits(old.state, old.step)
  BY DEF ComplianceInv, StepsFit
<1>2. old.state \in SyncState /\ old.step \in Steps
  BY <1>1, SyncFields
<1>3. ASSUME NEW step \in Steps, Establish(s, step) PROVE To(s, old.state, step)
  BY <1>1, <1>3, EstablishMoves
<1>4. CASE ClaimSync(s)
  <2>1. SyncMove(s, "PREPARING", "none")
    BY <1>4 DEF ClaimSync, SyncMove, IsLive, TerminalStates, Fits, Unsent, TakenForFinal
  <2>2. QED
    BY <2>1 DEF Moves, SyncState, Steps
<1>5. CASE PrepareSync(s)
  <2>1. /\ old.state = "PREPARING" /\ Resolves(s) /\ To(s, "PREPARING", "resolved")
    BY <1>3, <1>5 DEF PrepareSync, Steps
  <2>2. SyncMove(s, "PREPARING", "resolved")
    BY <2>1 DEF SyncMove, IsLive, TerminalStates, Fits, Unsent, TakenForFinal
  <2>3. QED
    BY <2>2 DEF Moves, SyncState, Steps
<1>6. CASE SendSync(s)
  <2>1. SyncMove(s, "SUBMITTED", "none")
    BY <1>6 DEF SendSync, SyncMove, IsLive, TerminalStates, Fits, Unsent, TakenForFinal
  <2>2. QED
    BY <2>1 DEF Moves, SyncState, Steps
<1>7. CASE FailSync(s)
  <2>1. SyncMove(s, "FAILED", "none")
    BY <1>7 DEF FailSync, SyncMove, IsLive, TerminalStates, Fits, Unsent, TakenForFinal
  <2>2. QED
    BY <2>1 DEF Moves, SyncState, Steps
<1>8. CASE ObserveSync(s)
  <2>1. old.state = "SUBMITTED" /\ misread' = misread /\ To(s, "INCLUDED", old.step)
    BY <1>8 DEF ObserveSync
  <2>2. SyncMove(s, "INCLUDED", old.step)
    BY <1>1, <2>1, CarriedOn DEF SyncMove, IsLive, TerminalStates, Fits, Unsent, TakenForFinal
  <2>3. QED
    BY <1>2, <2>2 DEF Moves, SyncState
<1>9. CASE ObserveReorg(s)
  <2>1. old.state = "INCLUDED" /\ misread' = misread /\ To(s, "SUBMITTED", old.step)
    BY <1>9 DEF ObserveReorg
  <2>2. SyncMove(s, "SUBMITTED", old.step)
    BY <1>1, <2>1, CarriedOn DEF SyncMove, IsLive, TerminalStates, Fits, Unsent, TakenForFinal
  <2>3. QED
    BY <1>2, <2>2 DEF Moves, SyncState
<1>10. CASE CheckCanonical(s)
  <2>1. old.state \in {"SUBMITTED", "INCLUDED"}
    BY <1>10 DEF CheckCanonical
  <2>2. PICK i \in BlocksOf(s) :
          IF chain[i].ok THEN Establish(s, "canonical") ELSE To(s, "INCLUDED", "reverted")
    BY <1>10 DEF CheckCanonical
  <2>3. CASE chain[i].ok
    <3>1. To(s, old.state, "canonical")
      BY <1>3, <2>2, <2>3 DEF Steps
    <3>2. TookEffect(s, Len(chain))
      BY <1>1, <2>3, Lengths DEF TookEffect, BlocksOf
    <3>3. SyncMove(s, old.state, "canonical")
      BY <2>1, <3>1, <3>2 DEF SyncMove, IsLive, TerminalStates, Fits, Unsent, TakenForFinal
    <3>4. QED
      BY <1>2, <3>3 DEF Moves, Steps
  <2>4. CASE ~chain[i].ok
    <3>1. SyncMove(s, "INCLUDED", "reverted")
      BY <2>1, <2>2, <2>4 DEF SyncMove, IsLive, TerminalStates, Fits, Unsent, TakenForFinal
    <3>2. QED
      BY <3>1 DEF Moves, SyncState, Steps
  <2>5. QED
    BY <2>3, <2>4
<1>11. CASE ReadFinality(s)
  <2>1. To(s, "INCLUDED", "finalized") /\ IsLive(s)
    BY <1>11, EstablishedIsLive DEF ReadFinality
  <2>2. s \in misread' \/ TookEffect(s, final)
    BY <1>11, FinalBlock DEF ReadFinality
  <2>3. SyncMove(s, "INCLUDED", "finalized")
    BY <2>1, <2>2 DEF SyncMove, Fits, Unsent
  <2>4. QED
    BY <2>3 DEF Moves, SyncState, Steps
<1>12. CASE ReconcileTarget(s)
  <2>1. old.step = "finalized" /\ misread' = misread /\ To(s, old.state, "found")
    BY <1>3, <1>12 DEF ReconcileTarget, Steps
  <2>2. SyncMove(s, old.state, "found")
    BY <2>1, EstablishedIsLive, CarriedOn DEF SyncMove, Fits, Unsent, TakenForFinal
  <2>3. QED
    BY <1>2, <2>2 DEF Moves, Steps
<1>13. CASE ReconcileEligibility(s)
  <2>1. old.step = "found" /\ misread' = misread /\ To(s, old.state, "matched")
    BY <1>3, <1>13 DEF ReconcileEligibility, Steps
  <2>2. SyncMove(s, old.state, "matched")
    BY <2>1, EstablishedIsLive, CarriedOn DEF SyncMove, Fits, Unsent, TakenForFinal
  <2>3. QED
    BY <1>2, <2>2 DEF Moves, Steps
<1>14. CASE SettleSync(s)
  <2>1. old.step = "matched" /\ misread' = misread /\ To(s, "SUCCEEDED", "none")
    BY <1>14 DEF SettleSync
  <2>2. SyncMove(s, "SUCCEEDED", "none")
    BY <2>1, EstablishedIsLive, CarriedOn DEF SyncMove, Fits, Unsent, TakenForFinal
  <2>3. QED
    BY <2>2 DEF Moves, SyncState, Steps
<1>15. CASE StopObserving(s)
  <2>1. old.state \in {"SUBMITTED", "INCLUDED"} /\ To(s, old.state, "none")
    BY <1>3, <1>15 DEF StopObserving, Steps
  <2>2. SyncMove(s, old.state, "none")
    BY <2>1 DEF SyncMove, IsLive, TerminalStates, Fits, Unsent, TakenForFinal
  <2>3. QED
    BY <1>2, <2>2 DEF Moves, Steps
<1>16. CASE SettleReverted(s)
  <2>1. SyncMove(s, "REVERTED", "none")
    BY <1>16 DEF SettleReverted, SyncMove, IsLive, TerminalStates, Fits, Unsent, TakenForFinal
  <2>2. QED
    BY <2>1 DEF Moves, SyncState, Steps
<1>17. QED
  BY <1>4, <1>5, <1>6, <1>7, <1>8, <1>9, <1>10, <1>11, <1>12, <1>13, <1>14, <1>15,
     <1>16

\* A reorganisation moves at most the sync of the block that is dropped.
LEMMA ReorgMoves ==
  ASSUME ComplianceInv, Reorg
  PROVE  UNCHANGED syncs \/ \E s \in DOMAIN syncs : Moves(s)
<1> DEFINE s == lane[Len(chain)]
<1>1. TypeOK
  BY DEF ComplianceInv
<1>2. s \in DOMAIN syncs
  BY <1>1, Lengths DEF Reorg
<1>3. CASE syncs[s].step = "canonical" /\ Establish(s, "orphaned")
  <2>1. syncs[s].state \in {"SUBMITTED", "INCLUDED"} /\ IsLive(s)
    BY <1>2, <1>3, EstablishedIsLive
  <2>2. To(s, syncs[s].state, "orphaned")
    BY <1>1, <1>2, <1>3, EstablishMoves DEF Steps
  <2>3. SyncMove(s, syncs[s].state, "orphaned")
    BY <2>1, <2>2 DEF SyncMove, Fits, Unsent, TakenForFinal
  <2>4. Moves(s)
    BY <2>1, <2>3 DEF Moves, SyncState, Steps
  <2>5. QED
    BY <1>2, <2>4
<1>4. QED
  BY <1>3 DEF Reorg

\* A step leaves the syncs alone, queues one or moves one.
LEMMA SyncStep ==
  ASSUME ComplianceInv, Next
  PROVE  UNCHANGED syncs \/ Queues \/ \E s \in DOMAIN syncs : Moves(s)
<1>1. Len(decisions) \in Nat /\ DOMAIN decisions = 1..Len(decisions) /\ TypeOK
  BY Lengths DEF ComplianceInv
<1>2. Len(decisions) <= MaxDecisions
  BY DEF ComplianceInv
<1> USE ComplianceBounds
<1>3. ASSUME NEW scope \in Scopes, NEW verdict \in {"APPROVED", "REJECTED"},
             RecordDecision(scope, verdict)
      PROVE  UNCHANGED syncs \/ Queues
  <2>1. Len(decisions) + 1 \in 1..MaxDecisions
    BY <1>1, <1>3 DEF RecordDecision
  <2>2. decisions' = Append(SupersedeActive(scope), NewDecision(scope, verdict))
    BY <1>3 DEF RecordDecision
  <2>3. NewDecision(scope, verdict) \in Decision
    BY DEF NewDecision, Decision
  <2>4. Len(decisions') = Len(decisions) + 1
    BY <1>1, <2>2, <2>3, Superseded, AppendProperties
  <2>5. UNCHANGED syncs \/ SyncQueued(Len(decisions) + 1, "APPROVED")
    BY <1>3 DEF RecordDecision, SyncQueued
  <2>6. QED
    BY <1>1, <2>1, <2>4, <2>5 DEF Queues
<1>4. ASSUME NEW scope \in Scopes, RevokeDecision(scope) PROVE UNCHANGED syncs \/ Queues
  <2>1. Len(decisions) + 1 \in 1..MaxDecisions
    BY <1>1, <1>4 DEF RevokeDecision
  <2>2. NewDecision(scope, "REVOKED") \in Decision
    BY DEF NewDecision, Decision
  <2>3. Len(decisions') = Len(decisions) + 1
    BY <1>1, <1>4, <2>2, Superseded, AppendProperties DEF RevokeDecision, TypeOK
  <2>4. UNCHANGED syncs \/ SyncQueued(Len(decisions) + 1, "REVOKED")
    BY <1>4 DEF RevokeDecision, SyncQueued
  <2>5. QED
    BY <1>1, <2>1, <2>3, <2>4 DEF Queues
<1>5. ASSUME NEW w \in Sweepers, NEW d \in DOMAIN decisions, ExpireOne(w, d)
      PROVE  UNCHANGED syncs \/ Queues
  <2>1. d \in 1..MaxDecisions /\ d <= Len(decisions)
    BY <1>1, <1>2
  <2>2. Len(decisions') = Len(decisions)
    BY <1>1, <1>5 DEF ExpireOne, TypeOK
  <2>3. UNCHANGED syncs \/ SyncQueued(d, "EXPIRED")
    BY <1>5 DEF ExpireOne, SyncQueued
  <2>4. QED
    BY <2>1, <2>2, <2>3 DEF Queues
<1>6. ASSUME NEW w \in Sweepers, ListLapsed(w) \/ AbortBatch(w) PROVE UNCHANGED syncs
  BY <1>6 DEF ListLapsed, AbortBatch
<1>7. ASSUME NEW d \in DOMAIN decisions, Lapse(d) PROVE UNCHANGED syncs
  BY <1>7 DEF Lapse
<1>8. ASSUME MineNext \/ Finalize PROVE UNCHANGED syncs
  BY <1>8 DEF MineNext, Finalize
<1>9. QED
  BY <1>3, <1>4, <1>5, <1>6, <1>7, <1>8, ReorgMoves, WorkerMoves DEF Next

\* A sync keeps its decision and deadline, and one that was sent is never unsent again.
SyncsKeep ==
  /\ DOMAIN syncs \subseteq DOMAIN syncs'
  /\ \A s \in DOMAIN syncs :
       /\ syncs'[s].dec = syncs[s].dec
       /\ syncs'[s].until = syncs[s].until
       /\ syncs[s].state \notin Unsent => syncs'[s].state \notin Unsent

\* The table of syncs is as the invariant has it after this step.
SyncsSound ==
  /\ syncs' \in Seq(Sync)
  /\ \A s \in DOMAIN syncs' : syncs'[s].dec <= Len(decisions')
  /\ UntilIsDec' /\ LiveIsLast' /\ LaterGrant' /\ StepsFit'

\* Queueing a sync keeps the live one last and grants only to a later decision.
LEMMA QueuedKeeps ==
  ASSUME ComplianceInv, Len(decisions) <= Len(decisions'), Len(decisions') \in Nat, Queues
  PROVE  SyncsSound /\ SyncsKeep
<1> DEFINE n == Len(syncs) + 1
<1>1. TypeOK /\ Len(decisions) \in Nat /\ Len(syncs) \in Nat /\ DOMAIN syncs = 1..Len(syncs)
  BY Lengths DEF ComplianceInv
<1>2. PICK d \in 1..MaxDecisions, status \in {"APPROVED", "REVOKED", "EXPIRED"} :
        d <= Len(decisions') /\ SyncQueued(d, status)
  BY DEF Queues
<1>3. /\ syncs' \in Seq(Sync) /\ Len(syncs') = n /\ DOMAIN syncs' = DOMAIN syncs \cup {n}
      /\ \A s \in DOMAIN syncs :
              /\ syncs'[s].dec = syncs[s].dec
              /\ syncs'[s].until = syncs[s].until
              /\ syncs'[s].step = syncs[s].step
              /\ syncs'[s].state = IF syncs[s].state = "READY" THEN "CANCELLED"
                                   ELSE syncs[s].state
      /\ syncs'[n].dec = d /\ syncs'[n].until = EligibleUntilFor(status, d)
      /\ syncs'[n].step = "none" /\ syncs'[n].state = "READY"
  BY <1>1, <1>2, Enqueued DEF SyncQueued
<1>4. \A s \in DOMAIN syncs : syncs[s].dec \in 1..Len(decisions)
  BY <1>1, SyncFields
<1>5. UntilIsDec'
  BY <1>3 DEF ComplianceInv, UntilIsDec, EligibleUntilFor, Withdrawn
<1>6. LiveIsLast'
  <2>1. \A s \in DOMAIN syncs : IsLive(s) => syncs[s].state = "READY"
    BY <1>2 DEF SyncQueued, MayEnqueue
  <2>2. \A s \in DOMAIN syncs : syncs'[s].state \in TerminalStates
    BY <1>3, <2>1 DEF IsLive, TerminalStates
  <2>3. QED
    BY <1>3, <2>2 DEF LiveIsLast, IsLive
<1>7. LaterGrant'
  <2>1. SUFFICES ASSUME NEW t \in DOMAIN syncs', syncs'[t].until # Withdrawn,
                        NEW s \in 1..(t - 1)
                 PROVE  syncs'[s].dec < syncs'[t].until
    BY DEF LaterGrant, Withdrawn
  <2>2. CASE t \in DOMAIN syncs
    BY <1>1, <1>3, <2>1, <2>2 DEF ComplianceInv, LaterGrant
  <2>3. CASE t = n
    <3>1. status = "APPROVED" /\ syncs'[t].until = d /\ d = Len(decisions) + 1
      BY <1>2, <1>3, <2>1, <2>3 DEF SyncQueued, EligibleUntilFor
    <3>2. s \in DOMAIN syncs
      BY <1>1, <2>1, <2>3
    <3>3. QED
      BY <1>1, <1>3, <1>4, <3>1, <3>2
  <2>4. QED
    BY <1>3, <2>2, <2>3
<1>8. StepsFit'
  BY <1>3 DEF ComplianceInv, StepsFit, Fits
<1>9. \A s \in DOMAIN syncs' : syncs'[s].dec <= Len(decisions')
  <2>1. \A s \in DOMAIN syncs : syncs'[s].dec <= Len(decisions')
    BY <1>1, <1>3, <1>4
  <2>2. syncs'[n].dec <= Len(decisions')
    BY <1>2, <1>3
  <2>3. QED
    BY <1>3, <2>1, <2>2
<1>10. QED
  BY <1>3, <1>5, <1>6, <1>7, <1>8, <1>9 DEF SyncsSound, SyncsKeep, Unsent

\* Moving a live sync keeps it the last one.
LEMMA MovedKeeps ==
  ASSUME ComplianceInv, Len(decisions) <= Len(decisions'), Len(decisions') \in Nat,
         NEW s \in DOMAIN syncs, Moves(s)
  PROVE  SyncsSound /\ SyncsKeep
<1>1. TypeOK /\ Len(decisions) \in Nat /\ Len(syncs) \in Nat /\ DOMAIN syncs = 1..Len(syncs)
  BY Lengths DEF ComplianceInv
<1>2. PICK state \in SyncState, step \in Steps : SyncMove(s, state, step)
  BY DEF Moves
<1>3. /\ syncs' \in Seq(Sync) /\ Len(syncs') = Len(syncs) /\ DOMAIN syncs' = DOMAIN syncs
      /\ \A t \in DOMAIN syncs :
              /\ syncs'[t].dec = syncs[t].dec
              /\ syncs'[t].until = syncs[t].until
              /\ syncs'[t].state = IF t = s THEN state ELSE syncs[t].state
              /\ syncs'[t].step = IF t = s THEN step ELSE syncs[t].step
  BY <1>1, <1>2, Moved DEF SyncMove
<1>4. \A t \in DOMAIN syncs : syncs[t].dec \in 1..Len(decisions)
  BY <1>1, SyncFields
<1>5. UntilIsDec' /\ LaterGrant'
  BY <1>1, <1>3 DEF ComplianceInv, UntilIsDec, LaterGrant, Withdrawn
<1>6. LiveIsLast'
  <2>1. IsLive(s)
    BY <1>2 DEF SyncMove
  <2>2. QED
    BY <1>3, <2>1 DEF ComplianceInv, LiveIsLast, IsLive
<1>7. StepsFit'
  <2>1. Fits(state, step)
    BY <1>2 DEF SyncMove
  <2>2. QED
    BY <1>3, <2>1 DEF ComplianceInv, StepsFit, Fits
<1>8. \A t \in DOMAIN syncs' : syncs'[t].dec <= Len(decisions')
  BY <1>1, <1>3, <1>4
<1>9. SyncsKeep
  <2>1. state \in Unsent => syncs[s].state \in Unsent
    BY <1>2 DEF SyncMove
  <2>2. QED
    BY <1>3, <2>1 DEF SyncsKeep
<1>10. QED
  BY <1>3, <1>5, <1>6, <1>7, <1>8, <1>9 DEF SyncsSound

\* Every step keeps the table of syncs sound.
LEMMA SyncsKept ==
  ASSUME ComplianceInv, Next, Len(decisions) <= Len(decisions'), Len(decisions') \in Nat
  PROVE  SyncsSound /\ SyncsKeep
<1>1. CASE UNCHANGED syncs
  <2>1. TypeOK /\ Len(decisions) \in Nat
    BY Lengths DEF ComplianceInv
  <2>2. \A t \in DOMAIN syncs : syncs[t].dec \in 1..Len(decisions)
    BY <2>1, SyncFields
  <2>3. \A t \in DOMAIN syncs' : syncs'[t].dec <= Len(decisions')
    BY <1>1, <2>1, <2>2
  <2>4. syncs' \in Seq(Sync) /\ UntilIsDec' /\ LiveIsLast' /\ LaterGrant' /\ StepsFit'
    BY <1>1, <2>1 DEF ComplianceInv, TypeOK, UntilIsDec, LiveIsLast, IsLive, LaterGrant, StepsFit
  <2>5. QED
    BY <1>1, <2>3, <2>4 DEF SyncsSound, SyncsKeep
<1>2. QED
  BY <1>1, SyncStep, QueuedKeeps, MovedKeeps

-----------------------------------------------------------------------------
(* What a step does to the decisions *)

\* A new decision is appended to a table whose rows are kept.
LEMMA DecisionAppended ==
  ASSUME NEW old \in Seq(Decision), NEW new \in Decision, Len(old) = Len(decisions),
         TypeOK, decisions' = Append(old, new)
  PROVE  /\ decisions' \in Seq(Decision)
         /\ Len(decisions') = Len(decisions) + 1
         /\ DOMAIN decisions' = DOMAIN decisions \cup {Len(decisions) + 1}
         /\ \A d \in DOMAIN decisions : decisions'[d] = old[d]
<1>1. Len(decisions) \in Nat /\ DOMAIN decisions = 1..Len(decisions)
  BY Lengths
<1>2. /\ decisions' \in Seq(Decision) /\ Len(decisions') = Len(decisions) + 1
      /\ \A d \in 1..Len(decisions) : decisions'[d] = old[d]
  BY <1>1, AppendProperties
<1>3. DOMAIN decisions' = 1..(Len(decisions) + 1)
  BY <1>2, LenProperties
<1>4. QED
  BY <1>1, <1>2, <1>3

\* One row of the table of decisions is replaced.
LEMMA DecisionReplaced ==
  ASSUME TypeOK, NEW d \in DOMAIN decisions, NEW row \in Decision,
         decisions' = [decisions EXCEPT ![d] = row]
  PROVE  /\ decisions' \in Seq(Decision)
         /\ Len(decisions') = Len(decisions)
         /\ DOMAIN decisions' = DOMAIN decisions
         /\ \A e \in DOMAIN decisions : decisions'[e] = IF e = d THEN row ELSE decisions[e]
BY ExceptSeq, LenProperties DEF TypeOK

\* The decisions are kept in their order, and what is superseded stays so.
DecisionsKeep ==
  /\ decisions' \in Seq(Decision)
  /\ Len(decisions) <= Len(decisions') /\ Len(decisions') <= MaxDecisions
  /\ DOMAIN decisions \subseteq DOMAIN decisions'
  /\ \A d \in DOMAIN decisions : decisions[d].superseded => decisions'[d].superseded
  /\ batch' \in [Sweepers -> SUBSET DOMAIN decisions']

\* Every step keeps the table of decisions.
LEMMA DecisionsKept ==
  ASSUME ComplianceInv, Next
  PROVE  DecisionsKeep
<1>1. /\ Len(decisions) \in Nat /\ DOMAIN decisions = 1..Len(decisions)
      /\ TypeOK /\ Len(decisions) <= MaxDecisions
      /\ batch \in [Sweepers -> SUBSET DOMAIN decisions] /\ decisions \in Seq(Decision)
  BY Lengths DEF ComplianceInv, TypeOK
<1>2. ASSUME UNCHANGED decisions, batch' \in [Sweepers -> SUBSET DOMAIN decisions]
      PROVE  DecisionsKeep
  BY <1>1, <1>2 DEF DecisionsKeep
<1>3. ASSUME NEW d \in DOMAIN decisions, NEW row \in Decision,
             decisions' = [decisions EXCEPT ![d] = row],
             decisions[d].superseded => row.superseded,
             batch' \in [Sweepers -> SUBSET DOMAIN decisions]
      PROVE  DecisionsKeep
  <2>1. /\ decisions' \in Seq(Decision) /\ Len(decisions') = Len(decisions)
        /\ DOMAIN decisions' = DOMAIN decisions
        /\ \A e \in DOMAIN decisions : decisions'[e] = IF e = d THEN row ELSE decisions[e]
    BY <1>1, <1>3, DecisionReplaced
  <2>2. QED
    BY <1>1, <1>3, <2>1 DEF DecisionsKeep
<1>4. ASSUME NEW old \in Seq(Decision), Len(old) = Len(decisions), NEW new \in Decision,
             Len(decisions) < MaxDecisions,
             \A e \in DOMAIN decisions : decisions[e].superseded => old[e].superseded,
             decisions' = Append(old, new), UNCHANGED batch
      PROVE  DecisionsKeep
  <2>1. /\ decisions' \in Seq(Decision) /\ Len(decisions') = Len(decisions) + 1
        /\ DOMAIN decisions' = DOMAIN decisions \cup {Len(decisions) + 1}
        /\ \A e \in DOMAIN decisions : decisions'[e] = old[e]
    BY <1>1, <1>4, DecisionAppended
  <2>2. batch' \in [Sweepers -> SUBSET DOMAIN decisions']
    BY <1>1, <1>4, <2>1
  <2>3. Len(decisions) <= Len(decisions') /\ Len(decisions') <= MaxDecisions
    BY <1>1, <1>4, <2>1, ComplianceBounds
  <2>4. QED
    BY <1>4, <2>1, <2>2, <2>3 DEF DecisionsKeep
<1>5. ASSUME NEW scope \in Scopes, NEW verdict \in {"APPROVED", "REJECTED"},
             RecordDecision(scope, verdict)
      PROVE  DecisionsKeep
  <2>1. NewDecision(scope, verdict) \in Decision
    BY DEF NewDecision, Decision
  <2>2. /\ Len(decisions) < MaxDecisions /\ UNCHANGED batch
        /\ decisions' = Append(SupersedeActive(scope), NewDecision(scope, verdict))
    BY <1>5 DEF RecordDecision
  <2>3. QED
    BY <1>1, <1>4, <2>1, <2>2, Superseded
<1>6. ASSUME NEW scope \in Scopes, RevokeDecision(scope) PROVE DecisionsKeep
  <2> DEFINE new == NewDecision(scope, "REVOKED")
  <2>1. new \in Decision
    BY DEF NewDecision, Decision
  <2> HIDE DEF new
  <2>2. /\ Len(decisions) < MaxDecisions /\ UNCHANGED batch
        /\ \/ decisions' = Append(SupersedeActive(scope), new)
           \/ decisions' = Append(decisions, new)
    BY <1>6 DEF RevokeDecision, new
  <2>3. CASE decisions' = Append(SupersedeActive(scope), new)
    BY <1>1, <1>4, <2>1, <2>2, <2>3, Superseded
  <2>4. CASE decisions' = Append(decisions, new)
    BY <1>1, <1>4, <2>1, <2>2, <2>4
  <2>5. QED
    BY <2>2, <2>3, <2>4
<1>7. ASSUME NEW w \in Sweepers, NEW d \in DOMAIN decisions, ExpireOne(w, d)
      PROVE  DecisionsKeep
  <2> DEFINE row == [decisions[d] EXCEPT !.status = "EXPIRED", !.superseded = TRUE]
  <2>1. row \in Decision /\ row.superseded
    BY <1>1, DecisionFields DEF Decision
  <2>2. decisions' = [decisions EXCEPT ![d] = row]
    BY <1>7 DEF ExpireOne
  <2> HIDE DEF row
  <2>3. batch' \in [Sweepers -> SUBSET DOMAIN decisions]
    BY <1>1, <1>7 DEF ExpireOne
  <2>4. QED
    BY <1>3, <2>1, <2>2, <2>3
<1>8. ASSUME NEW w \in Sweepers, ListLapsed(w) \/ AbortBatch(w) PROVE DecisionsKeep
  <2>1. UNCHANGED decisions /\ batch' \in [Sweepers -> SUBSET DOMAIN decisions]
    BY <1>1, <1>8 DEF ListLapsed, AbortBatch, LapsedApprovals
  <2>2. QED
    BY <1>2, <2>1
<1>9. ASSUME NEW s \in DOMAIN syncs,
             \/ ClaimSync(s) \/ PrepareSync(s) \/ SendSync(s) \/ FailSync(s)
             \/ ObserveSync(s) \/ ObserveReorg(s)
             \/ CheckCanonical(s) \/ ReadFinality(s)
             \/ ReconcileTarget(s) \/ ReconcileEligibility(s)
             \/ SettleReverted(s) \/ StopObserving(s)
      PROVE  DecisionsKeep
  <2>1. UNCHANGED <<decisions, batch>>
    BY <1>9 DEF ClaimSync, PrepareSync, SendSync, FailSync, ObserveSync, ObserveReorg,
                CheckCanonical, ReadFinality, ReconcileTarget, ReconcileEligibility,
                SettleReverted, StopObserving
  <2>2. QED
    BY <1>1, <1>2, <2>1
<1>10. ASSUME NEW s \in DOMAIN syncs, SettleSync(s) PROVE DecisionsKeep
  <2> DEFINE d == syncs[s].dec
             row == [decisions[d] EXCEPT !.synced = TRUE]
  <2>1. d \in DOMAIN decisions
    BY <1>1, SyncFields
  <2>2. row \in Decision /\ (decisions[d].superseded => row.superseded)
    <3>1. decisions[d] \in Decision
      BY <1>1, <2>1, DecisionFields
    <3>2. QED
      BY <3>1 DEF Decision
  <2>3. decisions' = [decisions EXCEPT ![d] = row] /\ UNCHANGED batch
    BY <1>10 DEF SettleSync
  <2> HIDE DEF row
  <2>4. QED
    BY <1>1, <1>3, <2>1, <2>2, <2>3
<1>11. ASSUME NEW d \in DOMAIN decisions, Lapse(d) PROVE DecisionsKeep
  <2> DEFINE row == [decisions[d] EXCEPT !.lapsed = TRUE]
  <2>1. row \in Decision /\ (decisions[d].superseded => row.superseded)
    BY <1>1, DecisionFields DEF Decision
  <2>2. decisions' = [decisions EXCEPT ![d] = row] /\ UNCHANGED batch
    BY <1>11 DEF Lapse
  <2> HIDE DEF row
  <2>3. QED
    BY <1>1, <1>3, <2>1, <2>2
<1>12. ASSUME MineNext \/ Finalize \/ Reorg PROVE DecisionsKeep
  <2>1. UNCHANGED <<decisions, batch>>
    BY <1>12 DEF MineNext, Finalize, Reorg
  <2>2. QED
    BY <1>1, <1>2, <2>1
<1>13. QED
  BY <1>5, <1>6, <1>7, <1>8, <1>9, <1>10, <1>11, <1>12 DEF Next

-----------------------------------------------------------------------------
(* What a step does to the lane and the chain *)

\* A step sends a sync, or it mines, finalizes or drops a block, or it leaves both alone.
LEMMA ChainStep ==
  ASSUME ComplianceInv, Next
  PROVE  /\ \/ UNCHANGED chainVars
            \/ \E s \in DOMAIN syncs : SendSync(s)
            \/ MineNext \/ Finalize \/ Reorg
         /\ misread \subseteq misread' /\ misread' \subseteq DOMAIN syncs
<1>1. misread \subseteq DOMAIN syncs
  BY DEF ComplianceInv, TypeOK
<1> DEFINE Goal == /\ \/ UNCHANGED chainVars
                      \/ \E s \in DOMAIN syncs : SendSync(s)
                      \/ MineNext \/ Finalize \/ Reorg
                   /\ misread \subseteq misread' /\ misread' \subseteq DOMAIN syncs
<1>2. ASSUME NEW scope \in Scopes, NEW verdict \in {"APPROVED", "REJECTED"},
             RecordDecision(scope, verdict) \/ RevokeDecision(scope)
      PROVE  Goal
  BY <1>1, <1>2 DEF RecordDecision, RevokeDecision
<1>3. ASSUME NEW w \in Sweepers,
             ListLapsed(w) \/ AbortBatch(w) \/ \E d \in DOMAIN decisions : ExpireOne(w, d)
      PROVE  Goal
  BY <1>1, <1>3 DEF ListLapsed, AbortBatch, ExpireOne
<1>4. ASSUME MineNext \/ Finalize \/ Reorg PROVE Goal
  BY <1>1, <1>4 DEF MineNext, Finalize, Reorg
<1>5. ASSUME NEW s \in DOMAIN syncs, SendSync(s) PROVE Goal
  BY <1>1, <1>5 DEF SendSync
<1>6. ASSUME NEW s \in DOMAIN syncs,
             \/ ClaimSync(s) \/ PrepareSync(s) \/ FailSync(s)
             \/ ObserveSync(s) \/ ObserveReorg(s)
             \/ CheckCanonical(s) \/ ReadFinality(s)
             \/ ReconcileTarget(s) \/ ReconcileEligibility(s)
             \/ SettleSync(s) \/ SettleReverted(s) \/ StopObserving(s)
      PROVE  Goal
  BY <1>1, <1>6 DEF ClaimSync, PrepareSync, FailSync, ObserveSync, ObserveReorg,
                    CheckCanonical, ReadFinality, ReconcileTarget, ReconcileEligibility,
                    SettleSync, SettleReverted, StopObserving
<1>7. ASSUME NEW d \in DOMAIN decisions, Lapse(d) PROVE Goal
  BY <1>1, <1>7 DEF Lapse
<1> HIDE DEF Goal
<1>8. ASSUME NEW scope \in Scopes, RevokeDecision(scope) PROVE Goal
  BY <1>2, <1>8
<1>9. Goal
  BY <1>2, <1>3, <1>4, <1>5, <1>6, <1>7, <1>8 DEF Next
<1>10. QED
  BY <1>9 DEF Goal

\* The nonces that were taken stay with their syncs.
LaneKeeps ==
  /\ Len(lane') \in Nat /\ Len(lane) <= Len(lane') /\ DOMAIN lane' = 1..Len(lane')
  /\ \A i \in DOMAIN lane : lane'[i] = lane[i]

\* Every step keeps the nonces in the order of the syncs.
LEMMA LaneKept ==
  ASSUME ComplianceInv, Next, SyncsSound, SyncsKeep
  PROVE  lane' \in Seq(DOMAIN syncs') /\ LaneInOrder' /\ LaneKeeps
<1>1. TypeOK /\ DOMAIN syncs \subseteq DOMAIN syncs'
  BY DEF ComplianceInv, SyncsKeep
<1>2. /\ Len(lane) \in Nat /\ DOMAIN lane = 1..Len(lane)
      /\ Len(syncs) \in Nat /\ DOMAIN syncs = 1..Len(syncs)
      /\ \A i \in DOMAIN lane : lane[i] \in DOMAIN syncs
  BY <1>1, Lengths
<1>3. \A i \in DOMAIN lane : lane[i] \in DOMAIN syncs'
                             /\ syncs'[lane[i]].state \notin Unsent
  BY <1>1, <1>2 DEF ComplianceInv, LaneInOrder, SyncsKeep
<1>4. lane \in Seq(DOMAIN syncs')
  <2>1. lane \in [1..Len(lane) -> DOMAIN syncs]
    BY LenProperties, <1>1 DEF TypeOK
  <2>2. lane \in [1..Len(lane) -> DOMAIN syncs']
    BY <1>1, <2>1
  <2>3. QED
    BY <1>2, <2>2, FunctionIsSeq
<1>5. CASE UNCHANGED lane
  <2>1. LaneInOrder'
    BY <1>3, <1>5 DEF ComplianceInv, LaneInOrder
  <2>2. QED
    BY <1>2, <1>4, <1>5, <2>1 DEF LaneKeeps
<1>6. ASSUME NEW s \in DOMAIN syncs, SendSync(s)
      PROVE  lane' \in Seq(DOMAIN syncs') /\ LaneInOrder' /\ LaneKeeps
  <2>1. lane' = Append(lane, s) /\ syncs[s].state = "PREPARING" /\ To(s, "SUBMITTED", "none")
    BY <1>6 DEF SendSync
  <2>2. s = Len(syncs)
    BY <2>1 DEF ComplianceInv, LiveIsLast, IsLive, TerminalStates
  <2>3. syncs'[s].state = "SUBMITTED"
    BY <1>1, <2>1, Moved DEF SyncState, Steps
  <2>4. \A i \in DOMAIN lane : lane[i] < s
    <3>1. \A i \in DOMAIN lane : lane[i] # s
      BY <2>1 DEF ComplianceInv, LaneInOrder, Unsent
    <3>2. QED
      BY <1>2, <2>2, <3>1
  <2>5. /\ lane' \in Seq(DOMAIN syncs') /\ Len(lane') = Len(lane) + 1
        /\ \A i \in 1..Len(lane) : lane'[i] = lane[i]
        /\ lane'[Len(lane) + 1] = s
    BY <1>1, <1>4, <2>1, AppendProperties
  <2>6. DOMAIN lane' = 1..(Len(lane) + 1)
    BY <2>5, LenProperties
  <2>7. LaneInOrder'
    <3>1. \A i \in DOMAIN lane' : syncs'[lane'[i]].state \notin Unsent
      BY <1>2, <1>3, <2>3, <2>5, <2>6 DEF Unsent
    <3>2. ASSUME NEW i \in DOMAIN lane', NEW j \in 1..(i - 1) PROVE lane'[j] < lane'[i]
      <4>1. j \in DOMAIN lane /\ lane'[j] = lane[j]
        BY <1>2, <2>5, <2>6
      <4>2. CASE i \in DOMAIN lane
        BY <1>2, <2>5, <4>1, <4>2 DEF ComplianceInv, LaneInOrder
      <4>3. CASE i = Len(lane) + 1
        BY <2>4, <2>5, <4>1, <4>3
      <4>4. QED
        BY <1>2, <2>6, <4>2, <4>3
    <3>3. QED
      BY <3>1, <3>2 DEF LaneInOrder
  <2>8. QED
    BY <1>2, <2>5, <2>6, <2>7 DEF LaneKeeps
<1>7. QED
  BY <1>5, <1>6, ChainStep DEF chainVars, MineNext, Finalize, Reorg

\* The chain is as the invariant has it after this step.
ChainSound ==
  /\ chain' \in Seq(Block)
  /\ final' \in 0..Len(chain') /\ Len(chain') <= Len(lane')
  /\ WritesItsOwn' /\ GrantIsWritten'

\* Block b is mined on top of the chain.
LEMMA MinedBlock ==
  ASSUME TypeOK, NEW b \in Block, chain' = Append(chain, b)
  PROVE  /\ chain' \in Seq(Block) /\ Len(chain') = Len(chain) + 1
         /\ DOMAIN chain' = 1..(Len(chain) + 1)
         /\ \A i \in DOMAIN chain : chain'[i] = chain[i]
         /\ chain'[Len(chain) + 1] = b
<1>1. /\ chain' \in Seq(Block) /\ Len(chain') = Len(chain) + 1
      /\ \A i \in 1..Len(chain) : chain'[i] = chain[i]
      /\ chain'[Len(chain) + 1] = b
  BY AppendProperties DEF TypeOK
<1>2. DOMAIN chain' = 1..(Len(chain) + 1) /\ DOMAIN chain = 1..Len(chain)
  BY <1>1, LenProperties DEF TypeOK
<1>3. QED
  BY <1>1, <1>2

\* The last block is dropped.
LEMMA DroppedBlock ==
  ASSUME TypeOK, Reorg
  PROVE  /\ chain' \in Seq(Block) /\ Len(chain') = Len(chain) - 1 /\ Len(chain) >= 1
         /\ DOMAIN chain' = 1..(Len(chain) - 1)
         /\ \A i \in DOMAIN chain' : chain'[i] = chain[i]
<1>1. /\ Len(chain) \in Nat /\ Len(chain) >= 1 /\ DOMAIN chain = 1..Len(chain)
      /\ \A i \in DOMAIN chain : chain[i] \in Block
  BY Lengths DEF Reorg
<1> DEFINE n == Len(chain) - 1
<1>2. chain' = SubSeq(chain, 1, n) /\ n \in Nat /\ n \in Int
  BY <1>1 DEF Reorg
<1>3. \A i \in 1..n : chain[i] \in Block
  BY <1>1
<1> HIDE DEF n
<1>4. /\ chain' \in Seq(Block)
      /\ Len(chain') = IF 1 <= n THEN n - 1 + 1 ELSE 0
      /\ \A i \in 1..(n - 1 + 1) : chain'[i] = chain[1 + i - 1]
  BY <1>2, <1>3, SubSeqProperties
<1>5. Len(chain') = n
  BY <1>2, <1>4
<1>6. \A i \in 1..n : chain'[i] = chain[i]
  <2>1. SUFFICES ASSUME NEW i \in 1..n PROVE chain'[i] = chain[i]
    OBVIOUS
  <2>2. i \in 1..(n - 1 + 1) /\ 1 + i - 1 = i
    BY <1>2, <2>1
  <2>3. QED
    BY <1>4, <2>2
<1>7. DOMAIN chain' = 1..n
  BY <1>4, <1>5, LenProperties
<1>8. QED
  BY <1>1, <1>4, <1>5, <1>6, <1>7 DEF n

\* Every step keeps what the chain says the work of the syncs in its lane.
LEMMA ChainKept ==
  ASSUME ComplianceInv, Next, SyncsKeep, LaneKeeps
  PROVE  ChainSound
<1>1. TypeOK /\ WritesItsOwn /\ GrantIsWritten
  BY DEF ComplianceInv
<1>2. /\ Len(chain) \in Nat /\ DOMAIN chain = 1..Len(chain)
      /\ Len(lane) \in Nat /\ DOMAIN lane = 1..Len(lane)
      /\ final \in Nat /\ final <= Len(chain) /\ Len(chain) <= Len(lane)
      /\ Len(lane) <= Len(lane') /\ Len(lane') \in Nat
  BY <1>1, Lengths DEF LaneKeeps
<1>3. \A i \in DOMAIN lane : lane'[i] = lane[i] /\ syncs'[lane[i]].until = syncs[lane[i]].until
  BY <1>1, Lengths DEF LaneKeeps, SyncsKeep
<1>4. \A i \in DOMAIN chain : i \in DOMAIN lane /\ chain[i] \in Block
  BY <1>1, Lengths
<1>5. CASE UNCHANGED chain /\ final' \in 0..Len(chain)
  <2>1. WritesItsOwn'
    BY <1>1, <1>3, <1>4, <1>5 DEF WritesItsOwn
  <2>2. GrantIsWritten'
    BY <1>1, <1>5 DEF GrantIsWritten, Since, Withdrawn
  <2>3. QED
    BY <1>1, <1>2, <1>5, <2>1, <2>2 DEF ChainSound, TypeOK
<1>6. CASE MineNext
  <2>0. PICK n \in Nat : n = Len(chain) + 1
    BY <1>2
  <2>1. n \in DOMAIN lane /\ UNCHANGED <<syncs, lane, final>> /\ lane[n] \in DOMAIN syncs
    BY <1>1, <1>2, <1>6, <2>0, Lengths DEF MineNext
  <2>2. PICK b \in Block : /\ chain' = Append(chain, b)
                           /\ \/ b.ok /\ b.until = syncs[lane[n]].until
                              \/ ~b.ok /\ b.until = OnChain
    <3>1. syncs[lane[n]].until \in 0..MaxDecisions
      BY <1>1, <2>1, SyncFields
    <3>2. OnChain \in 0..MaxDecisions
      <4>1. CASE chain = <<>>
        BY <4>1, ComplianceBounds DEF OnChain, Withdrawn
      <4>2. CASE chain # <<>>
        <5>1. Len(chain) \in DOMAIN chain
          BY <1>1, <1>2, <4>2, EmptySeq DEF TypeOK
        <5>2. QED
          BY <1>4, <4>2, <5>1 DEF OnChain, Block
      <4>3. QED
        BY <4>1, <4>2
    <3>3. /\ [ok |-> TRUE, until |-> syncs[lane[n]].until] \in Block
          /\ [ok |-> FALSE, until |-> OnChain] \in Block
      BY <3>1, <3>2 DEF Block
    <3>4. QED
      BY <1>6, <2>0, <3>3 DEF MineNext
  <2>3. /\ chain' \in Seq(Block) /\ Len(chain') = n /\ DOMAIN chain' = 1..n
        /\ \A i \in DOMAIN chain : chain'[i] = chain[i]
        /\ chain'[n] = b
    BY <1>1, <2>0, <2>2, MinedBlock
  <2>4. WritesItsOwn'
    <3>1. ASSUME NEW i \in DOMAIN chain', chain'[i].ok
          PROVE  chain'[i].until = syncs'[lane'[i]].until
      <4>1. CASE i \in DOMAIN chain
        BY <1>1, <2>1, <2>3, <3>1, <4>1 DEF WritesItsOwn
      <4>2. CASE i = n
        BY <2>1, <2>2, <2>3, <3>1, <4>2
      <4>3. QED
        BY <1>2, <2>0, <2>3, <4>1, <4>2
    <3>2. QED
      BY <3>1 DEF WritesItsOwn
  <2>5. ASSUME NEW i \in DOMAIN chain, NEW j \in 1..i, Since(j, i) PROVE Since(j, i)'
    BY <1>2, <2>3, <2>5 DEF Since
  <2>6. ASSUME chain'[n].until # Withdrawn PROVE \E j \in 1..n : Since(j, n)'
    <3>1. CASE b.ok
      <4>1. \A k \in n..n : k = n
        BY <1>2, <2>0
      <4>2. Since(n, n)'
        BY <2>3, <3>1, <4>1 DEF Since
      <4>3. QED
        BY <1>2, <2>0, <4>2
    <3>2. CASE ~b.ok
      <4>1. b.until = OnChain /\ OnChain # Withdrawn
        BY <2>2, <2>3, <2>6, <3>2
      <4>2. chain # <<>> /\ OnChain = chain[Len(chain)].until
        BY <4>1 DEF OnChain
      <4>3. Len(chain) \in DOMAIN chain
        BY <1>1, <1>2, <4>2, EmptySeq DEF TypeOK
      <4>4. PICK j \in 1..Len(chain) : Since(j, Len(chain))
        BY <1>1, <4>1, <4>2, <4>3 DEF GrantIsWritten
      <4>5. \A k \in j..n : k \in j..Len(chain) \/ k = n
        BY <1>2, <2>0
      <4>6. \A k \in j..Len(chain) : chain'[k].until = chain'[n].until
        BY <1>2, <2>3, <4>1, <4>2, <4>4 DEF Since
      <4>7. chain'[j].ok
        BY <1>2, <2>3, <4>4 DEF Since
      <4>8. Since(j, n)'
        BY <4>5, <4>6, <4>7 DEF Since
      <4>9. QED
        BY <1>2, <2>0, <4>8
    <3>3. QED
      BY <3>1, <3>2
  <2>7. GrantIsWritten'
    <3>1. ASSUME NEW i \in DOMAIN chain', chain'[i].until # Withdrawn
          PROVE  \E j \in 1..i : Since(j, i)'
      <4>1. CASE i \in DOMAIN chain
        <5>1. PICK j \in 1..i : Since(j, i)
          BY <1>1, <2>3, <3>1, <4>1 DEF GrantIsWritten
        <5>2. QED
          BY <2>5, <4>1, <5>1
      <4>2. CASE i = n
        BY <2>6, <3>1, <4>2
      <4>3. QED
        BY <1>2, <2>0, <2>3, <4>1, <4>2
    <3>2. QED
      BY <3>1 DEF GrantIsWritten, Withdrawn
  <2>8. Len(chain') <= Len(lane') /\ final' \in 0..Len(chain')
    BY <1>2, <2>0, <2>1, <2>3
  <2>9. QED
    BY <2>3, <2>4, <2>7, <2>8 DEF ChainSound
<1>7. CASE Reorg
  <2>1. /\ chain' \in Seq(Block) /\ Len(chain') = Len(chain) - 1
        /\ DOMAIN chain' = 1..(Len(chain) - 1)
        /\ \A i \in DOMAIN chain' : chain'[i] = chain[i]
    BY <1>1, <1>7, DroppedBlock
  <2>2. DOMAIN chain' \subseteq DOMAIN chain
    BY <1>2, <2>1
  <2>3. WritesItsOwn'
    BY <1>1, <1>3, <1>4, <2>1, <2>2 DEF WritesItsOwn
  <2>4. GrantIsWritten'
    <3>1. ASSUME NEW i \in DOMAIN chain', chain'[i].until # Withdrawn
          PROVE  \E j \in 1..i : Since(j, i)'
      <4>1. PICK j \in 1..i : Since(j, i)
        BY <1>1, <2>1, <2>2, <3>1 DEF GrantIsWritten
      <4>2. \A k \in j..i : k \in DOMAIN chain'
        BY <1>2, <2>1, <3>1
      <4>3. j \in j..i /\ i \in j..i
        BY <1>2, <2>1, <3>1
      <4>4. Since(j, i)'
        BY <2>1, <4>1, <4>2, <4>3 DEF Since
      <4>5. QED
        BY <4>4
    <3>2. QED
      BY <3>1 DEF GrantIsWritten, Withdrawn
  <2>5. final' \in 0..Len(chain') /\ Len(chain') <= Len(lane')
    BY <1>2, <1>7, <2>1 DEF Reorg
  <2>6. QED
    BY <2>1, <2>3, <2>4, <2>5 DEF ChainSound
<1>8. ASSUME UNCHANGED chainVars \/ (\E s \in DOMAIN syncs : SendSync(s)) \/ Finalize
      PROVE  UNCHANGED chain /\ final' \in 0..Len(chain)
  BY <1>2, <1>8 DEF chainVars, SendSync, Finalize
<1>9. QED
  BY <1>5, <1>6, <1>7, <1>8, ChainStep

\* A nonce whose block was mined keeps its sync.
LEMMA EffectKept ==
  ASSUME ComplianceInv, LaneKeeps, NEW i \in 1..Len(chain)
  PROVE  lane'[i] = lane[i]
<1>1. i \in DOMAIN lane
  BY Lengths DEF ComplianceInv
<1>2. QED
  BY <1>1 DEF LaneKeeps

\* What a step leaves of the sightings of a sync when no block is dropped.
LEMMA SightingsKept ==
  ASSUME ComplianceInv, Next, LaneKeeps, ChainSound, ~Reorg
  PROVE  Sightings'
<1>1. TypeOK /\ Len(chain) \in Nat /\ final \in Nat /\ final <= Len(chain)
      /\ DOMAIN chain = 1..Len(chain)
  BY Lengths DEF ComplianceInv
<1>2. /\ Len(chain') \in Nat /\ Len(chain) <= Len(chain') /\ final' \in Nat
      /\ final <= final' /\ \A i \in 1..Len(chain) : chain'[i] = chain[i]
  <2>1. CASE UNCHANGED chain /\ final' \in {final, final + 1}
    BY <1>1, <2>1
  <2>2. CASE MineNext
    <3>1. PICK b : chain' = Append(chain, b) /\ final' = final
      BY <2>2 DEF MineNext
    <3>2. /\ Len(chain') = Len(chain) + 1
          /\ \A i \in 1..Len(chain) : chain'[i] = chain[i]
      BY <1>1, <3>1 DEF TypeOK
    <3>3. QED
      BY <1>1, <3>1, <3>2
  <2>3. QED
    BY <2>1, <2>2, ChainStep DEF chainVars, SendSync, Finalize
<1>3. ASSUME NEW s, TookEffect(s, Len(chain)) PROVE TookEffect(s, Len(chain))'
  <2>1. PICK i \in 1..Len(chain) : lane[i] = s /\ chain[i].ok
    BY <1>3 DEF TookEffect
  <2>2. lane'[i] = s
    BY <1>1, <2>1, EffectKept
  <2>3. i \in 1..Len(chain') /\ chain'[i].ok
    BY <1>1, <1>2, <2>1
  <2>4. QED
    BY <2>2, <2>3 DEF TookEffect
<1>4. ASSUME NEW s, TookEffect(s, final) PROVE TookEffect(s, final)'
  <2>1. PICK i \in 1..final : lane[i] = s /\ chain[i].ok
    BY <1>4 DEF TookEffect
  <2>2. i \in 1..Len(chain)
    BY <1>1, <2>1
  <2>3. lane'[i] = s
    BY <2>1, <2>2, EffectKept
  <2>4. i \in 1..final' /\ chain'[i].ok
    BY <1>1, <1>2, <2>1, <2>2
  <2>5. QED
    BY <2>3, <2>4 DEF TookEffect
<1>5. misread \subseteq misread'
  BY ChainStep
<1> DEFINE Sight(state, step, s) ==
             /\ step = "canonical" => TookEffect(s, Len(chain))'
             /\ TakenForFinal(state, step) /\ s \notin misread' => TookEffect(s, final)'
<1>6. ASSUME NEW s \in DOMAIN syncs PROVE Sight(syncs[s].state, syncs[s].step, s)
  BY <1>3, <1>4, <1>5 DEF ComplianceInv, Sightings
<1>7. CASE UNCHANGED syncs
  BY <1>6, <1>7 DEF Sightings
<1>8. CASE Queues
  <2>1. PICK d \in 1..MaxDecisions, status \in {"APPROVED", "REVOKED", "EXPIRED"} :
          SyncQueued(d, status)
    BY <1>8 DEF Queues
  <2>2. /\ DOMAIN syncs' = DOMAIN syncs \cup {Len(syncs) + 1}
        /\ \A s \in DOMAIN syncs :
             /\ syncs'[s].step = syncs[s].step
             /\ syncs'[s].state = IF syncs[s].state = "READY" THEN "CANCELLED"
                                  ELSE syncs[s].state
        /\ syncs'[Len(syncs) + 1].step = "none" /\ syncs'[Len(syncs) + 1].state = "READY"
    BY <1>1, <2>1, Enqueued DEF SyncQueued
  <2>3. \A s \in DOMAIN syncs' : Sight(syncs'[s].state, syncs'[s].step, s)
    BY <1>6, <2>2 DEF TakenForFinal
  <2>4. QED
    BY <2>3 DEF Sightings
<1>9. ASSUME NEW s \in DOMAIN syncs, Moves(s) PROVE Sightings'
  <2>1. PICK state \in SyncState, step \in Steps : SyncMove(s, state, step)
    BY <1>9 DEF Moves
  <2>2. /\ DOMAIN syncs' = DOMAIN syncs
        /\ \A t \in DOMAIN syncs :
             /\ syncs'[t].state = IF t = s THEN state ELSE syncs[t].state
             /\ syncs'[t].step = IF t = s THEN step ELSE syncs[t].step
    BY <1>1, <2>1, Moved DEF SyncMove
  <2>3. Sight(state, step, s)
    BY <1>3, <1>4, <2>1 DEF SyncMove
  <2>4. \A t \in DOMAIN syncs' : Sight(syncs'[t].state, syncs'[t].step, t)
    BY <1>6, <2>2, <2>3
  <2>5. QED
    BY <2>4 DEF Sightings
<1>10. QED
  BY <1>7, <1>8, <1>9, SyncStep

\* A reorganisation takes the sighting of the sync it drops, and final blocks stay.
LEMMA ReorgSightings ==
  ASSUME ComplianceInv, Reorg, LaneKeeps
  PROVE  Sightings'
<1> DEFINE top == lane[Len(chain)]
<1>1. TypeOK /\ Len(chain) \in Nat /\ final \in Nat /\ final < Len(chain)
      /\ UNCHANGED <<lane, final, misread>>
  BY Lengths DEF ComplianceInv, Reorg
<1>2. /\ Len(chain') = Len(chain) - 1
      /\ \A i \in 1..(Len(chain) - 1) : chain'[i] = chain[i]
  BY <1>1, DroppedBlock
<1>3. top \in DOMAIN syncs
  BY <1>1, Lengths
<1>4. /\ DOMAIN syncs' = DOMAIN syncs
      /\ \A t \in DOMAIN syncs :
           /\ syncs'[t].state = syncs[t].state
           /\ syncs'[t].step = IF t = top /\ syncs[t].step = "canonical" THEN "orphaned"
                               ELSE syncs[t].step
  <2>1. CASE syncs[top].step = "canonical" /\ Establish(top, "orphaned")
    <3>1. To(top, syncs[top].state, "orphaned")
      BY <1>1, <1>3, <2>1, EstablishMoves DEF Steps
    <3>2. syncs[top].state \in SyncState
      BY <1>1, <1>3, SyncFields
    <3>3. QED
      BY <1>1, <1>3, <2>1, <3>1, <3>2, Moved DEF Steps
  <2>2. CASE syncs[top].step # "canonical" /\ UNCHANGED syncs
    BY <2>2
  <2>3. QED
    BY <2>1, <2>2 DEF Reorg
<1>5. ASSUME NEW s, s # top, TookEffect(s, Len(chain)) PROVE TookEffect(s, Len(chain))'
  <2>1. PICK i \in 1..Len(chain) : lane[i] = s /\ chain[i].ok
    BY <1>5 DEF TookEffect
  <2>2. i \in 1..(Len(chain) - 1)
    BY <1>1, <1>5, <2>1
  <2>3. QED
    BY <1>1, <1>2, <2>1, <2>2 DEF TookEffect
<1>6. ASSUME NEW s, TookEffect(s, final) PROVE TookEffect(s, final)'
  BY <1>1, <1>2, <1>6 DEF TookEffect
<1>7. QED
  BY <1>1, <1>4, <1>5, <1>6 DEF ComplianceInv, Sightings, TakenForFinal

-----------------------------------------------------------------------------
(* The invariant *)

\* The initial states are as ComplianceInv says.
LEMMA ComplianceStart == Init => ComplianceInv
<1> SUFFICES ASSUME Init PROVE ComplianceInv
  OBVIOUS
<1>1. TypeOK /\ Len(decisions) <= MaxDecisions
  BY ComplianceBounds, EmptySeq DEF Init, TypeOK
<1>2. UntilIsDec /\ LiveIsLast /\ LaterGrant /\ StepsFit /\ Sightings
  BY DEF Init, UntilIsDec, LiveIsLast, LaterGrant, StepsFit, Sightings
<1>3. LaneInOrder /\ WritesItsOwn /\ GrantIsWritten
  BY DEF Init, LaneInOrder, WritesItsOwn, GrantIsWritten
<1>4. QED
  BY <1>1, <1>2, <1>3 DEF ComplianceInv

\* Every step preserves the invariant.
LEMMA ComplianceKept ==
  ASSUME ComplianceInv, [Next]_vars
  PROVE  ComplianceInv'
<1>1. CASE UNCHANGED vars
  <2>1. TypeOK' /\ (Len(decisions) <= MaxDecisions)'
    BY <1>1 DEF vars, ComplianceInv, TypeOK
  <2>2. UntilIsDec' /\ LiveIsLast' /\ LaterGrant' /\ StepsFit'
    BY <1>1 DEF vars, ComplianceInv, UntilIsDec, LiveIsLast, IsLive, LaterGrant, StepsFit
  <2>3. LaneInOrder' /\ WritesItsOwn'
    BY <1>1 DEF vars, ComplianceInv, LaneInOrder, WritesItsOwn
  <2>4. GrantIsWritten'
    BY <1>1 DEF vars, ComplianceInv, GrantIsWritten, Since
  <2>5. Sightings'
    BY <1>1 DEF vars, ComplianceInv, Sightings, TookEffect
  <2>6. QED
    BY <2>1, <2>2, <2>3, <2>4, <2>5 DEF ComplianceInv
<1>2. CASE Next
  <2>1. DecisionsKeep
    BY <1>2, DecisionsKept
  <2>2. Len(decisions') \in Nat /\ Len(decisions) <= Len(decisions')
    BY <2>1, LenProperties DEF DecisionsKeep
  <2>3. SyncsSound /\ SyncsKeep
    BY <1>2, <2>2, SyncsKept
  <2>4. lane' \in Seq(DOMAIN syncs') /\ LaneInOrder' /\ LaneKeeps
    BY <1>2, <2>3, LaneKept
  <2>5. ChainSound
    BY <1>2, <2>3, <2>4, ChainKept
  <2>6. Sightings'
    BY <1>2, <2>4, <2>5, SightingsKept, ReorgSightings
  <2>7. misread' \subseteq DOMAIN syncs'
    BY <1>2, <2>3, ChainStep DEF SyncsKeep
  <2>8. reorgs' \in 0..MaxReorgs
    <3>1. reorgs \in 0..MaxReorgs
      BY DEF ComplianceInv, TypeOK
    <3>2. UNCHANGED reorgs \/ (reorgs < MaxReorgs /\ reorgs' = reorgs + 1)
      BY <1>2, ChainStep DEF chainVars, SendSync, MineNext, Finalize, Reorg
    <3>3. QED
      BY <3>1, <3>2, ComplianceBounds
  <2>9. TypeOK'
    BY <2>1, <2>3, <2>4, <2>5, <2>7, <2>8 DEF TypeOK, DecisionsKeep, SyncsSound, ChainSound
  <2>10. QED
    BY <2>1, <2>3, <2>4, <2>5, <2>6, <2>9
       DEF ComplianceInv, DecisionsKeep, SyncsSound, ChainSound
<1>3. QED
  BY <1>1, <1>2

\* The invariant holds in every reachable state.
THEOREM ComplianceInvariant == Spec => []ComplianceInv
<1>1. QED
  BY ComplianceStart, ComplianceKept, PTL DEF Spec

-----------------------------------------------------------------------------
(* The theorems *)

\* The types of the component hold in every reachable state.
THEOREM ComplianceTyped == Spec => []TypeOK
<1>1. ComplianceInv => TypeOK
  BY DEF ComplianceInv
<1>2. QED
  BY <1>1, ComplianceInvariant, PTL

\* clearLiveEligibilitySync leaves at most one live sync.
THEOREM OneSyncAtATime == Spec => []OneLiveSync
<1>1. ComplianceInv => OneLiveSync
  <2> SUFFICES ASSUME ComplianceInv PROVE OneLiveSync
    OBVIOUS
  <2> DEFINE live == {s \in DOMAIN syncs : IsLive(s)}
  <2>1. live \subseteq {Len(syncs)}
    BY DEF ComplianceInv, LiveIsLast
  <2>2. IsFiniteSet({Len(syncs)}) /\ Cardinality({Len(syncs)}) = 1
    BY FS_Singleton
  <2>3. Cardinality(live) <= Cardinality({Len(syncs)})
    BY <2>1, <2>2, FS_Subset
  <2>4. QED
    BY <2>2, <2>3 DEF OneLiveSync
<1>2. QED
  BY <1>1, ComplianceInvariant, PTL

\* What the chain grants was written by a sync of the lane and not withdrawn since.
LEMMA GrantOnChain ==
  ASSUME ComplianceInv, OnChain # Withdrawn
  PROVE  /\ Len(chain) \in DOMAIN chain /\ OnChain = chain[Len(chain)].until
         /\ \E j \in DOMAIN chain : /\ Since(j, Len(chain)) /\ lane[j] \in DOMAIN syncs
                                    /\ syncs[lane[j]].until = OnChain
<1>1. TypeOK /\ WritesItsOwn /\ GrantIsWritten
  BY DEF ComplianceInv
<1>2. chain # <<>> /\ OnChain = chain[Len(chain)].until
  BY DEF OnChain
<1>3. Len(chain) \in DOMAIN chain /\ DOMAIN chain = 1..Len(chain) /\ Len(chain) \in Nat
  BY <1>1, <1>2, Lengths, EmptySeq DEF TypeOK
<1>4. PICK j \in 1..Len(chain) : Since(j, Len(chain))
  BY <1>1, <1>2, <1>3 DEF GrantIsWritten
<1>5. j \in DOMAIN chain /\ j \in j..Len(chain) /\ lane[j] \in DOMAIN syncs
  BY <1>1, <1>3, Lengths
<1>6. syncs[lane[j]].until = OnChain
  BY <1>1, <1>2, <1>4, <1>5 DEF Since, WritesItsOwn
<1>7. QED
  BY <1>2, <1>3, <1>4, <1>5, <1>6

\* What the chain grants is later than every withdrawal that took effect in a final block:
\* the grant has the greater nonce, so it is of a later sync, so of a later decision.
LEMMA GrantIsLater ==
  ASSUME ComplianceInv, OnChain # Withdrawn,
         NEW t \in DOMAIN syncs, syncs[t].until = Withdrawn, TookEffect(t, final)
  PROVE  syncs[t].dec < OnChain
<1>1. TypeOK /\ WritesItsOwn /\ LaneInOrder /\ LaterGrant
  BY DEF ComplianceInv
<1>2. PICK j \in DOMAIN chain : /\ Since(j, Len(chain)) /\ lane[j] \in DOMAIN syncs
                                /\ syncs[lane[j]].until = OnChain
  BY GrantOnChain
<1>3. PICK i \in 1..final : lane[i] = t /\ chain[i].ok
  BY DEF TookEffect
<1>4. /\ i \in DOMAIN chain /\ i \in Nat /\ j \in Nat /\ i <= Len(chain) /\ Len(chain) \in Nat
      /\ i >= 1 /\ j \in DOMAIN lane /\ lane[j] \in Nat /\ t \in Nat /\ t >= 1
  BY <1>1, <1>2, Lengths
<1>5. chain[i].until = Withdrawn
  BY <1>1, <1>3, <1>4 DEF WritesItsOwn
<1>6. chain[Len(chain)].until # Withdrawn
  BY GrantOnChain
<1>7. i \notin j..Len(chain)
  BY <1>2, <1>5, <1>6 DEF Since
<1>8. i \in 1..(j - 1)
  BY <1>4, <1>7
<1>9. t < lane[j]
  BY <1>1, <1>3, <1>4, <1>8 DEF LaneInOrder
<1>10. t \in 1..(lane[j] - 1)
  BY <1>4, <1>9
<1>11. QED
  BY <1>1, <1>2, <1>10 DEF LaterGrant

\* Once a withdrawal has succeeded, and was not misread, eligibility returns to the chain
\* only through a decision recorded later: nonces are executed in order, so an older grant
\* that is still out has to be mined before it.
THEOREM WithdrawalsStand == Spec => RevocationNotUndone
<1> DEFINE A == OnChain' # OnChain /\ OnChain' # Withdrawn =>
                  \A s \in DOMAIN syncs \ misread :
                    syncs[s].state = "SUCCEEDED" /\ syncs[s].until = Withdrawn
                      => syncs[s].dec < OnChain'
<1>1. ComplianceInv /\ ComplianceInv' /\ [Next]_vars => [A]_vars
  <2>1. CASE UNCHANGED vars
    BY <2>1
  <2>2. ASSUME ComplianceInv, ComplianceInv', Next, OnChain' # OnChain, OnChain' # Withdrawn,
               NEW s \in DOMAIN syncs \ misread,
               syncs[s].state = "SUCCEEDED", syncs[s].until = Withdrawn
        PROVE  syncs[s].dec < OnChain'
    <3>1. MineNext \/ Reorg
      BY <2>2, ChainStep DEF chainVars, SendSync, Finalize, OnChain
    <3>2. UNCHANGED <<lane, final, misread>>
      BY <3>1 DEF MineNext, Reorg
    <3>3. DecisionsKeep
      BY <2>2, DecisionsKept
    <3>4. Len(decisions') \in Nat /\ Len(decisions) <= Len(decisions')
      BY <3>3, LenProperties DEF DecisionsKeep
    <3>5. SyncsKeep /\ SyncsSound
      BY <2>2, <3>4, SyncsKept
    <3>6. s \in DOMAIN syncs' /\ syncs'[s].dec = syncs[s].dec /\ syncs'[s].until = Withdrawn
      BY <2>2, <3>5 DEF SyncsKeep
    <3>7. TookEffect(s, final)
      BY <2>2 DEF ComplianceInv, Sightings, TakenForFinal
    <3>8. LaneKeeps
      BY <2>2, <3>5, LaneKept
    <3>9. \A i \in 1..final : chain'[i] = chain[i]
      <4>1. TypeOK /\ Len(chain) \in Nat /\ final \in Nat /\ final <= Len(chain)
            /\ DOMAIN chain = 1..Len(chain)
        BY <2>2, Lengths DEF ComplianceInv
      <4>2. CASE MineNext
        <5>1. PICK b : chain' = Append(chain, b)
          BY <4>2 DEF MineNext
        <5>2. \A i \in 1..Len(chain) : chain'[i] = chain[i]
          BY <4>1, <5>1 DEF TypeOK
        <5>3. QED
          BY <4>1, <5>2
      <4>3. CASE Reorg
        <5>1. final < Len(chain)
          BY <4>3 DEF Reorg
        <5>2. \A i \in 1..(Len(chain) - 1) : chain'[i] = chain[i]
          BY <4>1, <4>3, DroppedBlock
        <5>3. QED
          BY <4>1, <5>1, <5>2
      <4>4. QED
        BY <3>1, <4>2, <4>3
    <3>10. TookEffect(s, final)'
      <4>1. final \in 0..Len(chain) /\ final' = final /\ final \in Nat /\ final <= final
        BY <2>2, <3>2, Lengths DEF ComplianceInv
      <4>2. PICK i \in 1..final : lane[i] = s /\ chain[i].ok
        BY <3>7 DEF TookEffect
      <4>3. i \in 1..Len(chain)
        BY <2>2, <4>1, <4>2, Lengths DEF ComplianceInv
      <4>4. lane'[i] = s
        BY <2>2, <3>8, <4>2, <4>3, EffectKept
      <4>5. i \in 1..final' /\ chain'[i].ok
        BY <3>9, <4>1, <4>2
      <4>6. QED
        BY <4>4, <4>5 DEF TookEffect
    <3>11. syncs'[s].dec < OnChain'
      <4>1. (OnChain # Withdrawn)'
        BY <2>2 DEF Withdrawn
      <4>2. ASSUME NEW CONSTANT t PROVE
              (ComplianceInv /\ OnChain # Withdrawn /\ t \in DOMAIN syncs
                 /\ syncs[t].until = Withdrawn /\ TookEffect(t, final)
               => syncs[t].dec < OnChain)'
        BY GrantIsLater, PTL
      <4>3. QED
        BY <2>2, <3>6, <3>10, <4>1, <4>2 DEF Withdrawn
    <3>12. QED
      BY <3>6, <3>11
  <2>3. QED
    BY <2>1, <2>2
<1>2. QED
  BY <1>1, ComplianceInvariant, PTL DEF Spec, RevocationNotUndone

\* Decision d has been superseded and no sync of it has been or is about to be sent.
Overtaken(d) ==
  /\ d \in DOMAIN decisions
  /\ decisions[d].superseded
  /\ \A s \in DOMAIN syncs : syncs[s].until = d =>
       /\ syncs[s].step # "resolved"
       /\ \A i \in DOMAIN lane : lane[i] # s

\* A decision has at most one sync that grants it.
LEMMA GrantedOnce ==
  ASSUME ComplianceInv, NEW s \in DOMAIN syncs, NEW t \in DOMAIN syncs,
         syncs[s].until = syncs[t].until, syncs[s].until # Withdrawn
  PROVE  s = t
<1>1. s \in 1..Len(syncs) /\ t \in 1..Len(syncs) /\ Len(syncs) \in Nat
      /\ syncs[s].dec \in 1..MaxDecisions /\ syncs[t].dec \in 1..MaxDecisions
  BY SyncFields DEF ComplianceInv
<1>2. syncs[s].until = syncs[s].dec /\ syncs[t].until = syncs[t].dec
  BY DEF ComplianceInv, UntilIsDec
<1>3. s \in 1..(t - 1) => syncs[s].dec < syncs[t].until
  BY DEF ComplianceInv, LaterGrant
<1>4. t \in 1..(s - 1) => syncs[t].dec < syncs[s].until
  BY DEF ComplianceInv, LaterGrant
<1>5. ~(syncs[s].dec < syncs[t].until) /\ ~(syncs[t].dec < syncs[s].until)
  <2>1. syncs[s].dec \in Int /\ syncs[t].dec \in Int
    BY <1>1, ComplianceBounds
  <2>2. syncs[s].dec = syncs[t].until /\ syncs[t].dec = syncs[s].until
    BY <1>2
  <2>3. QED
    BY <2>1, <2>2
<1>6. s \notin 1..(t - 1) /\ t \notin 1..(s - 1)
  BY <1>3, <1>4, <1>5
<1>7. QED
  BY <1>1, <1>6

\* A grant whose sync has not resolved its target when its decision is superseded is
\* overtaken.
LEMMA OvertakenStarts ==
  ASSUME ComplianceInv, NEW d \in 1..MaxDecisions, GrantOvertaken(d)
  PROVE  Overtaken(d)
<1>1. PICK s \in DOMAIN syncs : /\ syncs[s].until = d
                                /\ syncs[s].state \in Unsent /\ syncs[s].step = "none"
                                /\ decisions[d].superseded
  BY DEF GrantOvertaken, Unsent
<1>2. d # Withdrawn
  BY DEF Withdrawn
<1>3. d = syncs[s].dec
  BY <1>1, <1>2 DEF ComplianceInv, UntilIsDec
<1>4. d \in DOMAIN decisions
  BY <1>3, SyncFields, Lengths DEF ComplianceInv
<1>5. \A t \in DOMAIN syncs : syncs[t].until = d => t = s
  BY <1>1, <1>2, GrantedOnce
<1>6. \A i \in DOMAIN lane : lane[i] # s
  BY <1>1 DEF ComplianceInv, LaneInOrder
<1>7. QED
  BY <1>1, <1>4, <1>5, <1>6 DEF Overtaken

\* resolveTarget keeps an overtaken grant from being sent.
LEMMA OvertakenLasts ==
  ASSUME ComplianceInv, NEW d \in 1..MaxDecisions, Overtaken(d), [Next]_vars
  PROVE  Overtaken(d)'
<1>1. CASE UNCHANGED vars
  BY <1>1 DEF vars, Overtaken
<1>2. CASE Next
  <2>1. d \in DOMAIN decisions' /\ decisions'[d].superseded
    BY <1>2, DecisionsKept DEF Overtaken, DecisionsKeep
  <2>2. TypeOK /\ DOMAIN syncs = 1..Len(syncs) /\ Len(syncs) \in Nat
        /\ DOMAIN lane = 1..Len(lane) /\ Len(lane) \in Nat
        /\ \A i \in DOMAIN lane : lane[i] \in DOMAIN syncs
    BY Lengths DEF ComplianceInv
  <2>3. \A s \in DOMAIN syncs' : syncs'[s].until = d => syncs'[s].step # "resolved"
    <3>1. CASE UNCHANGED syncs
      BY <3>1 DEF Overtaken
    <3>2. CASE Queues
      <4>1. PICK e \in 1..MaxDecisions, status \in {"APPROVED", "REVOKED", "EXPIRED"} :
              SyncQueued(e, status)
        BY <3>2 DEF Queues
      <4>2. /\ DOMAIN syncs' = DOMAIN syncs \cup {Len(syncs) + 1}
            /\ \A t \in DOMAIN syncs :
                 syncs'[t].until = syncs[t].until /\ syncs'[t].step = syncs[t].step
            /\ syncs'[Len(syncs) + 1].step = "none"
        BY <2>2, <4>1, Enqueued DEF SyncQueued
      <4>3. QED
        BY <4>2 DEF Overtaken
    <3>3. ASSUME NEW s \in DOMAIN syncs, Moves(s)
          PROVE  \A t \in DOMAIN syncs' : syncs'[t].until = d => syncs'[t].step # "resolved"
      <4>1. PICK state \in SyncState, step \in Steps : SyncMove(s, state, step)
        BY <3>3 DEF Moves
      <4>2. /\ DOMAIN syncs' = DOMAIN syncs
            /\ \A t \in DOMAIN syncs :
                 /\ syncs'[t].until = syncs[t].until
                 /\ syncs'[t].step = IF t = s THEN step ELSE syncs[t].step
        BY <2>2, <4>1, Moved DEF SyncMove
      <4>3. ASSUME syncs[s].until = d, step = "resolved" PROVE FALSE
        <5>1. d # Withdrawn /\ syncs[s].dec = d
          BY <4>3 DEF ComplianceInv, UntilIsDec, Withdrawn
        <5>2. decisions[d].status = "APPROVED" /\ ~decisions[d].superseded
          BY <4>1, <4>3, <5>1 DEF SyncMove, Resolves, EligibleUntilFor
        <5>3. QED
          BY <5>2 DEF Overtaken
      <4>4. QED
        BY <4>2, <4>3 DEF Overtaken
    <3>4. QED
      BY <1>2, <3>1, <3>2, <3>3, SyncStep
  <2>4. \A i \in DOMAIN lane' : syncs'[lane'[i]].until # d
    <3>1. \A s \in DOMAIN syncs : syncs'[s].until = syncs[s].until
      <4>1. Len(decisions') \in Nat /\ Len(decisions) <= Len(decisions')
        BY <1>2, DecisionsKept, LenProperties DEF DecisionsKeep
      <4>2. QED
        BY <1>2, <4>1, SyncsKept DEF SyncsKeep
    <3>2. \A i \in DOMAIN lane : syncs'[lane[i]].until # d
      BY <2>2, <3>1 DEF Overtaken
    <3>3. CASE UNCHANGED lane
      BY <3>2, <3>3
    <3>4. ASSUME NEW s \in DOMAIN syncs, SendSync(s)
          PROVE  \A i \in DOMAIN lane' : syncs'[lane'[i]].until # d
      <4>1. lane' = Append(lane, s) /\ syncs[s].step = "resolved"
        BY <3>4 DEF SendSync
      <4>2. syncs'[s].until # d
        BY <3>1, <4>1 DEF Overtaken
      <4>3. /\ DOMAIN lane' = 1..(Len(lane) + 1)
            /\ \A i \in 1..Len(lane) : lane'[i] = lane[i]
            /\ lane'[Len(lane) + 1] = s
        BY <2>2, <4>1, AppendProperties, LenProperties DEF TypeOK
      <4>4. QED
        BY <2>2, <3>2, <4>2, <4>3
    <3>5. QED
      BY <1>2, <3>3, <3>4, ChainStep DEF chainVars, MineNext, Finalize, Reorg
  <2>5. QED
    BY <2>1, <2>3, <2>4 DEF Overtaken
<1>3. QED
  BY <1>1, <1>2

\* What is overtaken is not what the chain grants.
LEMMA OvertakenIsOff ==
  ASSUME ComplianceInv, NEW d \in 1..MaxDecisions, Overtaken(d)
  PROVE  OnChain # d
<1>1. SUFFICES ASSUME OnChain = d PROVE FALSE
  OBVIOUS
<1>2. OnChain # Withdrawn
  BY <1>1 DEF Withdrawn
<1>3. PICK j \in DOMAIN chain : lane[j] \in DOMAIN syncs /\ syncs[lane[j]].until = d
  BY <1>1, <1>2, GrantOnChain
<1>4. j \in DOMAIN lane
  BY Lengths DEF ComplianceInv
<1>5. QED
  BY <1>3, <1>4 DEF Overtaken

\* An approval superseded before its sync resolves its target never reaches the chain.
THEOREM OvertakenStaysOff == Spec => OvertakenNeverGranted
<1>1. SUFFICES ASSUME NEW CONSTANT d \in 1..MaxDecisions
               PROVE  Spec => [](GrantOvertaken(d) => [](OnChain # d))
  BY DEF OvertakenNeverGranted
<1>2. ComplianceInv /\ GrantOvertaken(d) => Overtaken(d)
  BY OvertakenStarts
<1>3. ComplianceInv /\ Overtaken(d) /\ [Next]_vars => Overtaken(d)'
  BY OvertakenLasts
<1>4. ComplianceInv /\ Overtaken(d) => OnChain # d
  BY OvertakenIsOff
<1>5. QED
  BY <1>2, <1>3, <1>4, ComplianceInvariant, PTL DEF Spec
=============================================================================
