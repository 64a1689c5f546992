----------------------------- MODULE Compliance -----------------------------
(***************************************************************************)
(* Compliance decisions on one wallet and their mirror on the token        *)
(* contract of one deployed asset.  A decision covers the wallet for every *)
(* asset (asset_id NULL) or for this asset.  Each write of the mirror is a *)
(* SYNC_ELIGIBILITY operation, at most one of which is live.               *)
(*                                                                         *)
(* Decisions and syncs are numbered in the order of their insertion.  Every*)
(* db.transaction is one step; one that throws changes nothing.  The states*)
(* from SIGNING to BROADCAST_UNKNOWN, which the pipeline modules model,    *)
(* count as SUBMITTED here: clearLiveEligibilitySync does not tell them    *)
(* apart.  All syncs are sent by one signer, whose nonces a node executes  *)
(* in order; a sync that FAILED after its nonce was reserved may be out.   *)
(***************************************************************************)
EXTENDS OperationStates, Sequences, FiniteSets, Integers

CONSTANTS Sweepers,      \* worker processes that run expireLapsedApprovals
          MaxDecisions,  \* bound on the decisions recorded
          MaxSyncs,      \* bound on the eligibility syncs queued
          MaxReorgs      \* bound on the blocks that leave the canonical chain

ASSUME ComplianceBounds == MaxDecisions \in Nat /\ MaxSyncs \in Nat /\ MaxReorgs \in Nat

VARIABLES decisions,     \* the table compliance_decisions
          syncs,         \* the operations of type SYNC_ELIGIBILITY
          batch,         \* what each sweeper has read and not yet expired
          lane,          \* syncs in the order of their nonces
          chain,         \* canonical blocks that consumed these nonces
          final,         \* how many of them are final
          reorgs,        \* blocks orphaned so far
          misread        \* history: syncs taken for final on a block that had left the chain

chainVars == <<lane, chain, final, reorgs>>
vars == <<decisions, syncs, batch, lane, chain, final, reorgs, misread>>

Scopes == {"wallet", "asset"}

\* The value of eligibleUntil that means "not eligible".
Withdrawn == 0

Decision ==
  [scope : Scopes, status : {"APPROVED", "REJECTED", "REVOKED", "EXPIRED"},
   superseded : BOOLEAN, lapsed : BOOLEAN, synced : BOOLEAN]

\* What the call chain that drives a sync has established: its target was resolved; the
\* block of its receipt is canonical, or was when the hash was compared; it was taken for
\* final; its target was resolved again; the deadline on the chain is the target's; or the
\* receipt is of a revert.
Steps ==
  {"none", "resolved", "canonical", "orphaned", "finalized", "found", "matched", "reverted"}

\* until is the eligibility deadline the operation's proposal hash was taken over.
Sync ==
  [dec : 1..MaxDecisions, until : 0..MaxDecisions, step : Steps,
   state : {"READY", "PREPARING", "SUBMITTED", "INCLUDED", "SUCCEEDED", "REVERTED",
            "FAILED", "CANCELLED"}]

\* Whether setEligibility took effect (it may revert, or its nonce may be cancelled), and
\* eligibleUntil of the wallet afterwards, by the decision it is from.
Block == [ok : BOOLEAN, until : 0..MaxDecisions]

TypeOK ==
  /\ decisions \in Seq(Decision)
  /\ syncs \in Seq(Sync)
  /\ \A s \in DOMAIN syncs : syncs[s].dec <= Len(decisions)
  /\ batch \in [Sweepers -> SUBSET DOMAIN decisions]
  /\ lane \in Seq(DOMAIN syncs)
  /\ chain \in Seq(Block)
  /\ final \in 0..Len(chain) /\ Len(chain) <= Len(lane)
  /\ reorgs \in 0..MaxReorgs
  /\ misread \subseteq DOMAIN syncs

Init ==
  /\ decisions = <<>>
  /\ syncs = <<>>
  /\ batch = [w \in Sweepers |-> {}]
  /\ lane = <<>>
  /\ chain = <<>>
  /\ final = 0
  /\ reorgs = 0
  /\ misread = {}

-----------------------------------------------------------------------------
(* compliance-repository.ts *)

IsActive(d) == decisions[d].status = "APPROVED" /\ ~decisions[d].superseded

\* findActiveApproval: for an asset the wallet-wide approvals count as well.
ActiveApprovals(scope) ==
  {d \in DOMAIN decisions :
     IsActive(d) /\ ~decisions[d].lapsed /\ decisions[d].scope \in {"wallet", scope}}

Revocations(scope) ==
  {d \in DOMAIN decisions : decisions[d].status = "REVOKED" /\ decisions[d].scope = scope}

LapsedApprovals == {d \in DOMAIN decisions : IsActive(d) /\ decisions[d].lapsed}

\* supersedeActiveDecisions matches exactly one scope, lapsed approvals included.
SupersedeActive(scope) ==
  [d \in DOMAIN decisions |->
     IF IsActive(d) /\ decisions[d].scope = scope
     THEN [decisions[d] EXCEPT !.superseded = TRUE] ELSE decisions[d]]

NewDecision(scope, status) ==
  [scope |-> scope, status |-> status, superseded |-> FALSE, lapsed |-> FALSE,
   synced |-> FALSE]

-----------------------------------------------------------------------------
(* enqueueEligibilitySync *)

IsLive(s) == syncs[s].state \notin TerminalStates

EligibleUntilFor(status, d) == IF status = "APPROVED" THEN d ELSE Withdrawn

\* Mutant: a sync that is executing is left alone and does not stop the caller.
ReplaceAnyway ==
  Len(syncs) < MaxSyncs

\* clearLiveEligibilitySync throws, and with it the whole transaction, when the
\* live sync is no longer READY.
MayEnqueue ==
  /\ Len(syncs) < MaxSyncs
  /\ \A s \in DOMAIN syncs : IsLive(s) => syncs[s].state = "READY"

\* Mutant: the approval request's word for a request that is overtaken.
ClearAsSuperseded ==
  [s \in DOMAIN syncs |->
     IF syncs[s].state = "READY" THEN [syncs[s] EXCEPT !.state = "SUPERSEDED"] ELSE syncs[s]]

ClearLive ==
  [s \in DOMAIN syncs |->
     IF syncs[s].state = "READY" THEN [syncs[s] EXCEPT !.state = "CANCELLED"] ELSE syncs[s]]

EnqueueSync(d, status) ==
  syncs' = Append(ClearLive,
                  [dec |-> d, until |-> EligibleUntilFor(status, d), step |-> "none",
                   state |-> "READY"])

-----------------------------------------------------------------------------
(* ComplianceService *)

\* recordDecision: only an approval for the asset is written to the chain.  Of two that run
\* at once and see no approval to supersede, the unique index on active approvals lets one
\* commit.
RecordDecision(scope, verdict) ==
  /\ Len(decisions) < MaxDecisions
  /\ decisions' = Append(SupersedeActive(scope), NewDecision(scope, verdict))
  /\ IF verdict = "APPROVED" /\ scope = "asset"
     THEN MayEnqueue /\ EnqueueSync(Len(decisions) + 1, verdict)
     ELSE UNCHANGED syncs
  /\ UNCHANGED <<batch, chainVars, misread>>

\* revokeDecision: with no live approval and an earlier revocation it returns the
\* earlier one, which changes nothing.
RevokeDecision(scope) ==
  /\ Len(decisions) < MaxDecisions
  /\ ActiveApprovals(scope) # {} \/ Revocations(scope) = {}
  /\ decisions' = Append(IF ActiveApprovals(scope) # {} THEN SupersedeActive(scope)
                         ELSE decisions,
                         NewDecision(scope, "REVOKED"))
  /\ IF scope = "asset"
     THEN MayEnqueue /\ EnqueueSync(Len(decisions) + 1, "REVOKED")
     ELSE UNCHANGED syncs
  /\ UNCHANGED <<batch, chainVars, misread>>

\* expireLapsedApprovals reads its batch outside any transaction.
ListLapsed(w) ==
  /\ batch[w] = {}
  /\ LapsedApprovals # {}
  /\ batch' = [batch EXCEPT ![w] = LapsedApprovals]
  /\ UNCHANGED <<decisions, syncs, chainVars, misread>>

\* Each decision of the batch is marked EXPIRED whatever has become of it since.
ExpireOne(w, d) ==
  /\ d \in batch[w]
  /\ decisions' = [decisions EXCEPT ![d].status = "EXPIRED", ![d].superseded = TRUE]
  /\ IF decisions[d].scope = "asset"
     THEN MayEnqueue /\ EnqueueSync(d, "EXPIRED")
     ELSE UNCHANGED syncs
  /\ batch' = [batch EXCEPT ![w] = @ \ {d}]
  /\ UNCHANGED <<chainVars, misread>>

\* A conflict with an executing sync throws out of the loop: the rest of the batch
\* waits for the next sweep.  A crash of the sweeper does the same.
AbortBatch(w) ==
  /\ batch[w] # {}
  /\ batch' = [batch EXCEPT ![w] = {}]
  /\ UNCHANGED <<decisions, syncs, chainVars, misread>>

-----------------------------------------------------------------------------
(* EligibilitySyncHandler, driven by the operation pipeline *)

To(s, state, step) == syncs' = [syncs EXCEPT ![s].state = state, ![s].step = step]

Establish(s, step) == syncs' = [syncs EXCEPT ![s].step = step]

\* resolveTarget: a superseded approval grants nothing any more, and the deadline
\* must still be the one the sync was requested with.
Resolves(s) ==
  LET d == syncs[s].dec IN
  /\ decisions[d].status = "APPROVED" => ~decisions[d].superseded
  /\ EligibleUntilFor(decisions[d].status, d) = syncs[s].until

ClaimSync(s) ==
  /\ syncs[s].state = "READY"
  /\ To(s, "PREPARING", "none")
  /\ UNCHANGED <<decisions, batch, chainVars, misread>>

\* Mutant: the target is taken from the request and not resolved again.
PrepareUnresolved(s) ==
  /\ syncs[s].state = "PREPARING" /\ syncs[s].step = "none"
  /\ Establish(s, "resolved")
  /\ UNCHANGED <<decisions, batch, chainVars, misread>>

\* prepare resolves the target first, then asks the node for its identity and the code,
\* simulates, and reads fees and nonce.
PrepareSync(s) ==
  /\ syncs[s].state = "PREPARING" /\ syncs[s].step = "none"
  /\ Resolves(s)
  /\ Establish(s, "resolved")
  /\ UNCHANGED <<decisions, batch, chainVars, misread>>

\* The nonce is reserved and the operation moves on to signing.  Nothing asks for the
\* decision again before the bytes are sent: the handler has no assertStillExecutable.
SendSync(s) ==
  /\ syncs[s].state = "PREPARING" /\ syncs[s].step = "resolved"
  /\ To(s, "SUBMITTED", "none")
  /\ lane' = Append(lane, s)
  /\ UNCHANGED <<decisions, batch, chain, final, reorgs, misread>>

\* A target that does not resolve, an unreachable node, a signer that refuses, a
\* rejected broadcast, or a crash before signing.  A nonce that was reserved stays so.
FailSync(s) ==
  /\ syncs[s].state \in {"PREPARING", "SUBMITTED"}
  /\ To(s, "FAILED", "none")
  /\ UNCHANGED <<decisions, batch, chainVars, misread>>

-----------------------------------------------------------------------------
(* The chain *)

OnChain == IF chain = <<>> THEN Withdrawn ELSE chain[Len(chain)].until

\* The next nonce of the lane is consumed: setEligibility takes effect, whatever has become
\* of its operation, or it reverts, or a self-transfer took the nonce of a FAILED one.
MineNext ==
  /\ Len(chain) < Len(lane)
  /\ \/ chain' = Append(chain, [ok |-> TRUE, until |-> syncs[lane[Len(chain) + 1]].until])
     \/ chain' = Append(chain, [ok |-> FALSE, until |-> OnChain])
  /\ UNCHANGED <<decisions, syncs, batch, lane, final, reorgs, misread>>

Finalize ==
  /\ final < Len(chain)
  /\ final' = final + 1
  /\ UNCHANGED <<decisions, syncs, batch, lane, chain, reorgs, misread>>

Reorg ==
  LET dropped == lane[Len(chain)] IN
  /\ final < Len(chain) /\ reorgs < MaxReorgs
  /\ reorgs' = reorgs + 1
  /\ chain' = SubSeq(chain, 1, Len(chain) - 1)
  /\ IF syncs[dropped].step = "canonical" THEN Establish(dropped, "orphaned")
     ELSE UNCHANGED syncs
  /\ UNCHANGED <<decisions, batch, lane, final, misread>>

-----------------------------------------------------------------------------
(* observeAndFinalize; as in Tokenization one observation at a time is enough *)

\* The block in which the sync was mined.
BlocksOf(s) == {i \in DOMAIN chain : lane[i] = s}

\* A receipt, whatever it says, makes the sync INCLUDED.
ObserveSync(s) ==
  /\ syncs[s].state = "SUBMITTED" /\ BlocksOf(s) # {}
  /\ To(s, "INCLUDED", syncs[s].step)
  /\ UNCHANGED <<decisions, batch, chainVars, misread>>

\* recordReorg.
ObserveReorg(s) ==
  /\ syncs[s].state = "INCLUDED" /\ BlocksOf(s) = {}
  /\ To(s, "SUBMITTED", syncs[s].step)
  /\ UNCHANGED <<decisions, batch, chainVars, misread>>

\* awaitConfirmation compares the hash of the receipt's block; a revert is its last word.
CheckCanonical(s) ==
  /\ syncs[s].state \in {"SUBMITTED", "INCLUDED"} /\ syncs[s].step = "none"
  /\ \E i \in BlocksOf(s) :
       IF chain[i].ok THEN Establish(s, "canonical") ELSE To(s, "INCLUDED", "reverted")
  /\ UNCHANGED <<decisions, batch, chainVars, misread>>

\* A revert is settled final or not, but reconcile comes first: when the approval was
\* superseded its target does not resolve, and the sync stays INCLUDED.
SettleReverted(s) ==
  /\ syncs[s].state = "INCLUDED" /\ syncs[s].step = "reverted"
  /\ Resolves(s)
  /\ To(s, "REVERTED", "none")
  /\ UNCHANGED <<decisions, batch, chainVars, misread>>

\* Mutant: the receipt is enough.
FinalAtInclusion(s) ==
  /\ syncs[s].step = "canonical"
  /\ To(s, "INCLUDED", "finalized")
  /\ UNCHANGED <<decisions, batch, chainVars, misread>>

\* Only the height is compared: the block may have been replaced since it was canonical.
ReadFinality(s) ==
  /\ \/ /\ syncs[s].step = "canonical" /\ \E i \in BlocksOf(s) : i <= final
        /\ UNCHANGED misread
     \/ /\ syncs[s].step = "orphaned"
        /\ misread' = misread \cup {s}
  /\ To(s, "INCLUDED", "finalized")
  /\ UNCHANGED <<decisions, batch, chainVars>>

\* reconcile resolves the target again ...
ReconcileTarget(s) ==
  /\ syncs[s].step = "finalized" /\ Resolves(s)
  /\ Establish(s, "found")
  /\ UNCHANGED <<decisions, batch, chainVars, misread>>

\* ... and compares the deadline of the latest block with it.
ReconcileEligibility(s) ==
  /\ syncs[s].step = "found" /\ OnChain = syncs[s].until
  /\ Establish(s, "matched")
  /\ UNCHANGED <<decisions, batch, chainVars, misread>>

\* Settlement and markComplianceChainSynced in one transaction.
SettleSync(s) ==
  /\ syncs[s].state = "INCLUDED" /\ syncs[s].step = "matched"
  /\ To(s, "SUCCEEDED", "none")
  /\ decisions' = [decisions EXCEPT ![syncs[s].dec].synced = TRUE]
  /\ UNCHANGED <<batch, chainVars, misread>>

\* The deadline passes, a read does not match, or the call chain dies: the sync stays as
\* it is.
StopObserving(s) ==
  /\ syncs[s].state \in {"SUBMITTED", "INCLUDED"} /\ syncs[s].step # "none"
  /\ Establish(s, "none")
  /\ UNCHANGED <<decisions, batch, chainVars, misread>>

-----------------------------------------------------------------------------
\* The validity window of an approval closes.
Lapse(d) ==
  /\ decisions[d].status = "APPROVED"
  /\ ~decisions[d].lapsed
  /\ decisions' = [decisions EXCEPT ![d].lapsed = TRUE]
  /\ UNCHANGED <<syncs, batch, chainVars, misread>>

Next ==
  \/ \E scope \in Scopes :
       \/ \E verdict \in {"APPROVED", "REJECTED"} : RecordDecision(scope, verdict)
       \/ RevokeDecision(scope)
  \/ \E w \in Sweepers :
       ListLapsed(w) \/ AbortBatch(w) \/ \E d \in DOMAIN decisions : ExpireOne(w, d)
  \/ MineNext \/ Finalize \/ Reorg
  \/ \E s \in DOMAIN syncs :
       \/ ClaimSync(s) \/ PrepareSync(s) \/ SendSync(s) \/ FailSync(s)
       \/ ObserveSync(s) \/ ObserveReorg(s)
       \/ CheckCanonical(s) \/ ReadFinality(s)
       \/ ReconcileTarget(s) \/ ReconcileEligibility(s)
       \/ SettleSync(s) \/ SettleReverted(s) \/ StopObserving(s)
  \/ \E d \in DOMAIN decisions : Lapse(d)

Spec == Init /\ [][Next]_vars

-----------------------------------------------------------------------------
(* Properties *)

\* At most one eligibility sync is live, however requests, sweeps and the worker
\* interleave.
OneLiveSync == Cardinality({s \in DOMAIN syncs : IsLive(s)}) <= 1

\* Once the withdrawal for a decision has succeeded, eligibility returns to the chain only
\* through a decision recorded later, unless the withdrawal was misread: an older grant
\* that is still out, of a sync that FAILED perhaps, has a smaller nonce.
RevocationNotUndone ==
  [][OnChain' # OnChain /\ OnChain' # Withdrawn =>
       \A s \in DOMAIN syncs \ misread :
         syncs[s].state = "SUCCEEDED" /\ syncs[s].until = Withdrawn
           => syncs[s].dec < OnChain']_vars

\* The sync of decision d has not resolved its target, and d has been superseded meanwhile.
GrantOvertaken(d) ==
  \E s \in DOMAIN syncs :
    /\ syncs[s].until = d
    /\ syncs[s].state \in {"READY", "PREPARING"} /\ syncs[s].step = "none"
    /\ decisions[d].superseded

\* An approval that is superseded before its sync resolves its target never reaches the
\* chain, whether it was rejected, revoked, renewed or expired.  One that is rejected after
\* that, while the sync is still PREPARING, does: see NoLiveApprovalIsRevoked.
OvertakenNeverGranted ==
  \A d \in 1..MaxDecisions : [](GrantOvertaken(d) => [](OnChain # d))

-----------------------------------------------------------------------------
(* What the documentation says and the code does not keep *)

ChainEligible == OnChain # Withdrawn /\ ~decisions[OnChain].lapsed

\* As revokeDecision has it, "a wallet with no live approval is already revoked":
\* where it returns the earlier revocation, the wallet is not eligible on chain or a
\* withdrawal is under way.  A rejection queues no withdrawal, and it finds a grant that has
\* resolved its target, or one that is on the chain.
NoLiveApprovalIsRevoked ==
  ActiveApprovals("asset") = {} /\ Revocations("asset") # {} =>
    \/ ~ChainEligible
    \/ \E s \in DOMAIN syncs : IsLive(s) /\ syncs[s].until = Withdrawn
=============================================================================
