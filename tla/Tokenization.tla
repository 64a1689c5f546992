----------------------------- MODULE Tokenization ----------------------------
(***************************************************************************)
(* From the definition of an asset to issued tokens: an asset is created,  *)
(* its contract deployed and recorded, mints are requested, executed and   *)
(* reconciled, against a chain on which others act too and which may drop  *)
(* blocks that are not final.                                              *)
(*                                                                         *)
(* How a transaction gets from PREPARING to the chain is the subject of    *)
(* Pipeline; here it is one step, with the outcomes Pipeline shows: not    *)
(* sent and FAILED, sent, and sent although the operation is FAILED.       *)
(* SUBMITTED stands for BROADCASTING, BROADCAST_UNKNOWN and SUBMITTED.     *)
(***************************************************************************)
EXTENDS InstitutionalToken, OperationStates, Integers, Sequences, Functions

CONSTANTS
  Deployments,  \* deployment operations of the asset
  Callers,      \* concurrent calls of requestDeployment
  Nobody,       \* a transaction that is not the orchestrator's
  MaxBlocks,    \* bound: height of the chain
  MaxReorgs,    \* bound: blocks that leave the canonical chain
  MaxOthers     \* bound: blocks with a transaction of others

ASSUME OperationsAssumption ==
  Deployments \cap Mints = {} /\ Nobody \notin Deployments \cup Mints
ASSUME DeploymentsAssumption == Deployments # {}   \* createAsset always queues one
ASSUME BoundsAssumption == MaxBlocks \in Nat /\ MaxReorgs \in Nat /\ MaxOthers \in Nat

VARIABLES
  asset,    \* the assets row: its status and contract
  calls,    \* calls of requestDeployment that have read the row without a contract
  op,       \* operations.state, or NONE before the operation exists
  lane,     \* operations in the order of their nonces
  late,     \* mints whose deadline has passed
  chain,    \* canonical blocks: transaction, receipt status, storage afterwards
  final,    \* how many of them are final
  reorgs,   \* blocks orphaned so far
  seen,     \* how far the observation of an operation has come
  misread   \* history: operations taken for final on a block that had left the chain

observation == <<seen, misread>>

vars == <<asset, calls, op, lane, late, chain, final, reorgs, seen, misread>>

Operations == Deployments \cup Mints
NoContract == Nobody

\* The receipt's block was canonical, or it was when its hash was compared; it was taken
\* for final; the first and the last read of reconciliation agreed.
Observation == {"none", "canonical", "orphaned", "finalized", "found", "matched"}

\* The contract of a deployment operation is named after it.
Storage(height) ==
  IF height = 0 THEN [d \in Deployments |-> NoToken] ELSE chain[height].storage

Latest == Storage(Len(chain))

\* resolveTarget: the token that the asset names.
Target == Latest[asset.contract]

BlocksOf(o) == {i \in 1..Len(chain) : chain[i].tx = o}

FreshDeployment == CHOOSE d \in Deployments : op[d] = "NONE"

LiveDeployments == {d \in Deployments : op[d] \notin TerminalStates \cup {"NONE"}}

-----------------------------------------------------------------------------
(* AssetService and MintService *)

\* createAsset: the row and its deployment in one transaction.
CreateAsset ==
  /\ asset.status = "NONE"
  /\ op' = [op EXCEPT ![FreshDeployment] = "READY"]
  /\ asset' = [asset EXCEPT !.status = "PROVISIONING"]
  /\ UNCHANGED <<calls, lane, late, chain, final, reorgs, observation>>

\* requestDeployment reads the asset before its transaction ...
ReadAsset(c) ==
  /\ c \notin calls
  /\ asset.status # "NONE" /\ asset.contract = NoContract
  /\ calls' = calls \cup {c}
  /\ UNCHANGED <<asset, op, lane, late, chain, final, reorgs, observation>>

\* ... and queues a deployment unless one is live.
RequestDeployment(c) ==
  /\ c \in calls
  /\ calls' = calls \ {c}
  /\ \/ LiveDeployments # {} /\ UNCHANGED op
     \/ /\ LiveDeployments = {} /\ \E d \in Deployments : op[d] = "NONE"
        /\ op' = [op EXCEPT ![FreshDeployment] = "READY"]
  /\ UNCHANGED <<asset, lane, late, chain, final, reorgs, observation>>

\* requestMint needs an ACTIVE asset with a contract; its approvals are Intake's.
RequestMint(m) ==
  /\ op[m] = "NONE"
  /\ asset.status = "ACTIVE" /\ asset.contract # NoContract
  /\ op' = [op EXCEPT ![m] = "READY"]
  /\ UNCHANGED <<asset, calls, lane, late, chain, final, reorgs, observation>>

-----------------------------------------------------------------------------
(* The handlers: prepare *)

Prepared(o, ok) ==
  /\ op[o] = "READY"
  /\ op' = [op EXCEPT ![o] = IF ok THEN "PREPARING" ELSE "FAILED"]
  /\ UNCHANGED <<asset, calls, lane, late, chain, final, reorgs, observation>>

\* Mutant: the deployment is built without looking at the asset again.
PrepareDeploymentBlindly(d) == Prepared(d, TRUE)

\* requireProvisioningAsset.
IsProvisioning == asset.status = "PROVISIONING" /\ asset.contract = NoContract

PrepareDeployment(d) == Prepared(d, IsProvisioning)

\* The compliance check may refuse; the reference, the pause and the cap are read from
\* the latest block.
PrepareMint(m) ==
  LET onChain == /\ m \notin Target.consumed /\ ~Target.paused
                 /\ Target.supply + Amount[m] <= SupplyCap IN
  \E compliant \in BOOLEAN : Prepared(m, compliant /\ onChain)

-----------------------------------------------------------------------------
(* The chain write *)

\* simulate runs the call against the latest block.
Simulates(o) == o \in Mints => MintAllowed(Target, o, FALSE)

Send(o) ==
  /\ op[o] = "PREPARING" /\ Simulates(o)
  /\ op' = [op EXCEPT ![o] = "SUBMITTED"]
  /\ lane' = Append(lane, o)
  /\ UNCHANGED <<asset, calls, late, chain, final, reorgs, observation>>

\* The simulation, the signer, a late revocation or a rejection by the node stops it.
FailUnsent(o) ==
  /\ op[o] = "PREPARING"
  /\ op' = [op EXCEPT ![o] = "FAILED"]
  /\ UNCHANGED <<asset, calls, lane, late, chain, final, reorgs, observation>>

\* A second call fails the operation while the first one sends its bytes.
FailInFlight(o) ==
  /\ op[o] = "SUBMITTED"
  /\ op' = [op EXCEPT ![o] = "FAILED"]
  /\ UNCHANGED <<asset, calls, lane, late, chain, final, reorgs, observation>>

-----------------------------------------------------------------------------
(* The chain *)

AppendBlock(tx, ok, storage) ==
  /\ Len(chain) < MaxBlocks
  /\ chain' = Append(chain, [tx |-> tx, ok |-> ok, storage |-> storage])
  /\ UNCHANGED <<asset, calls, op, lane, late, final, reorgs, observation>>

\* The lane's transactions are mined in nonce order; any of them may run out of gas.
MineNext ==
  LET mined == Cardinality({i \in 1..Len(chain) : chain[i].tx \in Operations})
      o == lane[mined + 1]
      c == asset.contract IN
  /\ mined < Len(lane)
  /\ \/ AppendBlock(o, FALSE, Latest)
     \/ /\ o \in Deployments
        /\ AppendBlock(o, TRUE, [Latest EXCEPT ![o] = Deployed])
     \/ /\ o \in Mints
        /\ MintAllowed(Latest[c], o, o \in late)
        /\ AppendBlock(o, TRUE, [Latest EXCEPT ![c] = MintWithReference(@, o)])

\* Eligibility synchronisation, the pauser, and holders who transfer.
MineOther(c) ==
  LET t == Latest[c]
      Becomes(storage) == AppendBlock(Nobody, TRUE, [Latest EXCEPT ![c] = storage]) IN
  /\ t.deployed
  /\ Cardinality(BlocksOf(Nobody)) < MaxOthers
  /\ \/ \E open \in SUBSET Wallets \ {t.eligible} : Becomes(SetEligibility(t, open))
     \/ Becomes(SetPaused(t, ~t.paused))
     \/ \E from, to \in Wallets : /\ from # to
                                  /\ TransferAllowed(t, from, to)
                                  /\ Becomes(Transfer(t, from, to))

Finalize ==
  /\ final < Len(chain)
  /\ final' = final + 1
  /\ UNCHANGED <<asset, calls, op, lane, late, chain, reorgs, observation>>

Reorg ==
  /\ final < Len(chain) /\ reorgs < MaxReorgs
  /\ reorgs' = reorgs + 1
  /\ chain' = SubSeq(chain, 1, Len(chain) - 1)
  /\ seen' = [o \in Operations |->
                IF seen[o] = "canonical" /\ chain[Len(chain)].tx = o THEN "orphaned" ELSE seen[o]]
  /\ UNCHANGED <<asset, calls, op, lane, late, final, misread>>

\* The deadline of a mint passes while its transaction waits to be mined.
DeadlinePasses(m) ==
  /\ m \in Range(lane) \ late /\ BlocksOf(m) = {}
  /\ late' = late \cup {m}
  /\ UNCHANGED <<asset, calls, op, lane, chain, final, reorgs, observation>>

-----------------------------------------------------------------------------
(* Observation, reconciliation, settlement *)

\* Mutant: a receipt is recorded whatever the operation has become since it was listed.
ObserveAny(o) ==
  LET to == IF \A i \in BlocksOf(o) : chain[i].ok THEN "INCLUDED" ELSE "REVERTED" IN
  /\ BlocksOf(o) # {} /\ op[o] \notin {"NONE", to}
  /\ op' = [op EXCEPT ![o] = to]
  /\ UNCHANGED <<asset, calls, lane, late, chain, final, reorgs, observation>>

\* A receipt makes the operation INCLUDED, and REVERTED at once if it failed.  Reading and
\* recording it are one step: a block dropped in between might as well be dropped after.
\* The code looks up the newest attempt only, and may never see a receipt (Pipeline).
Observe(o) ==
  LET to == IF \A i \in BlocksOf(o) : chain[i].ok THEN "INCLUDED" ELSE "REVERTED" IN
  /\ BlocksOf(o) # {}
  /\ op[o] \in {"SUBMITTED", "INCLUDED"} \ {to}
  /\ op' = [op EXCEPT ![o] = to]
  /\ UNCHANGED <<asset, calls, lane, late, chain, final, reorgs, observation>>

\* recordReorg, when the receipt vanishes during the wait or is served for a block that
\* was dropped.  A receipt that is gone before the wait begins changes nothing.
ObserveReorg(o) ==
  /\ op[o] = "INCLUDED" /\ BlocksOf(o) = {}
  /\ op' = [op EXCEPT ![o] = "SUBMITTED"]
  /\ UNCHANGED <<asset, calls, lane, late, chain, final, reorgs, observation>>

\* The steps of one observation.  Several call chains may observe an operation; the first
\* to settle it wins, and all that the others do meanwhile is to record receipts, which
\* Observe allows at any time, so one of them is enough here.
Advance(o, stage) == seen' = [seen EXCEPT ![o] = stage]

\* awaitConfirmation reads the receipt and the hash of the block at its height: it goes on
\* only if the block is canonical when the hash is read.
CheckCanonical(o) ==
  /\ seen[o] = "none" /\ op[o] \in {"SUBMITTED", "INCLUDED"}
  /\ \E i \in BlocksOf(o) : chain[i].ok
  /\ Advance(o, "canonical")
  /\ UNCHANGED <<asset, calls, op, lane, late, chain, final, reorgs, misread>>

\* FINALIZED is recorded as INCLUDED, whatever the chain does in between.
Finalized(o) ==
  /\ Advance(o, "finalized")
  /\ op' = IF op[o] = "SUBMITTED" THEN [op EXCEPT ![o] = "INCLUDED"] ELSE op
  /\ UNCHANGED <<asset, calls, lane, late, chain, final, reorgs>>

\* Mutant: the receipt is enough.
FinalAtInclusion(o) == seen[o] = "canonical" /\ Finalized(o) /\ UNCHANGED misread

\* The finality height alone is compared with the receipt's height, whose block may have
\* been replaced since its hash was compared.
ReadFinality(o) ==
  /\ \/ seen[o] = "canonical" /\ (\E i \in BlocksOf(o) : i <= final) /\ UNCHANGED misread
     \/ seen[o] = "orphaned" /\ misread' = misread \cup {o}
  /\ Finalized(o)

\* reconcileDeployment and reconcileMint read the latest block with several calls.  The
\* first asks for the code at the contract's address, or whether the reference is consumed.
Found(o) == IF o \in Mints THEN o \in Target.consumed ELSE Latest[o].deployed

FindEffect(o) ==
  /\ seen[o] = "finalized" /\ Found(o)
  /\ Advance(o, "found")
  /\ UNCHANGED <<asset, calls, op, lane, late, chain, final, reorgs, misread>>

\* The token is new and not paused, or the recipient still has the amount.  The supply
\* read with them is compared with the cap, which it meets in every block.
DeploymentMatches(d) == LET t == Latest[d] IN t.deployed /\ t.supply = 0 /\ ~t.paused

MintMatches(m) == Target.balance[Recipient] >= Amount[m] /\ Target.supply <= SupplyCap

Matches(o) == IF o \in Mints THEN MintMatches(o) ELSE DeploymentMatches(o)

Reconcile(o) ==
  /\ seen[o] = "found" /\ Matches(o)
  /\ Advance(o, "matched")
  /\ UNCHANGED <<asset, calls, op, lane, late, chain, final, reorgs, misread>>

\* applySuccess and markAssetActive; a mint has nothing to apply.
ApplySuccess(o) == IF o \in Deployments THEN [status |-> "ACTIVE", contract |-> o] ELSE asset

\* Settlement and the handler's applySuccess in one transaction.
Settle(o) ==
  /\ seen[o] = "matched" /\ op[o] = "INCLUDED"
  /\ op' = [op EXCEPT ![o] = "SUCCEEDED"]
  /\ asset' = ApplySuccess(o)
  /\ Advance(o, "none")
  /\ UNCHANGED <<calls, lane, late, chain, final, reorgs, misread>>

\* The deadline passes, a read does not match, the operation has settled, or the call
\* chain dies: the operation stays where it is.
StopObserving(o) ==
  /\ seen[o] # "none"
  /\ Advance(o, "none")
  /\ UNCHANGED <<asset, calls, op, lane, late, chain, final, reorgs, misread>>

-----------------------------------------------------------------------------
Init ==
  /\ asset = [status |-> "NONE", contract |-> NoContract]
  /\ calls = {}
  /\ op = [o \in Operations |-> "NONE"]
  /\ lane = << >>
  /\ late = {}
  /\ chain = << >>
  /\ final = 0
  /\ reorgs = 0
  /\ seen = [o \in Operations |-> "none"]
  /\ misread = {}

Service ==
  \/ CreateAsset
  \/ \E c \in Callers : ReadAsset(c) \/ RequestDeployment(c)
  \/ \E m \in Mints : RequestMint(m)

Worker ==
  \/ \E d \in Deployments : PrepareDeployment(d)
  \/ \E m \in Mints : PrepareMint(m)
  \/ \E o \in Operations :
       \/ Send(o) \/ FailUnsent(o) \/ FailInFlight(o)
       \/ Observe(o) \/ ObserveReorg(o)
       \/ CheckCanonical(o) \/ ReadFinality(o) \/ FindEffect(o) \/ Reconcile(o)
       \/ Settle(o) \/ StopObserving(o)

Chain ==
  \/ MineNext \/ Finalize \/ Reorg
  \/ \E d \in Deployments : MineOther(d)
  \/ \E m \in Mints : DeadlinePasses(m)

Next == Service \/ Worker \/ Chain

Spec == Init /\ [][Next]_vars

-----------------------------------------------------------------------------
(* Properties *)

Block == [tx : Operations \cup {Nobody}, ok : BOOLEAN, storage : [Deployments -> Token]]

\* Every variable holds a value of the kind the tables and the chain hold.
TypeOK ==
  /\ asset \in [status : {"NONE", "PROVISIONING", "ACTIVE"},
                contract : Deployments \cup {NoContract}]
  /\ calls \subseteq Callers
  /\ op \in [Operations -> OperationState \cup {"NONE"}]
  /\ lane \in Seq(Operations)
  /\ late \subseteq Mints
  /\ chain \in Seq(Block)
  /\ final \in 0..Len(chain)
  /\ reorgs \in 0..MaxReorgs
  /\ seen \in [Operations -> Observation]
  /\ misread \subseteq Operations

\* Mints prepared side by side against one supply, reorganised, late or claimed failed
\* never break the books of a contract: its supply is the sum of the references it
\* consumed and of the balances it keeps, and within the cap.
SupplyIsBacked ==
  \A i \in 1..Len(chain), d \in Deployments :
    LET t == chain[i].storage[d] IN
    /\ t.supply = MapThenSumSet(LAMBDA m : Amount[m], t.consumed)
    /\ t.supply = MapThenSumSet(LAMBDA w : t.balance[w], Wallets)
    /\ t.supply <= SupplyCap

\* The operation took effect in a block that no reorganisation drops.
InFinalBlock(o) == \E i \in 1..final : chain[i].tx = o /\ chain[i].ok

\* operation-executor.ts: "an asset can never be ACTIVE without a SUCCEEDED deployment
\* behind it", and mints are requested of an ACTIVE asset alone.  What SUCCEEDED says is
\* final on the chain, for mints too, unless the block was replaced between the last two
\* answers on which FINALIZED rests.
ActiveIsConfirmed ==
  /\ \A o \in Operations \ misread : op[o] = "SUCCEEDED" => InFinalBlock(o)
  /\ asset.status = "ACTIVE" => op[asset.contract] = "SUCCEEDED"
  /\ \A m \in Mints : op[m] # "NONE" => asset.status = "ACTIVE"

\* Once an asset names a contract it names that one for good, although a call that read
\* the asset earlier can still queue another deployment.
ContractNeverChanges ==
  [][asset.contract # NoContract => asset'.contract = asset.contract]_asset

\* Only the contract that the asset names issues anything, and in every block it has
\* consumed the references of exactly the mints that were mined with success so far:
\* another deployment, a late activation or a reorganisation leaves no reference behind,
\* takes none back and moves none to another contract.
IssuedAsMined ==
  \A i \in 1..Len(chain), d \in Deployments :
    chain[i].storage[d].consumed =
      {m \in Mints : d = asset.contract /\ \E j \in 1..i : chain[j].tx = m /\ chain[j].ok}

\* The blocks in which an operation took effect.
EffectsOf(o) == {i \in BlocksOf(o) : chain[i].ok}

Ledger == INSTANCE MintLedger WITH
  Operations <- Operations,
  claim      <- [o \in Operations |-> ClaimOf(op[o])],
  minted     <- [o \in Operations |-> EffectsOf(o)],
  final      <- final,
  misread    <- misread

\* Deployments and mints that share a lane keep the promise the pipeline makes for one
\* operation: each takes effect at most once, one claim is made about it and kept, and
\* success is claimed only for an effect that can no longer be undone, or was misread.
AssetImplementsLedger == Ledger!LedgerSpec
=============================================================================
