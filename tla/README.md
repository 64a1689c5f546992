# Verification of the institutional tokenization orchestrator

TLA+ models of the orchestrator (`src/src/`, TypeScript, PostgreSQL, BullMQ, an EVM
chain), the TLC instances that check them and TLAPS proofs of their main properties.
The modules are translated from the code; comments name the function each action
stands for, and `PROJECT.json` ("map") gives the lines.

## The system

A mint is requested over HTTP under an idempotency key, approved by two persons other
than the requester, handed to a worker through a transactional outbox and a queue,
prepared, signed, stored, broadcast, observed until final, reconciled and settled.
Deployments of tokens and changes of a wallet's on-chain eligibility are operations of
the same pipeline. PostgreSQL is the truth about the workflow, the chain about money,
Redis only delivers.

| component | state | operations | interacts with |
|---|---|---|---|
| Idempotency | `idempotency_keys` | claim, replay, complete, release | called by the mint request; the key completes in the transaction of the work |
| Mint requests | `operations`, `approval_requests` | requestMint | Idempotency, Compliance (live approval), Approvals |
| Approvals | `approval_requests`, `approval_decisions` | recordDecision, tally | moves the operation, writes the outbox |
| Outbox and queue | `outbox`, BullMQ jobs | claim, publish, reschedule, mark; deliver | Approvals and Compliance write rows; the worker consumes |
| Operation state machine | `operations.state` | the allowed edges | every writer of an operation |
| Operation executor | `operations` | claim, prepare, observe, confirm, reorganisation, settle, fail | queue, chain writer, handlers |
| Chain writer | `signer_nonces`, `transaction_attempts`, `signer_requests` | reserve, sign, persist, broadcast, replace, cancel | signer, nodes; hooks move the operation in the same transaction |
| Recovery service | none | sweep over stale operations | executor, chain writer, queue |
| Replacement service | none | replace stuck attempts, recover a blocked nonce | chain writer |
| Compliance | `compliance_decisions`, syncs | record, revoke, expire, mirror | provider, pipeline, token contract |
| Assets and deployment | `assets` | request, deploy, activate | pipeline |
| Reconciliation | observations | compare the chain with what was intended | executor |
| Token contract | eligibility, references, supply | setEligibility, mintWithReference, pause | the chain |
| Signer adapters | requests in memory | request, poll, refuse, release | chain writer |
| Transaction intents and fees | none | rebuild, verify, bump | chain writer, replacement service |
| Worker runtime | timers | starts dispatcher, worker, sweeps | all of the above |

What is hard here: sweeps run on an interval without an overlap guard and beside the
queue worker, so two call chains may drive one operation; each of them awaits the
database, the signer and the nodes between steps and may act on what it read before; a
crash can fall between any two of those steps; a broadcast may succeed without saying
so; a reorganisation takes back what was seen; a fee replacement puts two transactions
under one nonce; leases expire under a slow dispatcher; Redis may lose everything; and
compliance may be withdrawn while a signature is on its way. The properties that make
the components correct are the ones below; the list of hazards, each at its line, is in
`PROJECT.json`.

## Modules

**Pipeline** (composed in `Pipeline.tla`; one signer lane, any number of operations):

- `OperationStates` - states, terminal states and edges of `operation-state.ts`.
- `PipelineState` - the variables: operation rows, attempts, the nonce counter, signer
  requests, compliance as one flag, mempool, canonical chain, finality height, and the
  processes with what each of them has read. A step is one `db.transaction`, one RPC
  call or one signer call. Reads that follow each other are one step where a change between
  them could as well come before or after both: the checks of `prepare` and the chain nonce
  (each only refuses, and nobody else consumes the reference of this operation before it has
  a nonce), the receipt and the row of a stuck attempt, the reads of `reconcileMint` (of
  which only the consumed reference can tell two chains apart). The reads of
  `awaitConfirmation` are steps of their own: first receipt (`PollReceipt`), receipt of a
  round (`ReadReceipt`), hash at its height (`ReadBlockHash`), finality height
  (`ReadFinality`). `misread` is a history variable: the attempts called FINALIZED although
  their block had left the chain between the last two of these reads.
- `EvmChain` - external: nodes that take, drop and mine transactions in nonce order,
  finality, reorganisations, the contract's eligibility test; approvals and revocations
  as the pipeline sees them.
- `ChainWriter`, `OperationExecutor`, `RecoveryService`, `ReplacementService` - one
  action per step of the service of that name. A process whose transaction throws goes
  where the code's `catch` goes; a process may crash at every step, and what it had in
  memory is gone.

**Compliance** - decisions on one wallet for one deployed asset, and for all assets;
their supersession, revocation and expiry; the eligibility syncs, at most one live; and the
chain that executes them. The batch an expiry sweep has read is part of the state. A sync
resolves its target at the beginning of PREPARING (`PrepareSync`) and takes a nonce at its
end (`SendSync`), with everything `prepare` and the chain writer await in between. SIGNING to
BROADCAST_UNKNOWN count as SUBMITTED, which `clearLiveEligibilitySync` does not tell apart. A
sync that FAILED after its nonce was reserved may still be mined, since a stale sweep may
send its bytes (`closed_mint`); what the lane guarantees is the order. A transaction may
revert, its nonce may be cancelled, its block may be dropped, and an INCLUDED sync goes back
to SUBMITTED. Hash, finality height, target, deadline on the chain and settlement are steps
of an observation, as in `Tokenization`. A revert is settled only if the target still
resolves: `reconcile` comes before the settlement and throws otherwise.

**Intake** - idempotency keys, the operation a key creates, approvals. A rolled-back
transaction, a crash, a release that fails and a commit whose acknowledgement is lost
are steps; keys that met the last one (`ackLost`) are excluded from `RetriesAreHarmless` and
`ResultIsStored`, since for them the code does create a second operation. `recordDecision`
of an approval locks the operation and is one step, so `TwoPersonRule` is about what the
threshold counts and not about the lock. `Redefine` stands for a change of the asset or
wallet definition, which the
proposal hash guards against and no code of the repository performs; the SUPERSEDED
that `recordDecision` writes in that case is undone by its own exception, so it does
not appear.

**Delivery** - outbox rows with lease and claim token, dispatchers with one cycle at a
time, job identities and their retention, delivery, the requeue of READY operations by
the sweep. A claim token is the dispatcher while its cycle lives and `Dead` afterwards:
a new cycle has a new token. The outbox status FAILED is never written by the code.

**Signing** - what `ChainWriter` treats as one answer: the contents of a row and of the
bytes signed for it, the local signer's policy, the deferred signer and its memory (lost
at a restart), signer requests and their deadline, verification, fee bumps, fee
replacements and nonce recoveries up to BROADCASTING. The signer may return any bytes
that differ in one field or come from another key (`Forged`). Requests keep destination,
call data, nonce and the two fees; chain id, value, gas limit and hash are compared by
the same test and are left out. `FeeOnlyReplacement` is always true because
`replaceFees` copies the row; it is kept where the code has it.

**Tokenization** - from the definition of an asset to issued tokens, with
`InstitutionalToken` (the contract's storage and what its transactions do): creation,
the repeated request for a deployment and its stale read, prepare, simulation, the chain
in nonce order with transactions of others in between, finality, reorganisations, and an
observation in steps: the hash comparison (`CheckCanonical`), the finality height
(`ReadFinality`), the first and the later reads of reconciliation against the latest block
(`FindEffect`, `Reconcile`), and settlement; the chain may change between any of them. The
way from PREPARING to the chain is one step with the outcomes `Pipeline` shows, a FAILED
operation whose transaction is out included. An operation has one transaction here, and
nothing says that it is ever observed: an original that is mined behind its replacement is
not, and the operation stays in flight (`Pipeline` has the step). A block of others opens or closes eligibility for some
wallets, pauses, or transfers one unit. The mints go to one recipient.

**MintLedger** - the abstract specification: per operation one claim (open, succeeded,
closed) and the heights at which it has minted; a mint happens at most once, can be
undone until final, and only what can not be undone is claimed as a success. The one
exception is a step of its own: the observer is shown a block that is replaced before its
height is called final (`Misreads`), which the code can not tell from finality
(`torn_confirmation`). `Pipeline`
implements it under the mapping `Ledger` (claims from `operations.state`, mints
from the canonical chain), and so does `Tokenization`, which takes the pipeline as one
step and has deployments and mints in one lane: the two models agree on what a requester
may rely on. A closed operation may still mint in the ledger: that is the
promise the code does not keep (`closed_mint`), and the ledger says what
remains of it.

`MC*.tla` instantiate these for TLC; `*Proofs.tla` hold the theorems.

## Runs

Passing:

- `pipeline_safety` (about three minutes): one operation, two processes, two attempts, one
  replacement, one reorganisation, no revocation. `AtMostOneMint`, `PersistBeforeBroadcast`,
  `LaneIsWhole` (every nonce given out has exactly one live attempt, no gaps),
  `SucceededIsFinal`, `ConfirmedIsFinal`, `InFlightIsVisible` (what a node may hold belongs to
  an operation in flight or in a terminal state, never to one before BROADCASTING),
  `OneReservationPerOperation`, `MovesAlongEdges` and the refinement `ImplementsLedger`. Two
  processes are what every pairwise race needs; two attempts are an original and its
  replacement, or an original and the cancellation of its nonce.
- `pipeline_lanes`: `LaneIsWhole` for two workers and two operations that share a lane, three
  attempts, revocations and one transaction sent with the key from outside. Deliveries, the
  chain writer and the lane sweep run (`ReservingSpec`), which are all the writers of a nonce
  but fee replacements; those are in `pipeline_safety`.
- `compliance`: two sweepers, two decisions, three syncs (the third by expiry), one
  reorganisation. `OneLiveSync`, `RevocationNotUndone`, `OvertakenNeverGranted`. Two decisions
  are an approval and whatever overtakes it; three syncs are a grant that failed with its bytes
  out, a withdrawal and a later write. `revoked_grant` has three decisions.
- `intake`: two concurrent requests, two keys of two requesters, two bodies, three users
  of whom both requesters may approve, one redefinition. `RetriesAreHarmless`,
  `ResultIsStored`, `AnswersMatchRequest`, `TwoPersonRule`. A finished request may be sent
  again, so two requests are also any number of retries.
- `delivery`: two operations, two dispatchers, two faults. `DispatchedMeansPublished`,
  `NoJobBeforeApproval`, `DispatchedIsFinal`, and under fairness `RowsAreDispatched` and
  `ReadyIsClaimed`. Two faults are a lost lease and a failure after it, or a dead cycle
  and a flush.
- `signing`: one operation, two processes, three attempts, one fee replacement, a request
  that is held for up to two polls. `BytesAreCommitted`, `ReplacementsAreAccepted` (each
  attempt could displace the earlier ones of its nonce in a pool that wants 10 % more,
  the smallest bump the configuration allows, for an estimate so low that integer
  division loses the bump and for one above what the bump reaches), `FailedIsNotRevived` (of
  operations; nonce recoveries see below), and under fairness `SigningIsResolved`.
  Three attempts are an original, its replacement and the cancellation of the nonce.
- `tokenization`: two deployments, one caller who asks again, two mints that do not fit
  under the cap together, four blocks of which two are of others, one reorganisation.
  `SupplyIsBacked`, `IssuedAsMined` (only the asset's contract issues, and exactly what was
  mined), `ActiveIsConfirmed`, `ContractNeverChanges` and the refinement
  `AssetImplementsLedger`. Four blocks are a deployment, eligibility and either both mints or a
  mint and a transfer that spends it before it is reconciled.

Violations, each a sentence of the repository that the code does not keep (quoted under
"findings"):

- `late_signature`: after a crash at SIGNED the sweep sends the bytes without the
  compliance test.
- `closed_mint`: a sweep acts on the state it read; an operation withheld and FAILED
  since then is sent and mints. REVERTED breaks the same property, by a longer way: it is
  terminal before finality, and the same transaction can be mined again with success.
- `torn_confirmation`: the hash of the block is compared, the block is replaced, and its
  height is called final; mined again in a block that is not final, the operation reconciles
  and is SUCCEEDED.
- `blocked_lane`: an attempt that failed before it was signed keeps its nonce; the lane
  sweep comes back to it for ever, since the table refuses to retire a row without bytes.
- `revoked_grant`: a rejection queues no withdrawal and does not stop a sync that is PREPARING
  and has resolved its target; the wallet is then eligible on chain, has no live approval, and
  is taken for revoked.

More disagreements have no run of their own and are noted with their hazards; the models
contain the steps:

- after the reads of `torn_confirmation` a deployment activates its asset, and a mint can be
  requested for a contract that may still vanish (`asset-deployment-handler.ts:90`);
- an original that is mined after its fee replacement was signed is never looked up again, and
  its operation stays in flight although its mint is final (`transaction-repository.ts:278`);
- the signature of a nonce recovery that was fetched before the deadline is stored after the
  attempt was failed at that deadline (`replacement-service.ts:206`);
- an expiry sweep's stale batch cancels the sync of a renewed approval
  (`compliance-service.ts:249`);
- a withheld replacement is taken for an abandoned nonce while the original is still in
  flight (`replacement-service.ts:319`);
- a lost commit acknowledgement deletes a completed key (`idempotency-repository.ts:112`).

Deadlock is not checked: every model may rest when its bounds are used up and no work is
left.

### Fairness

The specifications of the pipeline, of compliance, intake and tokenization have none; their
properties are safety. `LaneSpec` adds to the pipeline, for `blocked_lane` only, that
processes go on and that a crash does not cut the same step of the lane sweep off for ever;
the counterexample is a loop of complete sweeps. `Signing` assumes the same of one call
chain, the one the sweep's timer starts, and that deadlines pass; nothing of the signer, who
may never answer.
`Delivery` assumes that the dispatchers' timer, the worker, the sweep's interval
and the clocks go on (weak fairness of claim, publish, finish, deliver, requeue and of
the end of a back-off or a dead lease): each is a `setTimeout`/`setInterval` loop or a
BullMQ worker that catches its errors and continues. A lease lost by a cycle that still
runs counts as a fault, since a lease is 30 s and a cycle some fifty Redis calls; faults
are finite. The sweep takes the 50 oldest stale operations, so requeueing is fair only
while fewer than 50 operations are parked for review; this is listed as a hazard.
Nothing is assumed of the approvers.

## Proofs

All theorems hold for every value of the constants, under the assumptions the modules name:
bounds are naturals, markers for "none" are no members of the sets they are used with
(`NoOpAssumption`, `NoKeyAssumption`), operations of `Signing` are named by their purpose,
the bump is between the limits of the configuration (`BumpAssumption`), amounts and the cap
are positive, wallets are finitely many (`WalletsAssumption`: addresses have 160 bits), and an
asset has a deployment (`DeploymentsAssumption`: `createAsset` queues the first). TLC evaluates all of them in the runs. Each invariant was checked by TLC on the
instance of its run before it was proved.

- `PipelineProofs`: `TypesHold`, one step lemma per action, and
  `OperationsFollowTheMachine`: every writer tests the edge in the transaction that writes
  it.
- `MintProofs`: `StoredBeforeSent`, `OneNoncePerOperation`, `NoDoubleMint`. The inductive
  invariant `MintInv` adds to the types what each process remembers about its operation
  and attempt (`Binds`), that an operation before SIGNING has no attempt
  (`NoAttemptBeforeSigning`), and that the chain holds one transaction per nonce at its
  place (`ChainByNonce`). The argument: an operation gets attempts of one nonce only,
  because a nonce is reserved under PREPARING, which no edge re-enters once an attempt
  exists, and replacements inherit it; the chain executes a nonce once.
- `LedgerProofs`: `ConfirmedMeansFinal`, `SuccessMeansFinal`, `NothingInFlightIsHidden`,
  `LaneHasNoGap`, and the refinement `PipelineImplementsLedger`. None of the claims is
  inductive alone. `LedgerInv` adds what a process still knows when it acts on an earlier
  read (`Knowledge`: what it has called FINALIZED is in a block that no reorganisation takes
  back, or was misread; a process that may put bytes on the wire works for an operation past
  SIGNED), what a row's
  status says of its operation (`RowsTell`), and that the live attempts are in one-to-one
  correspondence with the nonces given out (`NonceHeld`). The final part of the chain only
  grows (`StepKeepsFinal`), a process's knowledge survives the steps of all others, and so
  a claim of success is made for a mint that stays, the misread ones excepted: they are
  recorded at the one read that can be wrong. For the refinement every action is
  shown to be a step of `MintLedger` or a stutter; `NoDoubleMint` gives the ledger's one
  mint per operation, `SuccessMeansFinal` its settled claims. `LedgerKeepsItsPromise` shows
  from the ledger alone that it says what it is meant to say (`PromiseKept`,
  `NothingTakenBack`), and `RequesterCanRely` carries that over to the pipeline.
- `ComplianceProofs`: `ComplianceTyped`, `OneSyncAtATime`, `WithdrawalsStand`,
  `OvertakenStaysOff`. `ComplianceInv` says that the live sync is the last one queued
  (`LiveIsLast`), so nonces follow the order of the syncs (`LaneInOrder`), and that a sync
  which grants does so for a later decision than those of all earlier syncs (`LaterGrant`).
  What the chain grants was written by a block of the lane and not withdrawn since
  (`GrantIsWritten`), and a withdrawal that was taken for final took effect in a final block
  unless it was misread (`Sightings`). An older grant that is still out, of a FAILED sync too,
  then has a smaller nonce and must have been mined before the withdrawal. An overtaken
  approval has no sync that has resolved its target or holds a nonce, and never gets one.
- `IntakeProofs`: `IntakeTyped`, `TwoPersons` (inductive with the fact that the requester
  is never among those who decided, `Impartial`, and that a key at work has its row and one
  owner), and `OperationsAreRecorded`, `OneOperationPerKey`, `AnswersAreTrue` from `KeyInv`:
  a request at work holds its open row, a stored answer is true, an operation's row is
  closed and names it. All but the last hold unless the acknowledgement of a commit was lost.
- `DeliveryProofs`: `DeliveryTyped`, `NothingMarkedUnpublished` (inductive with what a
  running cycle has sent, `SentIsPublished`), `NothingQueuedBeforeApproval` (a row and a
  cycle exist only after the approval, `ApprovalFirst`), `DispatchedForGood`.
- `SigningProofs`: `SigningTyped`, `StoredBytesAreTheRequest`, `NodesTakeReplacements`,
  `LateSignaturesAreDropped`. The invariant has two halves. `RowsInv`: at every nonce the
  newest attempt and only it is live, a row past SIGNED or of a replacement belongs to an
  operation that is announced or over, bytes are the row's request, fees displace all
  earlier ones. `CallsInv`: what a call chain knows of the row it holds, across every await
  (bytes about to be stored were verified against this row, fees of a replacement were
  raised from this row), and that a fee replacement is written by the chain that inserted it
  alone. The lane's order is what stops a retired row from being revived, and the rows'
  word about operations what stops a late signature. `Scaled` and `Bumped` carry the integer
  arithmetic: the bump survives the division for every fee, and the tip stays within the fee.
- `TokenizationProofs`: `TokenizationTyped`, `NoUnconfirmedContract`, `OneContractForGood`,
  `SupplyAlwaysBacked`, `ReferencesFollowBlocks`, `SuccessStaysIssued` and the refinement
  `TokenizationImplementsLedger`, from two invariants and what an observation still knows of
  the block it has seen (`SightInv`: canonical, final, or misread).
  `AssetInv` adds that one deployment is live at a time whatever its callers have read
  (`OneLiveDeployment`), that none is under way once the asset is ACTIVE (`AssetTells`), and
  that every block leaves balanced books (`BooksAreKept`). The books are sums over sets,
  which the library defines by recursion. The proof counts instead: `Total` is the
  number of units of all elements, a plain cardinality. It satisfies the recursion's equation
  (`TotalSums`), and nothing else does (`TotalIsTheSum`, by a smallest set on which another
  solution would differ), so it is the sum (`SumIsTotal`). What a mint, a transfer or a
  setting does to a sum then follows from taking one element out (`TotalSplits`). The
  set of consumed references is finite because it starts empty and grows by one.
  `LaneInv` says that an operation has one nonce, mints have later ones than deployments,
  and the n-th block of the lane holds the n-th nonce (`Ordered`); so an operation is mined
  once on any canonical chain (`MinedOnce`), no deployment resets a contract that has
  issued, and when an asset is activated nothing has been issued yet.

Only model-checked: the properties under fairness, `RowsAreDispatched`, `ReadyIsClaimed`
and `SigningIsResolved`. All other properties of the passing runs are
proved. The violations are TLC's alone.

## Abstractions

Time is left open: a timeout, a lapse or staleness may happen whenever the code allows
it. Amounts, addresses, hashes and messages are abstracted to identities; a proposal
hash is the definition it was taken over. PostgreSQL transactions are atomic: rows are
locked or guarded by unique indexes where two of them meet. One signer lane is modelled;
lanes do not share state. `isEligible` counts the second of the deadline and
`findActiveApproval` does not; both are one lapse in the model.

Not modelled: HTTP, authentication, wallets, audit, metrics, logging and configuration
(no protocol state); RPC transport and revert decoding of the gateway; the generated
contract artifact and the table definitions of the query builder, which repeat the
migrations; asset statuses PAUSED and FAILED, which no code sets; the observations
reconciliation records, which nothing in the pipeline reads.

## Plan

1. Done: the pipeline, compliance, intake, delivery, signing, tokenization, the ledger;
   theorems for every safety property of the passing runs, and the refinement of the ledger
   by the pipeline and by tokenization.
2. Left: the hazards that have no property yet, most of them of liveness (each says why
   under "hazards"), among them that the sweep settles what is final, which holds for an
   operation with one attempt only; the lemmas on ledger steps, which `LedgerProofs` and
   `TokenizationProofs` each state for their own mapping, in a module of the ledger.
