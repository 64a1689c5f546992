------------------------------- MODULE EvmChain ------------------------------
(***************************************************************************)
(* The environment of the pipeline: the EVM node and chain behind the      *)
(* gateway (external, modelled from how the pipeline uses it), the         *)
(* approvals that release an operation, and the compliance revocation that *)
(* can arrive at any moment.                                               *)
(***************************************************************************)
EXTENDS PipelineState

\* A node mines the next nonce of the signer's lane; the transaction succeeds or
\* reverts.  Other pending transactions at that nonce are no longer valid.
Mine(a) ==
  /\ a \in mempool
  /\ att[a].nonce = ChainNonce
  /\ \E ok \in BOOLEAN :
       chain' = Append(chain, [att |-> a, ok |-> ok, id |-> reorgs])
  /\ mempool' = {b \in mempool : att[b].nonce # ChainNonce}
  /\ UNCHANGED <<dbVars, eligible, lateSigned, misread, final, reorgs, proc>>

\* The signer's key is used outside this application.
MineForeign ==
  /\ Cardinality(BlocksOf(Foreign)) < MaxForeign
  /\ chain' = Append(chain, [att |-> Foreign, ok |-> TRUE, id |-> reorgs])
  /\ mempool' = {b \in mempool : att[b].nonce # ChainNonce}
  /\ UNCHANGED <<dbVars, eligible, lateSigned, misread, final, reorgs, proc>>

\* A node evicts a pending transaction.
Evict(a) ==
  /\ a \in mempool
  /\ mempool' = mempool \ {a}
  /\ UNCHANGED <<dbVars, eligible, lateSigned, misread, chain, final, reorgs, proc>>

\* The oldest block that was not final becomes final.
Finalize ==
  /\ final < Len(chain)
  /\ final' = final + 1
  /\ UNCHANGED <<dbVars, eligible, lateSigned, misread, mempool, chain, reorgs, proc>>

\* The newest block leaves the canonical chain; its transaction goes back to the
\* mempool or is lost.
Reorg ==
  /\ final < Len(chain)
  /\ reorgs < MaxReorgs
  /\ reorgs' = reorgs + 1
  /\ chain' = SubSeq(chain, 1, Len(chain) - 1)
  /\ LET a == chain[Len(chain)].att
     IN  mempool' \in {mempool, mempool \cup ({a} \ {Foreign})}
  /\ UNCHANGED <<dbVars, eligible, lateSigned, misread, final, proc>>

-----------------------------------------------------------------------------
(* The parts of the system that release or withdraw an operation *)

\* ApprovalService: the second approval makes the operation READY, a rejection
\* cancels it.
ApprovalGranted(o) ==
  /\ op[o] = "PENDING_APPROVAL"
  /\ op' = [op EXCEPT ![o] = "READY"]
  /\ UNCHANGED <<att, rows, nextNonce, req, eligible, lateSigned, misread, chainVars, proc>>

ApprovalRejected(o) ==
  /\ op[o] = "PENDING_APPROVAL"
  /\ op' = [op EXCEPT ![o] = "CANCELLED"]
  /\ UNCHANGED <<att, rows, nextNonce, req, eligible, lateSigned, misread, chainVars, proc>>

\* ComplianceService.revokeDecision: the recipient loses its active approval.
Revoke(o) ==
  /\ o \in Revocable /\ eligible[o]
  /\ eligible' = [eligible EXCEPT ![o] = FALSE]
  /\ UNCHANGED <<dbVars, lateSigned, misread, chainVars, proc>>

\* A crash forgets what one call chain was doing; the rows stay as they are.
Crash(p) ==
  /\ proc[p].pc # "idle"
  /\ Done(p)
  /\ UNCHANGED <<dbVars, eligible, lateSigned, misread, chainVars>>
=============================================================================
