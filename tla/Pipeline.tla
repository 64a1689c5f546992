------------------------------- MODULE Pipeline ------------------------------
(***************************************************************************)
(* The chain-write pipeline: queue deliveries, the recovery sweep and the  *)
(* replacement sweep working concurrently on the same rows against a chain *)
(* that may lose, reorder, reject and orphan transactions.                 *)
(***************************************************************************)
EXTENDS EvmChain, ReplacementService

Environment ==
  \/ \E a \in Attempts : Mine(a) \/ Evict(a)
  \/ MineForeign \/ Finalize \/ Reorg
  \/ \E o \in Ops : ApprovalGranted(o) \/ ApprovalRejected(o) \/ Revoke(o)

ProcessStep(p) ==
  ChainWriterStep(p) \/ ExecutorStep(p) \/ RecoveryStep(p) \/ ReplacementStep(p)

Next ==
  \/ Environment
  \/ \E p \in Procs : ProcessStep(p) \/ Crash(p)

Spec == Init /\ [][Next]_vars

\* Deliveries and the lane sweep alone, for instances with several operations: what
\* reserves, cancels and consumes the nonces of a lane.
ReservingNext ==
  \/ MineForeign
  \/ \E a \in Attempts : Mine(a)
  \/ \E o \in Ops : ApprovalGranted(o) \/ Revoke(o)
  \/ \E p \in Procs :
       \/ ChainWriterStep(p) \/ Crash(p)
       \/ \E o \in Ops : Claim(p, o)
       \/ Prepare(p) \/ FailOperation(p)
       \/ RecoverBlockedLane(p) \/ FindBlocking(p)

ReservingSpec == Init /\ [][ReservingNext]_vars

-----------------------------------------------------------------------------
(* Type invariant *)

Block == [att : Attempts \cup {Foreign}, ok : BOOLEAN, id : Nat]

\* Every variable holds a value of the kind the tables, the chain and the
\* processes hold; rows beyond the last one are unused.
TypeOK ==
  /\ op \in [Ops -> OperationState]
  /\ att \in [Attempts -> Row]
  /\ rows \in 0..MaxAttempts
  /\ nextNonce \in Nat \cup {NoLane}
  /\ req \in [Attempts -> SignerRequestStatus]
  /\ eligible \in [Ops -> BOOLEAN]
  /\ lateSigned \subseteq Attempts
  /\ misread \subseteq Attempts
  /\ mempool \subseteq Attempts
  /\ chain \in Seq(Block)
  /\ final \in 0..Len(chain)
  /\ reorgs \in Nat
  /\ proc \in [Procs -> Process]

-----------------------------------------------------------------------------
(* Safety *)

\* An operation never has two transactions on the canonical chain, whatever is
\* retried, replaced, rebroadcast or reorganised: its reference mints once.
AtMostOneMint ==
  \A i, j \in 1..Len(chain) :
    /\ chain[i].att # Foreign /\ chain[j].att # Foreign
    /\ att[chain[i].att].op = att[chain[j].att].op
    /\ att[chain[i].att].op # NoOp
    => i = j

\* Everything a node holds or has mined for the system is stored, bytes and hash,
\* in a row: persist-before-broadcast.
PersistBeforeBroadcast ==
  \A a \in Attempts : a \in mempool \/ Mined(a) => a <= rows /\ att[a].signed

\* Every nonce the lane has given out, from its first one on, has exactly one live
\* attempt: no reservation leaves a gap, none is lost between retiring an attempt and
\* inserting its successor, none is held twice.
LaneIsWhole ==
  /\ \A a \in 1..rows : att[a].nonce < nextNonce
  /\ \A a \in 1..rows : \A n \in att[a].nonce..(nextNonce - 1) :
       Cardinality({b \in 1..rows : Live(b) /\ att[b].nonce = n}) = 1

\* The reference of the operation was consumed in a block that no reorganisation drops.
FinallyMinted(o) ==
  \E i \in 1..final : /\ chain[i].att # Foreign
                      /\ att[chain[i].att].op = o
                      /\ chain[i].ok

\* The operations of which an attempt was taken for final on a block that was not.
Misread == {o \in Ops : \E a \in misread : att[a].op = o}

\* SUCCEEDED is only reported for a mint that is on the chain and final, unless the block
\* was replaced between the last two answers of the node on which FINALIZED rests.
SucceededIsFinal ==
  \A o \in Ops \ Misread : op[o] = "SUCCEEDED" => FinallyMinted(o)

\* A transaction that a node holds or has mined belongs to an operation that is
\* past SIGNED, so neither failOperation nor abandonUnbroadcast, which only fail
\* earlier states, can call it failed.
InFlightIsVisible ==
  \A a \in Attempts :
    /\ a \in mempool \/ Mined(a)
    /\ att[a].op # NoOp
    => op[att[a].op] \in ChainInflightStates \cup TerminalStates

\* Exactly one worker ever takes an operation into the signing pipeline: it
\* reserves at most one nonce, duplicated deliveries and sweeps included.
OneReservationPerOperation ==
  \A a, b \in 1..rows :
    att[a].op = att[b].op /\ att[a].op # NoOp => att[a].nonce = att[b].nonce

\* CONFIRMED is evidence, nonce recoveries included, for which nothing is reconciled: the
\* attempt is on the chain, succeeded, and final, with the same exception.
ConfirmedIsFinal ==
  \A a \in (1..rows) \ misread : att[a].status = "CONFIRMED" =>
    \E i \in 1..final : chain[i].att = a /\ chain[i].ok

\* An operation only ever moves along the edges of the domain machine, although
\* several processes move it: in particular a terminal state is never left.
MovesAlongEdges ==
  [][\A o \in Ops : op'[o] # op[o] => CanTransition(op[o], op'[o])]_op

-----------------------------------------------------------------------------
(* Refinement *)

\* The blocks in which the reference of an operation was consumed.
MintBlocks(o) ==
  {i \in 1..Len(chain) : /\ chain[i].att # Foreign
                         /\ att[chain[i].att].op = o
                         /\ chain[i].ok}

Ledger == INSTANCE MintLedger WITH
  Operations <- Ops,
  claim      <- [o \in Ops |-> ClaimOf(op[o])],
  minted     <- [o \in Ops |-> MintBlocks(o)],
  final      <- final,
  misread    <- Misread

\* The pipeline implements the ledger: whatever its processes, crashes, replacements and
\* reorganisations do, each step either changes nothing a requester can see or is one
\* step of the ledger.
ImplementsLedger == Ledger!LedgerSpec

-----------------------------------------------------------------------------
(* What the documentation says and the code does not keep *)

\* confirmation.ts calls FINALIZED what has "succeeded, the including block is canonical,
\* and finality policy is met", and README: "only the chain profile's finality rule moves
\* it to SUCCEEDED".  The three answers are read one after the other: a block replaced
\* after its hash was compared is still called final once its height is, and if the
\* transaction is mined again by then, in a block that is not final, it reconciles.
OnlyFinalSucceeds ==
  \A o \in Ops : op[o] = "SUCCEEDED" => FinallyMinted(o)

\* README: "A signature that arrives after compliance was revoked is kept as
\* evidence and never sent."  settleSignature withholds it, but a crash before that
\* check leaves SIGNED bytes, which resolveInFlight sends without asking again.
LateSignatureNeverSent ==
  \A a \in lateSigned : a \notin mempool /\ ~Mined(a)

\* operation-executor.ts: "only finality justifies a terminal claim about money".  FAILED
\* and REVERTED are claimed without it.  A sweep that read SIGNED before the operation was
\* withheld and FAILED still sends its bytes; and a revert is settled as soon as it is seen,
\* while the transaction can be mined again after a reorganisation and succeed.
ClosedNeverMints ==
  \A o \in Ops : op[o] \in {"FAILED", "REVERTED"} => ~Minted(o)

\* The worker goes on with what it does, and its lane sweep, started by a timer, is not
\* cut off by a crash every time.
LaneFairness ==
  \A p \in Procs :
    /\ WF_vars(ProcessStep(p))
    /\ SF_vars(RecoverBlockedLane(p))
    /\ SF_vars(FindBlocking(p))
    /\ SF_vars(CancelNonce(p))

LaneSpec == Spec /\ LaneFairness

\* replacement-service.ts, recoverBlockedLane: it "Clears a lane whose next nonce can never
\* be consumed by the attempt holding it", and isAbandoned counts an attempt that "failed
\* before broadcast".  An attempt that failed before its bytes were stored can not be
\* retired: the table wants bytes in a REPLACED row, and every sweep throws.
AbandonedIsCleared ==
  \A a \in Attempts :
    (Live(a) /\ att[a].op # NoOp /\ IsAbandoned(a) /\ att[a].nonce = ChainNonce)
      ~> ~(Live(a) /\ IsAbandoned(a) /\ att[a].nonce = ChainNonce)
=============================================================================
