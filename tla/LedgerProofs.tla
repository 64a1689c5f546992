---------------------------- MODULE LedgerProofs -----------------------------
(***************************************************************************)
(* What the pipeline reports is what the chain holds: CONFIRMED and        *)
(* SUCCEEDED rest on a final block, a transaction that a node may hold     *)
(* belongs to an operation that is known to be in flight, the nonces of    *)
(* the lane have one live attempt each, and the pipeline implements the    *)
(* ledger of MintLedger.                                                   *)
(***************************************************************************)
EXTENDS MintProofs, FiniteSetTheorems

\* The attempt is in a final block and succeeded there.
Landed(a) == \E i \in 1..final : chain[i].att = a /\ chain[i].ok

\* ... or was taken for final on a block that had been replaced.
Evident(a) == a \in misread \/ Landed(a)

\* A process saw attempt a succeed in the canonical block n.  That block may be gone, and
\* then no block will have its hash again; if it is there, it is the block that was seen.
Sighted(a, n) ==
  /\ n < reorgs \/ \E i \in 1..Len(chain) : chain[i].att = a /\ chain[i].id = n
  /\ \A i \in 1..Len(chain) : chain[i].att = a /\ chain[i].id = n => chain[i].ok

\* States from which an operation is never failed without a word from a node.
LateStates == ChainInflightStates \cup TerminalStates

Late(o) == o # NoOp => op[o] \in LateStates

\* Steps between the announcement of a broadcast and the end of its observation, at
\* which the process may put the attempt back on the wire or among the SUBMITTED.
WirePcs ==
  {"recheck", "send", "record", "receipt", "blockHash", "finality", "reorged"}

\* Steps between the judgement of a receipt and the claim that rests on it.
JudgedPcs == {"include", "reconcile", "settle"}

\* Steps of a write, from the attempt's choice to its announcement.
WritePcs ==
  {"stuck", "retire", "sign", "resumeSig", "rejected", "failAttempt", "persist",
   "check", "announce"}

\* Steps that only the recovery of an operation takes.
RecoverPcs == {"signing", "abandon", "abandonTx", "resolve"}

\* What a process knows when it acts on what it has read before.
Knows(q) ==
  /\ q.pc = "finality" => Sighted(q.att, q.seen)
  /\ q.pc \in JudgedPcs /\ q.out = "FINALIZED" => Evident(q.att)
  /\ q.pc \in {"reconcile", "settle"} => q.out \in {"FINALIZED", "REVERTED"}
  /\ q.pc \in WirePcs \/ q.via = "replace" => Late(q.op)
  /\ q.pc \in WritePcs => q.via \in OperationHooks \cup {"replace"} \/ q.op = NoOp
  /\ q.pc \in RecoverPcs => q.op \in Ops
  /\ q.pc \in RecoverPcs \ {"abandonTx"} => q.att = NoAttempt
  /\ q.pc = "abandonTx" /\ q.att # NoAttempt => q.att \in 1..rows /\ att[q.att].op = q.op

Knowledge == \A p \in Procs : Knows(proc[p])

\* What the status and the bytes of a row say about its operation.
Tells(row) ==
  /\ row.status \in StuckStatuses => Late(row.op)
  /\ row.signed /\ row.op # NoOp => op[row.op] \in LateStates \cup {"SIGNED"}
  /\ row.status = "REPLACED" => row.signed

RowsTell == \A a \in 1..rows : Tells(att[a])

\* Every nonce given out has a live attempt, and no two live attempts share one.
NonceHeld ==
  /\ nextNonce = NoLane => rows = 0
  /\ \A a \in 1..rows : att[a].nonce < nextNonce
  /\ \A a \in 1..rows : \A n \in att[a].nonce..(nextNonce - 1) :
       \E b \in 1..rows : Live(b) /\ att[b].nonce = n
  /\ \A a, b \in 1..rows : Live(a) /\ Live(b) /\ att[a].nonce = att[b].nonce => a = b

\* A block has no hash that is still to come.
BlockAges == \A i \in 1..Len(chain) : chain[i].id <= reorgs

\* Only rows that exist were ever misread.
MisreadStored == misread \subseteq 1..rows

\* The inductive invariant: the three claims, and what the processes, the rows and the
\* blocks must say for the claims to survive a step.
LedgerInv ==
  /\ Knowledge
  /\ BlockAges
  /\ MisreadStored
  /\ RowsTell
  /\ NonceHeld
  /\ ConfirmedIsFinal
  /\ SucceededIsFinal
  /\ InFlightIsVisible

USE DEF Attempts, NoAttempt, NoLane, Foreign

-----------------------------------------------------------------------------
(* What no step takes back *)

\* The final part of the chain is never reorganised.
FinalKept ==
  /\ final <= final' /\ final \in Nat /\ final' \in Nat
  /\ \A i \in 1..final : chain'[i] = chain[i]

LEMMA SameFinal == ASSUME TypeInv, UNCHANGED <<chain, final>> PROVE FinalKept
BY LenProperties DEF FinalKept, TypeInv, TypeOK

\* Only the environment writes the chain.
LEMMA ProcessesLeaveChain ==
  ASSUME NEW p, ProcessStep(p) \/ Crash(p) PROVE UNCHANGED <<chain, final, reorgs>>
<1> USE DEF chainVars
<1>1. ChainWriterStep(p) => UNCHANGED <<chain, final, reorgs>>
  BY DEF ChainWriterStep, ReserveNonce, ReserveFails, RequestSignature, ResumeSignature,
         MarkRejected, FailAttempt, PersistSigned, AssertBroadcastAllowed,
         AnnounceBroadcast, Recheck, Send, RecordOutcome, ReplaceFees, CancelNonce,
         SignReplacement
<1>2. ExecutorStep(p) => UNCHANGED <<chain, final, reorgs>>
  BY DEF ExecutorStep, Claim, Prepare, FailOperation, Observe, PollReceipt,
         ReadReceipt, ReadBlockHash, ReadFinality, RecordInclusion, RecordReorg, Reconcile,
         Settle
<1>3. RecoveryStep(p) => UNCHANGED <<chain, final, reorgs>>
  BY DEF RecoveryStep, RecoverOne, RecoverSigning, Abandon, AbandonTx, ResolveInFlight,
         LookUpHash, Rebroadcast, AdvanceToSubmitted, FinalizeOperation
<1>4. ReplacementStep(p) \/ Crash(p) => UNCHANGED <<chain, final, reorgs>>
  BY DEF ReplacementStep, FindStuck, ReplaceOne, RecoverBlockedLane, FindBlocking,
         ConfirmRecovery, Crash
<1>5. QED
  BY <1>1, <1>2, <1>3, <1>4 DEF ProcessStep

LEMMA StepKeepsFinal == ASSUME TypeInv, [Next]_vars PROVE FinalKept
<1>1. final \in Nat /\ Len(chain) \in Nat /\ final <= Len(chain)
  BY LenProperties DEF TypeInv, TypeOK
<1>2. CASE UNCHANGED vars
  BY <1>2, SameFinal DEF vars
<1>3. ASSUME NEW p \in Procs, ProcessStep(p) \/ Crash(p) PROVE FinalKept
  BY <1>3, ProcessesLeaveChain, SameFinal
<1>4. ASSUME NEW b \in Block, chain' = Append(chain, b), final' = final PROVE FinalKept
  BY <1>1, <1>4, ChainGrows DEF FinalKept, TypeInv
<1>5. ASSUME NEW a \in Attempts, Mine(a) PROVE FinalKept
  <2>1. PICK ok \in BOOLEAN : chain' = Append(chain, [att |-> a, ok |-> ok, id |-> reorgs])
    BY <1>5 DEF Mine
  <2>2. [att |-> a, ok |-> ok, id |-> reorgs] \in Block
    BY DEF Block, TypeInv, TypeOK
  <2>3. QED
    BY <1>4, <1>5, <2>1, <2>2 DEF Mine
<1>6. CASE MineForeign
  <2>1. [att |-> Foreign, ok |-> TRUE, id |-> reorgs] \in Block
    BY DEF Block, TypeInv, TypeOK
  <2>2. QED
    BY <1>4, <1>6, <2>1 DEF MineForeign
<1>7. CASE Reorg
  <2>1. \A i \in 1..(Len(chain) - 1) : chain'[i] = chain[i]
    BY <1>7, ChainShrinks DEF Reorg, TypeInv
  <2>2. final < Len(chain) /\ final' = final
    BY <1>7 DEF Reorg
  <2>3. QED
    BY <1>1, <2>1, <2>2 DEF FinalKept
<1>8. CASE Finalize
  BY <1>1, <1>8 DEF Finalize, FinalKept
<1>9. ASSUME NEW o \in Ops, ApprovalGranted(o) \/ ApprovalRejected(o) \/ Revoke(o)
      PROVE  FinalKept
  BY <1>9, SameFinal DEF ApprovalGranted, ApprovalRejected, Revoke, chainVars
<1>10. ASSUME NEW a \in Attempts, Evict(a) PROVE FinalKept
  BY <1>10, SameFinal DEF Evict
<1>11. QED
  BY <1>2, <1>3, <1>5, <1>6, <1>7, <1>8, <1>9, <1>10 DEF Next, Environment

\* An operation that is in flight or settled stays so, and SIGNED only leads there.
LEMMA LateStays ==
  ASSUME TypeInv, OnEdges, NEW o \in Ops
  PROVE  /\ op[o] \in LateStates => op'[o] \in LateStates
         /\ op[o] \in LateStates \cup {"SIGNED"} => op'[o] \in LateStates \cup {"SIGNED"}
<1>1. op[o] \in OperationState
  BY DEF TypeInv, TypeOK
<1>2. op'[o] = op[o] \/ op'[o] \in AllowedTransitions[op[o]]
  BY DEF OnEdges, OnEdge, CanTransition
<1>3. QED
  BY <1>1, <1>2 DEF AllowedTransitions, OperationState, PreChainStates,
                    ChainInflightStates, TerminalStates, LateStates

-----------------------------------------------------------------------------
(* What was seen on the chain stays what it was *)

\* A step misreads at most one attempt, and moves no operation when it does.
MisreadsOne ==
  \/ misread' = misread
  \/ op' = op /\ \E a \in 1..rows : misread' = misread \cup {a}

LEMMA StepMisreads == ASSUME TypeInv, [Next]_vars PROVE MisreadsOne
<1> USE DEF MisreadsOne
<1>1. ASSUME NEW p \in Procs, ChainWriterStep(p) PROVE misread' = misread
  BY <1>1 DEF ChainWriterStep, ReserveNonce, ReserveFails, RequestSignature,
              ResumeSignature, MarkRejected, FailAttempt, PersistSigned,
              AssertBroadcastAllowed, AnnounceBroadcast, Recheck, Send, RecordOutcome,
              ReplaceFees, CancelNonce, SignReplacement, RollBack
<1>2. ASSUME NEW p \in Procs, ReadFinality(p) PROVE MisreadsOne
  <2>1. proc[p].att \in 1..rows /\ op' = op
    BY <1>2, HeldAttempt DEF ReadFinality, AttemptPcs, dbVars
  <2>2. misread' \in {misread, misread \cup {proc[p].att}}
    BY <1>2 DEF ReadFinality
  <2>3. QED
    BY <2>1, <2>2
<1>3. ASSUME NEW p \in Procs, ExecutorStep(p) PROVE MisreadsOne
  BY <1>2, <1>3
     DEF ExecutorStep, Claim, Prepare, FailOperation, Observe, PollReceipt, ReadReceipt,
         ReadBlockHash, RecordInclusion, RecordReorg, Reconcile, Settle
<1>4. ASSUME NEW p \in Procs, RecoveryStep(p) PROVE misread' = misread
  BY <1>4 DEF RecoveryStep, RecoverOne, RecoverSigning, Abandon, AbandonTx,
              ResolveInFlight, LookUpHash, Rebroadcast, AdvanceToSubmitted,
              FinalizeOperation
<1>5. ASSUME NEW p \in Procs, ReplacementStep(p) \/ Crash(p) PROVE misread' = misread
  BY <1>5 DEF ReplacementStep, FindStuck, ReplaceOne, RecoverBlockedLane, FindBlocking,
              ConfirmRecovery, Crash
<1>6. Environment \/ UNCHANGED vars => misread' = misread
  BY DEF Environment, Mine, MineForeign, Evict, Finalize, Reorg, Revoke,
         ApprovalGranted, ApprovalRejected, vars
<1>7. QED
  BY <1>1, <1>3, <1>4, <1>5, <1>6 DEF Next, ProcessStep

\* What must be true of a sighting after a step.
SightedThen(a, n) ==
  /\ n < reorgs' \/ \E i \in 1..Len(chain') : chain'[i].att = a /\ chain'[i].id = n
  /\ \A i \in 1..Len(chain') : chain'[i].att = a /\ chain'[i].id = n => chain'[i].ok

SightKept ==
  /\ misread \subseteq misread'
  /\ \A a \in Attempts : \A n \in Nat : Sighted(a, n) => SightedThen(a, n)

\* The chain has one block per nonce, so an attempt has one block.
LEMMA OneBlock ==
  ASSUME TypeInv, ChainByNonce, NEW a \in Attempts,
         NEW i \in 1..Len(chain), NEW j \in 1..Len(chain),
         chain[i].att = a, chain[j].att = a
  PROVE  i = j
<1>1. att[a].nonce = i - 1 /\ att[a].nonce = j - 1 /\ Len(chain) \in Nat
  BY LenProperties DEF ChainByNonce, TypeInv, TypeOK
<1>2. QED
  BY <1>1

LEMMA BlockSights ==
  ASSUME TypeInv, ChainByNonce, BlockAges, NEW b \in Block, chain' = Append(chain, b),
         b.id = reorgs, reorgs' = reorgs,
         b.att # Foreign => att[b.att].nonce = Len(chain)
  PROVE  /\ BlockAges'
         /\ \A a \in Attempts : \A n \in Nat : Sighted(a, n) => SightedThen(a, n)
<1> DEFINE m == Len(chain) + 1
<1>1. /\ Len(chain) \in Nat /\ Len(chain') = m /\ chain'[m] = b
      /\ \A i \in 1..Len(chain) : chain'[i] = chain[i]
  BY ChainGrows DEF TypeInv
<1>2. \A i \in 1..Len(chain') : i \in 1..Len(chain) \/ i = m
  BY <1>1
<1>3. reorgs \in Nat
  BY DEF TypeInv, TypeOK
<1>4. BlockAges'
  BY <1>1, <1>2, <1>3 DEF BlockAges
<1>5. ASSUME NEW a \in Attempts, NEW n \in Nat, Sighted(a, n) PROVE SightedThen(a, n)
  <2>1. CASE n < reorgs
    BY <1>1, <1>2, <1>3, <1>5, <2>1 DEF Sighted, SightedThen
  <2>2. ASSUME NEW i \in 1..Len(chain), chain[i].att = a, chain[i].id = n
        PROVE  SightedThen(a, n)
    <3>1. att[a].nonce = i - 1
      BY <2>2 DEF ChainByNonce
    <3>2. b.att # a
      BY <1>1, <3>1
    <3>3. i \in 1..Len(chain') /\ chain'[i] = chain[i]
      BY <1>1
    <3>4. \A j \in 1..Len(chain') : chain'[j].att = a => j \in 1..Len(chain)
      BY <1>1, <1>2, <3>2
    <3>5. QED
      BY <1>1, <1>5, <2>2, <3>3, <3>4 DEF Sighted, SightedThen
  <2>3. QED
    BY <1>5, <2>1, <2>2 DEF Sighted
<1>6. QED
  BY <1>4, <1>5

LEMMA ReorgSights ==
  ASSUME TypeInv, BlockAges, Reorg
  PROVE  /\ BlockAges'
         /\ \A a \in Attempts : \A n \in Nat : Sighted(a, n) => SightedThen(a, n)
<1>1. /\ Len(chain) \in Nat \ {0} /\ Len(chain') = Len(chain) - 1
      /\ \A i \in 1..(Len(chain) - 1) : chain'[i] = chain[i]
  BY ChainShrinks DEF Reorg, TypeInv
<1>2. \A i \in 1..Len(chain') : i \in 1..Len(chain) /\ chain'[i] = chain[i]
  BY <1>1
<1>3. reorgs \in Nat /\ reorgs' = reorgs + 1
  BY DEF TypeInv, TypeOK, Reorg
<1>4. \A i \in 1..Len(chain) : chain[i].id \in Nat
  <2>1. \A i \in 1..Len(chain) : chain[i] \in Block
    BY ElementOfSeq DEF TypeInv, TypeOK
  <2>2. QED
    BY <2>1 DEF Block
<1>5. BlockAges'
  BY <1>2, <1>3, <1>4 DEF BlockAges
<1>6. ASSUME NEW a \in Attempts, NEW n \in Nat, Sighted(a, n) PROVE SightedThen(a, n)
  <2>1. n < reorgs'
    BY <1>3, <1>6 DEF Sighted, BlockAges
  <2>2. QED
    BY <1>2, <1>6, <2>1 DEF Sighted, SightedThen
<1>7. QED
  BY <1>5, <1>6

LEMMA StepKeepsSight ==
  ASSUME TypeInv, ChainByNonce, BlockAges, [Next]_vars PROVE SightKept /\ BlockAges'
<1>1. misread \subseteq misread'
  BY StepMisreads DEF MisreadsOne
<1> SUFFICES /\ BlockAges'
             /\ \A a \in Attempts : \A n \in Nat : Sighted(a, n) => SightedThen(a, n)
  BY <1>1 DEF SightKept
<1>2. CASE UNCHANGED <<chain, reorgs>>
  BY <1>2 DEF BlockAges, Sighted, SightedThen
<1>3. ASSUME NEW a \in Attempts, Mine(a)
      PROVE  /\ BlockAges'
             /\ \A c \in Attempts : \A n \in Nat : Sighted(c, n) => SightedThen(c, n)
  <2>1. PICK ok \in BOOLEAN : chain' = Append(chain, [att |-> a, ok |-> ok, id |-> reorgs])
    BY <1>3 DEF Mine
  <2> DEFINE b == [att |-> a, ok |-> ok, id |-> reorgs]
  <2>2. b \in Block /\ b.att = a /\ b.id = reorgs /\ chain' = Append(chain, b)
    BY <2>1 DEF Block, TypeInv, TypeOK
  <2>3. att[a].nonce = Len(chain) /\ reorgs' = reorgs
    BY <1>3 DEF Mine, ChainNonce
  <2> HIDE DEF b
  <2>4. QED
    BY <2>2, <2>3, BlockSights
<1>4. CASE MineForeign
  <2> DEFINE b == [att |-> Foreign, ok |-> TRUE, id |-> reorgs]
  <2>1. b \in Block /\ b.att = Foreign /\ b.id = reorgs
    BY DEF Block, TypeInv, TypeOK
  <2>2. chain' = Append(chain, b) /\ reorgs' = reorgs
    BY <1>4 DEF MineForeign
  <2> HIDE DEF b
  <2>3. QED
    BY <2>1, <2>2, BlockSights
<1>5. CASE Environment
  BY <1>2, <1>3, <1>4, <1>5, ReorgSights
     DEF Environment, Evict, Finalize, Revoke, ApprovalGranted, ApprovalRejected, chainVars
<1>6. CASE \E p \in Procs : ProcessStep(p) \/ Crash(p)
  BY <1>2, <1>6, ProcessesLeaveChain
<1>7. CASE UNCHANGED vars
  BY <1>2, <1>7 DEF vars
<1>8. QED
  BY <1>5, <1>6, <1>7 DEF Next

\* What holds of every step.
Kept == TypeInv /\ OnEdges /\ RowsKept /\ FinalKept /\ SightKept

LEMMA StepIsKept == ASSUME TypeInv, MintInv, LedgerInv, [Next]_vars PROVE Kept
BY StepEdges, StepKeepsRows, StepKeepsFinal, StepKeepsSight DEF Kept, MintInv, LedgerInv

-----------------------------------------------------------------------------
(* What a process knows stays true *)

EvidentThen(a) ==
  a \in misread' \/ \E i \in 1..final' : chain'[i].att = a /\ chain'[i].ok

LateThen(o) == o # NoOp => op'[o] \in LateStates

\* What a process must know after a step.
KnowsThen(q) ==
  /\ q.pc = "finality" => SightedThen(q.att, q.seen)
  /\ q.pc \in JudgedPcs /\ q.out = "FINALIZED" => EvidentThen(q.att)
  /\ q.pc \in {"reconcile", "settle"} => q.out \in {"FINALIZED", "REVERTED"}
  /\ q.pc \in WirePcs \/ q.via = "replace" => LateThen(q.op)
  /\ q.pc \in WritePcs => q.via \in OperationHooks \cup {"replace"} \/ q.op = NoOp
  /\ q.pc \in RecoverPcs => q.op \in Ops
  /\ q.pc \in RecoverPcs \ {"abandonTx"} => q.att = NoAttempt
  /\ q.pc = "abandonTx" /\ q.att # NoAttempt => q.att \in 1..rows' /\ att'[q.att].op = q.op

LEMMA EvidentStays ==
  ASSUME FinalKept, SightKept, NEW a, Evident(a) PROVE EvidentThen(a)
<1>1. CASE a \in misread
  BY <1>1 DEF SightKept, EvidentThen
<1>2. ASSUME NEW i \in 1..final, chain[i].att = a, chain[i].ok PROVE EvidentThen(a)
  <2>1. i \in 1..final' /\ chain'[i] = chain[i]
    BY DEF FinalKept
  <2>2. QED
    BY <1>2, <2>1 DEF EvidentThen
<1>3. QED
  BY <1>1, <1>2 DEF Evident, Landed

LEMMA LateLasts ==
  ASSUME Kept, NEW o \in Ops \cup {NoOp}, Late(o) PROVE LateThen(o)
BY LateStays DEF Kept, Late, LateThen

LEMMA ProcOp ==
  ASSUME TypeInv, NEW p \in Procs
  PROVE  proc[p] \in Process /\ proc[p].op \in Ops \cup {NoOp}
BY DEF TypeInv, TypeOK, Process

LEMMA KnowsStays ==
  ASSUME Kept, NEW p \in Procs, Knows(proc[p]) PROVE KnowsThen(proc[p])
<1>1. TypeInv /\ FinalKept /\ SightKept /\ RowsKept /\ rows \in Nat
  BY TypedProcs DEF Kept
<1>2. Evident(proc[p].att) => EvidentThen(proc[p].att)
  BY <1>1, EvidentStays
<1>3. Late(proc[p].op) => LateThen(proc[p].op)
  BY <1>1, ProcOp, LateLasts
<1>4. \A a \in 1..rows : a \in 1..rows' /\ att'[a].op = att[a].op
  BY <1>1 DEF RowsKept
<1>5. ASSUME proc[p].pc = "finality" PROVE SightedThen(proc[p].att, proc[p].seen)
  <2>1. proc[p].att \in Attempts /\ proc[p].seen \in Nat
    BY <1>1, <1>5, HeldAttempt, ProcOp DEF AttemptPcs, Process
  <2>2. Sighted(proc[p].att, proc[p].seen)
    BY <1>5 DEF Knows
  <2>3. QED
    BY <1>1, <2>1, <2>2 DEF SightKept
<1>6. QED
  BY <1>2, <1>3, <1>4, <1>5 DEF Knows, KnowsThen

LEMMA KnowMoves ==
  ASSUME Kept, Knowledge, NEW p \in Procs, NEW q, proc' = [proc EXCEPT ![p] = q],
         KnowsThen(q)
  PROVE  Knowledge'
<1>1. proc \in [Procs -> Process]
  BY DEF Kept, TypeInv, TypeOK
<1>2. ASSUME NEW r \in Procs PROVE KnowsThen(proc'[r])
  <2>1. CASE r = p
    BY <1>1, <2>1
  <2>2. CASE r # p
    BY <1>1, <2>2, KnowsStays DEF Knowledge
  <2>3. QED
    BY <2>1, <2>2
<1>3. QED
  BY <1>2 DEF Knowledge, Knows, KnowsThen, Sighted, SightedThen, Evident, Landed, EvidentThen,
             Late, LateThen

LEMMA KnowSame == ASSUME Kept, Knowledge, proc' = proc PROVE Knowledge'
<1>1. \A r \in Procs : KnowsThen(proc'[r])
  BY KnowsStays DEF Knowledge
<1>2. QED
  BY <1>1 DEF Knowledge, Knows, KnowsThen, Sighted, SightedThen, Evident, Landed, EvidentThen,
             Late, LateThen

LEMMA KnowDone ==
  ASSUME Kept, Knowledge, NEW p \in Procs, Done(p) PROVE Knowledge'
<1>1. KnowsThen(IdleProcess)
  BY DEF KnowsThen, IdleProcess, JudgedPcs, WirePcs, WritePcs, RecoverPcs
<1>2. QED
  BY <1>1, KnowMoves DEF Done

\* The process goes on with what it holds.
GoesOn(p, pc) ==
  \/ Goto(p, pc)
  \/ \E n : Read(p, pc, n)
  \/ \E out : Report(p, pc, out)

\* A process that goes on for the same operation with the same attempt.
LEMMA KnowOn ==
  ASSUME Kept, Knowledge, NEW p \in Procs, NEW pc,
         GoesOn(p, pc),
         pc \notin JudgedPcs \cup {"finality"},
         pc \in WirePcs => LateThen(proc[p].op),
         pc \in WritePcs => proc[p].pc \in WritePcs,
         pc \in RecoverPcs => \/ pc = "abandon" /\ proc[p].pc \in RecoverPcs \ {"abandonTx"}
                              \/ pc = "abandonTx" /\ proc[p].pc = "abandon"
  PROVE  Knowledge'
<1>1. PICK q : /\ proc' = [proc EXCEPT ![p] = q]
               /\ q.pc = pc /\ q.att = proc[p].att /\ q.op = proc[p].op /\ q.via = proc[p].via
  <2>1. proc[p] \in Process
    BY DEF Kept, TypeInv, TypeOK
  <2>2. CASE Goto(p, pc)
    <3> DEFINE q == [proc[p] EXCEPT !.pc = pc]
    <3>1. proc' = [proc EXCEPT ![p] = q]
      BY <2>2 DEF Goto
    <3>2. q.pc = pc /\ q.att = proc[p].att /\ q.op = proc[p].op /\ q.via = proc[p].via
      BY <2>1 DEF Process
    <3>3. QED
      BY <3>1, <3>2
  <2>3. ASSUME NEW n, Read(p, pc, n)
        PROVE  \E q : /\ proc' = [proc EXCEPT ![p] = q]
                      /\ q.pc = pc /\ q.att = proc[p].att /\ q.op = proc[p].op
                      /\ q.via = proc[p].via
    <3> DEFINE q == [proc[p] EXCEPT !.pc = pc, !.seen = n]
    <3>1. proc' = [proc EXCEPT ![p] = q]
      BY <2>3 DEF Read
    <3>2. q.pc = pc /\ q.att = proc[p].att /\ q.op = proc[p].op /\ q.via = proc[p].via
      BY <2>1 DEF Process
    <3>3. QED
      BY <3>1, <3>2
  <2>4. ASSUME NEW out, Report(p, pc, out)
        PROVE  \E q : /\ proc' = [proc EXCEPT ![p] = q]
                      /\ q.pc = pc /\ q.att = proc[p].att /\ q.op = proc[p].op
                      /\ q.via = proc[p].via
    <3> DEFINE q == [proc[p] EXCEPT !.pc = pc, !.seen = 0, !.out = out]
    <3>1. proc' = [proc EXCEPT ![p] = q]
      BY <2>4 DEF Report
    <3>2. q.pc = pc /\ q.att = proc[p].att /\ q.op = proc[p].op /\ q.via = proc[p].via
      BY <2>1 DEF Process
    <3>3. QED
      BY <3>1, <3>2
  <2>5. QED
    BY <2>2, <2>3, <2>4 DEF GoesOn
<1>2. Knows(proc[p]) /\ KnowsThen(proc[p])
  BY KnowsStays DEF Knowledge
<1>3. KnowsThen(q)
  BY <1>1, <1>2 DEF Knows, KnowsThen, JudgedPcs, RecoverPcs
<1>4. QED
  BY <1>1, <1>3, KnowMoves

LEMMA KnowLate ==
  ASSUME Kept, Knowledge, NEW p \in Procs, NEW pc \in WirePcs \ {"finality"},
         LateThen(proc[p].op), GoesOn(p, pc)
  PROVE  Knowledge'
<1>1. pc \notin JudgedPcs \cup {"finality"} /\ pc \notin WritePcs /\ pc \notin RecoverPcs
  BY DEF JudgedPcs, WirePcs, WritePcs, RecoverPcs
<1>2. QED
  BY <1>1, KnowOn

LEMMA KnowAbandon ==
  ASSUME Kept, Knowledge, NEW p \in Procs, proc[p].pc \in {"signing", "resolve"},
         Goto(p, "abandon")
  PROVE  Knowledge'
<1>1. /\ "abandon" \notin JudgedPcs \cup {"finality"} /\ "abandon" \notin WritePcs
      /\ "abandon" \notin WirePcs /\ proc[p].pc \in RecoverPcs \ {"abandonTx"}
  BY DEF JudgedPcs, WirePcs, WritePcs, RecoverPcs
<1>2. GoesOn(p, "abandon")
  BY DEF GoesOn
<1>3. QED
  BY <1>1, <1>2, KnowOn

LEMMA KnowThrown ==
  ASSUME Kept, Knowledge, NEW p \in Procs, Thrown(p) PROVE Knowledge'
<1>1. Goto(p, "failOp") \/ Done(p)
  BY DEF Thrown
<1>2. QED
  BY <1>1, KnowDone, KnowOn DEF JudgedPcs, WirePcs, WritePcs, RecoverPcs, GoesOn

\* A process that takes up another row for the same operation.
LEMMA KnowTake ==
  ASSUME Kept, Knowledge, NEW p \in Procs, NEW pc, NEW a, Take(p, pc, a),
         pc \notin JudgedPcs \cup {"finality"},
         pc \in WirePcs => LateThen(proc[p].op),
         pc \in WritePcs => \/ proc[p].via \in OperationHooks \cup {"replace"}
                            \/ proc[p].op = NoOp,
         pc \in RecoverPcs => proc[p].op \in Ops,
         pc \in RecoverPcs \ {"abandonTx"} => a = NoAttempt,
         pc = "abandonTx" => a \in 1..rows' /\ att'[a].op = proc[p].op
  PROVE  Knowledge'
<1> DEFINE q == [proc[p] EXCEPT !.pc = pc, !.att = a, !.seen = 0]
<1>1. proc' = [proc EXCEPT ![p] = q]
  BY DEF Take
<1>2. q.pc = pc /\ q.att = a /\ q.op = proc[p].op /\ q.via = proc[p].via
  BY DEF Kept, TypeInv, TypeOK, Process
<1>3. KnowsThen(proc[p])
  BY KnowsStays DEF Knowledge
<1> HIDE DEF q
<1>4. KnowsThen(q)
  BY <1>2, <1>3 DEF KnowsThen, JudgedPcs
<1>5. QED
  BY <1>1, <1>4, KnowMoves

\* A process that begins.
LEMMA KnowBegin ==
  ASSUME Kept, Knowledge, NEW p \in Procs, NEW pc, NEW via, NEW o, NEW a,
         Begin(p, pc, via, o, a),
         pc \notin JudgedPcs \cup {"finality"},
         pc \in WirePcs \/ via = "replace" => LateThen(o),
         pc \in WritePcs => via \in OperationHooks \cup {"replace"} \/ o = NoOp,
         pc \in RecoverPcs => pc # "abandonTx" /\ o \in Ops /\ a = NoAttempt
  PROVE  Knowledge'
<1> DEFINE q == [pc |-> pc, via |-> via, op |-> o, att |-> a, seen |-> 0, out |-> "none"]
<1>1. proc' = [proc EXCEPT ![p] = q]
  BY DEF Begin
<1>2. q.pc = pc /\ q.att = a /\ q.op = o /\ q.via = via
  OBVIOUS
<1> HIDE DEF q
<1>3. KnowsThen(q)
  BY <1>2 DEF KnowsThen, JudgedPcs, RecoverPcs
<1>4. QED
  BY <1>1, <1>3, KnowMoves

-----------------------------------------------------------------------------
(* Every step keeps what the processes know *)

\* A process on the wire, or replacing, knows it still after the step.
LEMMA LateThenKnown ==
  ASSUME Kept, Knowledge, NEW p \in Procs, proc[p].pc \in WirePcs \/ proc[p].via = "replace"
  PROVE  LateThen(proc[p].op)
BY KnowsStays DEF Knowledge, KnowsThen

\* operationHooks announces with BROADCASTING; a replacement was in flight before.
LEMMA AnnouncedIsLate ==
  ASSUME Kept, Knowledge, NEW p \in Procs, proc[p].pc = "announce", NEW row,
         CommitRow(p, row, "onBroadcasting")
  PROVE  LateThen(proc[p].op)
<1>1. CASE proc[p].op = NoOp
  BY <1>1 DEF LateThen
<1>2. CASE proc[p].via = "replace"
  BY <1>2, LateThenKnown
<1>3. CASE proc[p].op # NoOp /\ proc[p].via \in OperationHooks
  <2>1. Hook(proc[p].via, "onBroadcasting", op[proc[p].op]) = "BROADCASTING"
    BY <1>3 DEF CommitRow, HookPasses, Hook, OperationHook, HookTarget, Throw
  <2>2. op' = [op EXCEPT ![proc[p].op] = "BROADCASTING"] /\ proc[p].op \in Ops
    BY <1>3, <2>1, ProcOp DEF CommitRow, RunHook, Kept
  <2>3. QED
    BY <2>2 DEF LateThen, LateStates, ChainInflightStates, Kept, TypeInv, TypeOK
<1>4. QED
  BY <1>1, <1>2, <1>3 DEF Knowledge, Knows, WritePcs

LEMMA ChainWriterKnows ==
  ASSUME Kept, Knowledge, Binds, NEW p \in Procs, ChainWriterStep(p) PROVE Knowledge'
<1> USE DEF JudgedPcs, WirePcs, WritePcs, RecoverPcs
<1>1. CASE ReserveNonce(p)
  <2>1. proc[p].via \in OperationHooks /\ Take(p, "sign", rows + 1)
    BY <1>1 DEF ReserveNonce, Binds, OperationHooks
  <2>2. QED
    BY <2>1, KnowTake
<1>2. CASE ReserveFails(p)
  BY <1>2, KnowThrown DEF ReserveFails
<1>3. CASE RequestSignature(p)
  BY <1>3, KnowThrown, KnowDone, KnowOn DEF RequestSignature, GoesOn
<1>4. CASE ResumeSignature(p)
  BY <1>4, KnowDone, KnowOn DEF ResumeSignature, GoesOn
<1>5. CASE MarkRejected(p)
  BY <1>5, KnowOn DEF MarkRejected, GoesOn
<1>6. CASE FailAttempt(p)
  BY <1>6, KnowDone, KnowThrown DEF FailAttempt, RollBack
<1>7. CASE PersistSigned(p)
  BY <1>7, KnowOn, KnowThrown DEF PersistSigned, RollBack, GoesOn
<1>8. CASE AssertBroadcastAllowed(p)
  BY <1>8, KnowOn DEF AssertBroadcastAllowed, GoesOn
<1>9. CASE AnnounceBroadcast(p)
  <2>1. proc[p].pc = "announce"
    BY <1>9 DEF AnnounceBroadcast
  <2>2. ASSUME NEW row, CommitRow(p, row, "onBroadcasting"), Goto(p, "recheck")
        PROVE  Knowledge'
    BY <2>1, <2>2, AnnouncedIsLate, KnowOn DEF GoesOn
  <2>3. QED
    BY <1>9, <2>2, KnowThrown DEF AnnounceBroadcast, RollBack
<1>10. CASE Recheck(p)
  BY <1>10, KnowOn, KnowDone, LateThenKnown DEF Recheck, GoesOn
<1>11. CASE Send(p)
  <2>1. PICK out : Report(p, "record", out)
    BY <1>11 DEF Send, Outcome
  <2>2. QED
    <3>1. LateThen(proc[p].op)
      BY <1>11, LateThenKnown DEF Send
    <3>2. QED
      BY <2>1, <3>1, KnowLate DEF GoesOn
<1>12. CASE RecordOutcome(p)
  <2>1. Report(p, "observe", "none") \/ Done(p) \/ Thrown(p)
    BY <1>12 DEF RecordOutcome, AfterBroadcast, RollBack
  <2>2. ASSUME Report(p, "observe", "none") PROVE Knowledge'
    <3>1. GoesOn(p, "observe")
      BY <2>2 DEF GoesOn
    <3>2. QED
      BY <3>1, KnowOn
  <2>3. QED
    BY <2>1, <2>2, KnowDone, KnowThrown
<1>13. CASE ReplaceFees(p) \/ CancelNonce(p)
  <2>1. proc[p].via \in OperationHooks \cup {"replace"} \/ proc[p].op = NoOp
    BY <1>13 DEF ReplaceFees, CancelNonce, Binds, Knowledge, Knows
  <2>2. Take(p, "sign", rows + 1) \/ Done(p)
    BY <1>13 DEF ReplaceFees, CancelNonce, SignReplacement
  <2>3. QED
    BY <2>1, <2>2, KnowTake, KnowDone
<1>14. QED
  BY <1>1, <1>2, <1>3, <1>4, <1>5, <1>6, <1>7, <1>8, <1>9, <1>10, <1>11, <1>12, <1>13
     DEF ChainWriterStep

\* What has been mined is in flight.
LEMMA MinedIsLate ==
  ASSUME Kept, InFlightIsVisible, NEW a \in Attempts, Mined(a) PROVE LateThen(att[a].op)
<1>1. att[a].op \in Ops \cup {NoOp} /\ Late(att[a].op)
  BY DEF InFlightIsVisible, Late, LateStates, Kept, TypeInv, TypeOK, Row
<1>2. QED
  BY <1>1, LateLasts

LEMMA ExecutorKnows ==
  ASSUME Kept, Knowledge, Binds, ChainByNonce, InFlightIsVisible, NEW p \in Procs,
         ExecutorStep(p)
  PROVE  Knowledge'
<1> USE DEF JudgedPcs, WirePcs, WritePcs, RecoverPcs
<1>1. ASSUME NEW o \in Ops, Claim(p, o) PROVE Knowledge'
  BY <1>1, KnowBegin DEF Claim
<1>2. CASE Prepare(p)
  <2>1. GoesOn(p, "reserve") \/ Thrown(p)
    BY <1>2 DEF Prepare, GoesOn
  <2>2. QED
    BY <2>1, KnowOn, KnowThrown
<1>3. CASE FailOperation(p)
  BY <1>3, KnowDone DEF FailOperation
<1>4. CASE Observe(p)
  <2>1. GoesOn(p, "poll") \/ Done(p)
    BY <1>4 DEF Observe, GoesOn
  <2>2. QED
    BY <2>1, KnowOn, KnowDone
<1>5. proc[p] \in Process
  BY ProcOp DEF Kept
<1>6. ASSUME NEW out, Observed(p, out), out = "FINALIZED" => EvidentThen(proc[p].att),
             LateThen(proc[p].op)
      PROVE  Knowledge'
  <2>1. CASE out = "ORPHANED"
    <3>1. GoesOn(p, "reorged")
      BY <1>6, <2>1 DEF GoesOn, Observed
    <3>2. QED
      BY <1>6, <3>1, KnowLate
  <2>2. CASE out # "ORPHANED"
    <3> DEFINE q == [proc[p] EXCEPT !.pc = "include", !.seen = 0, !.out = out]
    <3>1. proc' = [proc EXCEPT ![p] = q]
      BY <1>6, <2>2 DEF Observed, Report
    <3>2. q.pc = "include" /\ q.att = proc[p].att /\ q.out = out /\ q.via = proc[p].via
          /\ q.op = proc[p].op
      BY <1>5 DEF Process
    <3> HIDE DEF q
    <3>3. KnowsThen(q)
      BY <1>6, <3>2 DEF KnowsThen
    <3>4. QED
      BY <3>1, <3>3, KnowMoves
  <2>3. QED
    BY <2>1, <2>2
<1>7. CASE PollReceipt(p)
  <2>1. proc[p].att \in Attempts /\ att[proc[p].att].op = proc[p].op
    BY <1>7, HeldAttempt DEF PollReceipt, AttemptPcs, OwnerPcs, Binds, Kept
  <2>2. Mined(proc[p].att) => LateThen(proc[p].op)
    BY <2>1, MinedIsLate
  <2>3. \/ Done(p)
        \/ Mined(proc[p].att) /\ GoesOn(p, "receipt")
        \/ Mined(proc[p].att) /\ \E out \in {"INCLUDED", "LATE_REVERTED"} : Observed(p, out)
    BY <1>7 DEF PollReceipt, GoesOn, Mined
  <2>4. QED
    BY <1>6, <2>2, <2>3, KnowLate, KnowDone
<1>8. CASE ReadReceipt(p)
  <2>1. LateThen(proc[p].op)
    BY <1>8, LateThenKnown DEF ReadReceipt
  <2>2. GoesOn(p, "blockHash") \/ Observed(p, "ORPHANED")
    BY <1>8 DEF ReadReceipt, GoesOn
  <2>3. QED
    BY <1>6, <2>1, <2>2, KnowLate
<1>9. CASE ReadBlockHash(p)
  <2>1. LateThen(proc[p].op)
    BY <1>9, LateThenKnown DEF ReadBlockHash
  <2>2. ASSUME NEW i \in BlocksOf(proc[p].att), chain[i].id = proc[p].seen, chain[i].ok,
               Goto(p, "finality")
        PROVE  Knowledge'
    <3>1. proc[p].att \in Attempts /\ UNCHANGED <<chain, reorgs>>
      BY <1>9, HeldAttempt DEF ReadBlockHash, AttemptPcs, Kept, chainVars
    <3>2. i \in 1..Len(chain) /\ chain[i].att = proc[p].att
      BY <2>2 DEF BlocksOf
    <3>3. \A j \in 1..Len(chain) : chain[j].att = proc[p].att => j = i
      BY <3>1, <3>2, OneBlock DEF Kept
    <3>4. SightedThen(proc[p].att, proc[p].seen)
      BY <2>2, <3>1, <3>2, <3>3 DEF SightedThen
    <3> DEFINE q == [proc[p] EXCEPT !.pc = "finality"]
    <3>5. proc' = [proc EXCEPT ![p] = q]
      BY <2>2 DEF Goto
    <3>6. q.pc = "finality" /\ q.att = proc[p].att /\ q.seen = proc[p].seen
          /\ q.via = proc[p].via /\ q.op = proc[p].op
      BY <1>5 DEF Process
    <3> HIDE DEF q
    <3>7. KnowsThen(q)
      BY <2>1, <3>4, <3>6 DEF KnowsThen
    <3>8. QED
      BY <3>5, <3>7, KnowMoves
  <2>3. QED
    BY <1>6, <1>9, <2>1, <2>2 DEF ReadBlockHash
<1>10. CASE ReadFinality(p)
  <2> DEFINE a == proc[p].att
  <2>1. LateThen(proc[p].op)
    BY <1>10, LateThenKnown DEF ReadFinality
  <2>2. a \in Attempts /\ Sighted(a, proc[p].seen) /\ UNCHANGED <<chain, final>>
    BY <1>10, HeldAttempt
       DEF ReadFinality, AttemptPcs, Kept, chainVars, Knowledge, Knows
  <2>3. ASSUME OnChain(a, proc[p].seen), NEW i \in BlocksOf(a), i <= final
        PROVE  EvidentThen(a)
    <3>1. i \in 1..Len(chain) /\ chain[i].att = a
      BY DEF BlocksOf
    <3>2. PICK j \in 1..Len(chain) : chain[j].att = a /\ chain[j].id = proc[p].seen
      BY <2>3 DEF OnChain, BlocksOf
    <3>3. i = j
      BY <2>2, <3>1, <3>2, OneBlock DEF Kept
    <3>4. chain[i].ok /\ i \in 1..final
      BY <2>2, <2>3, <3>1, <3>2, <3>3, LenProperties DEF Sighted, Kept, TypeInv, TypeOK
    <3>5. QED
      BY <2>2, <3>1, <3>4 DEF EvidentThen
  <2>4. \/ Observed(p, "FINALIZED") /\ EvidentThen(a)
        \/ GoesOn(p, "receipt")
        \/ Observed(p, "INCLUDED")
    <3>1. CASE OnChain(a, proc[p].seen)
      BY <1>10, <2>3, <3>1 DEF ReadFinality, GoesOn
    <3>2. CASE ~OnChain(a, proc[p].seen)
      BY <1>10, <3>2 DEF ReadFinality, GoesOn, EvidentThen
    <3>3. QED
      BY <3>1, <3>2
  <2>5. QED
    BY <1>6, <2>1, <2>4, KnowLate
<1>11. ASSUME NEW pc \in {"reconcile", "settle"}, Goto(p, pc), proc[p].pc \in JudgedPcs,
              proc[p].out \in {"FINALIZED", "REVERTED"}
       PROVE  Knowledge'
  <2> DEFINE q == [proc[p] EXCEPT !.pc = pc]
  <2>1. proc' = [proc EXCEPT ![p] = q]
    BY <1>11 DEF Goto
  <2>2. q.pc = pc /\ q.att = proc[p].att /\ q.out = proc[p].out /\ q.via = proc[p].via
        /\ q.op = proc[p].op
    BY <1>5 DEF Process
  <2>3. KnowsThen(proc[p])
    BY KnowsStays DEF Knowledge
  <2> HIDE DEF q
  <2>4. KnowsThen(q)
    BY <1>11, <2>2, <2>3 DEF KnowsThen
  <2>5. QED
    BY <2>1, <2>4, KnowMoves
<1>12. CASE RecordInclusion(p)
  BY <1>11, <1>12, KnowDone, KnowThrown DEF RecordInclusion, AfterInclusion
<1>13. CASE RecordReorg(p)
  BY <1>13, KnowDone, KnowThrown DEF RecordReorg
<1>14. CASE Reconcile(p)
  <2>1. proc[p].pc \in JudgedPcs /\ proc[p].out \in {"FINALIZED", "REVERTED"}
    BY <1>14 DEF Reconcile, Knowledge, Knows
  <2>2. Goto(p, "settle") \/ Done(p) \/ Thrown(p)
    BY <1>14 DEF Reconcile
  <2>3. QED
    BY <1>11, <2>1, <2>2, KnowDone, KnowThrown
<1>15. CASE Settle(p)
  BY <1>15, KnowDone, KnowThrown DEF Settle
<1>16. QED
  BY <1>1, <1>2, <1>3, <1>4, <1>7, <1>8, <1>9, <1>10, <1>12, <1>13, <1>14, <1>15
     DEF ExecutorStep

\* Signed bytes that are sent again belong to an operation that is announced first.
LEMMA RebroadcastIsLate ==
  ASSUME Kept, Binds, RowsTell, NEW p \in Procs, Rebroadcast(p), Goto(p, "recheck"),
         op' = IF op[proc[p].op] \in {"BROADCAST_UNKNOWN", "SIGNED"}
               THEN [op EXCEPT ![proc[p].op] = "BROADCASTING"] ELSE op
  PROVE  LateThen(proc[p].op)
<1> DEFINE o == proc[p].op
<1>1. SUFFICES ASSUME o # NoOp PROVE op'[o] \in LateStates
  BY DEF LateThen
<1>2. o \in Ops
  BY <1>1, ProcOp DEF Kept
<1>3. /\ proc[p].att \in 1..rows /\ att[proc[p].att].signed
      /\ att[proc[p].att].op = o
  BY HeldAttempt DEF Rebroadcast, AttemptPcs, OwnerPcs, SignedPcs, Binds, Kept
<1>4. op[o] \in LateStates \cup {"SIGNED"}
  BY <1>1, <1>3 DEF RowsTell, Tells
<1>5. QED
  BY <1>2, <1>4 DEF LateStates, ChainInflightStates, Kept, TypeInv, TypeOK

LEMMA RecoveryKnows ==
  ASSUME Kept, Knowledge, Binds, RowsTell, NEW p \in Procs, RecoveryStep(p)
  PROVE  Knowledge'
<1> USE DEF JudgedPcs, WirePcs, WritePcs, RecoverPcs
<1>1. ASSUME NEW o \in Ops, RecoverOne(p, o) PROVE Knowledge'
  <2>1. PICK pc \in {"abandon", "signing", "resolve", "finalize"} :
          Begin(p, pc, "recover", o, NoAttempt)
    BY <1>1 DEF RecoverOne, RecoverySwitch
  <2>2. QED
    BY <2>1, KnowBegin
<1>2. CASE RecoverSigning(p)
  <2>1. ASSUME NEW a, Begin(p, "resumeSig", "resume", proc[p].op, a) PROVE Knowledge'
    BY <2>1, KnowBegin DEF OperationHooks
  <2>2. ASSUME Goto(p, "abandon") PROVE Knowledge'
    <3>1. proc[p].pc = "signing"
      BY <1>2 DEF RecoverSigning
    <3>2. QED
      BY <2>2, <3>1, KnowAbandon
  <2>3. QED
    BY <1>2, <2>1, <2>2 DEF RecoverSigning
<1>3. CASE Abandon(p)
  <2>1. proc[p].op \in Ops /\ UNCHANGED <<att, rows>>
    BY <1>3 DEF Abandon, dbVars, Knowledge, Knows
  <2>2. ASSUME NEW a \in Attempts, IsLatestAttempt(proc[p].op, a), Take(p, "abandonTx", a)
        PROVE  Knowledge'
    BY <2>1, <2>2, KnowTake DEF IsLatestAttempt
  <2>3. ASSUME Take(p, "resolve", NoAttempt) PROVE Knowledge'
    BY <2>1, <2>3, KnowTake
  <2>4. QED
    BY <1>3, <2>2, <2>3, KnowOn DEF Abandon, GoesOn
<1>4. CASE AbandonTx(p)
  BY <1>4, KnowDone DEF AbandonTx
<1>5. CASE ResolveInFlight(p)
  <2>1. ASSUME NEW a, Take(p, "lookUp", a) PROVE Knowledge'
    BY <2>1, KnowTake
  <2>2. ASSUME Goto(p, "abandon") PROVE Knowledge'
    <3>1. proc[p].pc = "resolve"
      BY <1>5 DEF ResolveInFlight
    <3>2. QED
      BY <2>2, <3>1, KnowAbandon
  <2>3. QED
    BY <1>5, <2>1, <2>2, KnowDone DEF ResolveInFlight
<1>6. CASE LookUpHash(p)
  <2>1. GoesOn(p, "advance") \/ GoesOn(p, "rebroadcast")
    BY <1>6 DEF LookUpHash, GoesOn
  <2>2. QED
    BY <2>1, KnowOn
<1>7. CASE Rebroadcast(p)
  BY <1>7, RebroadcastIsLate, KnowOn, KnowThrown DEF Rebroadcast, GoesOn
<1>8. CASE AdvanceToSubmitted(p)
  BY <1>8, KnowOn DEF AdvanceToSubmitted, GoesOn
<1>9. CASE FinalizeOperation(p)
  BY <1>9, KnowTake, KnowDone DEF FinalizeOperation
<1>10. QED
  BY <1>1, <1>2, <1>3, <1>4, <1>5, <1>6, <1>7, <1>8, <1>9 DEF RecoveryStep

LEMMA SweepKnows ==
  ASSUME Kept, Knowledge, RowsTell, NEW p \in Procs, ReplacementStep(p) PROVE Knowledge'
<1> USE DEF JudgedPcs, WirePcs, WritePcs, RecoverPcs
<1>1. ASSUME NEW a \in Attempts, FindStuck(p, a) PROVE Knowledge'
  <2>1. Late(att[a].op) /\ att[a].op \in Ops \cup {NoOp}
    BY <1>1 DEF FindStuck, RowsTell, Tells, Kept, TypeInv, TypeOK, Row
  <2>2. LateThen(att[a].op)
    BY <2>1, LateLasts
  <2>3. QED
    BY <1>1, <2>2, KnowBegin DEF FindStuck
<1>2. CASE ReplaceOne(p)
  BY <1>2, KnowOn, KnowDone DEF ReplaceOne, GoesOn
<1>3. CASE RecoverBlockedLane(p)
  <2>1. GoesOn(p, "lane")
    BY <1>3 DEF RecoverBlockedLane, GoesOn
  <2>2. "lane" \notin WirePcs \cup WritePcs \cup RecoverPcs \cup JudgedPcs
    OBVIOUS
  <2>3. QED
    BY <2>1, <2>2, KnowOn
<1>4. CASE FindBlocking(p)
  <2>1. ASSUME NEW a, NEW pc \in {"recheck", "resumeSig", "cancel"}, Begin(p, pc, "lane", NoOp, a)
        PROVE  Knowledge'
    BY <2>1, KnowBegin DEF LateThen
  <2>2. QED
    BY <1>4, <2>1, KnowDone DEF FindBlocking, ResumeRecovery
<1>5. CASE ConfirmRecovery(p)
  BY <1>5, KnowDone DEF ConfirmRecovery
<1>6. QED
  BY <1>1, <1>2, <1>3, <1>4, <1>5 DEF ReplacementStep

LEMMA StepKeepsKnowledge ==
  ASSUME TypeInv, MintInv, LedgerInv, [Next]_vars PROVE Knowledge'
<1>1. /\ Kept /\ Knowledge /\ RowsTell /\ InFlightIsVisible
      /\ Binds /\ ChainByNonce
  BY StepIsKept DEF LedgerInv, MintInv
<1>2. CASE UNCHANGED vars
  BY <1>1, <1>2, KnowSame DEF vars
<1>3. ASSUME NEW p \in Procs, Crash(p) PROVE Knowledge'
  BY <1>1, <1>3, KnowDone DEF Crash
<1>4. CASE Environment
  BY <1>1, <1>4, KnowSame
     DEF Environment, Mine, MineForeign, Evict, Finalize, Reorg, Revoke,
         ApprovalGranted, ApprovalRejected
<1>5. QED
  BY <1>1, <1>2, <1>3, <1>4, ChainWriterKnows, ExecutorKnows, RecoveryKnows, SweepKnows
     DEF Next, ProcessStep

-----------------------------------------------------------------------------
(* What the rows say stays true *)

RowsInv == RowsTell /\ NonceHeld /\ ConfirmedIsFinal

\* The new content of row a says nothing that the step does not justify.
RowFits(a, row) ==
  /\ row.op = att[a].op /\ row.nonce = att[a].nonce
  /\ att[a].signed => row.signed
  /\ row.status \in StuckStatuses => att[a].status \in StuckStatuses \/ LateThen(att[a].op)
  /\ row.signed /\ att[a].op # NoOp => att[a].signed \/ op'[att[a].op] \in LateStates \cup {"SIGNED"}
  /\ row.status = "CONFIRMED" => att[a].status = "CONFIRMED" \/ EvidentThen(a)
  /\ row.status = "REPLACED" => att[a].status = "REPLACED"

\* Row a comes back to life only where no other row is alive.
Alone(a, row) ==
  att[a].status = "REPLACED" /\ row.status # "REPLACED" =>
    \A b \in 1..rows : b # a /\ Live(b) => att[b].nonce # att[a].nonce

\* A step that adds no row.
RowsFit ==
  /\ rows' = rows /\ nextNonce' = nextNonce
  /\ \A a \in 1..rows :
       /\ RowFits(a, att'[a])
       /\ Alone(a, att'[a])
       /\ att'[a].status # att[a].status /\ att[a].status = "REPLACED" =>
            \A b \in 1..rows : b # a => att'[b].status = att[b].status

LEMMA RowTyped ==
  ASSUME TypeInv, NEW a \in 1..rows
  PROVE  a \in Attempts /\ att[a] \in Row /\ att[a].op \in Ops \cup {NoOp}
         /\ att[a].nonce \in Nat /\ rows \in Nat
<1>1. a \in Attempts /\ rows \in Nat
  BY TypedProcs, BoundsAssumption DEF TypeInv, TypeOK
<1>2. att[a] \in Row
  BY <1>1 DEF TypeInv, TypeOK
<1>3. QED
  BY <1>1, <1>2 DEF Row

LEMMA RowsTellLasts ==
  ASSUME Kept, RowsTell, NEW a \in 1..rows, RowFits(a, att'[a])
  PROVE  /\ att'[a].status \in StuckStatuses => LateThen(att'[a].op)
         /\ att'[a].signed /\ att'[a].op # NoOp
              => op'[att'[a].op] \in LateStates \cup {"SIGNED"}
         /\ att'[a].status = "REPLACED" => att'[a].signed
<1>1. Tells(att[a]) /\ att[a].op \in Ops \cup {NoOp}
  BY RowTyped DEF RowsTell, Kept
<1>2. Late(att[a].op) => LateThen(att[a].op)
  BY <1>1, LateLasts
<1>3. att[a].op # NoOp /\ op[att[a].op] \in LateStates \cup {"SIGNED"}
        => op'[att[a].op] \in LateStates \cup {"SIGNED"}
  BY <1>1, LateStays DEF Kept
<1>4. QED
  BY <1>1, <1>2, <1>3 DEF Tells, RowFits

LEMMA RowsFitKeep == ASSUME Kept, RowsInv, RowsFit PROVE RowsInv'
<1>1. rows \in Nat /\ rows' = rows /\ nextNonce' = nextNonce
  BY TypedProcs DEF Kept, RowsFit
<1>2. \A a \in 1..rows : RowFits(a, att'[a])
  BY DEF RowsFit
<1>3. RowsTell'
  BY <1>1, <1>2, RowsTellLasts DEF RowsInv, RowsTell, Tells, Late, LateThen
<1>4. ConfirmedIsFinal'
  <2> SUFFICES ASSUME NEW a \in 1..rows, att'[a].status = "CONFIRMED" PROVE EvidentThen(a)
    BY <1>1 DEF ConfirmedIsFinal, EvidentThen
  <2>1. att[a].status = "CONFIRMED" \/ EvidentThen(a)
    BY <1>2 DEF RowFits
  <2>2. att[a].status = "CONFIRMED" => Evident(a)
    BY DEF RowsInv, ConfirmedIsFinal, Evident, Landed
  <2>3. QED
    BY <2>1, <2>2, EvidentStays DEF Kept
<1>5. NonceHeld'
  <2>1. \A a \in 1..rows : att'[a].nonce = att[a].nonce
                           /\ (att[a].status # "REPLACED" => att'[a].status # "REPLACED")
    BY <1>2 DEF RowFits
  <2>2. \A a \in 1..rows : att[a].nonce < nextNonce
    BY DEF RowsInv, NonceHeld
  <2>3. ASSUME NEW a \in 1..rows, NEW n \in att[a].nonce..(nextNonce - 1)
        PROVE  \E b \in 1..rows : att'[b].status # "REPLACED" /\ att'[b].nonce = n
    <3>1. PICK b \in 1..rows : Live(b) /\ att[b].nonce = n
      BY <2>3 DEF RowsInv, NonceHeld
    <3>2. QED
      BY <2>1, <3>1 DEF Live
  <2>4. ASSUME NEW a \in 1..rows, NEW b \in 1..rows, att'[a].status # "REPLACED",
               att'[b].status # "REPLACED", att[a].nonce = att[b].nonce
        PROVE  a = b
    <3>1. CASE att[a].status # "REPLACED" /\ att[b].status # "REPLACED"
      BY <2>4, <3>1 DEF RowsInv, NonceHeld, Live
    <3>2. CASE att[a].status = "REPLACED"
      BY <2>4, <3>2 DEF RowsFit, Alone, Live
    <3>3. CASE att[b].status = "REPLACED"
      BY <2>4, <3>3 DEF RowsFit, Alone, Live
    <3>4. QED
      BY <3>1, <3>2, <3>3
  <2>5. nextNonce = NoLane => rows = 0
    BY DEF RowsInv, NonceHeld
  <2>6. QED
    BY <1>1, <2>1, <2>2, <2>3, <2>4, <2>5 DEF NonceHeld, Live
<1>6. QED
  BY <1>3, <1>4, <1>5 DEF RowsInv

LEMMA SameRowsFit ==
  ASSUME UNCHANGED <<att, rows, nextNonce>> PROVE RowsFit
BY DEF RowsFit, RowFits, Alone

LEMMA OneRowFits ==
  ASSUME Kept, NEW a \in 1..rows, NEW row, att' = [att EXCEPT ![a] = row],
         UNCHANGED <<rows, nextNonce>>, RowFits(a, row), Alone(a, row)
  PROVE  RowsFit
<1>1. 1..rows \subseteq Attempts /\ att \in [Attempts -> Row]
  BY RowTyped DEF Kept, TypeInv, TypeOK
<1>2. \A b \in 1..rows : att'[b] = IF b = a THEN row ELSE att[b]
  BY <1>1
<1>3. QED
  BY <1>2 DEF RowsFit, RowFits, Alone

\* A row whose status alone changes.
LEMMA StatusFits ==
  ASSUME Kept, NEW a \in 1..rows, NEW s \in AttemptStatus \ {"REPLACED"},
         s \in StuckStatuses => LateThen(att[a].op),
         s = "CONFIRMED" => EvidentThen(a),
         RowAllowed(a, WithStatus(a, s)) \/ att[a].status # "REPLACED"
  PROVE  RowFits(a, WithStatus(a, s)) /\ Alone(a, WithStatus(a, s))
<1> DEFINE row == WithStatus(a, s)
<1>1. /\ row.op = att[a].op /\ row.nonce = att[a].nonce /\ row.signed = att[a].signed
      /\ row.status = s
  BY RowTyped DEF WithStatus, Row, Kept
<1> HIDE DEF row
<1>2. RowFits(a, row)
  BY <1>1 DEF RowFits
<1>3. Alone(a, row)
  BY <1>1 DEF Alone, RowAllowed, row
<1>4. QED
  BY <1>2, <1>3 DEF row

\* A row is added; the others say what they said.
LEMMA NewRowTells ==
  ASSUME Kept, RowsInv, rows' = rows + 1,
         att'[rows + 1].status = "PREPARED", ~att'[rows + 1].signed,
         \A a \in 1..rows : /\ att'[a].op = att[a].op
                            /\ att'[a].signed = att[a].signed
                            /\ \/ att'[a].status = att[a].status
                               \/ att'[a].status = "REPLACED" /\ att[a].signed
  PROVE  RowsTell' /\ ConfirmedIsFinal'
<1>1. rows \in Nat
  BY TypedProcs DEF Kept
<1>2. \A a \in 1..rows' : a \in 1..rows \/ a = rows + 1
  BY <1>1
<1>3. ASSUME NEW a \in 1..rows
      PROVE  /\ att'[a].status \in StuckStatuses => LateThen(att'[a].op)
             /\ att'[a].signed /\ att'[a].op # NoOp
                  => op'[att'[a].op] \in LateStates \cup {"SIGNED"}
             /\ att'[a].status = "REPLACED" => att'[a].signed
             /\ att'[a].status = "CONFIRMED" => EvidentThen(a)
  <2>1. Tells(att[a]) /\ att[a].op \in Ops \cup {NoOp}
    BY RowTyped DEF RowsInv, RowsTell, Kept
  <2>2. Late(att[a].op) => LateThen(att[a].op)
    BY <2>1, LateLasts
  <2>3. att[a].op # NoOp /\ op[att[a].op] \in LateStates \cup {"SIGNED"}
          => op'[att[a].op] \in LateStates \cup {"SIGNED"}
    BY <2>1, LateStays DEF Kept
  <2>4. att[a].status = "CONFIRMED" => Evident(a)
    BY DEF RowsInv, ConfirmedIsFinal, Evident, Landed
  <2>5. att[a].status = "CONFIRMED" => EvidentThen(a)
    BY <2>4, EvidentStays DEF Kept
  <2>6. QED
    BY <2>1, <2>2, <2>3, <2>5 DEF Tells, StuckStatuses
<1>4. RowsTell'
  <2> SUFFICES ASSUME NEW a \in 1..rows'
               PROVE  /\ att'[a].status \in StuckStatuses => LateThen(att'[a].op)
                      /\ att'[a].signed /\ att'[a].op # NoOp
                           => op'[att'[a].op] \in LateStates \cup {"SIGNED"}
                      /\ att'[a].status = "REPLACED" => att'[a].signed
    BY DEF RowsTell, Tells, Late, LateThen
  <2>1. CASE a \in 1..rows
    BY <1>3, <2>1
  <2>2. CASE a = rows + 1
    BY <2>2 DEF StuckStatuses
  <2>3. QED
    BY <1>2, <2>1, <2>2
<1>5. ConfirmedIsFinal'
  <2> SUFFICES ASSUME NEW a \in 1..rows', att'[a].status = "CONFIRMED" PROVE EvidentThen(a)
    BY DEF ConfirmedIsFinal, EvidentThen
  <2>1. QED
    BY <1>2, <1>3
<1>6. QED
  BY <1>4, <1>5

\* A reservation takes the next nonce of the lane.
LEMMA ReservationHeld ==
  ASSUME Kept, RowsInv, NEW p \in Procs, ReserveNonce(p) PROVE RowsInv'
<1> DEFINE n == LaneNonce(p)
           q == PreparedRow(proc[p].op, n, 0)
<1>1. rows \in Nat /\ rows' = rows + 1 /\ nextNonce' = n + 1 /\ rows + 1 \in Attempts
  BY TypedProcs, BoundsAssumption DEF ReserveNonce, Kept
<1>2. n \in Nat /\ proc[p].seen \in Nat
  BY DEF Kept, TypeInv, TypeOK, Process, LaneNonce
<1>3. /\ att'[rows + 1].status = "PREPARED" /\ ~att'[rows + 1].signed
      /\ att'[rows + 1].nonce = n
      /\ \A a \in 1..rows : att'[a] = att[a]
  <2>1. att' = [att EXCEPT ![rows + 1] = q] /\ att \in [Attempts -> Row]
    BY DEF ReserveNonce, Kept, TypeInv, TypeOK
  <2>2. q.status = "PREPARED" /\ ~q.signed /\ q.nonce = n
    BY DEF PreparedRow
  <2> HIDE DEF q
  <2>3. \A a \in 1..rows : a # rows + 1 /\ a \in Attempts
    BY <1>1, RowTyped DEF Kept
  <2>4. QED
    BY <1>1, <2>1, <2>2, <2>3
<1>4. RowsTell' /\ ConfirmedIsFinal'
  BY <1>1, <1>3, NewRowTells
<1>5. \A a \in 1..rows : n = nextNonce /\ att[a].nonce < n /\ att[a].nonce \in Nat
  BY <1>1, RowTyped DEF LaneNonce, RowsInv, NonceHeld, Kept
<1> HIDE DEF n
<1>6. \A a \in 1..rows' : a \in 1..rows \/ a = rows + 1
  BY <1>1
<1>7. NonceHeld'
  <2>1. nextNonce' # NoLane
    BY <1>1, <1>2
  <2>2. \A a \in 1..rows' : att'[a].nonce < nextNonce'
    BY <1>1, <1>2, <1>3, <1>5, <1>6
  <2>3. ASSUME NEW a \in 1..rows', NEW m \in att'[a].nonce..(nextNonce' - 1)
        PROVE  \E b \in 1..rows' : att'[b].status # "REPLACED" /\ att'[b].nonce = m
    <3>1. CASE m = n
      BY <1>1, <1>3, <3>1
    <3>2. CASE m # n
      <4>1. a \in 1..rows
        BY <1>1, <1>2, <1>3, <1>6, <2>3, <3>2
      <4>2. m \in att[a].nonce..(nextNonce - 1)
        BY <1>1, <1>2, <1>3, <1>5, <2>3, <3>2, <4>1
      <4>3. PICK b \in 1..rows : Live(b) /\ att[b].nonce = m
        BY <4>1, <4>2 DEF RowsInv, NonceHeld
      <4>4. b \in 1..rows'
        BY <1>1
      <4>5. QED
        BY <1>3, <4>3, <4>4 DEF Live
    <3>3. QED
      BY <3>1, <3>2
  <2>4. ASSUME NEW a \in 1..rows', NEW b \in 1..rows', att'[a].status # "REPLACED",
               att'[b].status # "REPLACED", att'[a].nonce = att'[b].nonce
        PROVE  a = b
    <3>1. CASE a \in 1..rows /\ b \in 1..rows
      BY <1>3, <2>4, <3>1 DEF RowsInv, NonceHeld, Live
    <3>2. CASE a \in 1..rows /\ b = rows + 1
      BY <1>2, <1>3, <1>5, <2>4, <3>2
    <3>3. CASE b \in 1..rows /\ a = rows + 1
      BY <1>2, <1>3, <1>5, <2>4, <3>3
    <3>4. QED
      BY <1>6, <3>1, <3>2, <3>3
  <2>5. QED
    BY <2>1, <2>2, <2>3, <2>4 DEF NonceHeld, Live
<1>8. QED
  BY <1>4, <1>7 DEF RowsInv

\* A replacement retires the live row of a nonce and takes its place.
LEMMA ReplacementHeld ==
  ASSUME Kept, RowsInv, NEW p \in Procs, NEW o, proc[p].pc \in AttemptPcs,
         SignReplacement(p, o)
  PROVE  RowsInv'
<1> DEFINE a == proc[p].att
           q == PreparedRow(o, att[a].nonce, att[a].repl + 1)
           r == WithStatus(a, "REPLACED")
<1>1. a \in 1..rows /\ att[a] \in Row /\ rows \in Nat
  BY HeldAttempt, RowTyped DEF Kept
<1>2. CASE UNCHANGED <<att, rows>> /\ nextNonce' = nextNonce
  BY <1>2, SameRowsFit, RowsFitKeep
<1>3. CASE /\ CanRetire(a) /\ rows < MaxAttempts /\ rows' = rows + 1
           /\ att' = [att EXCEPT ![a] = r, ![rows + 1] = q] /\ nextNonce' = nextNonce
  <2>1. q.status = "PREPARED" /\ ~q.signed /\ q.nonce = att[a].nonce
    BY DEF PreparedRow
  <2>2. r.status = "REPLACED" /\ r.signed = att[a].signed /\ r.nonce = att[a].nonce
        /\ r.op = att[a].op
    BY <1>1 DEF WithStatus, Row
  <2>3. att[a].status # "REPLACED" /\ att[a].signed
    BY <1>3, <2>2 DEF CanRetire, RowAllowed
  <2> HIDE DEF q, r
  <2>4. /\ att'[rows + 1] = q /\ att'[a] = r
        /\ \A b \in 1..rows : b # a => att'[b] = att[b]
    <3>1. rows + 1 \in Attempts /\ a # rows + 1 /\ a \in Attempts
      BY <1>1, <1>3, RowTyped, BoundsAssumption DEF Kept
    <3>2. \A b \in 1..rows : b \in Attempts /\ b # rows + 1
      BY RowTyped DEF Kept
    <3>3. QED
      BY <1>3, <3>1, <3>2 DEF Kept, TypeInv, TypeOK
  <2>5. RowsTell' /\ ConfirmedIsFinal'
    BY <1>3, <2>1, <2>2, <2>3, <2>4, NewRowTells
  <2>6. \A b \in 1..rows' : b \in 1..rows \/ b = rows + 1
    BY <1>1, <1>3
  <2>7. \A b \in 1..rows : b \in 1..rows' /\ att'[b].nonce = att[b].nonce
    <3>1. \A b \in 1..rows : b \in 1..rows'
      BY <1>1, <1>3
    <3>2. \A b \in 1..rows : att'[b].nonce = att[b].nonce
      BY <2>2, <2>4
    <3>3. QED
      BY <3>1, <3>2
  <2>8. att'[rows + 1].nonce = att[a].nonce /\ att'[rows + 1].status # "REPLACED"
        /\ rows + 1 \in 1..rows'
    BY <1>1, <1>3, <2>1, <2>4
  <2>9. \A b \in 1..rows : att'[b].status # "REPLACED"
                            => b # a /\ Live(b) /\ att[b].nonce # att[a].nonce
    BY <1>1, <2>2, <2>3, <2>4 DEF RowsInv, NonceHeld, Live
  <2>10. NonceHeld'
    <3>1. nextNonce' # NoLane
      BY <1>1, <1>3 DEF RowsInv, NonceHeld
    <3>2. \A b \in 1..rows' : att'[b].nonce < nextNonce'
      <4>1. \A b \in 1..rows : att[b].nonce < nextNonce
        BY DEF RowsInv, NonceHeld
      <4>2. att[a].nonce < nextNonce /\ nextNonce' = nextNonce
        BY <1>1, <1>3, <4>1
      <4>3. QED
        BY <2>6, <2>7, <2>8, <4>1, <4>2
    <3>3. ASSUME NEW b \in 1..rows', NEW m \in att'[b].nonce..(nextNonce' - 1)
          PROVE  \E c \in 1..rows' : att'[c].status # "REPLACED" /\ att'[c].nonce = m
      <4>1. PICK d \in 1..rows : m \in att[d].nonce..(nextNonce - 1)
        BY <1>1, <1>3, <2>6, <2>7, <2>8, <3>3
      <4>2. PICK c \in 1..rows : Live(c) /\ att[c].nonce = m
        BY <4>1 DEF RowsInv, NonceHeld
      <4>3. CASE c = a
        BY <2>8, <4>2, <4>3
      <4>4. CASE c # a
        BY <2>4, <2>7, <4>2, <4>4 DEF Live
      <4>5. QED
        BY <4>3, <4>4
    <3>4. ASSUME NEW b \in 1..rows', NEW c \in 1..rows', att'[b].status # "REPLACED",
                 att'[c].status # "REPLACED", att'[b].nonce = att'[c].nonce
          PROVE  b = c
      <4>1. CASE b \in 1..rows /\ c \in 1..rows
        BY <2>7, <2>9, <3>4, <4>1 DEF RowsInv, NonceHeld
      <4>2. CASE b \in 1..rows /\ c = rows + 1
        BY <2>7, <2>8, <2>9, <3>4, <4>2
      <4>3. CASE c \in 1..rows /\ b = rows + 1
        BY <2>7, <2>8, <2>9, <3>4, <4>3
      <4>4. QED
        BY <2>6, <4>1, <4>2, <4>3
    <3>5. QED
      BY <3>1, <3>2, <3>3, <3>4 DEF NonceHeld, Live
  <2>11. QED
    BY <2>5, <2>10 DEF RowsInv
<1>4. QED
  BY <1>2, <1>3 DEF SignReplacement

-----------------------------------------------------------------------------
(* Every step keeps what the rows say *)

LEMMA SameRowsKeep ==
  ASSUME Kept, RowsInv, UNCHANGED <<att, rows, nextNonce>> PROVE RowsInv'
BY SameRowsFit, RowsFitKeep

\* The attempt a process works on is a row of its operation.
LEMMA HeldRow ==
  ASSUME TypeInv, Binds, NEW p \in Procs, proc[p].pc \in OwnerPcs
  PROVE  proc[p].att \in 1..rows /\ att[proc[p].att].op = proc[p].op
BY HeldAttempt DEF Binds, OwnerPcs

\* A row whose status alone changes, in a step that adds none.
LEMMA StatusKeeps ==
  ASSUME Kept, RowsInv, NEW a \in 1..rows, NEW s \in AttemptStatus \ {"REPLACED"},
         att' = [att EXCEPT ![a] = WithStatus(a, s)], UNCHANGED <<rows, nextNonce>>,
         s \in StuckStatuses => LateThen(att[a].op),
         s = "CONFIRMED" => EvidentThen(a),
         RowAllowed(a, WithStatus(a, s)) \/ att[a].status # "REPLACED"
  PROVE  RowsInv'
BY StatusFits, OneRowFits, RowsFitKeep

\* operationHooks moves the operation to SIGNED; a replacement was in flight before.
LEMMA SignedIsKnown ==
  ASSUME Kept, Knowledge, NEW p \in Procs, proc[p].pc = "persist", NEW row,
         CommitRow(p, row, "onSigned"), proc[p].op # NoOp
  PROVE  op'[proc[p].op] \in LateStates \cup {"SIGNED"}
<1>1. CASE proc[p].via = "replace"
  BY <1>1, LateThenKnown DEF LateThen
<1>2. CASE proc[p].via \in OperationHooks
  <2>1. Hook(proc[p].via, "onSigned", op[proc[p].op]) = "SIGNED"
    BY <1>2 DEF CommitRow, HookPasses, Hook, OperationHook, HookTarget, Throw
  <2>2. op' = [op EXCEPT ![proc[p].op] = "SIGNED"] /\ proc[p].op \in Ops
    BY <2>1, ProcOp DEF CommitRow, RunHook, Kept
  <2>3. QED
    BY <2>2 DEF Kept, TypeInv, TypeOK
<1>3. QED
  BY <1>1, <1>2 DEF Knowledge, Knows, WritePcs

LEMMA ChainWriterRows ==
  ASSUME Kept, Knowledge, Binds, RowsInv, NEW p \in Procs, ChainWriterStep(p) PROVE RowsInv'
<1> USE DEF dbVars
<1> DEFINE a == proc[p].att
<1>1. CASE ReserveNonce(p)
  BY <1>1, ReservationHeld
<1>2. CASE ReserveFails(p) \/ RequestSignature(p) \/ ResumeSignature(p) \/ MarkRejected(p)
           \/ AssertBroadcastAllowed(p) \/ Recheck(p) \/ Send(p)
  BY <1>2, SameRowsKeep
     DEF ReserveFails, RequestSignature, ResumeSignature, MarkRejected,
         AssertBroadcastAllowed, Recheck, Send
<1>3. ASSUME RollBack(p) PROVE RowsInv'
  BY <1>3, SameRowsKeep DEF RollBack
<1>4. ASSUME NEW s \in AttemptStatus \ {"REPLACED"}, NEW event,
             CommitRow(p, WithStatus(a, s), event), UNCHANGED <<rows, nextNonce>>,
             proc[p].pc \in OwnerPcs, s \in StuckStatuses => LateThen(proc[p].op),
             s # "CONFIRMED"
      PROVE  RowsInv'
  <2>1. a \in 1..rows /\ att[a].op = proc[p].op
    BY <1>4, HeldRow DEF Kept
  <2>2. RowAllowed(a, WithStatus(a, s)) /\ att' = [att EXCEPT ![a] = WithStatus(a, s)]
    BY <1>4 DEF CommitRow
  <2>3. QED
    BY <1>4, <2>1, <2>2, StatusKeeps
<1>5. CASE FailAttempt(p)
  <2>1. proc[p].pc \in OwnerPcs
    BY <1>5 DEF FailAttempt, OwnerPcs, AttemptPcs
  <2>2. "FAILED" \in AttemptStatus \ {"REPLACED"} /\ "FAILED" \notin StuckStatuses
    BY DEF AttemptStatus, StuckStatuses
  <2>3. QED
    BY <1>3, <1>4, <1>5, <2>1, <2>2 DEF FailAttempt
<1>6. CASE PersistSigned(p)
  <2> DEFINE row == [att[a] EXCEPT !.signed = TRUE, !.status = "SIGNED"]
  <2>1. proc[p].pc = "persist" /\ a \in 1..rows /\ att[a].op = proc[p].op /\ att[a] \in Row
    BY <1>6, HeldRow, RowTyped DEF PersistSigned, OwnerPcs, AttemptPcs, Kept
  <2>2. row.op = att[a].op /\ row.nonce = att[a].nonce /\ row.status = "SIGNED" /\ row.signed
    BY <2>1 DEF Row
  <2>3. RollBack(p) \/ (CommitRow(p, row, "onSigned") /\ UNCHANGED <<rows, nextNonce>>)
    BY <1>6 DEF PersistSigned
  <2> HIDE DEF row
  <2>4. ASSUME CommitRow(p, row, "onSigned"), UNCHANGED <<rows, nextNonce>> PROVE RowsInv'
    <3>1. proc[p].op # NoOp => op'[proc[p].op] \in LateStates \cup {"SIGNED"}
      BY <2>1, <2>4, SignedIsKnown
    <3>2. RowFits(a, row)
      BY <2>1, <2>2, <3>1 DEF RowFits, StuckStatuses
    <3>3. RowAllowed(a, row) /\ att' = [att EXCEPT ![a] = row]
      BY <2>4 DEF CommitRow
    <3>4. Alone(a, row)
      BY <2>2, <3>3 DEF Alone, RowAllowed
    <3>5. QED
      BY <2>1, <2>4, <3>2, <3>3, <3>4, OneRowFits, RowsFitKeep
  <2>5. QED
    BY <1>3, <2>3, <2>4
<1>7. CASE AnnounceBroadcast(p)
  <2>1. proc[p].pc = "announce" /\ proc[p].pc \in OwnerPcs
    BY <1>7 DEF AnnounceBroadcast, OwnerPcs, AttemptPcs
  <2>2. "BROADCASTING" \in AttemptStatus \ {"REPLACED"}
    BY DEF AttemptStatus
  <2>3. ASSUME CommitRow(p, WithStatus(a, "BROADCASTING"), "onBroadcasting"),
               UNCHANGED <<rows, nextNonce>>
        PROVE  RowsInv'
    <3>1. LateThen(proc[p].op)
      BY <2>1, <2>3, AnnouncedIsLate
    <3>2. QED
      BY <1>4, <2>1, <2>2, <2>3, <3>1
  <2>4. QED
    BY <1>3, <1>7, <2>3 DEF AnnounceBroadcast
<1>8. CASE RecordOutcome(p)
  <2> DEFINE s == proc[p].out
  <2>1. proc[p].pc = "record" /\ proc[p].pc \in OwnerPcs /\ proc[p].pc \in WirePcs
    BY <1>8 DEF RecordOutcome, OwnerPcs, AttemptPcs, WirePcs
  <2>2. s \in AttemptStatus \ {"REPLACED"} /\ s # "CONFIRMED"
    BY <2>1 DEF AttemptStatus, BroadcastOutcomes, Kept, TypeInv, HoldsRow
  <2>3. LateThen(proc[p].op)
    BY <2>1, LateThenKnown
  <2>4. QED
    BY <1>3, <1>4, <1>8, <2>1, <2>2, <2>3 DEF RecordOutcome
<1>9. CASE ReplaceFees(p) \/ CancelNonce(p)
  BY <1>9, ReplacementHeld DEF ReplaceFees, CancelNonce, AttemptPcs
<1>10. QED
  BY <1>1, <1>2, <1>5, <1>6, <1>7, <1>8, <1>9 DEF ChainWriterStep

\* recordReceipt and confirmRecovery store what they were told.
LEMMA ReceiptFits ==
  ASSUME Kept, NEW a \in 1..rows, NEW out, RowAllowed(a, ReceiptRow(a, out))
  PROVE  RowFits(a, ReceiptRow(a, out)) /\ Alone(a, ReceiptRow(a, out))
<1> DEFINE row == ReceiptRow(a, out)
<1>1. CASE row = att[a]
  BY <1>1 DEF RowFits, Alone
<1>2. CASE row # att[a]
  <2>1. PICK s \in {"REVERTED", "INCLUDED"} : row = [att[a] EXCEPT !.block = TRUE, !.status = s]
    BY <1>2 DEF ReceiptRow
  <2>2. row.op = att[a].op /\ row.nonce = att[a].nonce /\ row.status = s
        /\ row.signed = att[a].signed
    BY <2>1, RowTyped DEF Row, Kept
  <2> HIDE DEF row
  <2>3. RowFits(a, row)
    BY <2>2 DEF RowFits, StuckStatuses
  <2>4. Alone(a, row)
    BY <2>2 DEF Alone, RowAllowed, row
  <2>5. QED
    BY <2>3, <2>4 DEF row
<1>3. QED
  BY <1>1, <1>2

LEMMA ExecutorRows ==
  ASSUME Kept, Knowledge, Binds, RowsInv, NEW p \in Procs, ExecutorStep(p) PROVE RowsInv'
<1> USE DEF dbVars
<1> DEFINE a == proc[p].att
<1>1. ASSUME NEW o \in Ops, Claim(p, o) PROVE RowsInv'
  BY <1>1, SameRowsKeep DEF Claim
<1>2. CASE \/ Prepare(p) \/ Observe(p) \/ PollReceipt(p) \/ ReadReceipt(p)
           \/ ReadBlockHash(p) \/ ReadFinality(p) \/ Reconcile(p)
  BY <1>2, SameRowsKeep
     DEF Prepare, Observe, PollReceipt, ReadReceipt, ReadBlockHash, ReadFinality, Reconcile
<1>3. CASE FailOperation(p)
  <2>1. UNCHANGED <<rows, nextNonce>>
    BY <1>3 DEF FailOperation
  <2>2. ASSUME NEW b \in 1..rows, att'[b] # att[b]
        PROVE  att'[b] = WithStatus(b, "FAILED") /\ att[b].status = "PREPARED"
    BY <1>3, <2>2, RowTyped DEF FailOperation, Kept
  <2>3. ASSUME NEW b \in 1..rows
        PROVE  /\ RowFits(b, att'[b]) /\ Alone(b, att'[b])
               /\ att[b].status = "REPLACED" => att'[b].status = att[b].status
    <3>1. CASE att'[b] = att[b]
      BY <3>1 DEF RowFits, Alone
    <3>2. CASE att'[b] # att[b]
      <4>1. "FAILED" \in AttemptStatus \ {"REPLACED"} /\ "FAILED" \notin StuckStatuses
        BY DEF AttemptStatus, StuckStatuses
      <4>2. QED
        BY <2>2, <3>2, <4>1, StatusFits
    <3>3. QED
      BY <3>1, <3>2
  <2>4. RowsFit
    BY <2>1, <2>3 DEF RowsFit
  <2>5. QED
    BY <2>4, RowsFitKeep
<1>4. CASE RecordInclusion(p)
  <2>1. a \in 1..rows
    BY <1>4, HeldRow DEF RecordInclusion, OwnerPcs, AttemptPcs, Kept
  <2>2. UNCHANGED <<rows, nextNonce>>
    BY <1>4 DEF RecordInclusion
  <2>3. QED
    BY <1>4, <2>1, <2>2, ReceiptFits, OneRowFits, RowsFitKeep, SameRowsKeep DEF RecordInclusion
<1>5. CASE RecordReorg(p)
  <2> DEFINE row == [att[a] EXCEPT !.status = "SUBMITTED", !.block = FALSE]
  <2>1. a \in 1..rows /\ att[a].op = proc[p].op /\ att[a] \in Row /\ proc[p].pc \in WirePcs
    BY <1>5, HeldRow, RowTyped DEF RecordReorg, OwnerPcs, AttemptPcs, Kept, WirePcs
  <2>2. row.op = att[a].op /\ row.nonce = att[a].nonce /\ row.status = "SUBMITTED"
        /\ row.signed = att[a].signed
    BY <2>1 DEF Row
  <2>3. /\ UNCHANGED <<rows, nextNonce>>
        /\ att' = att \/ (att' = [att EXCEPT ![a] = row] /\ RowAllowed(a, row))
    BY <1>5 DEF RecordReorg
  <2> HIDE DEF row
  <2>4. RowFits(a, row)
    BY <2>1, <2>2, LateThenKnown DEF RowFits
  <2>5. RowAllowed(a, row) => Alone(a, row)
    BY <2>2 DEF Alone, RowAllowed
  <2>6. QED
    BY <2>1, <2>3, <2>4, <2>5, OneRowFits, RowsFitKeep, SameRowsKeep
<1>6. CASE Settle(p)
  <2> DEFINE s == SettledStatus(proc[p].out)
  <2>1. a \in 1..rows /\ proc[p].pc = "settle" /\ UNCHANGED <<rows, nextNonce>>
    BY <1>6, HeldRow DEF Settle, OwnerPcs, AttemptPcs, Kept
  <2>2. s \in AttemptStatus \ {"REPLACED"} /\ s \notin StuckStatuses
    BY DEF SettledStatus, AttemptStatus, StuckStatuses
  <2>3. s = "CONFIRMED" => EvidentThen(a)
    BY <2>1, KnowsStays DEF SettledStatus, Knowledge, KnowsThen, JudgedPcs
  <2>4. att' = att \/ (att' = [att EXCEPT ![a] = WithStatus(a, s)]
                       /\ RowAllowed(a, WithStatus(a, s)))
    BY <1>6 DEF Settle
  <2> HIDE DEF s
  <2>5. QED
    BY <2>1, <2>2, <2>3, <2>4, StatusKeeps, SameRowsKeep
<1>7. QED
  BY <1>1, <1>2, <1>3, <1>4, <1>5, <1>6 DEF ExecutorStep

LEMMA RecoveryRows ==
  ASSUME Kept, Knowledge, Binds, RowsInv, NEW p \in Procs, RecoveryStep(p) PROVE RowsInv'
<1> USE DEF dbVars
<1> DEFINE a == proc[p].att
<1>1. CASE AbandonTx(p)
  <2>1. proc[p].pc = "abandonTx" /\ UNCHANGED <<rows, nextNonce>>
    BY <1>1 DEF AbandonTx
  <2>2. CASE att' = att
    BY <2>1, <2>2, SameRowsKeep
  <2>3. CASE /\ att' = [att EXCEPT ![a] = WithStatus(a, "FAILED")] /\ a # NoAttempt
             /\ op[proc[p].op] \in {"PREPARING", "SIGNING"}
    <3>1. a \in 1..rows /\ att[a].op = proc[p].op /\ proc[p].op \in Ops
      BY <2>1, <2>3 DEF Knowledge, Knows, RecoverPcs
    <3>2. op[proc[p].op] \notin LateStates \cup {"SIGNED"}
      BY <2>3 DEF LateStates, ChainInflightStates, TerminalStates
    <3>3. att[a].status # "REPLACED"
      BY <3>1, <3>2, NoOpAssumption DEF RowsInv, RowsTell, Tells
    <3>4. "FAILED" \in AttemptStatus \ {"REPLACED"} /\ "FAILED" \notin StuckStatuses
      BY DEF AttemptStatus, StuckStatuses
    <3>5. QED
      BY <2>1, <2>3, <3>1, <3>3, <3>4, StatusKeeps
  <2>4. QED
    BY <1>1, <2>2, <2>3 DEF AbandonTx
<1>2. CASE Rebroadcast(p)
  <2>1. a \in 1..rows /\ att[a].op = proc[p].op /\ UNCHANGED <<rows, nextNonce>>
    BY <1>2, HeldRow DEF Rebroadcast, OwnerPcs, AttemptPcs, Kept
  <2>2. CASE UNCHANGED att
    BY <2>1, <2>2, SameRowsKeep
  <2>3. CASE /\ RowAllowed(a, WithStatus(a, "BROADCASTING"))
             /\ att' = [att EXCEPT ![a] = WithStatus(a, "BROADCASTING")]
             /\ op' = IF op[proc[p].op] \in {"BROADCAST_UNKNOWN", "SIGNED"}
                      THEN [op EXCEPT ![proc[p].op] = "BROADCASTING"] ELSE op
             /\ Goto(p, "recheck")
    <3>1. LateThen(att[a].op)
      BY <1>2, <2>1, <2>3, RebroadcastIsLate DEF RowsInv
    <3>2. "BROADCASTING" \in AttemptStatus \ {"REPLACED"}
      BY DEF AttemptStatus
    <3>3. QED
      BY <2>1, <2>3, <3>1, <3>2, StatusKeeps
  <2>4. QED
    BY <1>2, <2>2, <2>3 DEF Rebroadcast
<1>3. QED
  BY <1>1, <1>2, SameRowsKeep
     DEF RecoveryStep, RecoverOne, RecoverSigning, Abandon, ResolveInFlight, LookUpHash,
         AdvanceToSubmitted, FinalizeOperation

LEMMA SweepRows ==
  ASSUME Kept, Knowledge, Binds, RowsInv, NEW p \in Procs, ReplacementStep(p) PROVE RowsInv'
<1> USE DEF dbVars
<1> DEFINE a == proc[p].att
           row == RecoveryRow(a, proc[p].out)
<1>1. CASE ConfirmRecovery(p)
  <2>1. UNCHANGED <<rows, nextNonce>>
    BY <1>1 DEF ConfirmRecovery
  <2>2. CASE UNCHANGED att
    BY <2>1, <2>2, SameRowsKeep
  <2>3. CASE proc[p].pc = "include" /\ RowAllowed(a, row) /\ att' = [att EXCEPT ![a] = row]
    <3>1. a \in 1..rows /\ att[a] \in Row
      BY <2>3, HeldRow, RowTyped DEF OwnerPcs, AttemptPcs, Kept
    <3>2. CASE proc[p].out = "FINALIZED"
      <4>1. row.op = att[a].op /\ row.nonce = att[a].nonce /\ row.status = "CONFIRMED"
            /\ row.signed = att[a].signed
        BY <3>1, <3>2 DEF RecoveryRow, Row
      <4>2. EvidentThen(a)
        BY <2>3, <3>2, KnowsStays DEF Knowledge, KnowsThen, JudgedPcs
      <4> HIDE DEF row
      <4>3. RowFits(a, row) /\ Alone(a, row)
        BY <2>3, <4>1, <4>2 DEF RowFits, Alone, RowAllowed, StuckStatuses
      <4>4. QED
        BY <2>1, <2>3, <3>1, <4>3, OneRowFits, RowsFitKeep
    <3>3. CASE proc[p].out # "FINALIZED"
      <4>1. row = ReceiptRow(a, proc[p].out)
        BY <3>3 DEF RecoveryRow
      <4>2. RowFits(a, row) /\ Alone(a, row)
        BY <2>3, <3>1, <4>1, ReceiptFits
      <4> HIDE DEF row
      <4>3. QED
        BY <2>1, <2>3, <3>1, <4>2, OneRowFits, RowsFitKeep
    <3>4. QED
      BY <3>2, <3>3
  <2>4. QED
    BY <1>1, <2>2, <2>3 DEF ConfirmRecovery
<1>2. QED
  BY <1>1, SameRowsKeep
     DEF ReplacementStep, FindStuck, ReplaceOne, RecoverBlockedLane, FindBlocking

LEMMA StepKeepsRowsInv ==
  ASSUME TypeInv, MintInv, LedgerInv, [Next]_vars PROVE RowsInv'
<1> USE DEF dbVars
<1>1. Kept /\ Knowledge /\ RowsInv /\ Binds
  BY StepIsKept DEF LedgerInv, MintInv, RowsInv
<1>2. CASE UNCHANGED vars
  BY <1>1, <1>2, SameRowsKeep DEF vars
<1>3. ASSUME NEW p \in Procs, Crash(p) PROVE RowsInv'
  BY <1>1, <1>3, SameRowsKeep DEF Crash
<1>4. CASE Environment
  BY <1>1, <1>4, SameRowsKeep
     DEF Environment, Mine, MineForeign, Evict, Finalize, Reorg, Revoke,
         ApprovalGranted, ApprovalRejected
<1>5. QED
  BY <1>1, <1>2, <1>3, <1>4, ChainWriterRows, ExecutorRows, RecoveryRows, SweepRows
     DEF Next, ProcessStep

-----------------------------------------------------------------------------
(* A step moves one operation, and to SUCCEEDED only with its evidence *)

\* The operation has a successful transaction in a final block, or was shown one.
Shown(o) == o \in Misread \/ FinallyMinted(o)

MovesOne ==
  \/ op' = op
  \/ /\ UNCHANGED <<chain, final>>
     /\ \E o \in Ops : /\ \A r \in Ops \ {o} : op'[r] = op[r]
                       /\ op'[o] = "SUCCEEDED" => op[o] = "SUCCEEDED" \/ Shown(o)

LEMMA SameOp == ASSUME op' = op PROVE MovesOne
BY DEF MovesOne

LEMMA OneOp ==
  ASSUME TypeInv, NEW o, NEW s, op' = [op EXCEPT ![o] = s], UNCHANGED <<chain, final>>,
         o \in Ops /\ s = "SUCCEEDED" => op[o] = "SUCCEEDED" \/ Shown(o)
  PROVE  MovesOne
<1>1. op \in [Ops -> OperationState]
  BY DEF TypeInv, TypeOK
<1>2. CASE o \in Ops
  <2>1. op'[o] = s /\ \A r \in Ops \ {o} : op'[r] = op[r]
    BY <1>1, <1>2
  <2>2. QED
    BY <1>2, <2>1 DEF MovesOne
<1>3. CASE o \notin Ops
  BY <1>1, <1>3 DEF MovesOne
<1>4. QED
  BY <1>2, <1>3

\* No hook knows SUCCEEDED.
LEMMA HookNeverSucceeds ==
  ASSUME NEW via, NEW event \in DOMAIN HookTarget, NEW s,
         Hook(via, event, s) = "SUCCEEDED"
  PROVE  s = "SUCCEEDED"
<1>1. HookTarget[event] # "SUCCEEDED"
  BY DEF HookTarget
<1>2. QED
  BY <1>1 DEF Hook, OperationHook, ReplacementHook, RebroadcastHook, Throw

LEMMA RunHookMoves ==
  ASSUME TypeInv, NEW p, NEW event \in DOMAIN HookTarget, RunHook(p, event),
         UNCHANGED <<chain, final>>
  PROVE  MovesOne
BY HookNeverSucceeds, OneOp, SameOp DEF RunHook

LEMMA ChainWriterMoves ==
  ASSUME TypeInv, NEW p \in Procs, ChainWriterStep(p) PROVE MovesOne
<1>1. UNCHANGED <<chain, final>>
  BY ProcessesLeaveChain DEF ProcessStep
<1>2. {"onPrepared", "onFailed", "onSigned", "onBroadcasting"} \subseteq DOMAIN HookTarget
  BY DEF HookTarget
<1>3. ASSUME NEW row, NEW event \in DOMAIN HookTarget, CommitRow(p, row, event)
      PROVE  MovesOne
  BY <1>1, <1>3, RunHookMoves DEF CommitRow
<1>4. CASE ReserveNonce(p)
  BY <1>1, <1>2, <1>4, RunHookMoves DEF ReserveNonce
<1>5. CASE ReserveFails(p) \/ RequestSignature(p) \/ ResumeSignature(p) \/ MarkRejected(p)
           \/ AssertBroadcastAllowed(p) \/ Recheck(p) \/ Send(p)
           \/ ReplaceFees(p) \/ CancelNonce(p)
  BY <1>5, SameOp
     DEF ReserveFails, RequestSignature, ResumeSignature, MarkRejected,
         AssertBroadcastAllowed, Recheck, Send, ReplaceFees, CancelNonce,
         SignReplacement, dbVars
<1>6. CASE FailAttempt(p) \/ PersistSigned(p) \/ AnnounceBroadcast(p)
  BY <1>2, <1>3, <1>6, SameOp
     DEF FailAttempt, PersistSigned, AnnounceBroadcast, RollBack, dbVars
<1>7. CASE RecordOutcome(p)
  <2>1. proc[p].out \in BroadcastOutcomes
    BY <1>7 DEF RecordOutcome, TypeInv, HoldsRow
  <2>2. OutcomeEvent[proc[p].out] \in DOMAIN HookTarget
    BY <2>1 DEF OutcomeEvent, HookTarget, BroadcastOutcomes
  <2>3. QED
    BY <1>3, <1>7, <2>2, SameOp DEF RecordOutcome, RollBack, dbVars
<1>8. QED
  BY <1>4, <1>5, <1>6, <1>7 DEF ChainWriterStep

\* settle reports SUCCEEDED only when the receipt it holds was final.
LEMMA SettleShows ==
  ASSUME TypeInv, Binds, Knowledge, NEW p \in Procs, proc[p].pc = "settle",
         proc[p].op \in Ops, SettledState(proc[p].out) = "SUCCEEDED"
  PROVE  Shown(proc[p].op)
<1>1. Evident(proc[p].att)
  BY DEF Knowledge, Knows, SettledState, JudgedPcs
<1>2. proc[p].att \in 1..rows /\ att[proc[p].att].op = proc[p].op
  BY HeldRow DEF OwnerPcs, AttemptPcs
<1>3. QED
  BY <1>1, <1>2 DEF Evident, Landed, Shown, Misread, FinallyMinted

LEMMA ExecutorMoves ==
  ASSUME TypeInv, Binds, Knowledge, NEW p \in Procs, ExecutorStep(p) PROVE MovesOne
<1>1. UNCHANGED <<chain, final>>
  BY ProcessesLeaveChain DEF ProcessStep
<1>2. ASSUME NEW o, NEW s, op' = [op EXCEPT ![o] = s], s # "SUCCEEDED" PROVE MovesOne
  BY <1>1, <1>2, OneOp
<1>3. ASSUME NEW o \in Ops, Claim(p, o) PROVE MovesOne
  BY <1>2, <1>3 DEF Claim
<1>4. CASE FailOperation(p) \/ RecordInclusion(p) \/ RecordReorg(p)
  <2>1. \/ op' = op
        \/ \E s \in {"FAILED", "INCLUDED", "SUBMITTED"} : op' = [op EXCEPT ![proc[p].op] = s]
    BY <1>4 DEF FailOperation, RecordInclusion, RecordReorg
  <2>2. QED
    BY <1>2, <2>1, SameOp
<1>5. CASE Settle(p)
  <2>1. \/ op' = op
        \/ op' = [op EXCEPT ![proc[p].op] = SettledState(proc[p].out)]
    BY <1>5 DEF Settle
  <2>2. proc[p].pc = "settle"
    BY <1>5 DEF Settle
  <2>3. QED
    BY <1>1, <2>1, <2>2, SameOp, OneOp, SettleShows
<1>6. CASE \/ Prepare(p) \/ Observe(p) \/ PollReceipt(p) \/ ReadReceipt(p)
           \/ ReadBlockHash(p) \/ ReadFinality(p) \/ Reconcile(p)
  BY <1>6, SameOp
     DEF Prepare, Observe, PollReceipt, ReadReceipt, ReadBlockHash, ReadFinality,
         Reconcile, dbVars
<1>7. QED
  BY <1>3, <1>4, <1>5, <1>6 DEF ExecutorStep

LEMMA RecoveryMoves ==
  ASSUME TypeInv, NEW p \in Procs, RecoveryStep(p) PROVE MovesOne
<1>1. UNCHANGED <<chain, final>>
  BY ProcessesLeaveChain DEF ProcessStep
<1>2. CASE AbandonTx(p) \/ Rebroadcast(p) \/ AdvanceToSubmitted(p)
  <2>1. \/ op' = op
        \/ \E s \in {"FAILED", "BROADCASTING", "SUBMITTED"} :
             op' = [op EXCEPT ![proc[p].op] = s]
    BY <1>2 DEF AbandonTx, Rebroadcast, AdvanceToSubmitted
  <2>2. QED
    BY <1>1, <2>1, SameOp, OneOp
<1>3. QED
  BY <1>2, SameOp
     DEF RecoveryStep, RecoverOne, RecoverSigning, Abandon, ResolveInFlight, LookUpHash,
         FinalizeOperation, dbVars

LEMMA StepMovesOne ==
  ASSUME TypeInv, Binds, Knowledge, [Next]_vars PROVE MovesOne
<1>1. CASE UNCHANGED vars
  BY <1>1, SameOp DEF vars
<1>2. ASSUME NEW p \in Procs, Crash(p) \/ ReplacementStep(p) PROVE MovesOne
  BY <1>2, SameOp
     DEF Crash, ReplacementStep, FindStuck, ReplaceOne, RecoverBlockedLane, FindBlocking,
         ConfirmRecovery, dbVars
<1>3. ASSUME NEW o \in Ops, ApprovalGranted(o) \/ ApprovalRejected(o) PROVE MovesOne
  BY <1>3, OneOp DEF ApprovalGranted, ApprovalRejected, chainVars
<1>4. CASE Environment
  BY <1>3, <1>4, SameOp
     DEF Environment, Mine, MineForeign, Evict, Finalize, Reorg, Revoke, dbVars
<1>5. QED
  BY <1>1, <1>2, <1>4, ChainWriterMoves, ExecutorMoves, RecoveryMoves DEF Next, ProcessStep

\* What was shown stays shown: the final part of the chain and the rows keep their identity.
LEMMA ShownStays ==
  ASSUME TypeInv, FinalKept, SightKept, RowsKept, ChainByNonce, MisreadStored,
         NEW o \in Ops, Shown(o)
  PROVE  Shown(o)'
<1>1. ASSUME NEW i \in 1..final, chain[i].att # Foreign, att[chain[i].att].op = o, chain[i].ok
      PROVE  Shown(o)'
  <2>1. i \in 1..final' /\ chain'[i] = chain[i]
    BY DEF FinalKept
  <2>2. i \in 1..Len(chain)
    BY LenProperties DEF TypeInv, TypeOK
  <2>3. att'[chain[i].att].op = o
    BY <1>1, <2>2 DEF ChainByNonce, RowsKept
  <2>4. QED
    BY <1>1, <2>1, <2>3 DEF Shown, FinallyMinted
<1>2. ASSUME NEW a \in misread, att[a].op = o PROVE Shown(o)'
  <2>1. a \in misread' /\ att'[a].op = o
    BY <1>2 DEF SightKept, MisreadStored, RowsKept
  <2>2. QED
    BY <2>1 DEF Shown, Misread
<1>3. QED
  BY <1>1, <1>2 DEF Shown, Misread, FinallyMinted

LEMMA StepKeepsSucceeded ==
  ASSUME TypeInv, MintInv, LedgerInv, [Next]_vars PROVE SucceededIsFinal'
<1>1. FinalKept /\ SightKept /\ RowsKept /\ ChainByNonce /\ MisreadStored /\ MovesOne
  BY StepIsKept, StepMovesOne DEF MintInv, LedgerInv, Kept
<1>2. ASSUME NEW o \in Ops, op'[o] = "SUCCEEDED" PROVE Shown(o)
  BY <1>1, <1>2 DEF LedgerInv, SucceededIsFinal, Shown, MovesOne
<1>3. \A o \in Ops : op'[o] = "SUCCEEDED" => Shown(o)'
  BY <1>1, <1>2, ShownStays
<1>4. QED
  BY <1>3 DEF SucceededIsFinal, Shown

-----------------------------------------------------------------------------
(* Nothing is on the wire that its operation does not tell *)

\* Where a transaction that a node holds comes from.
Sent ==
  \A a \in mempool' : \/ a \in mempool \/ Mined(a)
                      \/ \E p \in Procs : proc[p].pc = "send" /\ a = proc[p].att

LEMMA StepSends == ASSUME TypeInv, [Next]_vars PROVE Sent
<1> USE DEF chainVars
<1>1. CASE mempool' \subseteq mempool
  BY <1>1 DEF Sent
<1>2. ASSUME NEW p \in Procs, ChainWriterStep(p) PROVE Sent
  <2>1. CASE Send(p)
    <3>1. proc[p].pc = "send" /\ mempool' \subseteq mempool \cup {proc[p].att}
      BY <2>1 DEF Send
    <3>2. QED
      BY <3>1 DEF Sent
  <2>2. QED
    BY <1>1, <1>2, <2>1
       DEF ChainWriterStep, ReserveNonce, ReserveFails, RequestSignature, ResumeSignature,
           MarkRejected, FailAttempt, PersistSigned, AssertBroadcastAllowed,
           AnnounceBroadcast, Recheck, RecordOutcome, ReplaceFees, CancelNonce,
           SignReplacement
<1>3. ASSUME NEW p \in Procs, ExecutorStep(p) \/ RecoveryStep(p) PROVE Sent
  BY <1>1, <1>3
     DEF ExecutorStep, Claim, Prepare, FailOperation, Observe, PollReceipt,
         ReadReceipt, ReadBlockHash, ReadFinality, RecordInclusion, RecordReorg, Reconcile,
         Settle, RecoveryStep, RecoverOne, RecoverSigning, Abandon, AbandonTx,
         ResolveInFlight, LookUpHash, Rebroadcast, AdvanceToSubmitted, FinalizeOperation
<1>4. ASSUME NEW p \in Procs, ReplacementStep(p) \/ Crash(p) PROVE Sent
  BY <1>1, <1>4
     DEF ReplacementStep, FindStuck, ReplaceOne, RecoverBlockedLane, FindBlocking,
         ConfirmRecovery, Crash
<1>5. CASE Reorg
  <2>1. Len(chain) \in Nat \ {0}
    BY <1>5, LenProperties DEF Reorg, TypeInv, TypeOK
  <2>2. Mined(chain[Len(chain)].att)
    BY <2>1 DEF Mined, BlocksOf
  <2>3. mempool' \subseteq mempool \cup {chain[Len(chain)].att}
    BY <1>5 DEF Reorg
  <2>4. QED
    BY <2>2, <2>3 DEF Sent
<1>6. CASE Environment
  BY <1>1, <1>5, <1>6
     DEF Environment, Mine, MineForeign, Evict, Finalize, Revoke, ApprovalGranted,
         ApprovalRejected
<1>7. CASE UNCHANGED vars
  BY <1>1, <1>7 DEF vars
<1>8. QED
  BY <1>2, <1>3, <1>4, <1>6, <1>7 DEF Next, ProcessStep

LEMMA StepKeepsVisible ==
  ASSUME TypeInv, MintInv, LedgerInv, [Next]_vars PROVE InFlightIsVisible'
<1>1. Kept /\ NodesOK /\ Sent /\ Knowledge /\ Binds /\ rows \in Nat
  BY StepIsKept, StepMovesNodes, StepSends, TypedProcs DEF MintInv, LedgerInv
<1> SUFFICES ASSUME NEW a \in Attempts, a \in mempool' \/ Mined(a)', att'[a].op # NoOp
             PROVE  op'[att'[a].op] \in LateStates
  BY DEF InFlightIsVisible, LateStates
<1>2. ASSUME a \in mempool \/ Mined(a) PROVE op'[att'[a].op] \in LateStates
  <2>1. a \in 1..rows
    BY <1>1, <1>2 DEF MintInv, PersistBeforeBroadcast
  <2>2. att'[a].op = att[a].op /\ att[a].op \in Ops \cup {NoOp}
    BY <1>1, <2>1 DEF Kept, RowsKept, TypeInv, TypeOK, Row
  <2>3. Late(att[a].op)
    BY <1>2, <2>2 DEF LedgerInv, InFlightIsVisible, Late, LateStates
  <2>4. QED
    BY <1>1, <2>2, <2>3, LateLasts DEF LateThen
<1>3. ASSUME NEW p \in Procs, proc[p].pc = "send", a = proc[p].att
      PROVE  op'[att'[a].op] \in LateStates
  <2>1. a \in 1..rows /\ att[a].op = proc[p].op
    BY <1>1, <1>3, HeldRow DEF OwnerPcs, AttemptPcs
  <2>2. att'[a].op = proc[p].op
    BY <1>1, <2>1 DEF Kept, RowsKept
  <2>3. LateThen(proc[p].op)
    BY <1>1, <1>3, LateThenKnown DEF WirePcs
  <2>4. QED
    BY <2>2, <2>3 DEF LateThen
<1>4. CASE a \in mempool'
  BY <1>1, <1>2, <1>3, <1>4 DEF Sent
<1>5. CASE Mined(a)'
  <2>1. PICK i \in 1..Len(chain') : chain'[i].att = a
    BY <1>5 DEF Mined, BlocksOf
  <2>2. a \in mempool \/ Mined(a)
    BY <1>1, <2>1 DEF NodesOK, Mined, BlocksOf
  <2>3. QED
    BY <1>2, <2>2
<1>6. QED
  BY <1>4, <1>5

-----------------------------------------------------------------------------
(* The invariant and what it says *)

LEMMA InitLedger == Init => LedgerInv
<1> SUFFICES ASSUME Init PROVE LedgerInv
  OBVIOUS
<1>1. rows = 0 /\ mempool = {} /\ Len(chain) = 0 /\ final = 0 /\ misread = {}
  BY EmptySeq DEF Init
<1>2. \A o \in Ops : op[o] = "PENDING_APPROVAL"
  BY DEF Init
<1>3. \A p \in Procs : proc[p] = IdleProcess
  BY DEF Init
<1>4. Knows(IdleProcess)
  BY DEF Knows, IdleProcess, JudgedPcs, WirePcs, WritePcs, RecoverPcs
<1>5. Knowledge
  BY <1>3, <1>4 DEF Knowledge
<1>6. RowsTell /\ NonceHeld /\ ConfirmedIsFinal
  BY <1>1 DEF RowsTell, NonceHeld, ConfirmedIsFinal
<1>7. SucceededIsFinal /\ InFlightIsVisible
  BY <1>1, <1>2 DEF SucceededIsFinal, InFlightIsVisible, Mined, BlocksOf
<1>8. BlockAges /\ MisreadStored
  BY <1>1 DEF BlockAges, MisreadStored
<1>9. QED
  BY <1>5, <1>6, <1>7, <1>8 DEF LedgerInv

\* What processes remember, what rows say and what the chain holds agree, whatever
\* interleaves, crashes, is replaced or reorganised.
THEOREM LedgerInvariant == Spec => []LedgerInv
<1>1. TypeInv /\ MintInv /\ LedgerInv /\ [Next]_vars => LedgerInv'
  <2> SUFFICES ASSUME TypeInv, MintInv, LedgerInv, [Next]_vars PROVE LedgerInv'
    OBVIOUS
  <2>1. Knowledge' /\ RowsInv' /\ SucceededIsFinal' /\ InFlightIsVisible'
    BY StepKeepsKnowledge, StepKeepsRowsInv, StepKeepsSucceeded, StepKeepsVisible
  <2>2. BlockAges'
    BY StepKeepsSight DEF MintInv, LedgerInv
  <2>3. MisreadStored'
    <3>1. misread' \subseteq 1..rows
      BY StepMisreads DEF LedgerInv, MisreadsOne, MisreadStored
    <3>2. rows \in Nat /\ rows' \in Nat /\ rows <= rows'
      BY TypedProcs, StepKeepsRows DEF RowsKept
    <3>3. QED
      BY <3>1, <3>2 DEF MisreadStored
  <2>4. QED
    BY <2>1, <2>2, <2>3 DEF LedgerInv, RowsInv
<1>2. QED
  BY <1>1, InitLedger, TypeCorrect, MintInvariant, PTL DEF Spec

\* CONFIRMED in transaction_attempts is evidence (settle, confirmRecovery): the attempt is
\* in a final block and succeeded there, whatever was reorganised between the three reads
\* of awaitConfirmation and the write; or its block was replaced between the last two of
\* these reads, which is the only way to a wrong CONFIRMED.
THEOREM ConfirmedMeansFinal == Spec => []ConfirmedIsFinal
<1>1. LedgerInv => ConfirmedIsFinal
  BY DEF LedgerInv
<1>2. QED
  BY <1>1, LedgerInvariant, PTL

\* An operation is SUCCEEDED only for a transaction in a final block, although settle
\* acts on what was read several steps before; the one exception is an operation whose
\* block was replaced between the hash check and the finality read of awaitConfirmation.
THEOREM SuccessMeansFinal == Spec => []SucceededIsFinal
<1>1. LedgerInv => SucceededIsFinal
  BY DEF LedgerInv
<1>2. QED
  BY <1>1, LedgerInvariant, PTL

\* A transaction that a node holds or has mined belongs to an operation past SIGNED,
\* which failOperation and abandonUnbroadcast leave alone.
THEOREM NothingInFlightIsHidden == Spec => []InFlightIsVisible
<1>1. LedgerInv => InFlightIsVisible
  BY DEF LedgerInv
<1>2. QED
  BY <1>1, LedgerInvariant, PTL

\* Every nonce the lane has given out has exactly one live attempt: reserveNonce leaves
\* no gap and signReplacement neither loses a nonce nor holds it twice.
THEOREM LaneHasNoGap == Spec => []LaneIsWhole
<1>1. LedgerInv => LaneIsWhole
  <2> SUFFICES ASSUME LedgerInv, NEW a \in 1..rows, NEW n \in att[a].nonce..(nextNonce - 1)
               PROVE  Cardinality({b \in 1..rows : Live(b) /\ att[b].nonce = n}) = 1
    BY DEF LedgerInv, NonceHeld, LaneIsWhole
  <2>1. PICK b \in 1..rows : Live(b) /\ att[b].nonce = n
    BY DEF LedgerInv, NonceHeld
  <2>2. {c \in 1..rows : Live(c) /\ att[c].nonce = n} = {b}
    BY <2>1 DEF LedgerInv, NonceHeld
  <2>3. QED
    BY <2>2, FS_Singleton
<1>2. QED
  BY <1>1, LedgerInvariant, PTL

-----------------------------------------------------------------------------
(* The pipeline implements the ledger *)

\* What the refinement mapping shows of a step, in terms of the pipeline.
SameClaims == \A o \in Ops : ClaimOf(op'[o]) = ClaimOf(op[o])
SameMints == \A o \in Ops : MintBlocks(o)' = MintBlocks(o)

LedgerStep == [Ledger!LedgerNext]_(Ledger!ledgerVars)

LEMMA SameClaimMap ==
  ASSUME SameClaims PROVE UNCHANGED [o \in Ops |-> ClaimOf(op[o])]
BY DEF SameClaims

LEMMA SameMintMap ==
  ASSUME SameMints PROVE UNCHANGED [o \in Ops |-> MintBlocks(o)]
BY DEF SameMints

LEMMA LedgerStutters ==
  ASSUME SameClaims, SameMints, final' = final, Misread' = Misread PROVE LedgerStep
BY SameClaimMap, SameMintMap DEF LedgerStep, Ledger!ledgerVars

LEMMA LedgerSeals ==
  ASSUME SameClaims, SameMints, final' = final + 1, Misread' = Misread PROVE LedgerStep
BY SameClaimMap, SameMintMap DEF LedgerStep, Ledger!LedgerNext, Ledger!Seal

LEMMA LedgerMisreads ==
  ASSUME SameClaims, SameMints, final' = final, NEW o \in Ops, Misread' = Misread \cup {o}
  PROVE  LedgerStep
<1>1. Ledger!Misreads(o)
  BY SameClaimMap, SameMintMap DEF Ledger!Misreads
<1>2. QED
  BY <1>1 DEF LedgerStep, Ledger!LedgerNext

LEMMA LedgerMints ==
  ASSUME SameClaims, final' = final, Misread' = Misread,
         NEW o \in Ops, NEW h \in Nat, h > final,
         MintBlocks(o) = {}, MintBlocks(o)' = {h},
         \A r \in Ops \ {o} : MintBlocks(r)' = MintBlocks(r)
  PROVE  LedgerStep
<1>1. [r \in Ops |-> MintBlocks(r)]' = [[r \in Ops |-> MintBlocks(r)] EXCEPT ![o] = {h}]
  OBVIOUS
<1>2. [r \in Ops |-> MintBlocks(r)][o] = {} /\ h \in [r \in Ops |-> MintBlocks(r)]'[o]
  OBVIOUS
<1>3. Ledger!Mint(o)
  BY <1>1, <1>2, SameClaimMap DEF Ledger!Mint
<1>4. QED
  BY <1>3 DEF LedgerStep, Ledger!LedgerNext

LEMMA LedgerUndoes ==
  ASSUME SameClaims, final' = final, Misread' = Misread, NEW o \in Ops,
         \A h \in MintBlocks(o) : h > final, MintBlocks(o)' = {},
         \A r \in Ops \ {o} : MintBlocks(r)' = MintBlocks(r)
  PROVE  LedgerStep
<1>1. [r \in Ops |-> MintBlocks(r)]' = [[r \in Ops |-> MintBlocks(r)] EXCEPT ![o] = {}]
  OBVIOUS
<1>2. [r \in Ops |-> MintBlocks(r)][o] = MintBlocks(o)
  OBVIOUS
<1>3. Ledger!Undo(o)
  BY <1>1, <1>2, SameClaimMap DEF Ledger!Undo
<1>4. QED
  BY <1>3 DEF LedgerStep, Ledger!LedgerNext

LEMMA LedgerClaims ==
  ASSUME SameMints, final' = final, Misread' = Misread,
         NEW o \in Ops, ClaimOf(op[o]) = "open",
         \/ ClaimOf(op'[o]) = "closed"
         \/ /\ ClaimOf(op'[o]) = "succeeded"
            /\ o \in Misread \/ \E h \in MintBlocks(o) : h <= final,
         \A r \in Ops \ {o} : op'[r] = op[r]
  PROVE  LedgerStep
<1>1. [r \in Ops |-> ClaimOf(op[r])]'
      = [[r \in Ops |-> ClaimOf(op[r])] EXCEPT ![o] = ClaimOf(op'[o])]
  <2>1. \A r \in Ops : ClaimOf(op'[r]) = IF r = o THEN ClaimOf(op'[o]) ELSE ClaimOf(op[r])
    OBVIOUS
  <2>2. QED
    BY <2>1
<1>2. /\ [r \in Ops |-> ClaimOf(op[r])][o] = "open"
      /\ [r \in Ops |-> MintBlocks(r)][o] = MintBlocks(o)
  OBVIOUS
<1>3. Ledger!ClaimSuccess(o) \/ Ledger!Close(o)
  BY <1>1, <1>2, SameMintMap DEF Ledger!ClaimSuccess, Ledger!Close
<1>4. QED
  BY <1>3 DEF LedgerStep, Ledger!LedgerNext

\* Rows keep their operation, so the blocks of an unchanged chain are the same mints.
LEMMA SameChainSameMints ==
  ASSUME RowsKept, ChainByNonce, chain' = chain PROVE SameMints
<1>1. \A i \in 1..Len(chain) : chain[i].att # Foreign =>
        att'[chain[i].att].op = att[chain[i].att].op
  BY DEF ChainByNonce, RowsKept
<1>2. QED
  BY <1>1 DEF SameMints, MintBlocks

\* ... and the rows that were misread are of the same operations.
LEMMA SameMisread ==
  ASSUME RowsKept, MisreadStored, misread' = misread PROVE Misread' = Misread
<1>1. \A a \in misread : att'[a].op = att[a].op
  BY DEF RowsKept, MisreadStored
<1>2. QED
  BY <1>1 DEF Misread

LEMMA MoreMisread ==
  ASSUME RowsKept, MisreadStored, NEW a \in 1..rows, misread' = misread \cup {a}
  PROVE  Misread' = Misread \/ \E o \in Ops : Misread' = Misread \cup {o}
<1>1. \A b \in 1..rows : att'[b].op = att[b].op
  BY DEF RowsKept
<1>2. \A o \in Ops : o \in Misread' <=> o \in Misread \/ att[a].op = o
  BY <1>1 DEF Misread, MisreadStored
<1>3. \A o : o \in Misread \/ o \in Misread' => o \in Ops
  BY DEF Misread
<1>4. CASE att[a].op \in Ops
  <2>1. Misread' = Misread \cup {att[a].op}
    BY <1>2, <1>3, <1>4
  <2>2. QED
    BY <1>4, <2>1
<1>5. CASE att[a].op \notin Ops
  BY <1>2, <1>3, <1>5
<1>6. QED
  BY <1>4, <1>5

\* A step that leaves the chain alone makes at most one claim, or misreads one attempt.
LEMMA ClaimStep ==
  ASSUME TypeInv, OnEdges, RowsKept, ChainByNonce, MovesOne, MisreadsOne, MisreadStored,
         UNCHANGED <<chain, final>>
  PROVE  LedgerStep
<1>1. SameMints
  BY SameChainSameMints
<1>2. CASE SameClaims
  <2>1. CASE misread' = misread
    BY <1>1, <1>2, <2>1, SameMisread, LedgerStutters
  <2>2. ASSUME NEW a \in 1..rows, misread' = misread \cup {a} PROVE LedgerStep
    BY <1>1, <1>2, <2>2, MoreMisread, LedgerStutters, LedgerMisreads
  <2>3. QED
    BY <2>1, <2>2 DEF MisreadsOne
<1>3. ASSUME NEW o \in Ops, \A r \in Ops \ {o} : op'[r] = op[r],
             op'[o] = "SUCCEEDED" => op[o] = "SUCCEEDED" \/ Shown(o),
             ClaimOf(op'[o]) # ClaimOf(op[o])
      PROVE  LedgerStep
  <2>0. Misread' = Misread
    BY <1>3, SameMisread DEF MisreadsOne
  <2>1. op[o] \in OperationState /\ op'[o] \in AllowedTransitions[op[o]]
    BY <1>3 DEF TypeInv, TypeOK, OnEdges, OnEdge, CanTransition
  <2>2. op[o] \notin TerminalStates
    BY <2>1 DEF TerminalStates, AllowedTransitions
  <2>3. ClaimOf(op[o]) = "open" /\ op[o] # "SUCCEEDED"
    BY <2>2 DEF ClaimOf, TerminalStates
  <2>4. \/ ClaimOf(op'[o]) = "closed"
        \/ ClaimOf(op'[o]) = "succeeded" /\ op'[o] = "SUCCEEDED"
    BY <1>3, <2>3 DEF ClaimOf
  <2>5. ASSUME FinallyMinted(o) PROVE \E h \in MintBlocks(o) : h <= final
    <3>1. PICK i \in 1..final : chain[i].att # Foreign /\ att[chain[i].att].op = o /\ chain[i].ok
      BY <2>5 DEF FinallyMinted
    <3>2. i \in MintBlocks(o) /\ i <= final
      BY <3>1, LenProperties DEF MintBlocks, TypeInv, TypeOK
    <3>3. QED
      BY <3>2
  <2>6. QED
    BY <1>1, <1>3, <2>0, <2>3, <2>4, <2>5, LedgerClaims DEF Shown
<1>4. CASE op' = op
  BY <1>2, <1>4 DEF SameClaims
<1>5. QED
  BY <1>2, <1>3, <1>4 DEF MovesOne, SameClaims

\* Block i consumed the reference of operation o.
MintsAt(i, o) == chain[i].att # Foreign /\ att[chain[i].att].op = o /\ chain[i].ok

\* A block on top of the chain is a mint of its operation, if it succeeded, or nothing
\* the ledger shows.
LEMMA BlockStep ==
  ASSUME TypeInv, AtMostOneMint', UNCHANGED <<op, att, final, misread>>, NEW b \in Block,
         chain' = Append(chain, b)
  PROVE  LedgerStep
<1> DEFINE n == Len(chain) + 1
<1>1. /\ Len(chain) \in Nat /\ Len(chain') = n /\ chain'[n] = b
      /\ \A i \in 1..Len(chain) : chain'[i] = chain[i]
  BY ChainGrows DEF TypeInv
<1>2. SameClaims /\ Misread' = Misread
  BY DEF SameClaims, Misread
<1>3. ASSUME NEW o \in Ops
      PROVE  MintBlocks(o)' = MintBlocks(o) \cup
               (IF b.att # Foreign /\ att[b.att].op = o /\ b.ok THEN {n} ELSE {})
  <2>1. \A i : i \in MintBlocks(o)' <=> i \in 1..n /\ MintsAt(i, o)'
    BY <1>1 DEF MintBlocks, MintsAt
  <2>2. \A i : i \in MintBlocks(o) <=> i \in 1..Len(chain) /\ MintsAt(i, o)
    BY DEF MintBlocks, MintsAt
  <2>3. \A i \in 1..Len(chain) : MintsAt(i, o)' <=> MintsAt(i, o)
    BY <1>1 DEF MintsAt
  <2>4. \A i : i = n => (MintsAt(i, o)' <=> b.att # Foreign /\ att[b.att].op = o /\ b.ok)
    BY <1>1 DEF MintsAt
  <2>5. \A i : i \in 1..n <=> i \in 1..Len(chain) \/ i = n
    BY <1>1
  <2> HIDE DEF n
  <2>6. QED
    BY <2>1, <2>2, <2>3, <2>4, <2>5
<1>4. CASE b.att # Foreign /\ b.ok /\ att[b.att].op \in Ops
  <2>0. PICK o \in Ops : o = att[b.att].op
    BY <1>4
  <2>1. MintBlocks(o) = {}
    <3> SUFFICES ASSUME NEW i \in MintBlocks(o) PROVE FALSE
      OBVIOUS
    <3>1. i \in 1..Len(chain) /\ chain[i].att # Foreign /\ att[chain[i].att].op = o
      BY DEF MintBlocks
    <3>2. i \in 1..Len(chain') /\ n \in 1..Len(chain') /\ i # n
      BY <1>1, <3>1
    <3>3. chain'[i] = chain[i] /\ chain'[n] = b /\ o # NoOp
      BY <1>1, <1>4, <3>1, NoOpAssumption
    <3>4. QED
      BY <1>4, <2>0, <3>1, <3>2, <3>3 DEF AtMostOneMint
  <2>2. MintBlocks(o)' = {n} /\ \A r \in Ops \ {o} : MintBlocks(r)' = MintBlocks(r)
    BY <1>3, <1>4, <2>0, <2>1
  <2>3. n \in Nat /\ n > final
    BY <1>1 DEF TypeInv, TypeOK
  <2> HIDE DEF n
  <2>4. QED
    BY <1>2, <2>1, <2>2, <2>3, LedgerMints
<1>5. CASE ~(b.att # Foreign /\ b.ok /\ att[b.att].op \in Ops)
  <2>1. SameMints
    BY <1>3, <1>5 DEF SameMints
  <2>2. QED
    BY <1>2, <2>1, LedgerStutters
<1>6. QED
  BY <1>4, <1>5

\* A block that leaves the chain was not final: the mint it held, if any, is undone.
LEMMA ReorgStep ==
  ASSUME TypeInv, AtMostOneMint, Reorg PROVE LedgerStep
<1> DEFINE n == Len(chain)
           b == chain[n]
<1>1. UNCHANGED <<op, att, final, misread>> /\ final < n /\ final \in Nat
  BY DEF Reorg, dbVars, TypeInv, TypeOK
<1>2. /\ n \in Nat \ {0} /\ Len(chain') = n - 1
      /\ \A i \in 1..(n - 1) : chain'[i] = chain[i]
  BY ChainShrinks DEF Reorg, TypeInv
<1>3. SameClaims /\ Misread' = Misread
  BY <1>1 DEF SameClaims, Misread
<1>4. ASSUME NEW o \in Ops PROVE MintBlocks(o)' = MintBlocks(o) \ {n}
  <2>1. \A i : i \in MintBlocks(o)' <=> i \in 1..(n - 1) /\ MintsAt(i, o)'
    BY <1>2 DEF MintBlocks, MintsAt
  <2>2. \A i : i \in MintBlocks(o) <=> i \in 1..n /\ MintsAt(i, o)
    BY DEF MintBlocks, MintsAt
  <2>3. \A i \in 1..(n - 1) : MintsAt(i, o)' <=> MintsAt(i, o)
    BY <1>1, <1>2 DEF MintsAt
  <2>4. \A i : i \in 1..(n - 1) <=> i \in 1..n /\ i # n
    BY <1>2
  <2> HIDE DEF n
  <2>5. QED
    BY <2>1, <2>2, <2>3, <2>4
<1>5. ASSUME NEW o \in Ops, n \in MintBlocks(o) PROVE LedgerStep
  <2>1. ASSUME NEW r \in Ops, NEW i \in MintBlocks(r), r = o \/ i = n PROVE r = o /\ i = n
    <3>1. /\ i \in 1..Len(chain) /\ chain[i].att # Foreign /\ att[chain[i].att].op = r
          /\ n \in 1..Len(chain) /\ chain[n].att # Foreign /\ att[chain[n].att].op = o
      BY <1>5, <2>1 DEF MintBlocks
    <3>2. QED
      BY <2>1, <3>1, NoOpAssumption DEF AtMostOneMint
  <2>2. MintBlocks(o) = {n} /\ \A r \in Ops \ {o} : n \notin MintBlocks(r)
    BY <1>5, <2>1
  <2>3. \A r \in Ops \ {o} : MintBlocks(r)' = MintBlocks(r)
    <3>1. ASSUME NEW r \in Ops \ {o} PROVE MintBlocks(r)' = MintBlocks(r)
      BY <1>4, <2>2
    <3>2. QED
      BY <3>1
  <2>4. \A h \in MintBlocks(o) : h > final
    BY <1>1, <1>2, <2>2
  <2>5. MintBlocks(o)' = {}
    BY <1>4, <2>2
  <2>6. QED
    BY <1>1, <1>3, <2>3, <2>4, <2>5, LedgerUndoes
<1>6. CASE \A o \in Ops : n \notin MintBlocks(o)
  <2>1. SameMints
    BY <1>4, <1>6 DEF SameMints
  <2>2. QED
    BY <1>1, <1>3, <2>1, LedgerStutters
<1>7. QED
  BY <1>5, <1>6

LEMMA StepRefines ==
  ASSUME TypeInv, MintInv, LedgerInv, AtMostOneMint, AtMostOneMint', [Next]_vars
  PROVE  LedgerStep
<1>1. OnEdges /\ RowsKept /\ ChainByNonce /\ MovesOne /\ MisreadsOne /\ MisreadStored
  BY StepEdges, StepKeepsRows, StepMovesOne, StepMisreads DEF MintInv, LedgerInv
<1>2. CASE UNCHANGED <<chain, final>>
  BY <1>1, <1>2, ClaimStep
<1>3. ASSUME NEW a \in Attempts, Mine(a) PROVE LedgerStep
  <2>1. PICK ok \in BOOLEAN : chain' = Append(chain, [att |-> a, ok |-> ok, id |-> reorgs])
    BY <1>3 DEF Mine
  <2>2. [att |-> a, ok |-> ok, id |-> reorgs] \in Block
    BY DEF Block, TypeInv, TypeOK
  <2>3. UNCHANGED <<op, att, final, misread>>
    BY <1>3 DEF Mine, dbVars
  <2>4. QED
    BY <2>1, <2>2, <2>3, BlockStep
<1>4. CASE MineForeign
  <2>1. [att |-> Foreign, ok |-> TRUE, id |-> reorgs] \in Block
    BY DEF Block, TypeInv, TypeOK
  <2>2. QED
    BY <1>4, <2>1, BlockStep DEF MineForeign, dbVars
<1>5. CASE Finalize
  <2>1. SameMints /\ SameClaims /\ final' = final + 1
    BY <1>1, <1>5, SameChainSameMints DEF Finalize, SameClaims, dbVars
  <2>2. Misread' = Misread
    BY <1>1, <1>5, SameMisread DEF Finalize
  <2>3. QED
    BY <2>1, <2>2, LedgerSeals
<1>6. CASE \E p \in Procs : ProcessStep(p) \/ Crash(p)
  BY <1>2, <1>6, ProcessesLeaveChain
<1>7. CASE Environment
  BY <1>2, <1>3, <1>4, <1>5, <1>7, ReorgStep
     DEF Environment, Evict, Revoke, ApprovalGranted, ApprovalRejected, chainVars
<1>8. CASE UNCHANGED vars
  BY <1>2, <1>8 DEF vars
<1>9. QED
  BY <1>6, <1>7, <1>8 DEF Next

LEMMA InitRefines == Init => Ledger!LedgerInit
<1> SUFFICES ASSUME Init PROVE Ledger!LedgerInit
  OBVIOUS
<1>1. Len(chain) = 0 /\ final = 0 /\ Misread = {}
  BY EmptySeq DEF Init, Misread
<1>2. \A o \in Ops : ClaimOf(op[o]) = "open"
  BY DEF Init, ClaimOf, TerminalStates
<1>3. \A o \in Ops : MintBlocks(o) = {}
  BY <1>1 DEF MintBlocks
<1>4. QED
  BY <1>1, <1>2, <1>3 DEF Ledger!LedgerInit

\* Whatever its processes, crashes, replacements and reorganisations do, every step of the
\* pipeline is a step of the ledger or changes nothing a requester can see: an operation
\* mints at most once, one claim is made about it and kept, and success is claimed only for
\* a mint that can no longer be undone or that a replaced block made it take for final.
THEOREM PipelineImplementsLedger == Spec => ImplementsLedger
<1>1. TypeInv /\ MintInv /\ LedgerInv /\ AtMostOneMint /\ AtMostOneMint' /\ [Next]_vars
      => [Ledger!LedgerNext]_(Ledger!ledgerVars)
  BY StepRefines DEF LedgerStep
<1>2. QED
  BY <1>1, InitRefines, TypeCorrect, MintInvariant, LedgerInvariant, NoDoubleMint, PTL
     DEF Spec, ImplementsLedger, Ledger!LedgerSpec

-----------------------------------------------------------------------------
(* What the ledger promises *)

\* The heights of mints are numbers, beside what is promised.
LedgerTyped == final \in Nat /\ \A o \in Ops : MintBlocks(o) \subseteq Nat

\* The converse of the step lemmas above: what a step of the ledger is, in the pipeline's
\* terms.
LEMMA LedgerCases ==
  ASSUME LedgerStep
  PROVE  \/ /\ SameClaims /\ SameMints /\ final' \in {final, final + 1}
            /\ Misread \subseteq Misread'
         \/ /\ SameClaims /\ final' = final /\ Misread' = Misread
            /\ \E o \in Ops :
                 /\ \A r \in Ops \ {o} : MintBlocks(r)' = MintBlocks(r)
                 /\ \/ MintBlocks(o) = {} /\ \E h \in Nat : MintBlocks(o)' = {h}
                    \/ (\A h \in MintBlocks(o) : h > final) /\ MintBlocks(o)' = {}
         \/ /\ SameMints /\ final' = final /\ Misread' = Misread
            /\ \E o \in Ops :
                 /\ \A r \in Ops \ {o} : ClaimOf(op'[r]) = ClaimOf(op[r])
                 /\ ClaimOf(op[o]) = "open"
                 /\ ClaimOf(op'[o]) = "succeeded" =>
                      o \in Misread \/ \E h \in MintBlocks(o) : h <= final
<1> DEFINE claim == [o \in Ops |-> ClaimOf(op[o])]
           minted == [o \in Ops |-> MintBlocks(o)]
<1>1. /\ \A o \in Ops : claim[o] = ClaimOf(op[o]) /\ minted[o] = MintBlocks(o)
      /\ \A o \in Ops : claim'[o] = ClaimOf(op'[o]) /\ minted'[o] = MintBlocks(o)'
  OBVIOUS
<1>2. UNCHANGED claim => SameClaims
  BY <1>1 DEF SameClaims
<1>3. UNCHANGED minted => SameMints
  BY <1>1 DEF SameMints
<1>4. \A o \in Ops : \A v : [claim EXCEPT ![o] = v][o] = v
        /\ \A r \in Ops \ {o} : [claim EXCEPT ![o] = v][r] = claim[r]
  OBVIOUS
<1>5. \A o \in Ops : \A v : [minted EXCEPT ![o] = v][o] = v
        /\ \A r \in Ops \ {o} : [minted EXCEPT ![o] = v][r] = minted[r]
  OBVIOUS
<1>6. CASE UNCHANGED Ledger!ledgerVars
  BY <1>2, <1>3, <1>6 DEF Ledger!ledgerVars
<1>7. CASE Ledger!Seal \/ \E o \in Ops : Ledger!Misreads(o)
  BY <1>2, <1>3, <1>7 DEF Ledger!Seal, Ledger!Misreads
<1>8. ASSUME NEW o \in Ops, Ledger!Mint(o) PROVE
        /\ SameClaims /\ final' = final /\ Misread' = Misread /\ MintBlocks(o) = {}
        /\ \E h \in Nat : MintBlocks(o)' = {h}
        /\ \A r \in Ops \ {o} : MintBlocks(r)' = MintBlocks(r)
  <2>1. PICK h \in Nat : minted' = [minted EXCEPT ![o] = {h}]
    BY <1>8 DEF Ledger!Mint
  <2>2. minted[o] = {} /\ UNCHANGED claim /\ final' = final /\ Misread' = Misread
    BY <1>8 DEF Ledger!Mint
  <2> HIDE DEF claim, minted
  <2>3. QED
    BY <1>1, <1>2, <1>5, <2>1, <2>2
<1>9. ASSUME NEW o \in Ops, Ledger!Undo(o) PROVE
        /\ SameClaims /\ final' = final /\ Misread' = Misread /\ MintBlocks(o)' = {}
        /\ \A h \in MintBlocks(o) : h > final
        /\ \A r \in Ops \ {o} : MintBlocks(r)' = MintBlocks(r)
  <2>1. /\ minted' = [minted EXCEPT ![o] = {}] /\ UNCHANGED claim /\ final' = final
        /\ Misread' = Misread
        /\ \A h \in minted[o] : h > final
    BY <1>9 DEF Ledger!Undo
  <2> HIDE DEF claim, minted
  <2>2. QED
    BY <1>1, <1>2, <1>5, <2>1
<1>10. ASSUME NEW o \in Ops, Ledger!ClaimSuccess(o) \/ Ledger!Close(o) PROVE
        /\ SameMints /\ final' = final /\ Misread' = Misread
        /\ \A r \in Ops \ {o} : ClaimOf(op'[r]) = ClaimOf(op[r])
        /\ ClaimOf(op[o]) = "open"
        /\ ClaimOf(op'[o]) = "succeeded" =>
             o \in Misread \/ \E h \in MintBlocks(o) : h <= final
  <2>1. PICK v \in {"succeeded", "closed"} : claim' = [claim EXCEPT ![o] = v]
               /\ (v = "succeeded" => o \in Misread \/ \E h \in minted[o] : h <= final)
    BY <1>10 DEF Ledger!ClaimSuccess, Ledger!Close
  <2>2. claim[o] = "open" /\ UNCHANGED minted /\ final' = final /\ Misread' = Misread
    BY <1>10 DEF Ledger!ClaimSuccess, Ledger!Close
  <2> HIDE DEF claim, minted
  <2>3. QED
    BY <1>1, <1>3, <1>4, <2>1, <2>2
<1>11. CASE \E o \in Ops : Ledger!Mint(o) \/ Ledger!Undo(o)
  BY <1>8, <1>9, <1>11
<1>12. CASE \E o \in Ops : Ledger!ClaimSuccess(o) \/ Ledger!Close(o)
  BY <1>10, <1>12
<1>13. QED
  BY <1>6, <1>7, <1>11, <1>12 DEF LedgerStep, Ledger!LedgerNext

\* The promise, in the pipeline's terms.
Promised ==
  \A o \in Ops :
    /\ \A g, h \in MintBlocks(o) : g = h
    /\ ClaimOf(op[o]) = "succeeded" /\ o \notin Misread => \E h \in MintBlocks(o) : h <= final

LEMMA PromisedIs == Promised <=> Ledger!PromiseKept
BY DEF Promised, Ledger!PromiseKept

LEMMA LedgerStepKeeps ==
  ASSUME LedgerTyped, Promised, LedgerStep
  PROVE  LedgerTyped' /\ Promised' /\ Ledger!NothingTakenBack
<1>0. final \in Nat /\ \A o \in Ops : MintBlocks(o) \subseteq Nat
  BY DEF LedgerTyped
<1> DEFINE Keeps(o) ==
      /\ ClaimOf(op[o]) # "open" => ClaimOf(op'[o]) = ClaimOf(op[o])
      /\ \A h \in MintBlocks(o) : h <= final => MintBlocks(o)' = MintBlocks(o)
<1>1. (\A o \in Ops : Keeps(o)) => Ledger!NothingTakenBack
  BY DEF Ledger!NothingTakenBack
<1>2. SUFFICES LedgerTyped' /\ Promised' /\ \A o \in Ops : Keeps(o)
  BY <1>1
<1>3. CASE /\ SameClaims /\ SameMints /\ final' \in {final, final + 1}
           /\ Misread \subseteq Misread'
  <2>1. \A o \in Ops : \A h \in MintBlocks(o) : h <= final => h <= final'
    BY <1>0, <1>3
  <2>2. QED
    BY <1>0, <1>3, <2>1 DEF LedgerTyped, Promised, SameClaims, SameMints
<1>4. CASE /\ SameClaims /\ final' = final /\ Misread' = Misread
           /\ \E o \in Ops :
                /\ \A r \in Ops \ {o} : MintBlocks(r)' = MintBlocks(r)
                /\ \/ MintBlocks(o) = {} /\ \E h \in Nat : MintBlocks(o)' = {h}
                   \/ (\A h \in MintBlocks(o) : h > final) /\ MintBlocks(o)' = {}
  <2>1. PICK o \in Ops :
          /\ \A r \in Ops \ {o} : MintBlocks(r)' = MintBlocks(r)
          /\ \/ MintBlocks(o) = {} /\ \E h \in Nat : MintBlocks(o)' = {h}
             \/ (\A h \in MintBlocks(o) : h > final) /\ MintBlocks(o)' = {}
    BY <1>4
  <2>2. \A h \in MintBlocks(o) : ~(h <= final)
    BY <1>0, <2>1
  <2>3. ClaimOf(op[o]) # "succeeded" \/ o \in Misread
    BY <2>2 DEF Promised
  <2>4. \A r \in Ops : Keeps(r)
    BY <1>4, <2>1, <2>2 DEF SameClaims
  <2>5. LedgerTyped'
    BY <1>0, <1>4, <2>1 DEF LedgerTyped
  <2>6. Promised'
    BY <1>4, <2>1, <2>3 DEF Promised, SameClaims
  <2>7. QED
    BY <2>4, <2>5, <2>6
<1>5. CASE /\ SameMints /\ final' = final /\ Misread' = Misread
           /\ \E o \in Ops :
                /\ \A r \in Ops \ {o} : ClaimOf(op'[r]) = ClaimOf(op[r])
                /\ ClaimOf(op[o]) = "open"
                /\ ClaimOf(op'[o]) = "succeeded" =>
                     o \in Misread \/ \E h \in MintBlocks(o) : h <= final
  BY <1>0, <1>5 DEF LedgerTyped, Promised, SameMints
<1>6. QED
  BY <1>3, <1>4, <1>5, LedgerCases

\* The ledger says what it is meant to say: an operation mints once, success is claimed for
\* a final mint only, or a misread one, and neither a claim nor a final mint is ever taken
\* back.  With the refinement this holds of the pipeline.
THEOREM LedgerKeepsItsPromise ==
  Ledger!LedgerSpec => []Ledger!PromiseKept /\ [][Ledger!NothingTakenBack]_(Ledger!ledgerVars)
<1>1. Ledger!LedgerInit => LedgerTyped /\ Promised
  <2> SUFFICES ASSUME Ledger!LedgerInit PROVE LedgerTyped /\ Promised
    OBVIOUS
  <2>1. final = 0 /\ [o \in Ops |-> ClaimOf(op[o])] = [o \in Ops |-> "open"]
        /\ [o \in Ops |-> MintBlocks(o)] = [o \in Ops |-> {}]
    BY DEF Ledger!LedgerInit
  <2>2. \A o \in Ops : ClaimOf(op[o]) = "open" /\ MintBlocks(o) = {}
    BY <2>1, Zenon
  <2>3. QED
    BY <2>1, <2>2 DEF LedgerTyped, Promised
<1>2. LedgerTyped /\ Promised /\ [Ledger!LedgerNext]_(Ledger!ledgerVars)
      => LedgerTyped' /\ Promised' /\ Ledger!NothingTakenBack
  BY LedgerStepKeeps DEF LedgerStep
<1>3. Promised => Ledger!PromiseKept
  BY PromisedIs
<1>4. QED
  BY <1>1, <1>2, <1>3, PTL DEF Ledger!LedgerSpec

\* What settlement tells a requester of the pipeline is never taken back, and is true of a
\* mint that is never undone, unless a replaced block was read as final.
THEOREM RequesterCanRely ==
  Spec => []Ledger!PromiseKept /\ [][Ledger!NothingTakenBack]_(Ledger!ledgerVars)
BY PipelineImplementsLedger, LedgerKeepsItsPromise, PTL DEF ImplementsLedger
=============================================================================
