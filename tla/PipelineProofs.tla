---------------------------- MODULE PipelineProofs ---------------------------
(***************************************************************************)
(* Theorems about the chain-write pipeline, for any number of operations,  *)
(* processes, attempts, replacements, reorganisations and foreign          *)
(* transactions.                                                           *)
(***************************************************************************)
EXTENDS Pipeline, SequenceTheorems, TLAPS

\* Steps of a process that work on a row.
AttemptPcs ==
  {"sign", "rejected", "failAttempt", "persist", "check", "announce", "recheck",
   "send", "record", "observe", "poll", "receipt", "blockHash", "finality", "include",
   "reorged", "reconcile", "settle", "resumeSig", "lookUp", "rebroadcast", "stuck",
   "retire", "cancel"}

BroadcastOutcomes == {"SUBMITTED", "BROADCAST_UNKNOWN", "FAILED"}

\* A process that works on an attempt works on a row that exists, and what it is
\* about to record is an outcome of a broadcast.
HoldsRow ==
  \A p \in Procs :
    /\ proc[p].pc \in AttemptPcs => proc[p].att \in 1..rows
    /\ proc[p].pc = "record" => proc[p].out \in BroadcastOutcomes

TypeInv == TypeOK /\ HoldsRow

USE DEF Attempts, NoAttempt, NoLane, Foreign

LEMMA StateSets ==
  /\ "READY" \in OperationState /\ "PREPARING" \in OperationState
  /\ "PENDING_APPROVAL" \in OperationState /\ "CANCELLED" \in OperationState
  /\ "SIGNING" \in OperationState /\ "SIGNED" \in OperationState
  /\ "FAILED" \in OperationState /\ "BROADCASTING" \in OperationState
  /\ "SUBMITTED" \in OperationState /\ "BROADCAST_UNKNOWN" \in OperationState
  /\ "INCLUDED" \in OperationState /\ "SUCCEEDED" \in OperationState
  /\ "REVERTED" \in OperationState /\ Throw \notin OperationState
BY DEF OperationState, PreChainStates, ChainInflightStates, TerminalStates, Throw

\* A hook that does not throw leaves its operation in a state of the machine.
LEMMA HookTyped ==
  ASSUME NEW via, NEW s \in OperationState,
         NEW event \in {"onPrepared", "onSigned", "onBroadcasting", "onSubmitted",
                        "onBroadcastUnknown", "onFailed"}
  PROVE  Hook(via, event, s) \in OperationState \cup {Throw}
<1>1. HookTarget[event] \in OperationState
  BY StateSets DEF HookTarget
<1>2. QED
  BY <1>1 DEF Hook, OperationHook, ReplacementHook, RebroadcastHook

\* The initial state is well typed.
LEMMA InitTyped == Init => TypeInv
<1> SUFFICES ASSUME Init PROVE TypeInv
  OBVIOUS
<1>1. IdleProcess \in Process
  BY DEF IdleProcess, Process, Pcs, Vias, Outcomes
<1>2. PreparedRow(NoOp, 0, 0) \in Row
  BY DEF PreparedRow, Row, AttemptStatus
<1>3. TypeOK
  BY <1>1, <1>2, BoundsAssumption, StateSets DEF Init, TypeOK, SignerRequestStatus
<1>4. HoldsRow
  BY DEF Init, HoldsRow, IdleProcess, AttemptPcs
<1>5. QED
  BY <1>3, <1>4 DEF TypeInv

-----------------------------------------------------------------------------
(* How a process moves *)

ProcsOK == proc \in [Procs -> Process] /\ HoldsRow

\* Replacing the record of one process by a well-formed one keeps them all so.
LEMMA ProcMoves ==
  ASSUME ProcsOK, rows \in Nat, rows' \in Nat, rows <= rows',
         NEW p \in Procs, NEW q \in Process,
         proc' = [proc EXCEPT ![p] = q],
         q.pc \in AttemptPcs => q.att \in 1..rows',
         q.pc = "record" => q.out \in BroadcastOutcomes
  PROVE  ProcsOK'
<1>1. proc' \in [Procs -> Process]
  BY DEF ProcsOK
<1>2. ASSUME NEW r \in Procs
      PROVE  /\ proc'[r].pc \in AttemptPcs => proc'[r].att \in 1..rows'
             /\ proc'[r].pc = "record" => proc'[r].out \in BroadcastOutcomes
  <2>1. CASE r = p
    BY <2>1 DEF ProcsOK
  <2>2. CASE r # p
    BY <2>2 DEF ProcsOK, HoldsRow, Process
  <2>3. QED
    BY <2>1, <2>2
<1>3. QED
  BY <1>1, <1>2 DEF ProcsOK, HoldsRow

LEMMA IdleTyped == IdleProcess \in Process /\ IdleProcess.pc \notin AttemptPcs
                   /\ IdleProcess.pc # "record"
BY DEF IdleProcess, Process, AttemptPcs, Pcs, Vias, Outcomes

LEMMA DoneMoves ==
  ASSUME ProcsOK, rows \in Nat, rows' \in Nat, rows <= rows',
         NEW p \in Procs, Done(p)
  PROVE  ProcsOK'
BY ProcMoves, IdleTyped DEF Done

LEMMA GotoMoves ==
  ASSUME ProcsOK, rows \in Nat, rows' \in Nat, rows <= rows',
         NEW p \in Procs, NEW pc \in Pcs \ {"record"}, Goto(p, pc),
         pc \in AttemptPcs => proc[p].pc \in AttemptPcs
  PROVE  ProcsOK'
<1> DEFINE q == [proc[p] EXCEPT !.pc = pc]
<1>1. q \in Process /\ q.pc = pc /\ q.att = proc[p].att
  BY DEF ProcsOK, Process
<1>2. proc' = [proc EXCEPT ![p] = q]
  BY DEF Goto
<1>3. q.pc \in AttemptPcs => q.att \in 1..rows'
  BY <1>1 DEF ProcsOK, HoldsRow, Process
<1> HIDE DEF q
<1>4. QED
  BY <1>1, <1>2, <1>3, ProcMoves

LEMMA BeginMoves ==
  ASSUME ProcsOK, rows \in Nat, rows' \in Nat, rows <= rows',
         NEW p \in Procs, NEW pc \in Pcs \ {"record"}, NEW via \in Vias,
         NEW o \in Ops \cup {NoOp}, NEW a \in Attempts \cup {NoAttempt},
         Begin(p, pc, via, o, a), pc \in AttemptPcs => a \in 1..rows
  PROVE  ProcsOK'
<1> DEFINE q == [pc |-> pc, via |-> via, op |-> o, att |-> a, seen |-> 0, out |-> "none"]
<1>1. q \in Process /\ q.pc = pc /\ q.att = a
  BY DEF Process, Outcomes
<1>2. proc' = [proc EXCEPT ![p] = q]
  BY DEF Begin
<1>3. (q.pc \in AttemptPcs => q.att \in 1..rows') /\ q.pc # "record"
  BY <1>1
<1> HIDE DEF q
<1>4. QED
  BY <1>1, <1>2, <1>3, ProcMoves

LEMMA TakeMoves ==
  ASSUME ProcsOK, rows \in Nat, rows' \in Nat, rows <= rows',
         NEW p \in Procs, NEW pc \in Pcs \ {"record"},
         NEW a \in Attempts \cup {NoAttempt},
         Take(p, pc, a), pc \in AttemptPcs => a \in 1..rows'
  PROVE  ProcsOK'
<1> DEFINE q == [proc[p] EXCEPT !.pc = pc, !.att = a, !.seen = 0]
<1>1. q \in Process /\ q.pc = pc /\ q.att = a
  BY DEF ProcsOK, Process
<1>2. proc' = [proc EXCEPT ![p] = q]
  BY DEF Take
<1> HIDE DEF q
<1>3. QED
  BY <1>1, <1>2, ProcMoves

LEMMA ReadMoves ==
  ASSUME ProcsOK, rows \in Nat, rows' \in Nat, rows <= rows',
         NEW p \in Procs, NEW pc \in Pcs \ {"record"}, NEW n \in Nat, Read(p, pc, n),
         pc \in AttemptPcs => proc[p].pc \in AttemptPcs
  PROVE  ProcsOK'
<1> DEFINE q == [proc[p] EXCEPT !.pc = pc, !.seen = n]
<1>1. q \in Process /\ q.pc = pc /\ q.att = proc[p].att
  BY DEF ProcsOK, Process
<1>2. proc' = [proc EXCEPT ![p] = q]
  BY DEF Read
<1>3. q.pc \in AttemptPcs => q.att \in 1..rows'
  BY <1>1 DEF ProcsOK, HoldsRow, Process
<1> HIDE DEF q
<1>4. QED
  BY <1>1, <1>2, <1>3, ProcMoves

LEMMA ReportMoves ==
  ASSUME ProcsOK, rows \in Nat, rows' \in Nat, rows <= rows',
         NEW p \in Procs, NEW pc \in Pcs, NEW out \in Outcomes, Report(p, pc, out),
         pc \in AttemptPcs => proc[p].pc \in AttemptPcs,
         pc = "record" => out \in BroadcastOutcomes
  PROVE  ProcsOK'
<1> DEFINE q == [proc[p] EXCEPT !.pc = pc, !.seen = 0, !.out = out]
<1>1. q \in Process /\ q.pc = pc /\ q.att = proc[p].att /\ q.out = out
  BY DEF ProcsOK, Process
<1>2. proc' = [proc EXCEPT ![p] = q]
  BY DEF Report
<1>3. q.pc \in AttemptPcs => q.att \in 1..rows'
  BY <1>1 DEF ProcsOK, HoldsRow, Process
<1> HIDE DEF q
<1>4. QED
  BY <1>1, <1>2, <1>3, ProcMoves

LEMMA ThrownMoves ==
  ASSUME ProcsOK, rows \in Nat, rows' \in Nat, rows <= rows',
         NEW p \in Procs, Thrown(p)
  PROVE  ProcsOK'
BY DoneMoves, GotoMoves DEF Thrown, Pcs, AttemptPcs

-----------------------------------------------------------------------------
(* Every step preserves TypeInv, module by module *)

\* A step that leaves the rows and the chain alone only has to keep the processes.
LEMMA OnlyProcs ==
  ASSUME TypeInv, ProcsOK', UNCHANGED <<dbVars, eligible, lateSigned, misread, chainVars>>
  PROVE  TypeInv'
BY DEF TypeInv, TypeOK, ProcsOK, dbVars, chainVars

\* A step of the environment that leaves rows and processes alone keeps HoldsRow.
LEMMA SameProcs ==
  ASSUME TypeInv, UNCHANGED <<rows, proc>>
  PROVE  ProcsOK /\ ProcsOK'
BY DEF TypeInv, TypeOK, ProcsOK, HoldsRow

LEMMA ChainGrows ==
  ASSUME TypeOK, NEW b \in Block, chain' = Append(chain, b)
  PROVE  /\ chain' \in Seq(Block)
         /\ Len(chain) \in Nat
         /\ Len(chain') = Len(chain) + 1
         /\ \A i \in 1..Len(chain) : chain'[i] = chain[i]
         /\ chain'[Len(chain) + 1] = b
BY AppendProperties, LenProperties DEF TypeOK

LEMMA ChainShrinks ==
  ASSUME TypeOK, final < Len(chain), chain' = SubSeq(chain, 1, Len(chain) - 1)
  PROVE  /\ chain' \in Seq(Block)
         /\ Len(chain) \in Nat \ {0}
         /\ Len(chain') = Len(chain) - 1
         /\ \A i \in 1..(Len(chain) - 1) : chain'[i] = chain[i]
         /\ chain[Len(chain)] \in Block
<1>1. Len(chain) \in Nat /\ final \in Nat /\ chain \in Seq(Block)
  BY LenProperties DEF TypeOK
<1>2. \A i \in 1..Len(chain) : chain[i] \in Block
  BY <1>1, ElementOfSeq
<1> DEFINE n == Len(chain) - 1
<1>3. n \in Nat /\ \A i \in 1..n : chain[i] \in Block
  BY <1>1, <1>2
<1>4. /\ SubSeq(chain, 1, n) \in Seq(Block)
      /\ Len(SubSeq(chain, 1, n)) = IF 1 <= n THEN n - 1 + 1 ELSE 0
      /\ \A i \in 1..(n - 1 + 1) : SubSeq(chain, 1, n)[i] = chain[1 + i - 1]
  <2> HIDE DEF n
  <2>1. QED
    BY <1>3, SubSeqProperties
<1>5. Len(chain) \in Nat \ {0} /\ Len(chain) \in 1..Len(chain)
  BY <1>1
<1>6. chain[Len(chain)] \in Block
  BY <1>2, <1>5
<1>7. Len(SubSeq(chain, 1, n)) = n /\ \A i \in 1..n : SubSeq(chain, 1, n)[i] = chain[i]
  <2> HIDE DEF n
  <2>1. QED
    BY <1>3, <1>4
<1>8. chain' = SubSeq(chain, 1, n)
  OBVIOUS
<1>9. QED
  BY <1>4, <1>5, <1>6, <1>7, <1>8

LEMMA EnvironmentTyped ==
  ASSUME TypeInv, Environment PROVE TypeInv'
<1> USE DEF dbVars, chainVars
<1>1. ASSUME NEW a \in Attempts, Mine(a) PROVE TypeInv'
  <2>1. PICK ok \in BOOLEAN : chain' = Append(chain, [att |-> a, ok |-> ok, id |-> reorgs])
    BY <1>1 DEF Mine
  <2>2. [att |-> a, ok |-> ok, id |-> reorgs] \in Block
    BY DEF Block, TypeInv, TypeOK
  <2>3. chain' \in Seq(Block) /\ final \in 0..Len(chain')
    BY <1>1, <2>1, <2>2, ChainGrows DEF TypeInv, TypeOK
  <2>4. QED
    BY <1>1, <2>3, SameProcs DEF Mine, TypeInv, TypeOK, ProcsOK
<1>2. ASSUME NEW a \in Attempts, Evict(a) PROVE TypeInv'
  BY <1>2, SameProcs DEF Evict, TypeInv, TypeOK, ProcsOK
<1>3. CASE MineForeign
  <2>1. [att |-> Foreign, ok |-> TRUE, id |-> reorgs] \in Block
    BY DEF Block, TypeInv, TypeOK
  <2>2. chain' \in Seq(Block) /\ final \in 0..Len(chain')
    BY <1>3, <2>1, ChainGrows DEF MineForeign, TypeInv, TypeOK
  <2>3. QED
    BY <1>3, <2>2, SameProcs DEF MineForeign, TypeInv, TypeOK, ProcsOK
<1>4. CASE Finalize
  <2>1. Len(chain) \in Nat
    BY LenProperties DEF TypeInv, TypeOK
  <2>2. QED
    BY <1>4, <2>1, SameProcs DEF Finalize, TypeInv, TypeOK, ProcsOK
<1>5. CASE Reorg
  <2>1. chain' \in Seq(Block) /\ final \in 0..Len(chain') /\ chain[Len(chain)] \in Block
    BY <1>5, ChainShrinks DEF Reorg, TypeInv, TypeOK
  <2>2. chain[Len(chain)].att \in Attempts \cup {Foreign}
    BY <2>1 DEF Block
  <2>3. mempool' \subseteq Attempts
    BY <1>5, <2>2 DEF Reorg, TypeInv, TypeOK
  <2>4. QED
    BY <1>5, <2>1, <2>3, SameProcs DEF Reorg, TypeInv, TypeOK, ProcsOK
<1>6. ASSUME NEW o \in Ops, ApprovalGranted(o) \/ ApprovalRejected(o) \/ Revoke(o)
      PROVE  TypeInv'
  BY <1>6, StateSets, SameProcs
     DEF ApprovalGranted, ApprovalRejected, Revoke, TypeInv, TypeOK, ProcsOK
<1>7. QED
  BY <1>1, <1>2, <1>3, <1>4, <1>5, <1>6 DEF Environment

LEMMA TypedProcs == ASSUME TypeInv PROVE ProcsOK /\ rows \in Nat
BY BoundsAssumption DEF TypeInv, TypeOK, ProcsOK

LEMMA HeldAttempt ==
  ASSUME TypeInv, NEW p \in Procs, proc[p].pc \in AttemptPcs
  PROVE  proc[p].att \in Attempts /\ proc[p].att \in 1..rows
<1>1. proc[p].att \in 1..rows /\ rows \in 0..MaxAttempts
  BY DEF TypeInv, TypeOK, HoldsRow
<1>2. QED
  BY <1>1, BoundsAssumption

LEMMA ReceiptTyped ==
  ASSUME TypeOK, NEW a \in Attempts, NEW out
  PROVE  ReceiptRow(a, out) \in Row
<1> DEFINE s == IF out \in {"REVERTED", "LATE_REVERTED"} THEN "REVERTED" ELSE "INCLUDED"
<1>1. s \in AttemptStatus /\ att[a] \in Row
  BY DEF AttemptStatus, TypeOK
<1>2. ReceiptRow(a, out) = att[a]
      \/ ReceiptRow(a, out) = [att[a] EXCEPT !.block = TRUE, !.status = s]
  BY DEF ReceiptRow
<1> HIDE DEF s
<1>3. QED
  BY <1>1, <1>2 DEF Row

LEMMA RowStatusTyped ==
  ASSUME TypeOK, NEW a \in Attempts, NEW s \in AttemptStatus
  PROVE  WithStatus(a, s) \in Row
BY DEF TypeOK, WithStatus, Row

LEMMA BlockIds ==
  ASSUME TypeOK, NEW a, NEW i \in BlocksOf(a)
  PROVE  chain[i].id \in Nat /\ i \in 1..Len(chain)
<1>1. chain[i] \in Block
  BY ElementOfSeq DEF TypeOK, BlocksOf
<1>2. QED
  BY <1>1 DEF Block, BlocksOf

\* What awaitConfirmation may report.
ReceiptOutcomes == {"ORPHANED", "FINALIZED", "INCLUDED", "REVERTED", "LATE_REVERTED"}

LEMMA ExecutorTyped ==
  ASSUME TypeInv, NEW p \in Procs, ExecutorStep(p) PROVE TypeInv'
<1> USE DEF dbVars, chainVars
<1>0. TypeOK /\ ProcsOK /\ rows \in Nat /\ proc[p] \in Process /\ ChainNonce \in Nat
  BY TypedProcs, LenProperties DEF TypeInv, TypeOK, ProcsOK, ChainNonce
<1>1. ASSUME NEW o \in Ops, Claim(p, o) PROVE TypeInv'
  <2>1. ProcsOK'
    BY <1>0, <1>1, BeginMoves DEF Claim, Pcs, Vias, AttemptPcs
  <2>2. QED
    BY <1>1, <2>1, StateSets DEF Claim, TypeInv, TypeOK, ProcsOK
<1>2. CASE Prepare(p)
  <2>1. ProcsOK'
    BY <1>0, <1>2, ThrownMoves, ReadMoves DEF Prepare, Pcs, AttemptPcs
  <2>2. QED
    BY <1>2, <2>1, OnlyProcs DEF Prepare
<1>3. CASE FailOperation(p)
  <2>1. ProcsOK'
    BY <1>0, <1>3, DoneMoves DEF FailOperation
  <2>2. op' \in [Ops -> OperationState]
    BY <1>0, <1>3, StateSets DEF FailOperation, TypeOK
  <2>3. att' \in [Attempts -> Row]
    <3>1. \A a \in Attempts : WithStatus(a, "FAILED") \in Row
      BY <1>0, RowStatusTyped DEF AttemptStatus
    <3>2. QED
      BY <1>0, <1>3, <3>1 DEF FailOperation, TypeOK
  <2>4. QED
    BY <1>0, <1>3, <2>1, <2>2, <2>3 DEF FailOperation, TypeInv, TypeOK, ProcsOK
<1>4. CASE Observe(p)
  <2>1. ProcsOK'
    BY <1>0, <1>4, DoneMoves, GotoMoves DEF Observe, Pcs, AttemptPcs
  <2>2. QED
    BY <1>4, <2>1, OnlyProcs DEF Observe
<1>5. ASSUME NEW out \in ReceiptOutcomes, Observed(p, out), proc[p].pc \in AttemptPcs,
             rows' = rows
      PROVE  ProcsOK'
  <2>1. PICK pc \in {"reorged", "include"} : Report(p, pc, out)
    BY <1>5 DEF Observed
  <2>2. out \in Outcomes /\ pc \in Pcs /\ pc # "record"
    BY DEF Pcs, Outcomes, ReceiptOutcomes
  <2>3. QED
    BY <1>0, <1>5, <2>1, <2>2, ReportMoves
<1>6. CASE PollReceipt(p)
  <2>1. proc[p].pc \in AttemptPcs /\ rows' = rows
    BY <1>6 DEF PollReceipt, AttemptPcs
  <2>2. \/ Done(p) \/ Goto(p, "receipt")
        \/ \E out \in ReceiptOutcomes : Observed(p, out)
    BY <1>6 DEF PollReceipt, ReceiptOutcomes
  <2>3. ProcsOK'
    BY <1>0, <1>5, <2>1, <2>2, DoneMoves, GotoMoves DEF Pcs
  <2>4. QED
    BY <1>6, <2>3, OnlyProcs DEF PollReceipt
<1>7. CASE ReadReceipt(p)
  <2>1. proc[p].pc \in AttemptPcs /\ rows' = rows
    BY <1>7 DEF ReadReceipt, AttemptPcs
  <2>2. \A i \in BlocksOf(proc[p].att) : chain[i].id \in Nat
    BY <1>0, BlockIds
  <2>3. \/ \E n \in Nat : Read(p, "blockHash", n)
        \/ \E out \in ReceiptOutcomes : Observed(p, out)
    BY <1>7, <2>2 DEF ReadReceipt, ReceiptOutcomes
  <2>4. ProcsOK'
    BY <1>0, <1>5, <2>1, <2>3, ReadMoves DEF Pcs
  <2>5. QED
    BY <1>7, <2>4, OnlyProcs DEF ReadReceipt
<1>8. CASE ReadBlockHash(p)
  <2>1. proc[p].pc \in AttemptPcs /\ rows' = rows
    BY <1>8 DEF ReadBlockHash, AttemptPcs
  <2>2. Goto(p, "finality") \/ \E out \in ReceiptOutcomes : Observed(p, out)
    BY <1>8 DEF ReadBlockHash, ReceiptOutcomes
  <2>3. ProcsOK'
    BY <1>0, <1>5, <2>1, <2>2, GotoMoves DEF Pcs
  <2>4. QED
    BY <1>8, <2>3, OnlyProcs DEF ReadBlockHash
<1>9. CASE ReadFinality(p)
  <2>1. proc[p].pc \in AttemptPcs /\ rows' = rows
    BY <1>9 DEF ReadFinality, AttemptPcs
  <2>2. Read(p, "receipt", 0) \/ \E out \in ReceiptOutcomes : Observed(p, out)
    BY <1>9 DEF ReadFinality, ReceiptOutcomes
  <2>3. ProcsOK'
    BY <1>0, <1>5, <2>1, <2>2, ReadMoves DEF Pcs
  <2>4. misread' \subseteq Attempts
    <3>1. proc[p].att \in Attempts /\ misread \subseteq Attempts
      BY <1>0, <2>1, HeldAttempt DEF TypeOK
    <3>2. misread' \in {misread, misread \cup {proc[p].att}}
      BY <1>9 DEF ReadFinality
    <3>3. QED
      BY <3>1, <3>2
  <2>5. QED
    BY <1>0, <1>9, <2>3, <2>4 DEF ReadFinality, TypeInv, TypeOK, ProcsOK
<1>10. CASE Reconcile(p)
  <2>1. ProcsOK'
    BY <1>0, <1>10, DoneMoves, GotoMoves, ThrownMoves DEF Reconcile, Pcs, AttemptPcs
  <2>2. QED
    BY <1>10, <2>1, OnlyProcs DEF Reconcile
<1>11. CASE RecordInclusion(p)
  <2>0. proc[p].att \in Attempts
    BY <1>11, HeldAttempt DEF RecordInclusion, AttemptPcs
  <2>1. ProcsOK'
    BY <1>0, <1>11, DoneMoves, GotoMoves, ThrownMoves
       DEF RecordInclusion, AfterInclusion, Pcs, AttemptPcs
  <2>2. att' \in [Attempts -> Row]
    BY <1>0, <1>11, <2>0, ReceiptTyped DEF RecordInclusion, TypeOK
  <2>3. op' \in [Ops -> OperationState]
    BY <1>0, <1>11, StateSets DEF RecordInclusion, TypeOK
  <2>4. QED
    BY <1>0, <1>11, <2>1, <2>2, <2>3 DEF RecordInclusion, TypeInv, TypeOK, ProcsOK
<1>12. CASE RecordReorg(p)
  <2>1. ProcsOK'
    BY <1>0, <1>12, DoneMoves, ThrownMoves DEF RecordReorg
  <2> DEFINE row == [att[proc[p].att] EXCEPT !.status = "SUBMITTED", !.block = FALSE]
  <2>2. row \in Row
    <3>1. att[proc[p].att] \in Row
      BY <1>0, <1>12, HeldAttempt DEF RecordReorg, AttemptPcs, TypeOK
    <3>2. QED
      BY <3>1 DEF Row, AttemptStatus
  <2>3. att' \in [Attempts -> Row]
    <3>1. att' = [att EXCEPT ![proc[p].att] = row] \/ att' = att
      BY <1>12 DEF RecordReorg
    <3> HIDE DEF row
    <3>2. QED
      BY <1>0, <2>2, <3>1 DEF TypeOK
  <2>4. op' \in [Ops -> OperationState]
    BY <1>0, <1>12, StateSets DEF RecordReorg, TypeOK
  <2>5. QED
    BY <1>0, <1>12, <2>1, <2>3, <2>4 DEF RecordReorg, TypeInv, TypeOK, ProcsOK
<1>13. CASE Settle(p)
  <2>1. ProcsOK'
    BY <1>0, <1>13, DoneMoves, ThrownMoves DEF Settle
  <2>2. \A a \in Attempts : WithStatus(a, SettledStatus(proc[p].out)) \in Row
    BY <1>0, RowStatusTyped DEF SettledStatus, AttemptStatus
  <2>3. SettledState(proc[p].out) \in OperationState
    BY StateSets DEF SettledState
  <2>4. att' \in [Attempts -> Row] /\ op' \in [Ops -> OperationState]
    BY <1>0, <1>13, <2>2, <2>3 DEF Settle, TypeOK
  <2>5. QED
    BY <1>0, <1>13, <2>1, <2>4 DEF Settle, TypeInv, TypeOK, ProcsOK
<1>14. QED
  BY <1>1, <1>2, <1>3, <1>4, <1>6, <1>7, <1>8, <1>9, <1>10, <1>11, <1>12, <1>13
     DEF ExecutorStep

LEMMA ReplacementTyped ==
  ASSUME TypeInv, NEW p \in Procs, ReplacementStep(p) PROVE TypeInv'
<1> USE DEF dbVars, chainVars
<1>0. TypeOK /\ ProcsOK /\ rows \in Nat /\ proc[p] \in Process /\ ChainNonce \in Nat
      /\ \A a \in Attempts : att[a] \in Row /\ att[a].op \in Ops \cup {NoOp}
  BY TypedProcs, LenProperties DEF TypeInv, TypeOK, ProcsOK, ChainNonce, Row
<1>1. ASSUME NEW a \in Attempts, FindStuck(p, a) PROVE TypeInv'
  <2>1. ProcsOK'
    BY <1>0, <1>1, BeginMoves DEF FindStuck, Pcs, Vias, AttemptPcs
  <2>2. QED
    BY <1>1, <2>1, OnlyProcs DEF FindStuck
<1>2. CASE ReplaceOne(p)
  <2>1. ProcsOK'
    BY <1>0, <1>2, DoneMoves, GotoMoves DEF ReplaceOne, Pcs, AttemptPcs
  <2>2. QED
    BY <1>2, <2>1, OnlyProcs DEF ReplaceOne
<1>3. CASE RecoverBlockedLane(p)
  <2>1. ProcsOK'
    BY <1>0, <1>3, ReadMoves DEF RecoverBlockedLane, Pcs, AttemptPcs
  <2>2. QED
    BY <1>3, <2>1, OnlyProcs DEF RecoverBlockedLane
<1>4. CASE FindBlocking(p)
  <2>1. ASSUME NEW a \in Attempts, Blocking(a, proc[p].seen),
               NEW pc \in {"recheck", "resumeSig", "cancel"}, Begin(p, pc, "lane", NoOp, a)
        PROVE  ProcsOK'
    BY <1>0, <1>4, <2>1, BeginMoves
       DEF FindBlocking, Blocking, Live, Pcs, Vias, AttemptPcs
  <2>2. ProcsOK'
    BY <1>0, <1>4, <2>1, DoneMoves DEF FindBlocking, ResumeRecovery
  <2>3. QED
    BY <1>4, <2>2, OnlyProcs DEF FindBlocking
<1>5. CASE ConfirmRecovery(p)
  <2>1. ProcsOK'
    BY <1>0, <1>5, DoneMoves DEF ConfirmRecovery
  <2>2. proc[p].att \in Attempts
    BY <1>5, HeldAttempt DEF ConfirmRecovery, AttemptPcs
  <2> DEFINE row == RecoveryRow(proc[p].att, proc[p].out)
  <2>3. row \in Row
    <3>1. row = ReceiptRow(proc[p].att, proc[p].out)
          \/ row = [att[proc[p].att] EXCEPT !.block = TRUE, !.status = "CONFIRMED"]
      BY DEF RecoveryRow
    <3>2. [att[proc[p].att] EXCEPT !.block = TRUE, !.status = "CONFIRMED"] \in Row
      BY <1>0, <2>2 DEF Row, AttemptStatus
    <3>3. QED
      BY <1>0, <2>2, <3>1, <3>2, ReceiptTyped
  <2>4. att' = [att EXCEPT ![proc[p].att] = row] \/ att' = att
    BY <1>5 DEF ConfirmRecovery
  <2> HIDE DEF row
  <2>5. att' \in [Attempts -> Row]
    BY <1>0, <2>3, <2>4 DEF TypeOK
  <2>6. QED
    BY <1>0, <1>5, <2>1, <2>5 DEF ConfirmRecovery, TypeInv, TypeOK, ProcsOK
<1>6. QED
  BY <1>1, <1>2, <1>3, <1>4, <1>5 DEF ReplacementStep

LEMMA RecoveryTyped ==
  ASSUME TypeInv, NEW p \in Procs, RecoveryStep(p) PROVE TypeInv'
<1> USE DEF dbVars, chainVars
<1>0. TypeOK /\ ProcsOK /\ rows \in Nat /\ proc[p] \in Process /\ proc[p].op \in Ops \cup {NoOp}
  BY TypedProcs DEF TypeInv, TypeOK, ProcsOK, Process
<1>1. ASSUME NEW o \in Ops, RecoverOne(p, o) PROVE TypeInv'
  <2>1. PICK pc \in {"abandon", "signing", "resolve", "finalize"} :
          Begin(p, pc, "recover", o, NoAttempt)
    BY <1>1 DEF RecoverOne, RecoverySwitch
  <2>2. rows' = rows
    BY <1>1 DEF RecoverOne
  <2>3. ProcsOK'
    BY <1>0, <2>1, <2>2, BeginMoves DEF Pcs, Vias, AttemptPcs
  <2>4. QED
    BY <1>1, <2>3, OnlyProcs DEF RecoverOne
<1>2. CASE RecoverSigning(p)
  <2>1. ProcsOK'
    BY <1>0, <1>2, BeginMoves, GotoMoves
       DEF RecoverSigning, Resumable, IsLatestAttempt, Pcs, Vias, AttemptPcs
  <2>2. QED
    BY <1>2, <2>1, OnlyProcs DEF RecoverSigning
<1>3. CASE Abandon(p)
  <2>1. ProcsOK'
    BY <1>0, <1>3, TakeMoves, GotoMoves DEF Abandon, Pcs, AttemptPcs
  <2>2. QED
    BY <1>3, <2>1, OnlyProcs DEF Abandon
<1>4. CASE AbandonTx(p)
  <2>1. ProcsOK'
    BY <1>0, <1>4, DoneMoves DEF AbandonTx
  <2>2. \A a \in Attempts : WithStatus(a, "FAILED") \in Row
    BY <1>0, RowStatusTyped DEF AttemptStatus
  <2>3. att' \in [Attempts -> Row] /\ op' \in [Ops -> OperationState]
    BY <1>0, <1>4, <2>2, StateSets DEF AbandonTx, TypeOK
  <2>4. QED
    BY <1>0, <1>4, <2>1, <2>3 DEF AbandonTx, TypeInv, TypeOK, ProcsOK
<1>5. CASE ResolveInFlight(p)
  <2>1. ProcsOK'
    BY <1>0, <1>5, TakeMoves, GotoMoves, DoneMoves
       DEF ResolveInFlight, IsLatestAttempt, Pcs, AttemptPcs
  <2>2. QED
    BY <1>5, <2>1, OnlyProcs DEF ResolveInFlight
<1>6. CASE LookUpHash(p)
  <2>1. ProcsOK'
    BY <1>0, <1>6, GotoMoves DEF LookUpHash, Pcs, AttemptPcs
  <2>2. QED
    BY <1>6, <2>1, OnlyProcs DEF LookUpHash
<1>7. CASE Rebroadcast(p)
  <2>1. ProcsOK'
    BY <1>0, <1>7, GotoMoves, ThrownMoves DEF Rebroadcast, Pcs, AttemptPcs
  <2>2. \A a \in Attempts : WithStatus(a, "BROADCASTING") \in Row
    BY <1>0, RowStatusTyped DEF AttemptStatus
  <2>3. att' \in [Attempts -> Row] /\ op' \in [Ops -> OperationState]
    BY <1>0, <1>7, <2>2, StateSets DEF Rebroadcast, TypeOK
  <2>4. QED
    BY <1>0, <1>7, <2>1, <2>3 DEF Rebroadcast, TypeInv, TypeOK, ProcsOK
<1>8. CASE AdvanceToSubmitted(p)
  <2>1. ProcsOK'
    BY <1>0, <1>8, GotoMoves DEF AdvanceToSubmitted, Pcs, AttemptPcs
  <2>2. QED
    BY <1>0, <1>8, <2>1, StateSets DEF AdvanceToSubmitted, TypeInv, TypeOK, ProcsOK
<1>9. CASE FinalizeOperation(p)
  <2>1. ProcsOK'
    BY <1>0, <1>9, TakeMoves, DoneMoves
       DEF FinalizeOperation, IsLatestAttempt, Pcs, AttemptPcs
  <2>2. QED
    BY <1>9, <2>1, OnlyProcs DEF FinalizeOperation
<1>10. QED
  BY <1>1, <1>2, <1>3, <1>4, <1>5, <1>6, <1>7, <1>8, <1>9 DEF RecoveryStep

\* The parts of a transaction that rewrites one row and runs a hook.
LEMMA CommitTyped ==
  ASSUME TypeInv, NEW p \in Procs, NEW row \in Row,
         NEW event \in {"onPrepared", "onSigned", "onBroadcasting", "onSubmitted",
                        "onBroadcastUnknown", "onFailed"},
         CommitRow(p, row, event)
  PROVE  att' \in [Attempts -> Row] /\ op' \in [Ops -> OperationState]
<1>1. att' \in [Attempts -> Row]
  BY DEF CommitRow, TypeInv, TypeOK
<1>2. CASE proc[p].op \in Ops
  <2>1. op[proc[p].op] \in OperationState
    BY <1>2 DEF TypeInv, TypeOK
  <2>2. Hook(proc[p].via, event, op[proc[p].op]) \in OperationState
    BY <1>2, <2>1, HookTyped, NoOpAssumption DEF CommitRow, HookPasses
  <2>3. QED
    BY <1>1, <1>2, <2>2, NoOpAssumption DEF CommitRow, RunHook, TypeInv, TypeOK
<1>3. CASE proc[p].op = NoOp
  BY <1>1, <1>3 DEF CommitRow, RunHook, TypeInv, TypeOK
<1>4. QED
  BY <1>2, <1>3 DEF TypeInv, TypeOK, Process

LEMMA SignReplacementTyped ==
  ASSUME TypeInv, NEW p \in Procs, NEW o \in Ops \cup {NoOp}, proc[p].pc \in AttemptPcs,
         SignReplacement(p, o)
  PROVE  TypeInv'
<1> USE DEF dbVars, chainVars
<1> DEFINE a == proc[p].att
           q == PreparedRow(o, att[a].nonce, att[a].repl + 1)
<1>0. TypeOK /\ ProcsOK /\ rows \in Nat /\ a \in Attempts /\ att[a] \in Row
  BY TypedProcs, HeldAttempt DEF TypeInv, TypeOK
<1>1. q \in Row
  BY <1>0 DEF PreparedRow, Row, AttemptStatus
<1>2. WithStatus(a, "REPLACED") \in Row
  BY <1>0, RowStatusTyped DEF AttemptStatus
<1>3. CASE rows' = rows + 1 /\ rows < MaxAttempts /\ Take(p, "sign", rows + 1)
           /\ att' = [att EXCEPT ![a] = WithStatus(a, "REPLACED"), ![rows + 1] = q]
  <2>1. rows' \in 0..MaxAttempts /\ rows + 1 \in Attempts /\ rows' \in Nat
    BY <1>0, <1>3, BoundsAssumption
  <2>2. ProcsOK'
    BY <1>0, <1>3, <2>1, TakeMoves DEF Pcs
  <2> HIDE DEF q
  <2>3. att' \in [Attempts -> Row]
    BY <1>0, <1>1, <1>2, <1>3 DEF TypeOK
  <2>4. QED
    BY <1>0, <2>1, <2>2, <2>3 DEF SignReplacement, TypeInv, TypeOK, ProcsOK
<1>4. CASE Done(p) /\ UNCHANGED <<att, rows>>
  BY <1>0, <1>4, DoneMoves, OnlyProcs DEF SignReplacement
<1>5. QED
  BY <1>3, <1>4 DEF SignReplacement

LEMMA ChainWriterTyped ==
  ASSUME TypeInv, NEW p \in Procs, ChainWriterStep(p) PROVE TypeInv'
<1> USE DEF dbVars, chainVars
<1> DEFINE a == proc[p].att
<1>0. TypeOK /\ ProcsOK /\ rows \in Nat /\ proc[p] \in Process /\ proc[p].op \in Ops \cup {NoOp}
      /\ proc[p].seen \in Nat
  BY TypedProcs DEF TypeInv, TypeOK, ProcsOK, Process
<1>1. ASSUME RollBack(p), UNCHANGED <<eligible, chainVars>> PROVE TypeInv'
  BY <1>0, <1>1, ThrownMoves, OnlyProcs DEF RollBack
<1>2. CASE ReserveNonce(p)
  <2> DEFINE n == LaneNonce(p)
  <2>1. n \in Nat
    BY <1>0 DEF LaneNonce, TypeOK
  <2>2. PreparedRow(proc[p].op, n, 0) \in Row
    BY <1>0, <2>1 DEF PreparedRow, Row, AttemptStatus
  <2> HIDE DEF n
  <2>3. rows' \in 0..MaxAttempts /\ rows + 1 \in Attempts /\ rows' \in Nat /\ rows' = rows + 1
    BY <1>0, <1>2, BoundsAssumption DEF ReserveNonce
  <2>4. ProcsOK'
    <3>1. Take(p, "sign", rows + 1)
      BY <1>2 DEF ReserveNonce
    <3>2. QED
      BY <1>0, <2>3, <3>1, TakeMoves DEF Pcs
  <2>5. att' \in [Attempts -> Row] /\ nextNonce' \in Nat
    <3>1. att' = [att EXCEPT ![rows + 1] = PreparedRow(proc[p].op, n, 0)]
      BY <1>2 DEF ReserveNonce, n
    <3>2. nextNonce' = n + 1
      BY <1>2 DEF ReserveNonce, n
    <3>3. att' \in [Attempts -> Row]
      BY <1>0, <2>2, <3>1 DEF TypeOK
    <3>4. QED
      BY <2>1, <3>2, <3>3
  <2>6. op' \in [Ops -> OperationState]
    <3>1. CASE proc[p].op \in Ops
      BY <1>0, <1>2, <3>1, HookTyped, NoOpAssumption
         DEF ReserveNonce, HookPasses, RunHook, TypeOK
    <3>2. CASE proc[p].op = NoOp
      BY <1>0, <1>2, <3>2 DEF ReserveNonce, RunHook, TypeOK
    <3>3. QED
      BY <1>0, <3>1, <3>2
  <2>7. QED
    BY <1>0, <1>2, <2>3, <2>4, <2>5, <2>6 DEF ReserveNonce, TypeInv, TypeOK, ProcsOK
<1>3. CASE ReserveFails(p)
  BY <1>0, <1>3, ThrownMoves, OnlyProcs DEF ReserveFails
<1>4. CASE RequestSignature(p)
  <2>1. ProcsOK'
    BY <1>0, <1>4, DoneMoves, GotoMoves, ThrownMoves DEF RequestSignature, Pcs, AttemptPcs
  <2>2. req' \in [Attempts -> SignerRequestStatus]
    BY <1>0, <1>4 DEF RequestSignature, TypeOK, SignerRequestStatus
  <2>3. QED
    BY <1>0, <1>4, <2>1, <2>2 DEF RequestSignature, TypeInv, TypeOK, ProcsOK
<1>5. CASE ResumeSignature(p)
  <2>1. ProcsOK'
    BY <1>0, <1>5, DoneMoves, GotoMoves DEF ResumeSignature, Pcs, AttemptPcs
  <2>2. req' \in [Attempts -> SignerRequestStatus]
    BY <1>0, <1>5 DEF ResumeSignature, TypeOK, SignerRequestStatus
  <2>3. QED
    BY <1>0, <1>5, <2>1, <2>2 DEF ResumeSignature, TypeInv, TypeOK, ProcsOK
<1>6. CASE MarkRejected(p)
  <2>1. ProcsOK'
    BY <1>0, <1>6, GotoMoves DEF MarkRejected, Pcs, AttemptPcs
  <2>2. req' \in [Attempts -> SignerRequestStatus]
    BY <1>0, <1>6 DEF MarkRejected, TypeOK, SignerRequestStatus
  <2>3. QED
    BY <1>0, <1>6, <2>1, <2>2 DEF MarkRejected, TypeInv, TypeOK, ProcsOK
<1>7. CASE FailAttempt(p)
  <2>1. WithStatus(a, "FAILED") \in Row
    BY <1>0, <1>7, HeldAttempt, RowStatusTyped DEF FailAttempt, AttemptPcs, AttemptStatus
  <2>2. CASE CommitRow(p, WithStatus(a, "FAILED"), "onFailed") /\ Done(p)
             /\ UNCHANGED <<rows, nextNonce, req, lateSigned, misread>>
    <3>1. att' \in [Attempts -> Row] /\ op' \in [Ops -> OperationState]
      BY <2>1, <2>2, CommitTyped
    <3>2. ProcsOK'
      BY <1>0, <2>2, DoneMoves
    <3>3. QED
      BY <1>0, <1>7, <2>2, <3>1, <3>2 DEF FailAttempt, TypeInv, TypeOK, ProcsOK
  <2>3. QED
    BY <1>1, <1>7, <2>2 DEF FailAttempt
<1>8. CASE PersistSigned(p)
  <2> DEFINE row == [att[a] EXCEPT !.signed = TRUE, !.status = "SIGNED"]
  <2>1. a \in Attempts /\ att[a] \in Row
    BY <1>0, <1>8, HeldAttempt DEF PersistSigned, AttemptPcs, TypeOK
  <2>2. row \in Row
    BY <2>1 DEF Row, AttemptStatus
  <2>3. CASE CommitRow(p, row, "onSigned") /\ Goto(p, "check")
             /\ UNCHANGED <<rows, nextNonce, misread>>
             /\ req' = [req EXCEPT ![a] = "SIGNED"]
             /\ lateSigned' \in {lateSigned, lateSigned \cup {a}}
    <3>1. att' \in [Attempts -> Row] /\ op' \in [Ops -> OperationState]
      BY <2>2, <2>3, CommitTyped
    <3>2. ProcsOK'
      BY <1>0, <1>8, <2>3, GotoMoves DEF PersistSigned, Pcs, AttemptPcs
    <3>3. req' \in [Attempts -> SignerRequestStatus] /\ lateSigned' \subseteq Attempts
      BY <1>0, <2>1, <2>3 DEF TypeOK, SignerRequestStatus
    <3>4. QED
      BY <1>0, <1>8, <2>3, <3>1, <3>2, <3>3 DEF PersistSigned, TypeInv, TypeOK, ProcsOK
  <2>4. QED
    BY <1>1, <1>8, <2>3 DEF PersistSigned
<1>9. CASE AssertBroadcastAllowed(p)
  <2>1. ProcsOK'
    BY <1>0, <1>9, GotoMoves DEF AssertBroadcastAllowed, Pcs, AttemptPcs
  <2>2. QED
    BY <1>9, <2>1, OnlyProcs DEF AssertBroadcastAllowed
<1>10. CASE AnnounceBroadcast(p)
  <2>1. WithStatus(a, "BROADCASTING") \in Row
    BY <1>0, <1>10, HeldAttempt, RowStatusTyped DEF AnnounceBroadcast, AttemptPcs, AttemptStatus
  <2>2. CASE CommitRow(p, WithStatus(a, "BROADCASTING"), "onBroadcasting") /\ Goto(p, "recheck")
             /\ UNCHANGED <<rows, nextNonce, req, lateSigned, misread>>
    <3>1. att' \in [Attempts -> Row] /\ op' \in [Ops -> OperationState]
      BY <2>1, <2>2, CommitTyped
    <3>2. ProcsOK'
      BY <1>0, <1>10, <2>2, GotoMoves DEF AnnounceBroadcast, Pcs, AttemptPcs
    <3>3. QED
      BY <1>0, <1>10, <2>2, <3>1, <3>2 DEF AnnounceBroadcast, TypeInv, TypeOK, ProcsOK
  <2>3. QED
    BY <1>1, <1>10, <2>2 DEF AnnounceBroadcast
<1>11. CASE Recheck(p)
  <2>1. ProcsOK'
    BY <1>0, <1>11, GotoMoves, DoneMoves DEF Recheck, Pcs, AttemptPcs
  <2>2. QED
    BY <1>11, <2>1, OnlyProcs DEF Recheck
<1>12. CASE Send(p)
  <2>1. PICK out \in BroadcastOutcomes : Report(p, "record", out)
    BY <1>12 DEF Send, Outcome, BroadcastOutcomes
  <2>2. ProcsOK'
    <3>1. out \in Outcomes /\ "record" \in Pcs /\ proc[p].pc \in AttemptPcs /\ rows' = rows
      BY <1>12 DEF Send, Pcs, AttemptPcs, Outcomes, BroadcastOutcomes
    <3>2. QED
      BY <1>0, <2>1, <3>1, ReportMoves
  <2>3. a \in Attempts
    BY <1>12, HeldAttempt DEF Send, AttemptPcs
  <2>4. mempool' \subseteq Attempts
    BY <1>0, <1>12, <2>3 DEF Send, TypeOK
  <2>5. QED
    BY <1>0, <1>12, <2>2, <2>4 DEF Send, TypeInv, TypeOK, ProcsOK
<1>13. CASE RecordOutcome(p)
  <2> DEFINE out == proc[p].out
  <2>1. out \in BroadcastOutcomes /\ out \in AttemptStatus
    BY <1>0, <1>13 DEF RecordOutcome, ProcsOK, HoldsRow, BroadcastOutcomes, AttemptStatus
  <2>2. WithStatus(a, out) \in Row
    BY <1>0, <1>13, <2>1, HeldAttempt, RowStatusTyped DEF RecordOutcome, AttemptPcs
  <2>3. OutcomeEvent[out] \in {"onSubmitted", "onBroadcastUnknown", "onFailed"}
    BY <2>1 DEF OutcomeEvent, BroadcastOutcomes
  <2>4. CASE CommitRow(p, WithStatus(a, out), OutcomeEvent[out]) /\ AfterBroadcast(p, out)
             /\ UNCHANGED <<rows, nextNonce, req, lateSigned, misread>>
    <3>1. att' \in [Attempts -> Row] /\ op' \in [Ops -> OperationState]
      BY <2>2, <2>3, <2>4, CommitTyped
    <3>2. ProcsOK'
      <4>1. Report(p, "observe", "none") \/ Done(p)
        BY <2>4 DEF AfterBroadcast
      <4>2. "observe" \in Pcs /\ "none" \in Outcomes /\ proc[p].pc \in AttemptPcs
        BY <1>13 DEF RecordOutcome, Pcs, AttemptPcs, Outcomes
      <4>3. rows' = rows
        BY <2>4
      <4>4. QED
        BY <1>0, <4>1, <4>2, <4>3, ReportMoves, DoneMoves
    <3>3. QED
      BY <1>0, <1>13, <2>4, <3>1, <3>2 DEF RecordOutcome, TypeInv, TypeOK, ProcsOK
  <2>5. QED
    BY <1>1, <1>13, <2>4 DEF RecordOutcome
<1>14. CASE ReplaceFees(p) \/ CancelNonce(p)
  BY <1>0, <1>14, SignReplacementTyped DEF ReplaceFees, CancelNonce, AttemptPcs
<1>15. QED
  BY <1>2, <1>3, <1>4, <1>5, <1>6, <1>7, <1>8, <1>9, <1>10, <1>11, <1>12, <1>13, <1>14
     DEF ChainWriterStep

\* Every state of the pipeline is well typed, and a process that works on an
\* attempt holds a row that exists.
THEOREM TypeCorrect == Spec => []TypeInv
<1>1. TypeInv /\ [Next]_vars => TypeInv'
  <2> SUFFICES ASSUME TypeInv, [Next]_vars PROVE TypeInv'
    OBVIOUS
  <2>1. ASSUME NEW p \in Procs, Crash(p) PROVE TypeInv'
    BY <2>1, TypedProcs, DoneMoves, OnlyProcs DEF Crash, dbVars
  <2>2. CASE UNCHANGED vars
    BY <2>2 DEF vars, TypeInv, TypeOK, HoldsRow
  <2>3. QED
    BY <2>1, <2>2, EnvironmentTyped, ChainWriterTyped, ExecutorTyped, RecoveryTyped,
       ReplacementTyped DEF Next, ProcessStep
<1>2. QED
  BY <1>1, InitTyped, PTL DEF Spec

\* The type invariant the runs check holds in every reachable state.
THEOREM TypesHold == Spec => []TypeOK
<1>1. TypeInv => TypeOK
  BY DEF TypeInv
<1>2. QED
  BY <1>1, TypeCorrect, PTL

-----------------------------------------------------------------------------
(* An operation moves only along the edges of the domain machine, whichever process writes *)

OnEdge(o) == op'[o] = op[o] \/ CanTransition(op[o], op'[o])

OnEdges == \A o \in Ops : OnEdge(o)

\* Moving one operation along an edge.
LEMMA OneEdge ==
  ASSUME TypeOK, NEW o, NEW s, op' = [op EXCEPT ![o] = s],
         o \in Ops => s = op[o] \/ CanTransition(op[o], s)
  PROVE  OnEdges
BY DEF TypeOK, OnEdges, OnEdge

\* A hook that does not throw follows an edge or leaves the operation alone.
LEMMA HookEdge ==
  ASSUME NEW via, NEW s \in OperationState, NEW event,
         Hook(via, event, s) # Throw
  PROVE  Hook(via, event, s) = s \/ CanTransition(s, Hook(via, event, s))
<1>1. CASE via \in OperationHooks
  BY <1>1 DEF Hook, OperationHook
<1>2. CASE via \notin OperationHooks /\ via = "replace"
  BY <1>2 DEF Hook, ReplacementHook
<1>3. CASE via \notin OperationHooks /\ via # "replace"
  BY <1>3 DEF Hook, RebroadcastHook, HookTarget, CanTransition, AllowedTransitions
<1>4. QED
  BY <1>1, <1>2, <1>3

LEMMA RunHookEdge ==
  ASSUME TypeOK, NEW p \in Procs, NEW event, HookPasses(p, event), RunHook(p, event)
  PROVE  OnEdges
<1>1. CASE proc[p].op = NoOp
  BY <1>1 DEF RunHook, OnEdges, OnEdge
<1>2. CASE proc[p].op # NoOp
  <2>1. proc[p].op \in Ops => op[proc[p].op] \in OperationState
    BY DEF TypeOK
  <2>2. QED
    BY <1>2, <2>1, HookEdge, OneEdge DEF RunHook, HookPasses
<1>3. QED
  BY <1>1, <1>2

LEMMA SameStates == ASSUME op' = op PROVE OnEdges
BY DEF OnEdges, OnEdge

LEMMA EnvironmentEdges == ASSUME TypeInv, Environment PROVE OnEdges
<1>1. ASSUME NEW o \in Ops, ApprovalGranted(o) PROVE OnEdges
  <2>1. CanTransition("PENDING_APPROVAL", "READY")
    BY DEF CanTransition, AllowedTransitions
  <2>2. op[o] = "PENDING_APPROVAL" /\ op' = [op EXCEPT ![o] = "READY"]
    BY <1>1 DEF ApprovalGranted
  <2>3. QED
    BY <2>1, <2>2, OneEdge DEF TypeInv
<1>2. ASSUME NEW o \in Ops, ApprovalRejected(o) PROVE OnEdges
  <2>1. CanTransition("PENDING_APPROVAL", "CANCELLED")
    BY DEF CanTransition, AllowedTransitions
  <2>2. op[o] = "PENDING_APPROVAL" /\ op' = [op EXCEPT ![o] = "CANCELLED"]
    BY <1>2 DEF ApprovalRejected
  <2>3. QED
    BY <2>1, <2>2, OneEdge DEF TypeInv
<1>3. QED
  BY <1>1, <1>2, SameStates
     DEF Environment, Mine, MineForeign, Evict, Finalize, Reorg, Revoke, dbVars

LEMMA ChainWriterEdges ==
  ASSUME TypeInv, NEW p \in Procs, ChainWriterStep(p) PROVE OnEdges
<1>1. ASSUME NEW row, NEW event, CommitRow(p, row, event) PROVE OnEdges
  BY <1>1, RunHookEdge DEF CommitRow, TypeInv
<1>2. CASE ReserveNonce(p)
  BY <1>2, RunHookEdge DEF ReserveNonce, TypeInv
<1>3. CASE ReserveFails(p) \/ RequestSignature(p) \/ ResumeSignature(p) \/ MarkRejected(p)
           \/ AssertBroadcastAllowed(p) \/ Recheck(p) \/ Send(p)
           \/ ReplaceFees(p) \/ CancelNonce(p)
  BY <1>3, SameStates
     DEF ReserveFails, RequestSignature, ResumeSignature, MarkRejected,
         AssertBroadcastAllowed, Recheck, Send, ReplaceFees, CancelNonce,
         SignReplacement, dbVars
<1>4. CASE FailAttempt(p) \/ PersistSigned(p) \/ AnnounceBroadcast(p) \/ RecordOutcome(p)
  BY <1>1, <1>4, SameStates
     DEF FailAttempt, PersistSigned, AnnounceBroadcast, RecordOutcome, RollBack, dbVars
<1>5. QED
  BY <1>2, <1>3, <1>4 DEF ChainWriterStep

LEMMA ExecutorEdges ==
  ASSUME TypeInv, NEW p \in Procs, ExecutorStep(p) PROVE OnEdges
<1> USE DEF TypeInv
<1>1. ASSUME NEW o \in Ops, Claim(p, o) PROVE OnEdges
  <2>1. CanTransition("READY", "PREPARING")
    BY DEF CanTransition, AllowedTransitions
  <2>2. op[o] = "READY" /\ op' = [op EXCEPT ![o] = "PREPARING"]
    BY <1>1 DEF Claim
  <2>3. QED
    BY <2>1, <2>2, OneEdge DEF TypeInv
<1>2. CASE FailOperation(p)
  <2>1. \A s \in FailableStates : CanTransition(s, "FAILED")
    BY DEF FailableStates, CanTransition, AllowedTransitions
  <2>2. \/ op' = op
        \/ op[proc[p].op] \in FailableStates /\ op' = [op EXCEPT ![proc[p].op] = "FAILED"]
    BY <1>2 DEF FailOperation
  <2>3. QED
    BY <2>1, <2>2, OneEdge, SameStates
<1>3. CASE RecordInclusion(p)
  BY <1>3, OneEdge, SameStates DEF RecordInclusion, CanTransition, AllowedTransitions
<1>4. CASE RecordReorg(p)
  BY <1>4, OneEdge, SameStates DEF RecordReorg, CanTransition, AllowedTransitions
<1>5. CASE Settle(p)
  BY <1>5, OneEdge, SameStates DEF Settle
<1>6. CASE \/ Prepare(p) \/ Observe(p) \/ PollReceipt(p) \/ ReadReceipt(p)
           \/ ReadBlockHash(p) \/ ReadFinality(p) \/ Reconcile(p)
  BY <1>6, SameStates
     DEF Prepare, Observe, PollReceipt, ReadReceipt, ReadBlockHash, ReadFinality,
         Reconcile, dbVars
<1>7. QED
  BY <1>1, <1>2, <1>3, <1>4, <1>5, <1>6 DEF ExecutorStep

LEMMA RecoveryEdges ==
  ASSUME TypeInv, NEW p \in Procs, RecoveryStep(p) PROVE OnEdges
<1> USE DEF TypeInv
<1>1. CASE AbandonTx(p)
  BY <1>1, OneEdge, SameStates DEF AbandonTx, CanTransition, AllowedTransitions
<1>2. CASE Rebroadcast(p)
  BY <1>2, OneEdge, SameStates DEF Rebroadcast, CanTransition, AllowedTransitions
<1>3. CASE AdvanceToSubmitted(p)
  BY <1>3, OneEdge, SameStates DEF AdvanceToSubmitted, CanTransition, AllowedTransitions
<1>4. QED
  BY <1>1, <1>2, <1>3, SameStates
     DEF RecoveryStep, RecoverOne, RecoverSigning, Abandon, ResolveInFlight, LookUpHash,
         FinalizeOperation, dbVars

LEMMA ReplacementEdges ==
  ASSUME TypeInv, NEW p \in Procs, ReplacementStep(p) PROVE OnEdges
BY SameStates
   DEF ReplacementStep, FindStuck, ReplaceOne, RecoverBlockedLane, FindBlocking,
       ConfirmRecovery, dbVars

\* Every step of every process follows the machine.
LEMMA StepEdges == ASSUME TypeInv, [Next]_vars PROVE OnEdges
<1>1. CASE UNCHANGED vars
  BY <1>1, SameStates DEF vars
<1>2. ASSUME NEW p \in Procs, Crash(p) PROVE OnEdges
  BY <1>2, SameStates DEF Crash, dbVars
<1>3. QED
  BY <1>1, <1>2, EnvironmentEdges, ChainWriterEdges, ExecutorEdges, RecoveryEdges,
     ReplacementEdges DEF Next, ProcessStep

\* An operation only ever moves along the edges of ALLOWED_TRANSITIONS, although the
\* executor, the recovery sweep and the replacement sweep all write its state; a
\* terminal state, in particular, is never left.
THEOREM OperationsFollowTheMachine == Spec => MovesAlongEdges
<1>1. TypeInv /\ [Next]_vars
      => [\A o \in Ops : op'[o] # op[o] => CanTransition(op[o], op'[o])]_op
  BY StepEdges DEF OnEdges, OnEdge
<1>2. QED
  BY <1>1, TypeCorrect, PTL DEF Spec, MovesAlongEdges
=============================================================================
