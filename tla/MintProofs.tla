------------------------------ MODULE MintProofs -----------------------------
(***************************************************************************)
(* At most one transaction of an operation is ever on the canonical chain, *)
(* and nothing reaches a node before its bytes are stored.                 *)
(*                                                                         *)
(* The argument: an operation reserves one nonce, because a reservation    *)
(* moves it out of PREPARING in the same transaction and nothing moves it  *)
(* back; a replacement inherits the nonce of the row it retires; and the   *)
(* chain has one transaction per nonce.                                    *)
(***************************************************************************)
EXTENDS PipelineProofs

\* Steps of a process that hold bytes to send, or have sent them.
SignedPcs == {"check", "announce", "recheck", "send", "record", "lookUp", "rebroadcast"}

\* Steps whose attempt belongs to the operation the process works for.
OwnerPcs == AttemptPcs \ {"cancel"}

\* What the steps of a process say about the row it holds.
Binds ==
  \A p \in Procs :
    /\ proc[p].pc \in SignedPcs => att[proc[p].att].signed
    /\ proc[p].pc \in OwnerPcs => att[proc[p].att].op = proc[p].op
    /\ proc[p].pc = "cancel" => proc[p].op = NoOp
    /\ proc[p].pc \in {"prepare", "reserve"} => proc[p].via = "execute" /\ proc[p].op \in Ops

\* An operation that has not been claimed, or not prepared, has no attempt.
NoAttemptBeforeSigning ==
  \A o \in Ops : op[o] \in {"PENDING_APPROVAL", "READY", "PREPARING"} => ~HasAttempt(o)

\* The i-th canonical transaction of the signer has nonce i - 1.
ChainByNonce ==
  \A i \in 1..Len(chain) : chain[i].att # Foreign =>
    chain[i].att \in 1..rows /\ att[chain[i].att].nonce = i - 1

MintInv ==
  /\ Binds
  /\ PersistBeforeBroadcast
  /\ NoAttemptBeforeSigning
  /\ OneReservationPerOperation
  /\ ChainByNonce

USE DEF Attempts, NoAttempt, NoLane, Foreign

-----------------------------------------------------------------------------
(* Rows keep their identity *)

\* No row disappears, changes its operation or its nonce, or loses its bytes.
RowsKept ==
  /\ rows <= rows' /\ rows' \in Nat
  /\ \A a \in 1..rows : /\ att'[a].op = att[a].op
                        /\ att'[a].nonce = att[a].nonce
                        /\ att[a].signed => att'[a].signed

\* row is what a still stands for.
Same(a, row) ==
  row.op = att[a].op /\ row.nonce = att[a].nonce /\ (att[a].signed => row.signed)

LEMMA SameRows == ASSUME TypeInv, UNCHANGED <<att, rows>> PROVE RowsKept
BY TypedProcs DEF RowsKept

LEMMA OneRow ==
  ASSUME TypeInv, NEW a, NEW row, att' = [att EXCEPT ![a] = row], rows' = rows, Same(a, row)
  PROVE  RowsKept
<1>1. rows \in Nat /\ 1..rows \subseteq Attempts
  BY TypedProcs, BoundsAssumption DEF TypeInv, TypeOK
<1>2. QED
  BY <1>1 DEF RowsKept, Same, TypeInv, TypeOK

LEMMA StatusIsSame ==
  ASSUME TypeInv, NEW a \in Attempts, NEW s PROVE Same(a, WithStatus(a, s))
<1>1. att[a] \in Row
  BY DEF TypeInv, TypeOK
<1>2. QED
  BY <1>1 DEF Same, WithStatus, Row

LEMMA ReceiptIsSame ==
  ASSUME TypeInv, NEW a \in Attempts, NEW out
  PROVE  Same(a, ReceiptRow(a, out)) /\ Same(a, RecoveryRow(a, out))
<1>1. att[a] \in Row
  BY DEF TypeInv, TypeOK
<1>2. QED
  BY <1>1 DEF Same, ReceiptRow, RecoveryRow, Row

LEMMA NewRowKeeps ==
  ASSUME TypeInv, NEW row, att' = [att EXCEPT ![rows + 1] = row], rows' = rows + 1
  PROVE  RowsKept
<1>1. rows \in Nat /\ 1..rows \subseteq Attempts
  BY TypedProcs, BoundsAssumption DEF TypeInv, TypeOK
<1>2. QED
  BY <1>1 DEF RowsKept, TypeInv, TypeOK

LEMMA ReplacementKeeps ==
  ASSUME TypeInv, NEW p \in Procs, NEW o, proc[p].pc \in AttemptPcs, SignReplacement(p, o)
  PROVE  RowsKept
<1> DEFINE a == proc[p].att
           q == PreparedRow(o, att[a].nonce, att[a].repl + 1)
<1>1. rows \in Nat /\ 1..rows \subseteq Attempts /\ a \in Attempts
  BY TypedProcs, HeldAttempt, BoundsAssumption DEF TypeInv, TypeOK
<1>2. Same(a, WithStatus(a, "REPLACED"))
  BY <1>1, StatusIsSame
<1>3. CASE rows' = rows + 1
           /\ att' = [att EXCEPT ![a] = WithStatus(a, "REPLACED"), ![rows + 1] = q]
  <2> HIDE DEF q
  <2>1. \A b \in 1..rows : att'[b] = IF b = a THEN WithStatus(a, "REPLACED") ELSE att[b]
    BY <1>1, <1>3 DEF TypeInv, TypeOK
  <2>2. \A b \in 1..rows : Same(b, att'[b])
    BY <1>2, <2>1 DEF Same
  <2>3. rows <= rows' /\ rows' \in Nat
    BY <1>1, <1>3
  <2>4. QED
    BY <2>2, <2>3 DEF RowsKept, Same
<1>4. QED
  BY <1>3, SameRows DEF SignReplacement

LEMMA ChainWriterKeeps ==
  ASSUME TypeInv, NEW p \in Procs, ChainWriterStep(p) PROVE RowsKept
<1> USE DEF dbVars
<1> DEFINE a == proc[p].att
<1>1. ASSUME NEW row, NEW event, CommitRow(p, row, event), rows' = rows, Same(a, row)
      PROVE  RowsKept
  BY <1>1, OneRow DEF CommitRow
<1>2. CASE ReserveNonce(p)
  BY <1>2, NewRowKeeps DEF ReserveNonce
<1>3. CASE ReserveFails(p) \/ RequestSignature(p) \/ ResumeSignature(p) \/ MarkRejected(p)
           \/ AssertBroadcastAllowed(p) \/ Recheck(p) \/ Send(p)
  BY <1>3, SameRows
     DEF ReserveFails, RequestSignature, ResumeSignature, MarkRejected,
         AssertBroadcastAllowed, Recheck, Send
<1>4. CASE FailAttempt(p) \/ AnnounceBroadcast(p) \/ RecordOutcome(p)
  <2>1. a \in Attempts
    BY <1>4, HeldAttempt DEF FailAttempt, AnnounceBroadcast, RecordOutcome, AttemptPcs
  <2>2. QED
    BY <1>1, <1>4, <2>1, StatusIsSame, SameRows
       DEF FailAttempt, AnnounceBroadcast, RecordOutcome, RollBack
<1>5. CASE PersistSigned(p)
  <2> DEFINE row == [att[a] EXCEPT !.signed = TRUE, !.status = "SIGNED"]
  <2>1. att[a] \in Row
    BY <1>5, HeldAttempt DEF PersistSigned, AttemptPcs, TypeInv, TypeOK
  <2>2. Same(a, row)
    BY <2>1 DEF Same, Row
  <2>3. (CommitRow(p, row, "onSigned") /\ rows' = rows) \/ UNCHANGED <<att, rows>>
    BY <1>5 DEF PersistSigned, RollBack
  <2> HIDE DEF row
  <2>4. QED
    BY <1>1, <2>2, <2>3, SameRows
<1>6. CASE ReplaceFees(p) \/ CancelNonce(p)
  BY <1>6, ReplacementKeeps DEF ReplaceFees, CancelNonce, AttemptPcs
<1>7. QED
  BY <1>2, <1>3, <1>4, <1>5, <1>6 DEF ChainWriterStep

LEMMA ExecutorKeeps ==
  ASSUME TypeInv, NEW p \in Procs, ExecutorStep(p) PROVE RowsKept
<1> USE DEF dbVars
<1>1. ASSUME NEW o \in Ops, Claim(p, o) PROVE RowsKept
  BY <1>1, SameRows DEF Claim
<1>2. CASE \/ Prepare(p) \/ Observe(p) \/ PollReceipt(p) \/ ReadReceipt(p)
           \/ ReadBlockHash(p) \/ ReadFinality(p) \/ Reconcile(p)
  BY <1>2, SameRows
     DEF Prepare, Observe, PollReceipt, ReadReceipt, ReadBlockHash, ReadFinality, Reconcile
<1>3. CASE FailOperation(p)
  <2>1. rows' = rows /\ rows \in Nat /\ 1..rows \subseteq Attempts
    BY <1>3, TypedProcs, BoundsAssumption DEF FailOperation, TypeInv, TypeOK
  <2>2. \A a \in Attempts : Same(a, WithStatus(a, "FAILED"))
    BY StatusIsSame
  <2>3. \A a \in Attempts : att'[a] = att[a] \/ att'[a] = WithStatus(a, "FAILED")
    BY <1>3 DEF FailOperation
  <2>4. QED
    BY <2>1, <2>2, <2>3 DEF RowsKept, Same
<1>4. CASE RecordInclusion(p)
  <2>1. proc[p].att \in Attempts
    BY <1>4, HeldAttempt DEF RecordInclusion, AttemptPcs
  <2>2. QED
    BY <1>4, <2>1, ReceiptIsSame, OneRow, SameRows DEF RecordInclusion
<1>5. CASE RecordReorg(p)
  <2> DEFINE row == [att[proc[p].att] EXCEPT !.status = "SUBMITTED", !.block = FALSE]
  <2>1. att[proc[p].att] \in Row
    BY <1>5, HeldAttempt DEF RecordReorg, AttemptPcs, TypeInv, TypeOK
  <2>2. Same(proc[p].att, row)
    BY <2>1 DEF Same, Row
  <2>3. rows' = rows /\ (att' = [att EXCEPT ![proc[p].att] = row] \/ att' = att)
    BY <1>5 DEF RecordReorg
  <2> HIDE DEF row
  <2>4. QED
    BY <2>2, <2>3, OneRow, SameRows
<1>6. CASE Settle(p)
  <2>1. proc[p].att \in Attempts
    BY <1>6, HeldAttempt DEF Settle, AttemptPcs
  <2>2. QED
    BY <1>6, <2>1, StatusIsSame, OneRow, SameRows DEF Settle
<1>7. QED
  BY <1>1, <1>2, <1>3, <1>4, <1>5, <1>6 DEF ExecutorStep

LEMMA RecoveryKeeps ==
  ASSUME TypeInv, NEW p \in Procs, RecoveryStep(p) PROVE RowsKept
<1> USE DEF dbVars
<1>1. CASE AbandonTx(p)
  <2>1. proc[p].att \in Attempts \cup {NoAttempt}
    BY DEF TypeInv, TypeOK, Process
  <2>2. QED
    BY <1>1, <2>1, StatusIsSame, OneRow, SameRows DEF AbandonTx
<1>2. CASE Rebroadcast(p)
  <2>1. proc[p].att \in Attempts
    BY <1>2, HeldAttempt DEF Rebroadcast, AttemptPcs
  <2>2. QED
    BY <1>2, <2>1, StatusIsSame, OneRow, SameRows DEF Rebroadcast
<1>3. QED
  BY <1>1, <1>2, SameRows
     DEF RecoveryStep, RecoverOne, RecoverSigning, Abandon, ResolveInFlight, LookUpHash,
         AdvanceToSubmitted, FinalizeOperation

LEMMA StepKeepsRows == ASSUME TypeInv, [Next]_vars PROVE RowsKept
<1> USE DEF dbVars
<1>1. CASE UNCHANGED vars
  BY <1>1, SameRows DEF vars
<1>2. ASSUME NEW p \in Procs, Crash(p) PROVE RowsKept
  BY <1>2, SameRows DEF Crash
<1>3. CASE Environment
  BY <1>3, SameRows
     DEF Environment, Mine, MineForeign, Evict, Finalize, Reorg, Revoke,
         ApprovalGranted, ApprovalRejected
<1>4. ASSUME NEW p \in Procs, ReplacementStep(p) PROVE RowsKept
  <2>1. CASE ConfirmRecovery(p)
    <3>1. proc[p].att \in Attempts
      BY <2>1, HeldAttempt DEF ConfirmRecovery, AttemptPcs
    <3>2. QED
      BY <2>1, <3>1, ReceiptIsSame, OneRow, SameRows DEF ConfirmRecovery
  <2>2. QED
    BY <1>4, <2>1, SameRows
       DEF ReplacementStep, FindStuck, ReplaceOne, RecoverBlockedLane, FindBlocking
<1>5. QED
  BY <1>1, <1>2, <1>3, <1>4, ChainWriterKeeps, ExecutorKeeps, RecoveryKeeps
     DEF Next, ProcessStep

-----------------------------------------------------------------------------
(* What a process holds stays bound to its row *)

LEMMA HoldsThen ==
  ASSUME TypeInv, Binds, RowsKept, NEW r \in Procs
  PROVE  /\ proc[r].pc \in SignedPcs => att'[proc[r].att].signed
         /\ proc[r].pc \in OwnerPcs => att'[proc[r].att].op = proc[r].op
<1>1. proc[r].pc \in AttemptPcs => proc[r].att \in 1..rows
  BY HeldAttempt
<1>2. SignedPcs \subseteq AttemptPcs /\ OwnerPcs \subseteq AttemptPcs
  BY DEF SignedPcs, OwnerPcs, AttemptPcs
<1>3. QED
  BY <1>1, <1>2 DEF Binds, RowsKept

LEMMA BindMoves ==
  ASSUME TypeInv, Binds, RowsKept, NEW p \in Procs, NEW q,
         proc' = [proc EXCEPT ![p] = q],
         q.pc \in SignedPcs => att'[q.att].signed,
         q.pc \in OwnerPcs => att'[q.att].op = q.op,
         q.pc = "cancel" => q.op = NoOp,
         q.pc \in {"prepare", "reserve"} => q.via = "execute" /\ q.op \in Ops
  PROVE  Binds'
<1>1. \A r \in Procs : proc'[r] = IF r = p THEN q ELSE proc[r]
  BY DEF TypeInv, TypeOK
<1>2. ASSUME NEW r \in Procs
      PROVE  /\ proc'[r].pc \in SignedPcs => att'[proc'[r].att].signed
             /\ proc'[r].pc \in OwnerPcs => att'[proc'[r].att].op = proc'[r].op
             /\ proc'[r].pc = "cancel" => proc'[r].op = NoOp
             /\ proc'[r].pc \in {"prepare", "reserve"} =>
                  proc'[r].via = "execute" /\ proc'[r].op \in Ops
  <2>1. CASE r = p
    BY <1>1, <2>1
  <2>2. CASE r # p
    BY <1>1, <2>2, HoldsThen DEF Binds
  <2>3. QED
    BY <2>1, <2>2
<1>3. QED
  BY <1>2 DEF Binds

LEMMA BindStays == ASSUME TypeInv, Binds, RowsKept, proc' = proc PROVE Binds'
BY HoldsThen DEF Binds

LEMMA BindDone ==
  ASSUME TypeInv, Binds, RowsKept, NEW p \in Procs, Done(p) PROVE Binds'
<1>1. IdleProcess.pc = "idle"
  BY DEF IdleProcess
<1>2. QED
  BY <1>1, BindMoves DEF Done, SignedPcs, OwnerPcs, AttemptPcs

\* A process that goes on with the row it holds.
LEMMA BindOn ==
  ASSUME TypeInv, Binds, RowsKept, NEW p \in Procs, NEW pc, pc # "cancel",
         \/ Goto(p, pc)
         \/ \E n : Read(p, pc, n)
         \/ \E out : Report(p, pc, out),
         pc \in SignedPcs => proc[p].pc \in SignedPcs \/ att'[proc[p].att].signed,
         pc \in OwnerPcs => proc[p].pc \in OwnerPcs,
         pc \in {"prepare", "reserve"} => proc[p].pc = "prepare"
  PROVE  Binds'
<1>1. PICK q : /\ proc' = [proc EXCEPT ![p] = q]
               /\ q.pc = pc /\ q.att = proc[p].att /\ q.op = proc[p].op /\ q.via = proc[p].via
  <2>1. proc[p] \in Process
    BY DEF TypeInv, TypeOK
  <2>2. CASE Goto(p, pc)
    <3> WITNESS [proc[p] EXCEPT !.pc = pc]
    <3>1. QED
      BY <2>1, <2>2 DEF Goto, Process
  <2>3. ASSUME NEW n, Read(p, pc, n)
        PROVE  \E q : /\ proc' = [proc EXCEPT ![p] = q]
                      /\ q.pc = pc /\ q.att = proc[p].att /\ q.op = proc[p].op
                      /\ q.via = proc[p].via
    <3> WITNESS [proc[p] EXCEPT !.pc = pc, !.seen = n]
    <3>1. QED
      BY <2>1, <2>3 DEF Read, Process
  <2>4. ASSUME NEW out, Report(p, pc, out)
        PROVE  \E q : /\ proc' = [proc EXCEPT ![p] = q]
                      /\ q.pc = pc /\ q.att = proc[p].att /\ q.op = proc[p].op
                      /\ q.via = proc[p].via
    <3> WITNESS [proc[p] EXCEPT !.pc = pc, !.seen = 0, !.out = out]
    <3>1. QED
      BY <2>1, <2>4 DEF Report, Process
  <2>5. QED
    BY <2>2, <2>3, <2>4
<1>2. QED
  BY <1>1, HoldsThen, BindMoves DEF Binds

LEMMA BindTake ==
  ASSUME TypeInv, Binds, RowsKept, NEW p \in Procs,
         NEW pc \in Pcs \ {"prepare", "reserve", "cancel"}, NEW a, Take(p, pc, a),
         pc \in SignedPcs => att'[a].signed,
         pc \in OwnerPcs => att'[a].op = proc[p].op
  PROVE  Binds'
<1> DEFINE q == [proc[p] EXCEPT !.pc = pc, !.att = a, !.seen = 0]
<1>1. proc[p] \in Process
  BY DEF TypeInv, TypeOK
<1>2. q.pc = pc /\ q.att = a /\ q.op = proc[p].op
  BY <1>1 DEF Process
<1>3. proc' = [proc EXCEPT ![p] = q]
  BY DEF Take
<1> HIDE DEF q
<1>4. QED
  BY <1>2, <1>3, BindMoves

LEMMA BindBegin ==
  ASSUME TypeInv, Binds, RowsKept, NEW p \in Procs, NEW pc, NEW via, NEW o, NEW a,
         Begin(p, pc, via, o, a),
         pc \in SignedPcs => att'[a].signed,
         pc \in OwnerPcs => att'[a].op = o,
         pc = "cancel" => o = NoOp,
         pc \in {"prepare", "reserve"} => via = "execute" /\ o \in Ops
  PROVE  Binds'
<1> DEFINE q == [pc |-> pc, via |-> via, op |-> o, att |-> a, seen |-> 0, out |-> "none"]
<1>1. q.pc = pc /\ q.via = via /\ q.op = o /\ q.att = a
  OBVIOUS
<1>2. proc' = [proc EXCEPT ![p] = q]
  BY DEF Begin
<1> HIDE DEF q
<1>3. QED
  BY <1>1, <1>2, BindMoves

LEMMA BindThrown ==
  ASSUME TypeInv, Binds, RowsKept, NEW p \in Procs, Thrown(p) PROVE Binds'
<1>1. CASE Done(p)
  BY <1>1, BindDone
<1>2. CASE Goto(p, "failOp")
  BY <1>2, BindOn DEF SignedPcs, OwnerPcs, AttemptPcs
<1>3. QED
  BY <1>1, <1>2 DEF Thrown

-----------------------------------------------------------------------------
(* Every step keeps what the processes know *)

\* The row a reservation or a replacement adds belongs to the process's operation.
LEMMA BindNewRow ==
  ASSUME TypeInv, Binds, RowsKept, NEW p \in Procs, Take(p, "sign", rows + 1),
         att'[rows + 1].op = proc[p].op
  PROVE  Binds'
BY BindTake DEF Pcs, SignedPcs

LEMMA ReplacementBinds ==
  ASSUME TypeInv, Binds, RowsKept, NEW p \in Procs, proc[p].pc \in AttemptPcs,
         SignReplacement(p, proc[p].op)
  PROVE  Binds'
<1> DEFINE a == proc[p].att
           q == PreparedRow(proc[p].op, att[a].nonce, att[a].repl + 1)
<1>1. CASE rows < MaxAttempts /\ Take(p, "sign", rows + 1)
           /\ att' = [att EXCEPT ![a] = WithStatus(a, "REPLACED"), ![rows + 1] = q]
  <2>1. rows + 1 \in Attempts /\ a # rows + 1
    BY <1>1, TypedProcs, HeldAttempt, BoundsAssumption
  <2>2. q.op = proc[p].op
    BY DEF PreparedRow
  <2> HIDE DEF q
  <2>3. att'[rows + 1] = q
    BY <1>1, <2>1 DEF TypeInv, TypeOK
  <2>4. QED
    BY <1>1, <2>2, <2>3, BindNewRow
<1>2. CASE Done(p)
  BY <1>2, BindDone
<1>3. QED
  BY <1>1, <1>2 DEF SignReplacement

LEMMA ChainWriterBinds ==
  ASSUME TypeInv, Binds, RowsKept, NEW p \in Procs, ChainWriterStep(p) PROVE Binds'
<1> USE DEF SignedPcs, OwnerPcs, AttemptPcs
<1> DEFINE a == proc[p].att
<1>1. CASE ReserveNonce(p)
  <2>1. rows + 1 \in Attempts
    BY <1>1, TypedProcs, BoundsAssumption DEF ReserveNonce
  <2>2. att'[rows + 1].op = proc[p].op
    BY <1>1, <2>1 DEF ReserveNonce, PreparedRow, TypeInv, TypeOK
  <2>3. QED
    BY <1>1, <2>2, BindNewRow DEF ReserveNonce
<1>2. CASE ReserveFails(p)
  BY <1>2, BindThrown DEF ReserveFails
<1>3. CASE RequestSignature(p)
  BY <1>3, BindThrown, BindDone, BindOn DEF RequestSignature
<1>4. CASE ResumeSignature(p)
  BY <1>4, BindDone, BindOn DEF ResumeSignature
<1>5. CASE MarkRejected(p)
  BY <1>5, BindOn DEF MarkRejected
<1>6. CASE FailAttempt(p)
  BY <1>6, BindDone, BindThrown DEF FailAttempt, RollBack
<1>7. CASE PersistSigned(p)
  <2>1. CASE RollBack(p)
    BY <2>1, BindThrown DEF RollBack
  <2>2. CASE Goto(p, "check")
             /\ att' = [att EXCEPT ![a] = [att[a] EXCEPT !.signed = TRUE, !.status = "SIGNED"]]
    <3>1. a \in Attempts /\ att[a] \in Row
      BY <1>7, HeldAttempt DEF PersistSigned, TypeInv, TypeOK
    <3>2. att'[a].signed
      BY <2>2, <3>1 DEF TypeInv, TypeOK, Row
    <3>3. QED
      BY <1>7, <2>2, <3>2, BindOn DEF PersistSigned
  <2>3. QED
    BY <1>7, <2>1, <2>2 DEF PersistSigned, CommitRow
<1>8. CASE AssertBroadcastAllowed(p)
  BY <1>8, BindOn DEF AssertBroadcastAllowed
<1>9. CASE AnnounceBroadcast(p)
  BY <1>9, BindOn, BindThrown DEF AnnounceBroadcast, RollBack
<1>10. CASE Recheck(p)
  BY <1>10, BindOn, BindDone DEF Recheck
<1>11. CASE Send(p)
  <2>1. PICK out : Report(p, "record", out)
    BY <1>11 DEF Send, Outcome
  <2>2. QED
    BY <1>11, <2>1, BindOn DEF Send
<1>12. CASE RecordOutcome(p)
  <2>1. Report(p, "observe", "none") \/ Done(p) \/ Thrown(p)
    BY <1>12 DEF RecordOutcome, AfterBroadcast, RollBack
  <2>2. QED
    BY <1>12, <2>1, BindOn, BindDone, BindThrown DEF RecordOutcome
<1>13. CASE ReplaceFees(p)
  BY <1>13, ReplacementBinds DEF ReplaceFees
<1>14. CASE CancelNonce(p)
  BY <1>14, ReplacementBinds DEF CancelNonce, Binds
<1>15. QED
  BY <1>1, <1>2, <1>3, <1>4, <1>5, <1>6, <1>7, <1>8, <1>9, <1>10, <1>11, <1>12, <1>13, <1>14
     DEF ChainWriterStep

LEMMA ExecutorBinds ==
  ASSUME TypeInv, Binds, RowsKept, NEW p \in Procs, ExecutorStep(p) PROVE Binds'
<1> USE DEF SignedPcs, OwnerPcs, AttemptPcs
<1>1. ASSUME NEW o \in Ops, Claim(p, o) PROVE Binds'
  BY <1>1, BindBegin DEF Claim
<1>2. CASE Prepare(p)
  BY <1>2, BindOn, BindThrown DEF Prepare
<1>3. CASE FailOperation(p)
  BY <1>3, BindDone DEF FailOperation
<1>4. CASE Observe(p)
  BY <1>4, BindOn, BindDone DEF Observe
<1>5. ASSUME NEW out, Observed(p, out), proc[p].pc \in OwnerPcs PROVE Binds'
  <2>1. PICK pc \in {"reorged", "include"} : Report(p, pc, out)
    BY <1>5 DEF Observed
  <2>2. QED
    BY <1>5, <2>1, BindOn
<1>6. CASE PollReceipt(p)
  <2>1. Done(p) \/ Goto(p, "receipt") \/ \E out \in ReceiptOutcomes : Observed(p, out)
    BY <1>6 DEF PollReceipt, ReceiptOutcomes
  <2>2. QED
    BY <1>5, <1>6, <2>1, BindOn, BindDone DEF PollReceipt
<1>7. CASE ReadReceipt(p)
  <2>1. (\E n : Read(p, "blockHash", n)) \/ \E out \in ReceiptOutcomes : Observed(p, out)
    BY <1>7 DEF ReadReceipt, ReceiptOutcomes
  <2>2. QED
    BY <1>5, <1>7, <2>1, BindOn DEF ReadReceipt
<1>8. CASE ReadBlockHash(p)
  <2>1. Goto(p, "finality") \/ \E out \in ReceiptOutcomes : Observed(p, out)
    BY <1>8 DEF ReadBlockHash, ReceiptOutcomes
  <2>2. QED
    BY <1>5, <1>8, <2>1, BindOn DEF ReadBlockHash
<1>9. CASE ReadFinality(p)
  <2>1. Read(p, "receipt", 0) \/ \E out \in ReceiptOutcomes : Observed(p, out)
    BY <1>9 DEF ReadFinality, ReceiptOutcomes
  <2>2. QED
    BY <1>5, <1>9, <2>1, BindOn DEF ReadFinality
<1>10. CASE RecordInclusion(p)
  BY <1>10, BindOn, BindDone, BindThrown DEF RecordInclusion, AfterInclusion
<1>11. CASE RecordReorg(p)
  BY <1>11, BindDone, BindThrown DEF RecordReorg
<1>12. CASE Reconcile(p)
  BY <1>12, BindOn, BindDone, BindThrown DEF Reconcile
<1>13. CASE Settle(p)
  BY <1>13, BindDone, BindThrown DEF Settle
<1>14. QED
  BY <1>1, <1>2, <1>3, <1>4, <1>6, <1>7, <1>8, <1>9, <1>10, <1>11, <1>12, <1>13
     DEF ExecutorStep

LEMMA RecoveryBinds ==
  ASSUME TypeInv, Binds, RowsKept, NEW p \in Procs, RecoveryStep(p) PROVE Binds'
<1> USE DEF SignedPcs, OwnerPcs, AttemptPcs, dbVars
<1>1. ASSUME NEW o \in Ops, RecoverOne(p, o) PROVE Binds'
  <2>1. PICK pc \in {"abandon", "signing", "resolve", "finalize"} :
          Begin(p, pc, "recover", o, NoAttempt)
    BY <1>1 DEF RecoverOne, RecoverySwitch
  <2>2. QED
    BY <2>1, BindBegin
<1>2. CASE RecoverSigning(p)
  BY <1>2, BindBegin, BindOn DEF RecoverSigning, Resumable, IsLatestAttempt
<1>3. CASE Abandon(p)
  BY <1>3, BindTake, BindOn DEF Abandon, Pcs
<1>4. CASE AbandonTx(p)
  BY <1>4, BindDone DEF AbandonTx
<1>5. CASE ResolveInFlight(p)
  <2>1. ASSUME NEW a \in Attempts, IsLatestAttempt(proc[p].op, a), att[a].signed,
               Take(p, "lookUp", a), att' = att
        PROVE  Binds'
    BY <2>1, BindTake DEF IsLatestAttempt, Pcs
  <2>2. QED
    BY <1>5, <2>1, BindOn, BindDone DEF ResolveInFlight
<1>6. CASE LookUpHash(p)
  BY <1>6, BindOn DEF LookUpHash
<1>7. CASE Rebroadcast(p)
  BY <1>7, BindOn, BindThrown DEF Rebroadcast
<1>8. CASE AdvanceToSubmitted(p)
  BY <1>8, BindOn DEF AdvanceToSubmitted
<1>9. CASE FinalizeOperation(p)
  BY <1>9, BindTake, BindDone DEF FinalizeOperation, IsLatestAttempt, Pcs
<1>10. QED
  BY <1>1, <1>2, <1>3, <1>4, <1>5, <1>6, <1>7, <1>8, <1>9 DEF RecoveryStep

LEMMA SweepBinds ==
  ASSUME TypeInv, Binds, RowsKept, NEW p \in Procs, ReplacementStep(p) PROVE Binds'
<1> USE DEF SignedPcs, OwnerPcs, AttemptPcs, dbVars
<1>1. ASSUME NEW a \in Attempts, FindStuck(p, a) PROVE Binds'
  BY <1>1, BindBegin DEF FindStuck
<1>2. CASE ReplaceOne(p)
  BY <1>2, BindOn, BindDone DEF ReplaceOne
<1>3. CASE RecoverBlockedLane(p)
  BY <1>3, BindOn DEF RecoverBlockedLane
<1>4. CASE FindBlocking(p)
  <2>1. ASSUME NEW a, att[a].op = NoOp, att' = att, ResumeRecovery(p, a) PROVE Binds'
    BY <2>1, BindBegin DEF ResumeRecovery
  <2>2. ASSUME NEW a, Begin(p, "cancel", "lane", NoOp, a) PROVE Binds'
    BY <2>2, BindBegin
  <2>3. QED
    BY <1>4, <2>1, <2>2, BindDone DEF FindBlocking
<1>5. CASE ConfirmRecovery(p)
  BY <1>5, BindDone DEF ConfirmRecovery
<1>6. QED
  BY <1>1, <1>2, <1>3, <1>4, <1>5 DEF ReplacementStep

LEMMA StepKeepsBinds == ASSUME TypeInv, Binds, [Next]_vars PROVE Binds'
<1>1. RowsKept
  BY StepKeepsRows
<1>2. CASE UNCHANGED vars
  BY <1>1, <1>2, BindStays DEF vars
<1>3. ASSUME NEW p \in Procs, Crash(p) PROVE Binds'
  BY <1>1, <1>3, BindDone DEF Crash
<1>4. CASE Environment
  BY <1>1, <1>4, BindStays
     DEF Environment, Mine, MineForeign, Evict, Finalize, Reorg, Revoke,
         ApprovalGranted, ApprovalRejected
<1>5. QED
  BY <1>1, <1>2, <1>3, <1>4, ChainWriterBinds, ExecutorBinds, RecoveryBinds, SweepBinds
     DEF Next, ProcessStep

-----------------------------------------------------------------------------
(* What a step can add: at most one row, and transactions already stored *)

\* A new row belongs to no operation, or is the first one of an operation that
\* enters SIGNING with it, or takes the place of another row at the same nonce.
NewRowOK ==
  \/ rows' = rows
  \/ /\ rows' = rows + 1
     /\ \/ att'[rows + 1].op = NoOp
        \/ /\ ~HasAttempt(att'[rows + 1].op)
           /\ op'[att'[rows + 1].op] = "SIGNING"
        \/ \E b \in 1..rows : /\ att[b].op = att'[rows + 1].op
                              /\ att[b].nonce = att'[rows + 1].nonce

LEMMA ReservationOK ==
  ASSUME TypeInv, Binds, NoAttemptBeforeSigning, NEW p \in Procs, ReserveNonce(p)
  PROVE  NewRowOK
<1> DEFINE o == proc[p].op
<1>1. o \in Ops /\ proc[p].via = "execute"
  BY DEF ReserveNonce, Binds
<1>2. Hook("execute", "onPrepared", op[o]) # Throw
  BY <1>1, NoOpAssumption DEF ReserveNonce, HookPasses
<1>3. Hook("execute", "onPrepared", op[o]) = "SIGNING" /\ CanTransition(op[o], "SIGNING")
  BY <1>2 DEF Hook, OperationHook, OperationHooks, HookTarget
<1>4. op[o] = "PREPARING"
  <2>1. op[o] \in OperationState
    BY <1>1 DEF TypeInv, TypeOK
  <2>2. QED
    BY <1>3, <2>1 DEF CanTransition, AllowedTransitions, OperationState, PreChainStates,
                      ChainInflightStates, TerminalStates
<1>5. ~HasAttempt(o)
  BY <1>1, <1>4 DEF NoAttemptBeforeSigning
<1>6. op'[o] = "SIGNING"
  BY <1>1, <1>3, NoOpAssumption DEF ReserveNonce, RunHook, TypeInv, TypeOK
<1>7. rows' = rows + 1 /\ att'[rows + 1].op = o
  <2>1. rows + 1 \in Attempts
    BY TypedProcs, BoundsAssumption DEF ReserveNonce
  <2>2. QED
    BY <2>1 DEF ReserveNonce, PreparedRow, TypeInv, TypeOK
<1>8. QED
  BY <1>5, <1>6, <1>7 DEF NewRowOK

LEMMA ReplacementOK ==
  ASSUME TypeInv, Binds, NEW p \in Procs, ReplaceFees(p) \/ CancelNonce(p)
  PROVE  NewRowOK
<1> DEFINE a == proc[p].att
           q(o) == PreparedRow(o, att[a].nonce, att[a].repl + 1)
<1>1. a \in 1..rows /\ rows \in Nat
  BY HeldAttempt, TypedProcs DEF ReplaceFees, CancelNonce, AttemptPcs
<1>2. ASSUME NEW o, rows < MaxAttempts,
             att' = [att EXCEPT ![a] = WithStatus(a, "REPLACED"), ![rows + 1] = q(o)]
      PROVE  att'[rows + 1].op = o /\ att'[rows + 1].nonce = att[a].nonce
  <2>1. rows + 1 \in Attempts /\ a # rows + 1
    BY <1>1, <1>2, BoundsAssumption
  <2>2. q(o).op = o /\ q(o).nonce = att[a].nonce
    BY DEF PreparedRow
  <2> HIDE DEF q
  <2>3. QED
    BY <1>2, <2>1, <2>2 DEF TypeInv, TypeOK
<1>3. CASE ReplaceFees(p)
  <2>1. att[a].op = proc[p].op
    BY <1>3 DEF ReplaceFees, Binds, OwnerPcs, AttemptPcs
  <2>2. QED
    BY <1>1, <1>2, <1>3, <2>1 DEF ReplaceFees, SignReplacement, NewRowOK
<1>4. CASE CancelNonce(p)
  BY <1>2, <1>4 DEF CancelNonce, SignReplacement, NewRowOK
<1>5. QED
  BY <1>3, <1>4

LEMMA StepAddsRow ==
  ASSUME TypeInv, Binds, NoAttemptBeforeSigning, [Next]_vars PROVE NewRowOK
<1> USE DEF dbVars
<1>1. ASSUME NEW p \in Procs, ChainWriterStep(p) PROVE NewRowOK
  <2>1. CASE ReserveNonce(p) \/ ReplaceFees(p) \/ CancelNonce(p)
    BY <2>1, ReservationOK, ReplacementOK
  <2>2. QED
    BY <1>1, <2>1
       DEF ChainWriterStep, ReserveFails, RequestSignature, ResumeSignature, MarkRejected,
           FailAttempt, PersistSigned, AssertBroadcastAllowed, AnnounceBroadcast, Recheck,
           Send, RecordOutcome, RollBack, NewRowOK
<1>2. ASSUME NEW p \in Procs, ExecutorStep(p) \/ RecoveryStep(p) PROVE rows' = rows
  BY <1>2 DEF ExecutorStep, Claim, Prepare, FailOperation, Observe, PollReceipt,
              ReadReceipt, ReadBlockHash, ReadFinality, RecordInclusion, RecordReorg,
              Reconcile, Settle, RecoveryStep, RecoverOne, RecoverSigning, Abandon,
              AbandonTx, ResolveInFlight, LookUpHash, Rebroadcast, AdvanceToSubmitted,
              FinalizeOperation
<1>3. ASSUME NEW p \in Procs, ReplacementStep(p) \/ Crash(p) PROVE rows' = rows
  BY <1>3 DEF ReplacementStep, FindStuck, ReplaceOne, RecoverBlockedLane, FindBlocking,
              ConfirmRecovery, Crash
<1>4. Environment \/ UNCHANGED vars => rows' = rows
  BY DEF Environment, Mine, MineForeign, Evict, Finalize, Reorg, Revoke,
         ApprovalGranted, ApprovalRejected, vars
<1>5. QED
  BY <1>1, <1>2, <1>3, <1>4 DEF Next, ProcessStep, NewRowOK

\* The nodes come to hold only what a process with stored bytes sends, or what a
\* reorganisation gives back; a block is mined from what they hold, at its nonce.
NodesOK ==
  /\ \A a \in mempool' : a \in mempool \/ Mined(a) \/ (a \in 1..rows /\ att[a].signed)
  /\ \A i \in 1..Len(chain') :
       \/ i \in 1..Len(chain) /\ chain'[i] = chain[i]
       \/ chain'[i].att = Foreign
       \/ /\ i = Len(chain) + 1
          /\ chain'[i].att \in mempool
          /\ att[chain'[i].att].nonce = Len(chain)

LEMMA SameNodes == ASSUME mempool' = mempool, chain' = chain PROVE NodesOK
BY DEF NodesOK

LEMMA SendOK == ASSUME TypeInv, Binds, NEW p \in Procs, Send(p) PROVE NodesOK
<1>1. proc[p].att \in 1..rows /\ att[proc[p].att].signed
  BY HeldAttempt DEF Send, Binds, SignedPcs, AttemptPcs
<1>2. mempool' \subseteq mempool \cup {proc[p].att} /\ chain' = chain
  BY DEF Send
<1>3. QED
  BY <1>1, <1>2 DEF NodesOK

LEMMA EnvironmentOK == ASSUME TypeInv, Environment PROVE NodesOK
<1>1. ASSUME NEW a \in Attempts, Mine(a) PROVE NodesOK
  <2>1. PICK ok \in BOOLEAN : chain' = Append(chain, [att |-> a, ok |-> ok, id |-> reorgs])
    BY <1>1 DEF Mine
  <2>2. [att |-> a, ok |-> ok, id |-> reorgs] \in Block
    BY DEF Block, TypeInv, TypeOK
  <2>3. /\ Len(chain) \in Nat /\ Len(chain') = Len(chain) + 1
        /\ \A i \in 1..Len(chain) : chain'[i] = chain[i]
        /\ chain'[Len(chain) + 1].att = a
    BY <2>1, <2>2, ChainGrows DEF TypeInv
  <2>4. a \in mempool /\ att[a].nonce = Len(chain) /\ mempool' \subseteq mempool
    BY <1>1 DEF Mine, ChainNonce
  <2>5. QED
    BY <2>3, <2>4 DEF NodesOK
<1>2. CASE MineForeign
  <2>1. [att |-> Foreign, ok |-> TRUE, id |-> reorgs] \in Block
    BY DEF Block, TypeInv, TypeOK
  <2>2. /\ Len(chain) \in Nat /\ Len(chain') = Len(chain) + 1
        /\ \A i \in 1..Len(chain) : chain'[i] = chain[i]
        /\ chain'[Len(chain) + 1].att = Foreign
    BY <1>2, <2>1, ChainGrows DEF MineForeign, TypeInv
  <2>3. mempool' \subseteq mempool
    BY <1>2 DEF MineForeign
  <2>4. QED
    BY <2>2, <2>3 DEF NodesOK
<1>3. CASE Reorg
  <2>1. /\ Len(chain) \in Nat \ {0} /\ Len(chain') = Len(chain) - 1
        /\ \A i \in 1..(Len(chain) - 1) : chain'[i] = chain[i]
    BY <1>3, ChainShrinks DEF Reorg, TypeInv
  <2>2. Mined(chain[Len(chain)].att)
    BY <2>1 DEF Mined, BlocksOf
  <2>3. mempool' \subseteq mempool \cup {chain[Len(chain)].att}
    BY <1>3 DEF Reorg
  <2>4. QED
    BY <2>1, <2>2, <2>3 DEF NodesOK
<1>4. CASE \E a \in Attempts : Evict(a)
  BY <1>4 DEF Evict, NodesOK
<1>5. QED
  BY <1>1, <1>2, <1>3, <1>4, SameNodes
     DEF Environment, Finalize, Revoke, ApprovalGranted, ApprovalRejected, chainVars

LEMMA StepMovesNodes == ASSUME TypeInv, Binds, [Next]_vars PROVE NodesOK
<1> USE DEF chainVars
<1>1. ASSUME NEW p \in Procs, ChainWriterStep(p) PROVE NodesOK
  BY <1>1, SendOK, SameNodes
     DEF ChainWriterStep, ReserveNonce, ReserveFails, RequestSignature, ResumeSignature,
         MarkRejected, FailAttempt, PersistSigned, AssertBroadcastAllowed,
         AnnounceBroadcast, Recheck, RecordOutcome, ReplaceFees, CancelNonce, SignReplacement
<1>2. ASSUME NEW p \in Procs, ExecutorStep(p) \/ RecoveryStep(p) PROVE NodesOK
  BY <1>2, SameNodes
     DEF ExecutorStep, Claim, Prepare, FailOperation, Observe, PollReceipt,
         ReadReceipt, ReadBlockHash, ReadFinality, RecordInclusion, RecordReorg,
         Reconcile, Settle, RecoveryStep, RecoverOne, RecoverSigning, Abandon, AbandonTx,
         ResolveInFlight, LookUpHash, Rebroadcast, AdvanceToSubmitted, FinalizeOperation
<1>3. ASSUME NEW p \in Procs, ReplacementStep(p) \/ Crash(p) PROVE NodesOK
  BY <1>3, SameNodes
     DEF ReplacementStep, FindStuck, ReplaceOne, RecoverBlockedLane, FindBlocking,
         ConfirmRecovery, Crash
<1>4. CASE UNCHANGED vars
  BY <1>4, SameNodes DEF vars
<1>5. QED
  BY <1>1, <1>2, <1>3, <1>4, EnvironmentOK DEF Next, ProcessStep

-----------------------------------------------------------------------------
(* The invariant *)

EarlyStates == {"PENDING_APPROVAL", "READY", "PREPARING"}

\* No edge leads back to a state before signing.
LEMMA NoWayBack ==
  ASSUME TypeInv, OnEdges, NEW o \in Ops, op'[o] \in EarlyStates
  PROVE  op[o] \in EarlyStates
<1>1. op[o] \in OperationState
  BY DEF TypeInv, TypeOK
<1>2. op'[o] = op[o] \/ op'[o] \in AllowedTransitions[op[o]]
  BY DEF OnEdges, OnEdge, CanTransition
<1>3. QED
  BY <1>1, <1>2 DEF AllowedTransitions, OperationState, PreChainStates,
                    ChainInflightStates, TerminalStates, EarlyStates

LEMMA MintStep ==
  ASSUME TypeInv, MintInv, [Next]_vars PROVE MintInv'
<1>1. RowsKept /\ NewRowOK /\ NodesOK /\ OnEdges /\ Binds'
  BY StepKeepsRows, StepAddsRow, StepMovesNodes, StepEdges, StepKeepsBinds DEF MintInv
<1>2. rows \in Nat /\ rows' \in Nat /\ Len(chain) \in Nat
  BY <1>1, TypedProcs, LenProperties DEF RowsKept, TypeInv, TypeOK
<1>3. NoAttemptBeforeSigning'
  <2> SUFFICES ASSUME NEW o \in Ops, op'[o] \in EarlyStates,
                      NEW a \in 1..rows', att'[a].op = o
               PROVE  FALSE
    BY DEF NoAttemptBeforeSigning, HasAttempt, EarlyStates
  <2>1. ~HasAttempt(o)
    BY <1>1, NoWayBack DEF MintInv, NoAttemptBeforeSigning, EarlyStates
  <2>2. a \notin 1..rows
    BY <1>1, <2>1 DEF RowsKept, HasAttempt
  <2>3. rows' = rows + 1 /\ a = rows + 1
    BY <1>1, <1>2, <2>2 DEF NewRowOK
  <2>4. QED
    BY <1>1, <2>1, <2>3, NoOpAssumption DEF NewRowOK, HasAttempt, EarlyStates
<1>4. OneReservationPerOperation'
  <2>1. ASSUME NEW a \in 1..rows, NEW b \in 1..rows, att'[a].op = att'[b].op, att'[a].op # NoOp
        PROVE  att'[a].nonce = att'[b].nonce
    BY <1>1, <2>1 DEF RowsKept, MintInv, OneReservationPerOperation
  <2>2. ASSUME rows' = rows + 1, NEW a \in 1..rows, att'[a].op = att'[rows + 1].op,
               att'[a].op # NoOp
        PROVE  att'[a].nonce = att'[rows + 1].nonce
    <3>1. att[a].op = att'[a].op /\ att[a].nonce = att'[a].nonce
      BY <1>1 DEF RowsKept
    <3>2. HasAttempt(att'[rows + 1].op)
      BY <2>2, <3>1 DEF HasAttempt
    <3>3. PICK b \in 1..rows : /\ att[b].op = att'[rows + 1].op
                               /\ att[b].nonce = att'[rows + 1].nonce
      BY <1>1, <1>2, <2>2, <3>2 DEF NewRowOK
    <3>4. QED
      BY <2>2, <3>1, <3>3 DEF MintInv, OneReservationPerOperation
  <2>3. rows' = rows \/ rows' = rows + 1
    BY <1>1 DEF NewRowOK
  <2>4. \A a \in 1..rows' : a \in 1..rows \/ (rows' = rows + 1 /\ a = rows + 1)
    BY <1>2, <2>3
  <2>5. QED
    BY <2>1, <2>2, <2>4 DEF OneReservationPerOperation
<1>5. PersistBeforeBroadcast'
  <2> SUFFICES ASSUME NEW a \in Attempts, a \in mempool' \/ Mined(a)'
               PROVE  a <= rows' /\ att'[a].signed
    BY DEF PersistBeforeBroadcast
  <2>1. a \in mempool \/ Mined(a) \/ (a \in 1..rows /\ att[a].signed)
    <3>1. CASE a \in mempool'
      BY <1>1, <3>1 DEF NodesOK
    <3>2. CASE Mined(a)'
      <4>1. PICK i \in 1..Len(chain') : chain'[i].att = a
        BY <3>2 DEF Mined, BlocksOf
      <4>2. a # Foreign
        OBVIOUS
      <4>3. QED
        BY <1>1, <4>1, <4>2 DEF NodesOK, Mined, BlocksOf
    <3>3. QED
      BY <3>1, <3>2
  <2>2. a \in 1..rows /\ att[a].signed
    BY <1>2, <2>1 DEF MintInv, PersistBeforeBroadcast
  <2>3. QED
    BY <1>1, <1>2, <2>2 DEF RowsKept
<1>6. ChainByNonce'
  <2> SUFFICES ASSUME NEW i \in 1..Len(chain'), chain'[i].att # Foreign
               PROVE  chain'[i].att \in 1..rows' /\ att'[chain'[i].att].nonce = i - 1
    BY DEF ChainByNonce
  <2>1. chain'[i].att \in 1..rows /\ att[chain'[i].att].nonce = i - 1
    <3>1. CASE i \in 1..Len(chain) /\ chain'[i] = chain[i]
      BY <3>1 DEF MintInv, ChainByNonce
    <3>2. CASE /\ i = Len(chain) + 1
               /\ chain'[i].att \in mempool
               /\ att[chain'[i].att].nonce = Len(chain)
      <4>1. chain'[i].att \in Attempts
        BY <3>2 DEF TypeInv, TypeOK
      <4>2. QED
        BY <1>2, <3>2, <4>1 DEF MintInv, PersistBeforeBroadcast
    <3>3. QED
      BY <1>1, <3>1, <3>2 DEF NodesOK
  <2>2. QED
    BY <1>1, <1>2, <2>1 DEF RowsKept
<1>7. QED
  BY <1>1, <1>3, <1>4, <1>5, <1>6 DEF MintInv

LEMMA InitMint == Init => MintInv
<1> SUFFICES ASSUME Init PROVE MintInv
  OBVIOUS
<1>1. \A p \in Procs : proc[p].pc = "idle"
  BY DEF Init, IdleProcess
<1>2. Binds
  BY <1>1 DEF Binds, SignedPcs, OwnerPcs, AttemptPcs
<1>3. rows = 0 /\ mempool = {} /\ Len(chain) = 0
  BY EmptySeq DEF Init
<1>4. QED
  BY <1>2, <1>3 DEF MintInv, PersistBeforeBroadcast, NoAttemptBeforeSigning, HasAttempt,
                    OneReservationPerOperation, ChainByNonce, Mined, BlocksOf

\* The conjunction of the facts that hold each other up is an invariant.
THEOREM MintInvariant == Spec => []MintInv
<1>1. MintInv /\ TypeInv /\ [Next]_vars => MintInv'
  BY MintStep
<1>2. QED
  BY <1>1, InitMint, TypeCorrect, PTL DEF Spec

\* A node holds or has mined nothing whose bytes and hash are not stored, whichever
\* process crashed where (settleSignature persists before broadcast sends).
THEOREM StoredBeforeSent == Spec => []PersistBeforeBroadcast
<1>1. MintInv => PersistBeforeBroadcast
  BY DEF MintInv
<1>2. QED
  BY <1>1, MintInvariant, PTL

\* An operation holds one nonce, however many deliveries, sweeps and replacements
\* work on it (claimReadyOperation, reserveNonce, signReplacement).
THEOREM OneNoncePerOperation == Spec => []OneReservationPerOperation
<1>1. MintInv => OneReservationPerOperation
  BY DEF MintInv
<1>2. QED
  BY <1>1, MintInvariant, PTL

\* The canonical chain never has two transactions of one operation, whatever was
\* retried, replaced, rebroadcast or reorganised.
THEOREM NoDoubleMint == Spec => []AtMostOneMint
<1>1. MintInv /\ TypeInv => AtMostOneMint
  <2> SUFFICES ASSUME MintInv, TypeInv, NEW i \in 1..Len(chain), NEW j \in 1..Len(chain),
                      chain[i].att # Foreign, chain[j].att # Foreign,
                      att[chain[i].att].op = att[chain[j].att].op,
                      att[chain[i].att].op # NoOp
               PROVE  i = j
    BY DEF AtMostOneMint
  <2>1. /\ chain[i].att \in 1..rows /\ att[chain[i].att].nonce = i - 1
        /\ chain[j].att \in 1..rows /\ att[chain[j].att].nonce = j - 1
    BY DEF MintInv, ChainByNonce
  <2>2. i - 1 = j - 1 /\ Len(chain) \in Nat
    BY <2>1, LenProperties DEF MintInv, OneReservationPerOperation, TypeInv, TypeOK
  <2>3. QED
    BY <2>2
<1>2. QED
  BY <1>1, MintInvariant, TypeCorrect, PTL
=============================================================================
