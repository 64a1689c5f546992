----------------------------- MODULE ChainWriter -----------------------------
(***************************************************************************)
(* One allowlisted chain write with persist-before-broadcast semantics:    *)
(* reserve a nonce, ask the signer, persist the bytes, check once more that*)
(* the operation may execute, announce the broadcast, send, record.        *)
(*                                                                         *)
(* The hooks through which a caller moves its operation inside the same    *)
(* transactions depend on who runs the write, proc[p].via:                 *)
(*   "execute", "resume"  OperationExecutor.operationHooks                 *)
(*   "replace"            OperationExecutor.replacementHooks               *)
(*   "recover"            the hooks RecoveryService.resolveInFlight passes *)
(*   "lane"               no hooks (nonce recovery)                        *)
(***************************************************************************)
EXTENDS PipelineState

Throw == "THROW"

OperationHooks == {"execute", "resume"}

\* The state operationHooks moves the operation to, event by event.
HookTarget ==
  [onPrepared         |-> "SIGNING",
   onSigned           |-> "SIGNED",
   onBroadcasting     |-> "BROADCASTING",
   onSubmitted        |-> "SUBMITTED",
   onBroadcastUnknown |-> "BROADCAST_UNKNOWN",
   onFailed           |-> "FAILED"]

\* operationHooks.step: an edge the machine forbids throws and rolls back.
OperationHook(event, s) ==
  IF CanTransition(s, HookTarget[event]) THEN HookTarget[event] ELSE Throw

\* replacementHooks: only the broadcast outcome is followed, and only along an
\* edge the machine allows.
ReplacementHook(event, s) ==
  IF event \in {"onSubmitted", "onBroadcastUnknown"} /\ CanTransition(s, HookTarget[event])
  THEN HookTarget[event] ELSE s

\* The hooks of a rebroadcast: only an operation still in BROADCASTING moves.
RebroadcastHook(event, s) ==
  IF event \in {"onSubmitted", "onBroadcastUnknown"} /\ s = "BROADCASTING"
  THEN HookTarget[event] ELSE s

\* The state of the operation after the hook has run in state s, or Throw.
Hook(via, event, s) ==
  IF via \in OperationHooks THEN OperationHook(event, s)
  ELSE IF via = "replace" THEN ReplacementHook(event, s)
  ELSE RebroadcastHook(event, s)

\* An exception: OperationExecutor.execute turns it into failOperation, the sweeps
\* log it and go on.
Thrown(p) ==
  IF proc[p].via = "execute" THEN Goto(p, "failOp") ELSE Done(p)

\* One transaction that rewrites row a and runs a hook.  It commits only if the
\* row satisfies the table's constraints and the hook does not throw; the
\* database may refuse it at any time.
\* Mutant: an edge the machine forbids is stored instead of rolled back.
HookNeverThrows(p, event) == TRUE

HookPasses(p, event) ==
  proc[p].op # NoOp => Hook(proc[p].via, event, op[proc[p].op]) # Throw

RunHook(p, event) ==
  op' = IF proc[p].op = NoOp THEN op
        ELSE [op EXCEPT ![proc[p].op] = Hook(proc[p].via, event, op[proc[p].op])]

CommitRow(p, row, event) ==
  /\ RowAllowed(proc[p].att, row)
  /\ HookPasses(p, event)
  /\ att' = [att EXCEPT ![proc[p].att] = row]
  /\ RunHook(p, event)

RollBack(p) == Thrown(p) /\ UNCHANGED <<dbVars, lateSigned, misread>>

-----------------------------------------------------------------------------
(* execute *)

\* reserveNonce, insertPreparedAttempt and onPrepared in one transaction, with
\* the chain nonce the process read before (proc[p].seen).  A chain ahead of the
\* lane means the key was used elsewhere: NONCE_DIVERGENCE.
\* Mutant: the nonce comes from the chain alone.
NonceFromChain(p) == proc[p].seen

LaneNonce(p) == IF nextNonce = NoLane THEN proc[p].seen ELSE nextNonce

ReserveNonce(p) ==
  LET o == proc[p].op  n == LaneNonce(p) IN
  /\ proc[p].pc = "reserve"
  /\ proc[p].seen <= n
  /\ HookPasses(p, "onPrepared")
  /\ rows < MaxAttempts
  /\ rows' = rows + 1
  /\ att' = [att EXCEPT ![rows + 1] = PreparedRow(o, n, 0)]
  /\ nextNonce' = n + 1
  /\ RunHook(p, "onPrepared")
  /\ Take(p, "sign", rows + 1)
  /\ UNCHANGED <<req, eligible, lateSigned, misread, chainVars>>

ReserveFails(p) ==
  /\ proc[p].pc = "reserve"
  /\ proc[p].seen > LaneNonce(p) \/ ~HookPasses(p, "onPrepared")
  /\ Thrown(p)
  /\ UNCHANGED <<dbVars, eligible, lateSigned, misread, chainVars>>

\* Mutant: the signed bytes are sent before they are stored.
SendBeforePersist(p) ==
  LET a == proc[p].att IN
  /\ proc[p].pc = "sign"
  /\ req' = [req EXCEPT ![a] = "SIGNED"]
  /\ Goto(p, "send")
  /\ UNCHANGED <<op, att, rows, nextNonce, eligible, lateSigned, misread, chainVars>>

\* signer.requestSignature and recordSignerRequest.  PENDING ends the call; the
\* recovery sweep resumes it.  A signature that does not match the request is
\* found by verifySignedTransaction and fails the attempt.
RequestSignature(p) ==
  LET a == proc[p].att IN
  /\ proc[p].pc = "sign"
  /\ \/ /\ req' = [req EXCEPT ![a] = "PENDING"]
        /\ Done(p)
     \/ /\ req' = [req EXCEPT ![a] = "REJECTED"]
        /\ Goto(p, "rejected")
     \/ /\ req' = [req EXCEPT ![a] = "SIGNED"]
        /\ Goto(p, "persist") \/ Goto(p, "failAttempt")
     \/ /\ Thrown(p)               \* the provider cannot be reached
        /\ UNCHANGED req
  /\ UNCHANGED <<op, att, rows, nextNonce, eligible, lateSigned, misread, chainVars>>

\* resumeSignature: only an outstanding request is taken up again.  A lapsed one
\* is retired before the provider is asked.
ResumeSignature(p) ==
  LET a == proc[p].att IN
  /\ proc[p].pc = "resumeSig"
  /\ \/ /\ req[a] # "PENDING"
        /\ Done(p)
        /\ UNCHANGED req
     \/ /\ req[a] = "PENDING"
        /\ req' = [req EXCEPT ![a] = "EXPIRED"]
        /\ Goto(p, "failAttempt")
     \/ /\ req[a] = "PENDING"
        /\ Done(p) \/ Goto(p, "rejected") \/ Goto(p, "persist") \/ Goto(p, "failAttempt")
        /\ UNCHANGED req
  /\ UNCHANGED <<op, att, rows, nextNonce, eligible, lateSigned, misread, chainVars>>

-----------------------------------------------------------------------------
(* settleSignature *)

MarkRejected(p) ==
  /\ proc[p].pc = "rejected"
  /\ req' = [req EXCEPT ![proc[p].att] = "REJECTED"]
  /\ Goto(p, "failAttempt")
  /\ UNCHANGED <<op, att, rows, nextNonce, eligible, lateSigned, misread, chainVars>>

\* failAttempt: the row becomes FAILED and onFailed runs; the write is over.
FailAttempt(p) ==
  LET row == WithStatus(proc[p].att, "FAILED") IN
  /\ proc[p].pc = "failAttempt"
  /\ \/ /\ CommitRow(p, row, "onFailed")
        /\ Done(p)
        /\ UNCHANGED <<rows, nextNonce, req, lateSigned, misread>>
     \/ RollBack(p)
  /\ UNCHANGED <<eligible, chainVars>>

\* persistSignedAttempt, markSignerRequestSigned and onSigned in one transaction.
PersistSigned(p) ==
  LET a == proc[p].att
      row == [att[a] EXCEPT !.signed = TRUE, !.status = "SIGNED"] IN
  /\ proc[p].pc = "persist"
  /\ \/ /\ CommitRow(p, row, "onSigned")
        /\ req' = [req EXCEPT ![a] = "SIGNED"]
        /\ lateSigned' = IF proc[p].op # NoOp /\ ~eligible[proc[p].op]
                         THEN lateSigned \cup {a} ELSE lateSigned
        /\ Goto(p, "check")
        /\ UNCHANGED <<rows, nextNonce, misread>>
     \/ RollBack(p)
  /\ UNCHANGED <<eligible, chainVars>>

\* assertBroadcastAllowed: a cancelled operation, a recipient without an active
\* approval, or a compliance provider that does not answer withholds the signed
\* bytes.  A nonce recovery has no hooks and is not asked.
MayBroadcast(o) == o # NoOp => op[o] # "CANCELLED" /\ eligible[o]

AssertBroadcastAllowed(p) ==
  /\ proc[p].pc = "check"
  /\ \/ MayBroadcast(proc[p].op) /\ Goto(p, "announce")
     \/ proc[p].op # NoOp /\ Goto(p, "failAttempt")
  /\ UNCHANGED <<dbVars, eligible, lateSigned, misread, chainVars>>

\* BROADCASTING is committed before anything is sent.
AnnounceBroadcast(p) ==
  LET row == WithStatus(proc[p].att, "BROADCASTING") IN
  /\ proc[p].pc = "announce"
  /\ \/ /\ CommitRow(p, row, "onBroadcasting")
        /\ Goto(p, "recheck")
        /\ UNCHANGED <<rows, nextNonce, req, lateSigned, misread>>
     \/ RollBack(p)
  /\ UNCHANGED <<eligible, chainVars>>

-----------------------------------------------------------------------------
(* broadcast *)

\* The attempt is read again: superseded bytes are not put on the wire.
Recheck(p) ==
  /\ proc[p].pc = "recheck"
  /\ IF att[proc[p].att].status = "REPLACED" THEN Done(p) ELSE Goto(p, "send")
  /\ UNCHANGED <<dbVars, eligible, lateSigned, misread, chainVars>>

Outcome(p, out) == Report(p, "record", out)

\* Transactions a node holds at the nonce of a.
Rivals(a) == {b \in mempool : att[b].nonce = att[a].nonce}

\* A node takes a transaction whose nonce is not consumed, if it pays more than
\* the one it would displace.
Accepts(a) ==
  /\ att[a].nonce >= ChainNonce
  /\ \A b \in Rivals(a) : att[b].repl < att[a].repl

\* gateway.broadcastRawTransaction and classifyBroadcastError.  An answer can be
\* lost whether or not the node took the transaction; a deterministic rejection
\* proves that it did not.
Send(p) ==
  LET a == proc[p].att IN
  /\ proc[p].pc = "send"
  /\ \/ /\ Accepts(a)
        /\ mempool' = (mempool \ Rivals(a)) \cup {a}
        /\ Outcome(p, "SUBMITTED") \/ Outcome(p, "BROADCAST_UNKNOWN")
     \/ /\ a \in mempool \/ Mined(a)            \* already known
        /\ Outcome(p, "SUBMITTED")
        /\ UNCHANGED mempool
     \/ /\ Outcome(p, "BROADCAST_UNKNOWN")
        /\ UNCHANGED mempool
     \/ /\ a \notin mempool
        /\ att[a].nonce >= ChainNonce
        /\ Outcome(p, "FAILED")
        /\ UNCHANGED mempool
  /\ UNCHANGED <<dbVars, eligible, lateSigned, misread, chain, final, reorgs>>

OutcomeEvent ==
  [SUBMITTED         |-> "onSubmitted",
   BROADCAST_UNKNOWN |-> "onBroadcastUnknown",
   FAILED            |-> "onFailed"]

\* What the caller does with a SUBMITTED write: it goes on to observe it, except
\* for a rebroadcast and for the fee replacement of a nonce recovery.
Observes(p) == proc[p].via = "lane" \/ (proc[p].via # "recover" /\ proc[p].op # NoOp)

AfterBroadcast(p, out) ==
  IF out = "SUBMITTED" /\ Observes(p) THEN Report(p, "observe", "none") ELSE Done(p)

RecordOutcome(p) ==
  LET out == proc[p].out
      row == WithStatus(proc[p].att, out) IN
  /\ proc[p].pc = "record"
  /\ \/ /\ CommitRow(p, row, OutcomeEvent[out])
        /\ AfterBroadcast(p, out)
        /\ UNCHANGED <<rows, nextNonce, req, lateSigned, misread>>
     \/ RollBack(p)
  /\ UNCHANGED <<eligible, chainVars>>

-----------------------------------------------------------------------------
(* replaceFees, cancelNonce and their common signReplacement *)

\* Retire the row, insert its successor at the same nonce and link the two, in
\* one transaction.  Retiring a row another dispatcher retired first, or one the
\* table refuses (a REPLACED row must carry bytes), throws.
CanRetire(a) ==
  /\ att[a].status # "REPLACED"
  /\ RowAllowed(a, WithStatus(a, "REPLACED"))

\* Mutant: the successor is inserted while its predecessor stays live.
ReplaceWithoutRetiring(p, o) ==
  LET a == proc[p].att IN
  /\ rows < MaxAttempts
  /\ rows' = rows + 1
  /\ att' = [att EXCEPT ![rows + 1] = PreparedRow(o, att[a].nonce, att[a].repl + 1)]
  /\ Take(p, "sign", rows + 1)
  /\ UNCHANGED <<op, nextNonce, req, eligible, lateSigned, misread, chainVars>>

SignReplacement(p, o) ==
  LET a == proc[p].att IN
  /\ \/ /\ CanRetire(a)
        /\ rows < MaxAttempts
        /\ rows' = rows + 1
        /\ att' = [att EXCEPT ![a] = WithStatus(a, "REPLACED"),
                              ![rows + 1] = PreparedRow(o, att[a].nonce, att[a].repl + 1)]
        /\ Take(p, "sign", rows + 1)
     \/ /\ ~CanRetire(a)
        /\ Done(p)
        /\ UNCHANGED <<att, rows>>
  /\ UNCHANGED <<op, nextNonce, req, eligible, lateSigned, misread, chainVars>>

\* The same intent at a higher fee.
ReplaceFees(p) == proc[p].pc = "retire" /\ SignReplacement(p, proc[p].op)

\* A self-transfer without an operation at the blocked nonce.
CancelNonce(p) == proc[p].pc = "cancel" /\ SignReplacement(p, NoOp)

ChainWriterStep(p) ==
  \/ ReserveNonce(p) \/ ReserveFails(p)
  \/ RequestSignature(p) \/ ResumeSignature(p)
  \/ MarkRejected(p) \/ FailAttempt(p) \/ PersistSigned(p)
  \/ AssertBroadcastAllowed(p) \/ AnnounceBroadcast(p)
  \/ Recheck(p) \/ Send(p) \/ RecordOutcome(p)
  \/ ReplaceFees(p) \/ CancelNonce(p)
=============================================================================
