--------------------------- MODULE RecoveryService ---------------------------
(***************************************************************************)
(* The recovery sweep: operations whose state has not moved for a while are*)
(* taken up again purely from PostgreSQL.  Staleness is a matter of time,  *)
(* which the model leaves open: any operation in a swept state may be      *)
(* found.  The state that decides the branch was read with the whole batch,*)
(* so it can be out of date when the branch runs.                          *)
(***************************************************************************)
EXTENDS OperationExecutor

\* recoverOne's switch on the state the sweep read.  A READY operation is only
\* queued again, which Claim already allows at any time.
RecoverySwitch ==
  [PREPARING         |-> "abandon",
   SIGNING           |-> "signing",
   SIGNED            |-> "resolve",
   BROADCASTING      |-> "resolve",
   BROADCAST_UNKNOWN |-> "resolve",
   SUBMITTED         |-> "finalize",
   INCLUDED          |-> "finalize"]

RecoverOne(p, o) ==
  /\ proc[p].pc = "idle"
  /\ op[o] \in DOMAIN RecoverySwitch
  /\ Begin(p, RecoverySwitch[op[o]], "recover", o, NoAttempt)
  /\ UNCHANGED <<dbVars, eligible, lateSigned, misread, chainVars>>

\* resumePendingSignature applies when the newest attempt has no bytes and its
\* signer request is outstanding; otherwise the operation is abandoned.
Resumable(o, a) ==
  IsLatestAttempt(o, a) /\ ~att[a].signed /\ req[a] = "PENDING"

RecoverSigning(p) ==
  LET o == proc[p].op IN
  /\ proc[p].pc = "signing"
  /\ \/ \E a \in Attempts : Resumable(o, a) /\ Begin(p, "resumeSig", "resume", o, a)
     \/ ~ (\E a \in Attempts : Resumable(o, a)) /\ Goto(p, "abandon")
  /\ UNCHANGED <<dbVars, eligible, lateSigned, misread, chainVars>>

\* abandonUnbroadcast reads the newest attempt before its transaction; stored
\* bytes send it to the in-flight path.
Abandon(p) ==
  LET o == proc[p].op IN
  /\ proc[p].pc = "abandon"
  /\ \/ /\ ~HasAttempt(o)
        /\ Goto(p, "abandonTx")
     \/ \E a \in Attempts :
          /\ IsLatestAttempt(o, a)
          /\ IF att[a].signed THEN Take(p, "resolve", NoAttempt)
             ELSE Take(p, "abandonTx", a)
  /\ UNCHANGED <<dbVars, eligible, lateSigned, misread, chainVars>>

\* Mutant: the claim is released instead of failed, as PREPARING allows.
ReleaseClaim(p) ==
  LET o == proc[p].op IN
  /\ proc[p].pc = "abandonTx"
  /\ op' = IF op[o] \in {"PREPARING", "SIGNING"} THEN [op EXCEPT ![o] = "READY"] ELSE op
  /\ Done(p)
  /\ UNCHANGED <<att, rows, nextNonce, req, eligible, lateSigned, misread, chainVars>>

\* Only PREPARING and SIGNING are failed, with the attempt read before.
AbandonTx(p) ==
  LET o == proc[p].op  a == proc[p].att IN
  /\ proc[p].pc = "abandonTx"
  /\ IF op[o] \in {"PREPARING", "SIGNING"}
     THEN /\ op' = [op EXCEPT ![o] = "FAILED"]
          /\ att' = IF a = NoAttempt THEN att
                    ELSE [att EXCEPT ![a] = WithStatus(a, "FAILED")]
     ELSE UNCHANGED <<op, att>>
  /\ Done(p)
  /\ UNCHANGED <<rows, nextNonce, req, eligible, lateSigned, misread, chainVars>>

\* resolveInFlight: no bytes means abandon; a superseded attempt is left to its
\* replacement; the hash of any other is looked up.
ResolveInFlight(p) ==
  LET o == proc[p].op IN
  /\ proc[p].pc = "resolve"
  /\ \/ /\ ~ \E a \in Attempts : IsLatestAttempt(o, a) /\ att[a].signed
        /\ Goto(p, "abandon")
     \/ \E a \in Attempts :
          /\ IsLatestAttempt(o, a)
          /\ att[a].signed
          /\ \/ att[a].status = "REPLACED" /\ Done(p)
             \/ /\ att[a].status # "REPLACED"
                /\ Take(p, "lookUp", a)
  /\ UNCHANGED <<dbVars, eligible, lateSigned, misread, chainVars>>

\* A receipt means the transaction landed; otherwise the identical bytes are sent again.
LookUpHash(p) ==
  /\ proc[p].pc = "lookUp"
  /\ Goto(p, IF Mined(proc[p].att) THEN "advance" ELSE "rebroadcast")
  /\ UNCHANGED <<dbVars, eligible, lateSigned, misread, chainVars>>

\* Mutant: an operation without a receipt is queued again as new work.
RequeueInFlight(p) ==
  /\ proc[p].pc = "rebroadcast"
  /\ op' = [op EXCEPT ![proc[p].op] = "READY"]
  /\ Done(p)
  /\ UNCHANGED <<att, rows, nextNonce, req, eligible, lateSigned, misread, chainVars>>

\* Mutant: the bytes are sent again while the operation stays where it was.
RebroadcastUnannounced(p) ==
  /\ proc[p].pc = "rebroadcast"
  /\ Goto(p, "recheck")
  /\ UNCHANGED <<dbVars, eligible, lateSigned, misread, chainVars>>

\* The operation returns to BROADCASTING from where that is an edge; the attempt
\* is marked BROADCASTING whatever state either is in by now.
Rebroadcast(p) ==
  LET o == proc[p].op  a == proc[p].att  row == WithStatus(a, "BROADCASTING") IN
  /\ proc[p].pc = "rebroadcast"
  /\ \/ /\ RowAllowed(a, row)
        /\ att' = [att EXCEPT ![a] = row]
        /\ op' = IF op[o] \in {"BROADCAST_UNKNOWN", "SIGNED"}
                 THEN [op EXCEPT ![o] = "BROADCASTING"] ELSE op
        /\ Goto(p, "recheck")
     \/ /\ ~RowAllowed(a, row)
        /\ Thrown(p)
        /\ UNCHANGED <<op, att>>
  /\ UNCHANGED <<rows, nextNonce, req, eligible, lateSigned, misread, chainVars>>

\* A transaction found on the chain advances its operation, then it is finalized.
AdvanceToSubmitted(p) ==
  LET o == proc[p].op IN
  /\ proc[p].pc = "advance"
  /\ op' = IF op[o] \in {"BROADCAST_UNKNOWN", "BROADCASTING"}
           THEN [op EXCEPT ![o] = "SUBMITTED"] ELSE op
  /\ Goto(p, "finalize")
  /\ UNCHANGED <<att, rows, nextNonce, req, eligible, lateSigned, misread, chainVars>>

\* finalize observes the newest attempt, if its hash is stored.
FinalizeOperation(p) ==
  LET o == proc[p].op IN
  /\ proc[p].pc = "finalize"
  /\ \/ \E a \in Attempts :
          /\ IsLatestAttempt(o, a)
          /\ att[a].signed
          /\ Take(p, "observe", a)
     \/ /\ ~ \E a \in Attempts : IsLatestAttempt(o, a) /\ att[a].signed
        /\ Done(p)
  /\ UNCHANGED <<dbVars, eligible, lateSigned, misread, chainVars>>

RecoveryStep(p) ==
  \/ \E o \in Ops : RecoverOne(p, o)
  \/ RecoverSigning(p) \/ Abandon(p) \/ AbandonTx(p)
  \/ ResolveInFlight(p) \/ LookUpHash(p) \/ Rebroadcast(p)
  \/ AdvanceToSubmitted(p) \/ FinalizeOperation(p)
=============================================================================
