------------------------- MODULE ReplacementService --------------------------
(***************************************************************************)
(* The replacement sweep: broadcast attempts that stay without inclusion   *)
(* are replaced at the same nonce with a higher fee, and a lane whose next *)
(* nonce is held by an abandoned attempt is cleared with a self-transfer.  *)
(***************************************************************************)
EXTENDS RecoveryService

StuckStatuses == {"SUBMITTED", "BROADCASTING", "BROADCAST_UNKNOWN"}

\* findStuckAttempts: how long the row has been unchanged is left open.
FindStuck(p, a) ==
  /\ proc[p].pc = "idle"
  /\ a \in 1..rows
  /\ att[a].status \in StuckStatuses
  /\ ~att[a].block
  /\ att[a].repl < MaxReplacements
  /\ Begin(p, "stuck", "replace", att[a].op, a)
  /\ UNCHANGED <<dbVars, eligible, lateSigned, misread, chainVars>>

\* replaceOne: inclusion beats replacement, and a settled operation is left alone.
ReplaceOne(p) ==
  LET a == proc[p].att  o == proc[p].op
      mayReplace == ~Mined(a) /\ (o # NoOp => op[o] \notin TerminalStates) IN
  /\ proc[p].pc = "stuck"
  /\ IF att[a].signed /\ mayReplace THEN Goto(p, "retire") ELSE Done(p)
  /\ UNCHANGED <<dbVars, eligible, lateSigned, misread, chainVars>>

\* The attempt will never be mined: it failed and has no inclusion evidence.
IsAbandoned(a) == att[a].status = "FAILED" /\ ~att[a].block

\* resumeRecovery: a nonce recovery that exists already is finished, not doubled.
ResumeRecovery(p, a) ==
  /\ att[a].status # "FAILED"
  /\ Begin(p, IF att[a].signed THEN "recheck" ELSE "resumeSig", "lane", NoOp, a)

\* recoverBlockedLane: the chain's next nonce is read first; if the lane has given
\* it out, its live attempt is a recovery to resume, an abandoned attempt to cancel,
\* or none of the sweep's business.
RecoverBlockedLane(p) ==
  /\ proc[p].pc = "idle"
  /\ ChainNonce < nextNonce
  /\ Read(p, "lane", ChainNonce)
  /\ UNCHANGED <<dbVars, eligible, lateSigned, misread, chainVars>>

Blocking(a, n) == Live(a) /\ att[a].nonce = n

FindBlocking(p) ==
  LET Leave(a) == IF att[a].op = NoOp THEN att[a].status = "FAILED" ELSE ~IsAbandoned(a) IN
  /\ proc[p].pc = "lane"
  /\ \/ /\ \A a \in Attempts : Blocking(a, proc[p].seen) => Leave(a)
        /\ Done(p)
     \/ \E a \in Attempts :
          /\ Blocking(a, proc[p].seen)
          /\ \/ att[a].op = NoOp /\ ResumeRecovery(p, a)
             \/ /\ att[a].op # NoOp
                /\ IsAbandoned(a)
                /\ Begin(p, "cancel", "lane", NoOp, a)
  /\ UNCHANGED <<dbVars, eligible, lateSigned, misread, chainVars>>

\* Mutant: a nonce recovery is confirmed when it is included.
ConfirmedWhenIncluded(a, out) ==
  IF out \in {"INCLUDED", "FINALIZED"}
  THEN [att[a] EXCEPT !.block = TRUE, !.status = "CONFIRMED"]
  ELSE att[a]

\* confirmRecovery: the receipt of a nonce recovery is stored with the attempt,
\* which is CONFIRMED once final.  It belongs to no operation.
RecoveryRow(a, out) ==
  IF out = "FINALIZED" THEN [att[a] EXCEPT !.block = TRUE, !.status = "CONFIRMED"]
  ELSE ReceiptRow(a, out)

ConfirmRecovery(p) ==
  LET a == proc[p].att  row == RecoveryRow(a, proc[p].out) IN
  /\ proc[p].via = "lane"
  /\ \/ /\ proc[p].pc = "include"
        /\ att' = IF RowAllowed(a, row) THEN [att EXCEPT ![a] = row] ELSE att
     \/ /\ proc[p].pc = "reorged"
        /\ UNCHANGED att
  /\ Done(p)
  /\ UNCHANGED <<op, rows, nextNonce, req, eligible, lateSigned, misread, chainVars>>

ReplacementStep(p) ==
  \/ \E a \in Attempts : FindStuck(p, a)
  \/ ReplaceOne(p)
  \/ RecoverBlockedLane(p) \/ FindBlocking(p)
  \/ ConfirmRecovery(p)
=============================================================================
