-------------------------- MODULE OperationExecutor --------------------------
(***************************************************************************)
(* Drives one operation: claim it, prepare the call, run the chain write,  *)
(* observe the transaction and settle the operation against the chain.     *)
(***************************************************************************)
EXTENDS ChainWriter

\* A job for the operation is delivered (at least once, in any order): the first
\* delivery moves READY to PREPARING, the others are skipped.
Claim(p, o) ==
  /\ proc[p].pc = "idle"
  /\ op[o] = "READY"
  /\ op' = [op EXCEPT ![o] = "PREPARING"]
  /\ Begin(p, "prepare", "execute", o, NoAttempt)
  /\ UNCHANGED <<att, rows, nextNonce, req, eligible, lateSigned, misread, chainVars>>

\* handler.prepare (proposal hash, fresh compliance check, unconsumed reference,
\* token not paused, supply cap) and the simulation, then the chain nonce is read.
Prepare(p) ==
  /\ proc[p].pc = "prepare"
  /\ \/ /\ eligible[proc[p].op]
        /\ ~Minted(proc[p].op)
        /\ Read(p, "reserve", ChainNonce)
     \/ Thrown(p)
  /\ UNCHANGED <<dbVars, eligible, lateSigned, misread, chainVars>>

\* failOperation: a state that may stand for value in flight is left alone.
FailableStates == {"PENDING_APPROVAL", "READY", "PREPARING", "SIGNING", "SIGNED"}

FailOperation(p) ==
  LET o == proc[p].op IN
  /\ proc[p].pc = "failOp"
  /\ IF op[o] \in FailableStates
     THEN /\ op' = [op EXCEPT ![o] = "FAILED"]
          /\ att' = [a \in Attempts |->
                       IF IsLatestAttempt(o, a) /\ att[a].status = "PREPARED"
                       THEN WithStatus(a, "FAILED") ELSE att[a]]
     ELSE UNCHANGED <<op, att>>
  /\ Done(p)
  /\ UNCHANGED <<rows, nextNonce, req, eligible, lateSigned, misread, chainVars>>

-----------------------------------------------------------------------------
(* awaitConfirmation *)

Observed(p, out) ==
  Report(p, IF out = "ORPHANED" THEN "reorged" ELSE "include", out)

\* An operation that has settled is not observed again.
Observe(p) ==
  /\ proc[p].pc = "observe"
  /\ IF proc[p].op # NoOp /\ op[proc[p].op] \in TerminalStates
     THEN Done(p) ELSE Goto(p, "poll")
  /\ UNCHANGED <<dbVars, eligible, lateSigned, misread, chainVars>>

\* The receipt is polled until a deadline: none is PENDING, and one that comes with the
\* deadline leaves the outcome at inclusion.
PollReceipt(p) ==
  LET a == proc[p].att IN
  /\ proc[p].pc = "poll"
  /\ \/ ~Mined(a) /\ Done(p)
     \/ Mined(a) /\ Goto(p, "receipt")
     \/ \E i \in BlocksOf(a) :
          Observed(p, IF chain[i].ok THEN "INCLUDED" ELSE "LATE_REVERTED")
  /\ UNCHANGED <<dbVars, eligible, lateSigned, misread, chainVars>>

\* Each round reads the receipt again.  One that is gone is ORPHANED.
ReadReceipt(p) ==
  LET a == proc[p].att IN
  /\ proc[p].pc = "receipt"
  /\ \/ ~Mined(a) /\ Observed(p, "ORPHANED")
     \/ \E i \in BlocksOf(a) : Read(p, "blockHash", chain[i].id)
  /\ UNCHANGED <<dbVars, eligible, lateSigned, misread, chainVars>>

\* Then the hash of the block at the receipt's height.  Another hash is ORPHANED; a
\* revert is reported at once, final or not.
ReadBlockHash(p) ==
  LET a == proc[p].att IN
  /\ proc[p].pc = "blockHash"
  /\ \/ ~OnChain(a, proc[p].seen) /\ Observed(p, "ORPHANED")
     \/ \E i \in BlocksOf(a) :
          /\ chain[i].id = proc[p].seen
          /\ IF chain[i].ok THEN Goto(p, "finality") ELSE Observed(p, "REVERTED")
  /\ UNCHANGED <<dbVars, eligible, lateSigned, misread, chainVars>>

\* Mutant: inclusion is taken for finality.
FinalAtInclusion(p) ==
  /\ proc[p].pc = "finality"
  /\ Observed(p, "FINALIZED")
  /\ misread' = misread \cup ({proc[p].att} \ {a \in Attempts : OnChain(a, proc[p].seen)})
  /\ UNCHANGED <<dbVars, eligible, lateSigned, chainVars>>

\* Then the height up to which the chain is final, which alone is compared with the
\* receipt's height.  The chain of the model holds the signer's transactions only; what
\* other blocks lie between them is open, so once the receipt's block has left the
\* chain, finality may or may not have passed its height.  A receipt that is not final
\* is read again, or the deadline passes and leaves the outcome at inclusion.
ReadFinality(p) ==
  LET a == proc[p].att
      gone == ~OnChain(a, proc[p].seen) IN
  /\ proc[p].pc = "finality"
  /\ \/ /\ gone \/ \E i \in BlocksOf(a) : i <= final
        /\ Observed(p, "FINALIZED")
        /\ misread' = IF gone THEN misread \cup {a} ELSE misread
     \/ /\ gone \/ \A i \in BlocksOf(a) : i > final
        /\ Read(p, "receipt", 0) \/ Observed(p, "INCLUDED")
        /\ UNCHANGED misread
  /\ UNCHANGED <<dbVars, eligible, lateSigned, chainVars>>

-----------------------------------------------------------------------------
(* observeAndFinalize *)

\* recordReceipt leaves an attempt that has settled as it is.
ReceiptRow(a, out) ==
  IF att[a].status \in {"CONFIRMED", "REVERTED"} THEN att[a]
  ELSE [att[a] EXCEPT !.block = TRUE,
          !.status = IF out \in {"REVERTED", "LATE_REVERTED"} THEN "REVERTED" ELSE "INCLUDED"]

AfterInclusion(p, out) ==
  IF out \in {"FINALIZED", "REVERTED"} THEN Goto(p, "reconcile") ELSE Done(p)

\* Inclusion is recorded before any judgement: SUBMITTED becomes INCLUDED and the
\* receipt is stored with the attempt.
RecordInclusion(p) ==
  LET a == proc[p].att  o == proc[p].op  row == ReceiptRow(a, proc[p].out) IN
  /\ proc[p].pc = "include"
  /\ proc[p].via # "lane"
  /\ \/ /\ RowAllowed(a, row)
        /\ att' = [att EXCEPT ![a] = row]
        /\ op' = IF op[o] = "SUBMITTED" THEN [op EXCEPT ![o] = "INCLUDED"] ELSE op
        /\ AfterInclusion(p, proc[p].out)
     \/ /\ ~RowAllowed(a, row)
        /\ Thrown(p)
        /\ UNCHANGED <<op, att>>
  /\ UNCHANGED <<rows, nextNonce, req, eligible, lateSigned, misread, chainVars>>

\* recordReorg: the inclusion evidence is retired, the attempt goes back to
\* SUBMITTED, and an INCLUDED operation with it.
RecordReorg(p) ==
  LET a == proc[p].att  o == proc[p].op
      row == [att[a] EXCEPT !.status = "SUBMITTED", !.block = FALSE] IN
  /\ proc[p].pc = "reorged"
  /\ proc[p].via # "lane"
  /\ \/ /\ RowAllowed(a, row)
        /\ att' = [att EXCEPT ![a] = row]
        /\ op' = IF op[o] = "INCLUDED" THEN [op EXCEPT ![o] = "SUBMITTED"] ELSE op
        /\ Done(p)
     \/ /\ ~RowAllowed(a, row)
        /\ Thrown(p)
        /\ UNCHANGED <<op, att>>
  /\ UNCHANGED <<rows, nextNonce, req, eligible, lateSigned, misread, chainVars>>

SettledState(out)  == IF out = "REVERTED" THEN "REVERTED" ELSE "SUCCEEDED"
SettledStatus(out) == IF out = "REVERTED" THEN "REVERTED" ELSE "CONFIRMED"

\* Mutant: the operation settles from whatever state it is in.
SettleFromAnyState(p) ==
  LET a == proc[p].att  o == proc[p].op IN
  /\ proc[p].pc = "settle"
  /\ op' = [op EXCEPT ![o] = SettledState(proc[p].out)]
  /\ att' = [att EXCEPT ![a] = WithStatus(a, SettledStatus(proc[p].out))]
  /\ Done(p)
  /\ UNCHANGED <<rows, nextNonce, req, eligible, lateSigned, misread, chainVars>>

\* handler.reconcile reads the chain as it is now: the reference must be consumed.  What
\* else it reads (the recipient may have moved its balance) can make the report
\* inconsistent, which leaves a finalized operation where it is; after a revert the
\* report is only kept.
Reconcile(p) ==
  /\ proc[p].pc = "reconcile"
  /\ \/ /\ proc[p].out = "REVERTED" \/ Minted(proc[p].op)
        /\ Goto(p, "settle")
     \/ proc[p].out = "FINALIZED" /\ Done(p)
     \/ Thrown(p)
  /\ UNCHANGED <<dbVars, eligible, lateSigned, misread, chainVars>>

\* The target state itself is left as it is; an edge the machine forbids throws.
Settle(p) ==
  LET a == proc[p].att  o == proc[p].op
      to == SettledState(proc[p].out)
      row == WithStatus(a, SettledStatus(proc[p].out)) IN
  /\ proc[p].pc = "settle"
  /\ \/ /\ op[o] = to
        /\ Done(p)
        /\ UNCHANGED <<op, att>>
     \/ /\ op[o] # to
        /\ CanTransition(op[o], to) /\ RowAllowed(a, row)
        /\ op' = [op EXCEPT ![o] = to]
        /\ att' = [att EXCEPT ![a] = row]
        /\ Done(p)
     \/ /\ op[o] # to
        /\ ~(CanTransition(op[o], to) /\ RowAllowed(a, row))
        /\ Thrown(p)
        /\ UNCHANGED <<op, att>>
  /\ UNCHANGED <<rows, nextNonce, req, eligible, lateSigned, misread, chainVars>>

ExecutorStep(p) ==
  \/ \E o \in Ops : Claim(p, o)
  \/ Prepare(p) \/ FailOperation(p)
  \/ Observe(p) \/ PollReceipt(p) \/ ReadReceipt(p) \/ ReadBlockHash(p) \/ ReadFinality(p)
  \/ RecordInclusion(p) \/ RecordReorg(p) \/ Reconcile(p) \/ Settle(p)
=============================================================================
