----------------------------- MODULE MintLedger ------------------------------
(***************************************************************************)
(* What the chain-write pipeline promises to whoever requested a mint,     *)
(* without attempts, nonces, signers, sweeps or processes.                 *)
(*                                                                         *)
(* An operation mints at most once, at one height of the canonical chain.  *)
(* A mint can be undone until its height is final, and then never again.   *)
(* The system makes one claim about an operation and never changes it, and *)
(* it claims success only for a mint that can no longer be undone, or for  *)
(* one it was shown as final by a node that changed its chain in between.  *)
(***************************************************************************)
EXTENDS Naturals

CONSTANT Operations

VARIABLES
  claim,   \* what the system says of the operation
  minted,  \* heights at which the operation has minted
  final,   \* the height up to which the chain is final
  misread  \* operations of which a replaced block was taken for final

ledgerVars == <<claim, minted, final, misread>>

Claims == {"open", "succeeded", "closed"}

LedgerInit ==
  /\ claim = [o \in Operations |-> "open"]
  /\ minted = [o \in Operations |-> {}]
  /\ final = 0
  /\ misread = {}

\* At some height above what is final, and only if the operation has not minted yet.
Mint(o) ==
  /\ minted[o] = {}
  /\ \E h \in minted'[o] : h \in Nat /\ h > final /\ minted' = [minted EXCEPT ![o] = {h}]
  /\ UNCHANGED <<claim, final, misread>>

Undo(o) ==
  /\ \A h \in minted[o] : h > final
  /\ minted' = [minted EXCEPT ![o] = {}]
  /\ UNCHANGED <<claim, final, misread>>

Seal ==
  /\ final' = final + 1
  /\ UNCHANGED <<claim, minted, misread>>

\* The observer is shown a block that is replaced before its height is called final.
Misreads(o) ==
  /\ misread' = misread \cup {o}
  /\ UNCHANGED <<claim, minted, final>>

ClaimSuccess(o) ==
  /\ claim[o] = "open"
  /\ o \in misread \/ \E h \in minted[o] : h <= final
  /\ claim' = [claim EXCEPT ![o] = "succeeded"]
  /\ UNCHANGED <<minted, final, misread>>

\* Any other terminal claim: failed, reverted or cancelled.
Close(o) ==
  /\ claim[o] = "open"
  /\ claim' = [claim EXCEPT ![o] = "closed"]
  /\ UNCHANGED <<minted, final, misread>>

LedgerNext ==
  \/ Seal
  \/ \E o \in Operations : Mint(o) \/ Undo(o) \/ Misreads(o) \/ ClaimSuccess(o) \/ Close(o)

LedgerSpec == LedgerInit /\ [][LedgerNext]_ledgerVars

-----------------------------------------------------------------------------
(* What follows for the requester *)

\* An operation mints once, and is said to have succeeded only if that is final or was
\* misread.
PromiseKept ==
  \A o \in Operations :
    /\ \A g, h \in minted[o] : g = h
    /\ claim[o] = "succeeded" /\ o \notin misread => \E h \in minted[o] : h <= final

\* A claim is never changed, and a mint that is final never undone.
NothingTakenBack ==
  \A o \in Operations :
    /\ claim[o] # "open" => claim'[o] = claim[o]
    /\ \A h \in minted[o] : h <= final => minted'[o] = minted[o]
=============================================================================
