---------------------------- MODULE PipelineState ----------------------------
(***************************************************************************)
(* The durable state of the chain-write pipeline (PostgreSQL rows), the    *)
(* chain it writes to, and the processes that drive it.                    *)
(*                                                                         *)
(* A process is one asynchronous call chain of the worker runtime: a queue *)
(* delivery, or one item of a sweep.  Sweeps are started by a timer with   *)
(* no overlap guard, so any two processes may work on the same operation.  *)
(* Each step of a process is one database transaction, one RPC call or one *)
(* signer call: exactly the points between which others can interleave and *)
(* at which a crash can stop it.  What a process has read and still holds  *)
(* is in its record `proc[p]`.                                             *)
(***************************************************************************)
EXTENDS OperationStates, Integers, Sequences, FiniteSets

CONSTANTS
  Ops,              \* mint operations
  NoOp,             \* "operation_id IS NULL", for nonce recoveries
  Procs,            \* concurrent call chains of the worker runtime
  MaxAttempts,      \* bound: rows of transaction_attempts
  MaxReplacements,  \* profile.replacement.maxReplacements
  MaxReorgs,        \* bound: blocks that leave the canonical chain
  Revocable,        \* bound: operations whose recipient may lose its approval
  MaxForeign        \* bound: transactions the signer key sends outside the system

ASSUME NoOpAssumption == NoOp \notin Ops
ASSUME BoundsAssumption ==
  /\ MaxAttempts \in Nat
  /\ MaxReplacements \in Nat
  /\ MaxReorgs \in Nat
  /\ MaxForeign \in Nat

VARIABLES
  op,          \* operations.state
  att,         \* transaction_attempts, by order of creation
  rows,        \* how many rows att has
  nextNonce,   \* signer_nonces.next_nonce, or NoLane before the first reservation
  req,         \* signer_requests.status per attempt
  eligible,    \* does the recipient of the mint hold an active compliance approval?
  lateSigned,  \* history: attempts whose bytes were persisted after the revocation
  misread,     \* history: attempts taken for final on a block that had left the chain
  mempool,     \* attempts a node holds and may mine
  chain,       \* canonical transactions of the signer, in nonce order
  final,       \* how many of them satisfy the profile's finality rule
  reorgs,      \* blocks orphaned so far
  proc         \* the processes

dbVars    == <<op, att, rows, nextNonce, req>>
chainVars == <<mempool, chain, final, reorgs>>
vars      == <<op, att, rows, nextNonce, req, eligible, lateSigned, misread,
               mempool, chain, final, reorgs, proc>>

Attempts  == 1..MaxAttempts
NoAttempt == 0
NoLane    == -1
Foreign   == 0        \* a block whose transaction the system did not create

AttemptStatus ==
  {"PREPARED", "SIGNED", "BROADCASTING", "BROADCAST_UNKNOWN", "SUBMITTED",
   "INCLUDED", "CONFIRMED", "REVERTED", "FAILED", "REPLACED"}

SignerRequestStatus == {"NONE", "PENDING", "SIGNED", "REJECTED", "EXPIRED"}

\* A row: the operation it executes, its nonce, its status, whether the signed
\* bytes and their hash are stored, its replacement number (each replacement
\* raises both fees, so this is also the fee order at one nonce), and whether
\* inclusion evidence (block number and hash) is stored.
Row == [op : Ops \cup {NoOp}, nonce : Nat, status : AttemptStatus,
        signed : BOOLEAN, repl : Nat, block : BOOLEAN]

PreparedRow(o, n, r) ==
  [op |-> o, nonce |-> n, status |-> "PREPARED", signed |-> FALSE,
   repl |-> r, block |-> FALSE]

\* What a process knows: where it is, on whose behalf (the hooks it runs with),
\* the operation and the attempt it works on, a nonce or block hash it has read, and
\* the outcome of the last call that is not yet recorded.
Pcs ==
  {"idle", "prepare", "reserve", "sign", "rejected", "failAttempt", "persist",
   "check", "announce", "recheck", "send", "record", "observe", "poll", "receipt",
   "blockHash", "finality", "include", "reorged", "reconcile", "settle", "failOp",
   "signing", "resumeSig", "abandon", "abandonTx", "resolve", "lookUp", "rebroadcast", "advance", "finalize", "stuck",
   "retire", "lane", "cancel"}

Vias == {"none", "execute", "resume", "recover", "replace", "lane"}

Outcomes ==
  {"none", "SUBMITTED", "BROADCAST_UNKNOWN", "FAILED",
   "INCLUDED", "LATE_REVERTED", "REVERTED", "FINALIZED", "ORPHANED"}

Process ==
  [pc : Pcs, via : Vias, op : Ops \cup {NoOp}, att : Attempts \cup {NoAttempt},
   seen : Nat, out : Outcomes]

IdleProcess ==
  [pc |-> "idle", via |-> "none", op |-> NoOp, att |-> NoAttempt,
   seen |-> 0, out |-> "none"]

Begin(p, pc, via, o, a) ==
  proc' = [proc EXCEPT ![p] = [pc |-> pc, via |-> via, op |-> o, att |-> a,
                               seen |-> 0, out |-> "none"]]

Goto(p, pc) == proc' = [proc EXCEPT ![p].pc = pc]

\* ... having taken up a row, read a number, or received an outcome.
Take(p, pc, a) == proc' = [proc EXCEPT ![p] = [@ EXCEPT !.pc = pc, !.att = a, !.seen = 0]]

Read(p, pc, n) == proc' = [proc EXCEPT ![p] = [@ EXCEPT !.pc = pc, !.seen = n]]

Report(p, pc, out) == proc' = [proc EXCEPT ![p] = [@ EXCEPT !.pc = pc, !.seen = 0, !.out = out]]

Done(p) == proc' = [proc EXCEPT ![p] = IdleProcess]

-----------------------------------------------------------------------------
(* Queries of the repositories *)

Live(a) == a \in 1..rows /\ att[a].status # "REPLACED"

\* findLatestAttemptForOperation: the newest row of the operation, if any.
IsLatestAttempt(o, a) ==
  /\ a \in 1..rows
  /\ att[a].op = o
  /\ \A b \in 1..rows : att[b].op = o => b <= a

HasAttempt(o) == \E a \in 1..rows : att[a].op = o

\* The table's constraints on a new content of row a: the partial unique index
\* on live nonces and the CHECK that only PREPARED and FAILED rows lack bytes.
RowAllowed(a, row) ==
  /\ row.status # "REPLACED" =>
       \A b \in 1..rows : b # a /\ Live(b) => att[b].nonce # row.nonce
  /\ row.signed \/ row.status \in {"PREPARED", "FAILED"}

WithStatus(a, s) == [att[a] EXCEPT !.status = s]

-----------------------------------------------------------------------------
(* The chain, as the gateway shows it *)

ChainNonce == Len(chain)

BlocksOf(a) == {i \in 1..Len(chain) : chain[i].att = a}

Mined(a) == BlocksOf(a) # {}

\* The block with this hash in which attempt a was mined is canonical.
OnChain(a, id) == \E i \in BlocksOf(a) : chain[i].id = id

\* Operations whose single-use reference a canonical block has consumed.
Minted(o) ==
  \E i \in 1..Len(chain) : /\ chain[i].att # Foreign
                           /\ att[chain[i].att].op = o
                           /\ chain[i].ok

Init ==
  /\ op = [o \in Ops |-> "PENDING_APPROVAL"]
  /\ att = [a \in Attempts |-> PreparedRow(NoOp, 0, 0)]
  /\ rows = 0
  /\ nextNonce = NoLane
  /\ req = [a \in Attempts |-> "NONE"]
  /\ eligible = [o \in Ops |-> TRUE]
  /\ lateSigned = {}
  /\ misread = {}
  /\ mempool = {}
  /\ chain = << >>
  /\ final = 0
  /\ reorgs = 0
  /\ proc = [p \in Procs |-> IdleProcess]
=============================================================================
