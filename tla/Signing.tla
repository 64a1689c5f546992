------------------------------- MODULE Signing -------------------------------
(***************************************************************************)
(* How an attempt gets its signature.  The signer is asked once per        *)
(* attempt, may take its time, forget the request or return bytes nobody   *)
(* asked for; the answer is collected by whichever call or sweep comes     *)
(* first.  The bytes are checked against the row committed before, and a   *)
(* replacement copies the row it replaces and raises its fees.             *)
(*                                                                         *)
(* ChainWriter and the modules above it treat a signature as one answer.   *)
(* Here are the contents of requests and bytes, the deferred signer and    *)
(* its memory, the deadline of a request, and the arithmetic of the fees;  *)
(* what follows BROADCASTING is left to those modules.                     *)
(***************************************************************************)
EXTENDS OperationStates, Integers, Sequences, FiniteSets, FiniteSetsExt

CONSTANTS
  Ops,              \* operations, each named by the purpose of its transaction
  Procs,            \* concurrent call chains of the worker
  Timer,            \* the one among them that the sweep timer starts
  Suggested,        \* pairs of a fee and a tip a node may suggest
  BumpPercent,      \* profile.replacement.feeBumpPercent
  MaxReplacements,  \* profile.replacement.maxReplacements
  MaxPolls,         \* pollsBeforeSigning
  MaxAttempts       \* bound: rows of transaction_attempts

ASSUME OpsAssumption == Ops \subseteq {"DEPLOY_TOKEN", "MINT", "SET_ELIGIBILITY"}
ASSUME TimerAssumption == Timer \in Procs
ASSUME SuggestedAssumption == Suggested \subseteq Nat \X Nat
ASSUME BumpAssumption == BumpPercent \in 10..500      \* config: min(10).max(500)
ASSUME BoundsAssumption ==
  MaxReplacements \in Nat /\ MaxPolls \in Nat /\ MaxAttempts \in Nat

VARIABLES
  op,      \* operations.state
  rows,    \* transaction_attempts, in order of creation
  req,     \* signer_requests.status per attempt
  lapsed,  \* attempts whose request is past its deadline by PostgreSQL's clock
  held,    \* the requests the signer remembers
  proc     \* the call chains

vars == <<op, rows, req, lapsed, held, proc>>

Attempts == 1..MaxAttempts
Recovery == "NONCE_RECOVERY"
NoBytes  == [by |-> "nobody"]

-----------------------------------------------------------------------------
(* Requests, bytes and fees *)

\* Where the transaction of a purpose goes and what it calls.
Call ==
  [DEPLOY_TOKEN    |-> [to |-> "none",  data |-> "create"],
   MINT            |-> [to |-> "token", data |-> "mintWithReference"],
   SET_ELIGIBILITY |-> [to |-> "token", data |-> "setEligibility"],
   NONCE_RECOVERY  |-> [to |-> "self",  data |-> "empty"]]

\* unsignedRequestFrom: the request a row stands for.
UnsignedRequest(row) ==
  [to |-> row.to, data |-> row.data, nonce |-> row.nonce, fee |-> row.fee, tip |-> row.tip]

Signature(request, key) == [request |-> request, by |-> key]

\* evaluatePolicy of the local signer.
PolicyAllows(purpose, request) ==
  IF request.to = "none" THEN purpose = "DEPLOY_TOKEN"
  ELSE IF purpose = Recovery THEN request.data = "empty" /\ request.to = "self"
  ELSE request.data \in {"mintWithReference", "setEligibility"}

\* Bytes that differ from a request in one respect, as an adapter that is wrong or
\* compromised may return them.
Forged(request) ==
  {Signature(r, "signer") : r \in {[request EXCEPT !.to = "other"],
                                   [request EXCEPT !.data = "other"],
                                   [request EXCEPT !.nonce = @ + 1],
                                   [request EXCEPT !.fee = @ + 1],
                                   [request EXCEPT !.tip = @ + 1]}}
  \cup {Signature(request, "otherKey")}

\* Mutant: the fees in the bytes are not compared.
VerifyAllButFees(bytes, request) ==
  LET r == bytes.request IN
  /\ bytes.by = "signer"
  /\ r.to = request.to /\ r.data = request.data /\ r.nonce = request.nonce
  /\ r.tip <= r.fee

\* verifySignedTransaction: every field of the request, the fee policy, the key.
Verify(bytes, request) ==
  /\ bytes.request = request
  /\ request.tip <= request.fee
  /\ bytes.by = "signer"

\* getFeeEstimate: the fee is never below the tip.
Estimates == {[fee |-> Max({s[1], s[2]}), tip |-> s[2]] : s \in Suggested}

\* Mutant: without the extra unit, small fees do not rise.
ScaleDown(v) == (v * (100 + BumpPercent)) \div 100

Scale(v) == (v * (100 + BumpPercent)) \div 100 + 1

\* bumpFees: the row's own fees raised, and never below the current estimate.
BumpFees(row, current) ==
  [fee |-> Max({Scale(row.fee), current.fee}), tip |-> Max({Scale(row.tip), current.tip})]

-----------------------------------------------------------------------------
(* Rows *)

PreparedRow(purpose, nonce, fees, repl) ==
  [purpose |-> purpose, to |-> Call[purpose].to, data |-> Call[purpose].data,
   nonce |-> nonce, fee |-> fees.fee, tip |-> fees.tip,
   repl |-> repl, status |-> "PREPARED", bytes |-> NoBytes]

HasBytes(a) == rows[a].bytes # NoBytes

Live(a) == a \in 1..Len(rows) /\ rows[a].status # "REPLACED"

\* The live-nonce index and the CHECK that only PREPARED and FAILED rows lack bytes.
RowAllowed(a, row) ==
  /\ row.status # "REPLACED" =>
       \A b \in 1..Len(rows) : b # a /\ Live(b) => rows[b].nonce # row.nonce
  /\ row.bytes # NoBytes \/ row.status \in {"PREPARED", "FAILED"}

IsLatestAttempt(o, a) ==
  /\ a \in 1..Len(rows)
  /\ rows[a].purpose = o
  /\ \A b \in 1..Len(rows) : rows[b].purpose = o => b <= a

\* reserveNonce: one more than the lane has given out.
NextNonce == Cardinality({a \in 1..Len(rows) : rows[a].repl = 0})

-----------------------------------------------------------------------------
(* Call chains *)

NoAnswer == [status |-> "NONE", bytes |-> NoBytes]
Pending  == [status |-> "PENDING", bytes |-> NoBytes]
Rejected == [status |-> "REJECTED", bytes |-> NoBytes]
Released(bytes) == [status |-> "SIGNED", bytes |-> bytes]

Idle == [pc |-> "idle", via |-> "none", att |-> 0, fees |-> [fee |-> 0, tip |-> 0],
         answer |-> NoAnswer]

Begin(p, pc, via, a) ==
  /\ proc[p].pc = "idle"
  /\ proc' = [proc EXCEPT ![p] = [Idle EXCEPT !.pc = pc, !.via = via, !.att = a]]

Goto(p, pc) == proc' = [proc EXCEPT ![p].pc = pc]

Done(p) == proc' = [proc EXCEPT ![p] = Idle]

Thrown(p) == IF proc[p].via = "execute" THEN Goto(p, "failOp") ELSE Done(p)

\* Who runs the write decides whether its operation moves with it: execute and
\* resume do, a fee replacement and a nonce recovery do not.
Moves(p) == proc[p].via \in {"execute", "resume"}

\* Mutant: the operation follows from whatever state it is in.
HookAlways(p, to) == TRUE

HookAllows(p, to) == Moves(p) => CanTransition(op[rows[proc[p].att].purpose], to)

\* One transaction that rewrites the row and moves the operation, or throws.
Commit(p, row, to) ==
  LET a == proc[p].att IN
  /\ RowAllowed(a, row) /\ HookAllows(p, to)
  /\ rows' = [rows EXCEPT ![a] = row]
  /\ op' = IF Moves(p) THEN [op EXCEPT ![row.purpose] = to] ELSE op

RolledBack(p, row, to) ==
  /\ ~(RowAllowed(proc[p].att, row) /\ HookAllows(p, to))
  /\ Thrown(p)
  /\ UNCHANGED <<op, rows, req>>

-----------------------------------------------------------------------------
(* The signer *)

NoRequest == [polls |-> 0, refused |-> FALSE, answer |-> NoAnswer]

\* What the signer decides once it comes to a request.
Decisions(a) ==
  LET request == UnsignedRequest(rows[a]) IN
  IF PolicyAllows(rows[a].purpose, request)
  THEN {Released(Signature(request, "signer"))} \cup {Released(b) : b \in Forged(request)}
  ELSE {Rejected}

\* advance: a settled request keeps its answer; a refusal comes before the polls.
Advance(p, h, pc) ==
  LET a == proc[p].att
      Answer(answer, kept) ==
        /\ held' = [held EXCEPT ![a] = kept]
        /\ proc' = [proc EXCEPT ![p] = [@ EXCEPT !.pc = pc, !.answer = answer]]
      Settled(answer) == Answer(answer, [h EXCEPT !.answer = answer])
  IN
  \/ h.answer \notin {NoAnswer, Pending} /\ Answer(h.answer, h)
  \/ /\ h.answer = Pending
     /\ \/ h.refused /\ Settled(Rejected)
        \/ ~h.refused /\ h.polls > 0 /\ Answer(Pending, [h EXCEPT !.polls = @ - 1])
        \/ ~h.refused /\ h.polls = 0 /\ \E d \in Decisions(a) : Settled(d)

\* requestSignature opens the request and polls it once; no attempt is asked for twice.
RequestSignature(p) ==
  LET a == proc[p].att IN
  /\ proc[p].pc = "ask"
  /\ \/ \E polls \in 0..MaxPolls :
          Advance(p, [NoRequest EXCEPT !.polls = polls, !.answer = Pending], "recordReq")
     \/ Thrown(p) /\ UNCHANGED held
  /\ UNCHANGED <<op, rows, req, lapsed>>

\* fetchSignature: an unknown request, or a signer that cannot be reached, throws.
FetchSignature(p) ==
  /\ proc[p].pc = "fetch"
  /\ \/ held[proc[p].att] # NoRequest /\ Advance(p, held[proc[p].att], "fetched")
     \/ Done(p) /\ UNCHANGED held
  /\ UNCHANGED <<op, rows, req, lapsed>>

\* A reviewer refuses the request, or releases it on the next poll.
Reject(a) ==
  /\ held[a].answer = Pending /\ ~held[a].refused
  /\ held' = [held EXCEPT ![a].refused = TRUE]
  /\ UNCHANGED <<op, rows, req, lapsed, proc>>

Release(a) ==
  /\ held[a].answer = Pending /\ held[a].polls > 0
  /\ held' = [held EXCEPT ![a].polls = 0]
  /\ UNCHANGED <<op, rows, req, lapsed, proc>>

\* The deadline of an outstanding request passes.
Lapse(a) ==
  /\ req[a] = "PENDING"
  /\ lapsed' = lapsed \cup {a}
  /\ UNCHANGED <<op, rows, req, held, proc>>

\* A call chain stops where it is; or the process ends, and the memory of a signer
\* that lives in it is gone.
Crash(p) ==
  /\ proc[p].pc # "idle"
  /\ Done(p)
  /\ UNCHANGED <<op, rows, req, lapsed, held>>

Restart ==
  /\ proc' = [p \in Procs |-> Idle]
  /\ held' = [a \in Attempts |-> NoRequest]
  /\ UNCHANGED <<op, rows, req, lapsed>>

-----------------------------------------------------------------------------
(* ChainWriter: execute, replaceFees and cancelNonce up to the request *)

\* The attempt is committed before the signer is asked.
Execute(p, o) ==
  /\ op[o] = "PREPARING"
  /\ Len(rows) < MaxAttempts
  /\ \E fees \in Estimates : rows' = Append(rows, PreparedRow(o, NextNonce, fees, 0))
  /\ op' = [op EXCEPT ![o] = "SIGNING"]
  /\ Begin(p, "ask", "execute", Len(rows) + 1)
  /\ UNCHANGED <<req, lapsed, held>>

\* The sweep has read the row and the node's estimate; the row is retired later.
BeginReplacement(p, a, pc, via) ==
  /\ proc[p].pc = "idle"
  /\ Live(a)
  /\ \E current \in Estimates :
       proc' = [proc EXCEPT ![p] = [Idle EXCEPT !.pc = pc, !.via = via, !.att = a,
                                                !.fees = BumpFees(rows[a], current)]]
  /\ UNCHANGED <<op, rows, req, lapsed, held>>

ReplaceOne(p, a) ==
  /\ Live(a)
  /\ rows[a].status = "BROADCASTING"
  /\ rows[a].purpose # Recovery => op[rows[a].purpose] \notin TerminalStates
  /\ BeginReplacement(p, a, "replace", "replace")

CancelBlocked(p, a) ==
  /\ Live(a)
  /\ rows[a].purpose # Recovery /\ rows[a].status = "FAILED"
  /\ BeginReplacement(p, a, "cancel", "lane")

\* signReplacement: retire, insert at the same nonce and link in one transaction.
SignReplacement(p, purpose) ==
  LET a == proc[p].att
      retired == [rows[a] EXCEPT !.status = "REPLACED"]
      next == PreparedRow(purpose, rows[a].nonce, proc[p].fees, rows[a].repl + 1) IN
  /\ Live(a) /\ RowAllowed(a, retired)
  /\ Len(rows) < MaxAttempts
  /\ rows' = Append([rows EXCEPT ![a] = retired], next)
  /\ proc' = [proc EXCEPT ![p] = [@ EXCEPT !.pc = "ask", !.att = Len(rows) + 1]]

\* assertFeeOnlyReplacement: nothing the approval covered differs.
FeeOnlyReplacement(row, next) ==
  /\ next.nonce = row.nonce /\ next.purpose = row.purpose
  /\ next.to = row.to /\ next.data = row.data

\* replaceFees: below the limit, for the same intent, with both fees raised.
ReplaceFees(p) ==
  LET row == rows[proc[p].att]
      next == PreparedRow(row.purpose, row.nonce, proc[p].fees, row.repl + 1)
      mayReplace == /\ row.repl < MaxReplacements
                    /\ FeeOnlyReplacement(row, next)
                    /\ next.fee > row.fee /\ next.tip > row.tip IN
  /\ proc[p].pc = "replace"
  /\ \/ mayReplace /\ SignReplacement(p, row.purpose)
     \/ Done(p) /\ UNCHANGED rows
  /\ UNCHANGED <<op, req, lapsed, held>>

\* cancelNonce: an empty self-transfer takes the place of the blocked row.
CancelNonce(p) ==
  /\ proc[p].pc = "cancel"
  /\ SignReplacement(p, Recovery) \/ (Done(p) /\ UNCHANGED rows)
  /\ UNCHANGED <<op, req, lapsed, held>>

-----------------------------------------------------------------------------
(* The request row, and the sweeps that come back to it *)

\* recordSignerRequest: one row per attempt, written over by a repetition.
RecordRequest(p) ==
  /\ proc[p].pc = "recordReq"
  /\ req' = [req EXCEPT ![proc[p].att] = proc[p].answer.status]
  /\ IF proc[p].answer = Pending THEN Done(p) ELSE Goto(p, "settle")
  /\ UNCHANGED <<op, rows, lapsed, held>>

Resumable(o, a) == IsLatestAttempt(o, a) /\ ~HasBytes(a) /\ req[a] = "PENDING"

\* The recovery sweep finds an operation in SIGNING, the lane sweep a nonce recovery.
ResumeSigning(p, o) ==
  /\ op[o] = "SIGNING"
  /\ \/ \E a \in Attempts : Resumable(o, a) /\ Begin(p, "resumeSig", "resume", a)
     \/ \E a \in Attempts :
          /\ IsLatestAttempt(o, a) /\ ~Resumable(o, a) /\ ~HasBytes(a)
          /\ Begin(p, "abandonTx", "recover", a)
  /\ UNCHANGED <<op, rows, req, lapsed, held>>

ResumeRecovery(p, a) ==
  /\ Live(a)
  /\ rows[a].purpose = Recovery /\ rows[a].status # "FAILED" /\ ~HasBytes(a)
  /\ Begin(p, "resumeSig", "lane", a)
  /\ UNCHANGED <<op, rows, req, lapsed, held>>

AbandonTx(p) ==
  LET a == proc[p].att  o == rows[a].purpose IN
  /\ proc[p].pc = "abandonTx"
  /\ IF op[o] \in {"PREPARING", "SIGNING"}
     THEN /\ op' = [op EXCEPT ![o] = "FAILED"]
          /\ rows' = [rows EXCEPT ![a].status = "FAILED"]
     ELSE UNCHANGED <<op, rows>>
  /\ Done(p)
  /\ UNCHANGED <<req, lapsed, held>>

\* resumeSignature reads the request, retires it if it lapsed, and only then asks.
ResumeSignature(p) ==
  /\ proc[p].pc = "resumeSig"
  /\ IF req[proc[p].att] = "PENDING" THEN Goto(p, "expire") ELSE Done(p)
  /\ UNCHANGED <<op, rows, req, lapsed, held>>

\* Mutant: the deadline is only looked at once the signer has answered.
NeverExpire(p) ==
  /\ proc[p].pc = "expire"
  /\ Goto(p, "fetch")
  /\ UNCHANGED <<op, rows, req, lapsed, held>>

\* Mutant: the request is closed with a status the table does not know.
ExpireAsTimeout(p) ==
  LET a == proc[p].att IN
  /\ proc[p].pc = "expire"
  /\ IF req[a] = "PENDING" /\ a \in lapsed
     THEN req' = [req EXCEPT ![a] = "TIMEOUT"] /\ Goto(p, "fail")
     ELSE UNCHANGED req /\ Goto(p, "fetch")
  /\ UNCHANGED <<op, rows, lapsed, held>>

\* expireLapsedSignerRequest: only the caller that moves the row out of PENDING fails it.
ExpireLapsed(p) ==
  LET a == proc[p].att IN
  /\ proc[p].pc = "expire"
  /\ IF req[a] = "PENDING" /\ a \in lapsed
     THEN req' = [req EXCEPT ![a] = "EXPIRED"] /\ Goto(p, "fail")
     ELSE UNCHANGED req /\ Goto(p, "fetch")
  /\ UNCHANGED <<op, rows, lapsed, held>>

\* touchSignerRequest; a request still pending ends the call.
Fetched(p) ==
  /\ proc[p].pc = "fetched"
  /\ IF proc[p].answer = Pending THEN Done(p) ELSE Goto(p, "settle")
  /\ UNCHANGED <<op, rows, req, lapsed, held>>

-----------------------------------------------------------------------------
(* settleSignature *)

Settle(p) ==
  LET a == proc[p].att
      verified == Verify(proc[p].answer.bytes, UnsignedRequest(rows[a])) IN
  /\ proc[p].pc = "settle"
  /\ IF proc[p].answer = Rejected
     THEN req' = [req EXCEPT ![a] = "REJECTED"] /\ Goto(p, "fail")
     ELSE Goto(p, IF verified THEN "persist" ELSE "fail") /\ UNCHANGED req
  /\ UNCHANGED <<op, rows, lapsed, held>>

FailAttempt(p) ==
  LET row == [rows[proc[p].att] EXCEPT !.status = "FAILED"] IN
  /\ proc[p].pc = "fail"
  /\ \/ Commit(p, row, "FAILED") /\ Done(p) /\ UNCHANGED req
     \/ RolledBack(p, row, "FAILED")
  /\ UNCHANGED <<lapsed, held>>

\* persistSignedAttempt, markSignerRequestSigned and onSigned.
PersistSigned(p) ==
  LET a == proc[p].att
      row == [rows[a] EXCEPT !.status = "SIGNED", !.bytes = proc[p].answer.bytes] IN
  /\ proc[p].pc = "persist"
  /\ \/ /\ Commit(p, row, "SIGNED")
        /\ req' = [req EXCEPT ![a] = "SIGNED"]
        /\ Goto(p, "check")
     \/ RolledBack(p, row, "SIGNED")
  /\ UNCHANGED <<lapsed, held>>

\* assertBroadcastAllowed may withhold the bytes of an operation.
AssertBroadcastAllowed(p) ==
  /\ proc[p].pc = "check"
  /\ \/ Goto(p, "announce")
     \/ proc[p].via # "lane" /\ rows[proc[p].att].purpose # Recovery /\ Goto(p, "fail")
  /\ UNCHANGED <<op, rows, req, lapsed, held>>

AnnounceBroadcast(p) ==
  LET row == [rows[proc[p].att] EXCEPT !.status = "BROADCASTING"] IN
  /\ proc[p].pc = "announce"
  /\ \/ Commit(p, row, "BROADCASTING") /\ Done(p) /\ UNCHANGED req
     \/ RolledBack(p, row, "BROADCASTING")
  /\ UNCHANGED <<lapsed, held>>

\* failOperation, after an exception of execute.
FailOperation(p) ==
  LET a == proc[p].att  o == rows[a].purpose IN
  /\ proc[p].pc = "failOp"
  /\ IF op[o] \in PreChainStates
     THEN /\ op' = [op EXCEPT ![o] = "FAILED"]
          /\ rows' = [b \in 1..Len(rows) |->
                        IF IsLatestAttempt(o, b) /\ rows[b].status = "PREPARED"
                        THEN [rows[b] EXCEPT !.status = "FAILED"] ELSE rows[b]]
     ELSE UNCHANGED <<op, rows>>
  /\ Done(p)
  /\ UNCHANGED <<req, lapsed, held>>

-----------------------------------------------------------------------------
Init ==
  /\ op = [o \in Ops |-> "PREPARING"]
  /\ rows = << >>
  /\ req = [a \in Attempts |-> "NONE"]
  /\ lapsed = {}
  /\ held = [a \in Attempts |-> NoRequest]
  /\ proc = [p \in Procs |-> Idle]

WriterStep(p) ==
  \/ RequestSignature(p) \/ RecordRequest(p) \/ ResumeSignature(p) \/ ExpireLapsed(p)
  \/ FetchSignature(p) \/ Fetched(p) \/ Settle(p) \/ FailAttempt(p) \/ PersistSigned(p)
  \/ AssertBroadcastAllowed(p) \/ AnnounceBroadcast(p) \/ FailOperation(p) \/ AbandonTx(p)
  \/ ReplaceFees(p) \/ CancelNonce(p)

Sweep(p) ==
  \/ \E o \in Ops : ResumeSigning(p, o)
  \/ \E a \in Attempts : ResumeRecovery(p, a)

Next ==
  \/ \E p \in Procs : WriterStep(p) \/ Sweep(p) \/ Crash(p)
  \/ \E p \in Procs, o \in Ops : Execute(p, o)
  \/ \E p \in Procs, a \in Attempts : ReplaceOne(p, a) \/ CancelBlocked(p, a)
  \/ \E a \in Attempts : Reject(a) \/ Release(a) \/ Lapse(a)
  \/ Restart

\* Time passes and the timer's call chain comes back; a crash does not cut the same step
\* of it off for ever.  Nothing is assumed of the others, nor of the signer, who may
\* never answer.
Fairness ==
  /\ \A a \in Attempts : WF_vars(Lapse(a))
  /\ WF_vars(WriterStep(Timer))
  /\ \A o \in Ops : SF_vars(ResumeSigning(Timer, o))
  /\ SF_vars(ResumeSignature(Timer)) /\ SF_vars(ExpireLapsed(Timer)) /\ SF_vars(AbandonTx(Timer))

Spec == Init /\ [][Next]_vars /\ Fairness

-----------------------------------------------------------------------------
(* Properties *)

Request == [to : {"none", "token", "self", "other"},
            data : {"create", "mintWithReference", "setEligibility", "empty", "other"},
            nonce : Nat, fee : Nat, tip : Nat]

Bytes == {NoBytes} \cup [request : Request, by : {"signer", "otherKey"}]

Answers == [status : {"NONE", "PENDING", "REJECTED", "SIGNED"}, bytes : Bytes]

\* Every variable holds a value of the kind the tables, the signer and the calls hold.
TypeOK ==
  /\ op \in [Ops -> {"PREPARING", "SIGNING", "SIGNED", "BROADCASTING", "FAILED"}]
  /\ Len(rows) <= MaxAttempts
  /\ \A a \in 1..Len(rows) :
       /\ rows[a].purpose \in Ops \cup {Recovery}
       /\ UnsignedRequest(rows[a]) \in Request
       /\ rows[a].repl \in Nat
       /\ rows[a].status \in {"PREPARED", "SIGNED", "BROADCASTING", "FAILED", "REPLACED"}
       /\ rows[a].bytes \in Bytes
  /\ req \in [Attempts -> {"NONE", "PENDING", "SIGNED", "REJECTED", "EXPIRED"}]
  /\ lapsed \subseteq Attempts
  /\ held \in [Attempts -> [polls : Nat, refused : BOOLEAN, answer : Answers]]
  /\ \A p \in Procs :
       /\ proc[p].via \in {"none", "execute", "resume", "recover", "replace", "lane"}
       /\ proc[p].att \in Attempts \cup {0}
       /\ proc[p].fees \in [fee : Nat, tip : Nat]
       /\ proc[p].answer \in Answers

\* Whatever the signer returns, and whichever call or sweep collects it, stored bytes are
\* the row that was committed before the signer was asked, signed by the lane's key.
BytesAreCommitted ==
  \A a \in 1..Len(rows) : HasBytes(a) =>
    rows[a].bytes = Signature(UnsignedRequest(rows[a]), "signer")

NodeBump == 10

\* A node takes a transaction in the place of another if both fees are higher by its
\* price bump, and any transaction only if the tip does not exceed the fee.
Displaces(new, old) ==
  /\ new.fee > old.fee /\ 100 * new.fee >= (100 + NodeBump) * old.fee
  /\ new.tip > old.tip /\ 100 * new.tip >= (100 + NodeBump) * old.tip

\* Each attempt could displace every earlier one at its nonce in a node's pool, integer
\* division and estimates below the old fees notwithstanding.
ReplacementsAreAccepted ==
  \A a \in 1..Len(rows) :
    /\ rows[a].tip <= rows[a].fee
    /\ \A b \in 1..(a - 1) : rows[b].nonce = rows[a].nonce => Displaces(rows[a], rows[b])

\* Once an operation's attempt has failed without bytes (lapsed, rejected, abandoned), a
\* call that still holds a signature can not store it: onSigned throws.  Nonce recoveries
\* are left out, against the comment of resumeSignature ("a signature released afterwards
\* must not revive it"): resumeRecovery passes no hooks and persistSignedAttempt does not ask
\* for the row's status, so a call that fetched before the deadline revives a FAILED one.
FailedIsNotRevived ==
  [][\A a \in 1..Len(rows) :
       rows[a].status = "FAILED" /\ ~HasBytes(a) /\ rows[a].purpose # Recovery
       => rows'[a].bytes = NoBytes]_rows

\* An operation does not wait for a signature for ever: answered, refused, lapsed,
\* forgotten by the signer or never recorded, it leaves SIGNING.
SigningIsResolved == \A o \in Ops : op[o] = "SIGNING" ~> op[o] # "SIGNING"
=============================================================================
