---------------------------- MODULE SigningProofs ----------------------------
(***************************************************************************)
(* Stored bytes are the committed request, a failed attempt is not revived *)
(* by a late signature, and every replacement could displace what it       *)
(* replaces, for any number of operations, call chains and attempts.       *)
(***************************************************************************)
EXTENDS Signing, SequenceTheorems, FiniteSetTheorems, TLAPS

Statuses == {"PREPARED", "SIGNED", "BROADCASTING", "FAILED", "REPLACED"}

States == {"PREPARING", "SIGNING", "SIGNED", "BROADCASTING", "FAILED"}

RequestStatuses == {"NONE", "PENDING", "SIGNED", "REJECTED", "EXPIRED"}

Row ==
  [purpose : Ops \cup {Recovery}, to : {"none", "token", "self", "other"},
   data : {"create", "mintWithReference", "setEligibility", "empty", "other"},
   nonce : Nat, fee : Nat, tip : Nat, repl : Nat, status : Statuses, bytes : Bytes]

Fees == [fee : Nat, tip : Nat]

CallPcs ==
  {"idle", "ask", "recordReq", "resumeSig", "expire", "fetch", "fetched", "settle", "fail",
   "persist", "check", "announce", "failOp", "abandonTx", "replace", "cancel"}

CallChain ==
  [pc : CallPcs, via : {"none", "execute", "resume", "recover", "replace", "lane"},
   att : Attempts \cup {0}, fees : Fees, answer : Answers]

Held == [polls : Nat, refused : BOOLEAN, answer : Answers]

\* The types, with the shapes of rows and call chains spelled out, and a row for every
\* call that is under way.
TypeInv ==
  /\ op \in [Ops -> States]
  /\ rows \in Seq(Row) /\ Len(rows) <= MaxAttempts
  /\ req \in [Attempts -> RequestStatuses]
  /\ lapsed \subseteq Attempts
  /\ held \in [Attempts -> Held]
  /\ proc \in [Procs -> CallChain]
  /\ \A p \in Procs : proc[p].pc # "idle" => proc[p].att \in 1..Len(rows)

\* In the states `st`, the operation has been announced, or is over.
Beyond(st, o) == o \in Ops => st[o] \in {"BROADCASTING", "FAILED"}

\* What a row says of its operation.
Tells(st, row) ==
  row.repl > 0 \/ row.status \in {"BROADCASTING", "FAILED", "REPLACED"}
  => Beyond(st, row.purpose)

Committed(row) == row.bytes # NoBytes => row.bytes = Signature(UnsignedRequest(row), "signer")

\* The rows and the nonces of a table rw of attempts.
LiveIn(rw, a) == rw[a].status # "REPLACED"

FirstAttempts(rw) == {a \in 1..Len(rw) : rw[a].repl = 0}

\* At every nonce the newest attempt, and only it, is live; nonces are given out in turn.
LaneInOrder(rw) ==
  /\ \A a \in 1..Len(rw) : rw[a].nonce < Cardinality(FirstAttempts(rw))
  /\ \A a, b \in 1..Len(rw) : LiveIn(rw, a) /\ rw[b].nonce = rw[a].nonce => b <= a
  /\ \A a \in 1..Len(rw) : \E b \in 1..Len(rw) : LiveIn(rw, b) /\ rw[b].nonce = rw[a].nonce

FeesInOrder(rw) ==
  \A a \in 1..Len(rw) :
    /\ rw[a].tip <= rw[a].fee
    /\ \A b \in 1..(a - 1) : rw[b].nonce = rw[a].nonce => Displaces(rw[a], rw[b])

RowsInv(st, rw) ==
  /\ \A a \in 1..Len(rw) : Tells(st, rw[a]) /\ Committed(rw[a])
  /\ LaneInOrder(rw)
  /\ FeesInOrder(rw)

\* The fees a replacement will carry are in order.
GoodFees(fees, row) == Displaces(fees, row) /\ fees.tip <= fees.fee

\* What a call chain q knows of the row it holds, in the states `st`.
Knows(st, row, q) ==
  /\ q.pc = "persist" => q.answer.bytes = Signature(UnsignedRequest(row), "signer")
  /\ q.pc \in {"replace", "cancel"} => Beyond(st, row.purpose) /\ GoodFees(q.fees, row)
  /\ q.pc = "failOp" => q.via = "execute"
  /\ q.pc = "abandonTx" <=> q.via = "recover"
  /\ q.pc = "replace" => q.via = "replace"
  /\ q.pc = "cancel" => q.via = "lane"
  /\ q.pc = "idle" <=> q.via = "none"
  /\ q.via \in {"execute", "resume", "recover"} => row.purpose \in Ops
  /\ q.via = "lane" /\ q.pc # "cancel" => row.purpose = Recovery
  /\ q.via = "replace" /\ q.pc # "replace" => row.repl > 0

\* Before the bytes of an attempt are stored.
AskPcs == {"ask", "recordReq", "resumeSig", "expire", "fetch", "fetched", "settle", "persist"}

\* The call chain q writes the row of a fee replacement it has inserted.
Replaces(row, q) == q.via = "replace" /\ q.pc # "replace" /\ row.purpose \in Ops

Unsettled(row, q) ==
  /\ row.status \in {"PREPARED", "SIGNED"}
  /\ q.pc \in AskPcs => row.status = "PREPARED"

\* A fee replacement of an operation is written by the call chain that created it alone.
OwnReplacement(rw, pr) ==
  \A p \in Procs : Replaces(rw[pr[p].att], pr[p]) =>
    /\ Unsettled(rw[pr[p].att], pr[p])
    /\ \A q \in Procs \ {p} : pr[q].pc # "idle" => pr[q].att # pr[p].att

CallsInv(st, rw, pr) ==
  /\ \A p \in Procs : Knows(st, rw[pr[p].att], pr[p])
  /\ OwnReplacement(rw, pr)

\* The inductive invariant: the two properties, and what the rows and the call chains must
\* say for them to survive a step.
SigningInv == TypeInv /\ RowsInv(op, rows) /\ CallsInv(op, rows, proc)

-----------------------------------------------------------------------------
(* Fees *)

LEMMA MaxOfTwo ==
  ASSUME NEW a \in Nat, NEW b \in Nat
  PROVE  Max({a, b}) \in {a, b} /\ Max({a, b}) >= a /\ Max({a, b}) >= b
BY DEF Max

\* scale: integer division, and the unit that makes small fees rise.
LEMMA Scaled ==
  ASSUME NEW v \in Nat
  PROVE  /\ Scale(v) \in Nat
         /\ Scale(v) > v
         /\ 100 * Scale(v) >= (100 + NodeBump) * v
         /\ \A w \in Nat : v <= w => Scale(v) <= Scale(w)
<1> DEFINE k == 100 + BumpPercent
           x == v * k
<1>1. k \in Nat /\ k >= 110
  BY BumpAssumption
<1> HIDE DEF k
<1>2. x \in Nat /\ x >= v * 110
  BY <1>1
<1>3. Scale(v) = x \div 100 + 1
  BY DEF Scale, k
<1>4. ASSUME NEW w \in Nat, v <= w PROVE Scale(v) <= Scale(w)
  <2>1. w * k \in Nat /\ x <= w * k
    BY <1>1, <1>4
  <2>2. Scale(w) = (w * k) \div 100 + 1
    BY DEF Scale, k
  <2> DEFINE y == w * k
  <2> HIDE DEF x, y
  <2>3. x \in Nat /\ y \in Nat /\ x <= y /\ Scale(w) = y \div 100 + 1
    BY <1>2, <2>1, <2>2 DEF x, y
  <2>4. x \div 100 <= y \div 100
    BY <2>3
  <2>5. QED
    BY <1>3, <2>3, <2>4
<1> HIDE DEF x
<1>5. x \div 100 \in Nat /\ x < 100 * (x \div 100) + 100
  BY <1>2
<1>6. QED
  BY <1>2, <1>3, <1>4, <1>5 DEF NodeBump

LEMMA DisplacesAll ==
  ASSUME NEW r, NEW s, NEW t, r.fee \in Nat, r.tip \in Nat, s.fee \in Nat, s.tip \in Nat,
         t.fee \in Nat, t.tip \in Nat, Displaces(t, s), Displaces(s, r)
  PROVE  Displaces(t, r)
BY DEF Displaces, NodeBump

\* bumpFees raises both fees by the node's price bump, and keeps the tip within the fee.
LEMMA Bumped ==
  ASSUME NEW row \in Row, row.tip <= row.fee, NEW current \in Estimates
  PROVE  BumpFees(row, current) \in Fees /\ GoodFees(BumpFees(row, current), row)
<1> DEFINE f == row.fee  t == row.tip
<1>1. f \in Nat /\ t \in Nat /\ t <= f
  BY DEF Row
<1>2. PICK sg \in Suggested : current = [fee |-> Max({sg[1], sg[2]}), tip |-> sg[2]]
  BY DEF Estimates
<1>3. sg[1] \in Nat /\ sg[2] \in Nat
  BY SuggestedAssumption
<1>4. current.fee \in Nat /\ current.tip \in Nat /\ current.tip <= current.fee
  BY <1>2, <1>3, MaxOfTwo
<1> DEFINE F == Max({Scale(f), current.fee})  T == Max({Scale(t), current.tip})
<1> HIDE DEF f, t
<1>5. /\ Scale(f) \in Nat /\ Scale(f) > f /\ 100 * Scale(f) >= (100 + NodeBump) * f
      /\ Scale(t) \in Nat /\ Scale(t) > t /\ 100 * Scale(t) >= (100 + NodeBump) * t
      /\ Scale(t) <= Scale(f)
  BY <1>1, Scaled
<1>6. /\ F \in Nat /\ F >= Scale(f) /\ F >= current.fee
      /\ T \in Nat /\ T >= Scale(t) /\ (T = Scale(t) \/ T = current.tip)
  BY <1>4, <1>5, MaxOfTwo
<1>7. BumpFees(row, current) = [fee |-> F, tip |-> T]
  BY DEF BumpFees, f, t
<1> HIDE DEF F, T
<1>8. T <= F /\ F > f /\ T > t
  BY <1>1, <1>4, <1>5, <1>6
<1>9. 100 * F >= (100 + NodeBump) * f /\ 100 * T >= (100 + NodeBump) * t
  BY <1>1, <1>5, <1>6 DEF NodeBump
<1>10. QED
  BY <1>6, <1>7, <1>8, <1>9 DEF Fees, GoodFees, Displaces, f, t

-----------------------------------------------------------------------------
(* What a step on the table keeps *)

\* A function on 1..n with values in S is a sequence over S of length n.
LEMMA TableIsSeq ==
  ASSUME NEW S, NEW n \in Nat, NEW f \in [1..n -> S]
  PROVE  f \in Seq(S) /\ Len(f) = n
<1>1. f \in Seq(S)
  BY SeqDef
<1>2. QED
  BY <1>1, LenProperties

\* A table of attempts, row by row.
LEMMA Table ==
  ASSUME NEW rw \in Seq(Row)
  PROVE  /\ Len(rw) \in Nat /\ DOMAIN rw = 1..Len(rw)
         /\ \A a \in 1..Len(rw) : rw[a] \in Row
BY LenProperties, ElementOfSeq

\* Row s has the identity of row r: all but its status and its bytes.
Same(r, s) ==
  /\ s.purpose = r.purpose /\ s.to = r.to /\ s.data = r.data /\ s.nonce = r.nonce
  /\ s.fee = r.fee /\ s.tip = r.tip /\ s.repl = r.repl

\* The states st2 keep what the rows have told of the states st.
StillBeyond(st, st2) == \A o \in Ops : Beyond(st, o) => Beyond(st2, o)

\* Row s may take the place of row r: it is not revived or retired, and what it tells is true.
Fits(st, r, s) ==
  /\ Same(r, s)
  /\ r.status = "REPLACED" <=> s.status = "REPLACED"
  /\ Tells(st, s) /\ Committed(s)

\* A row that is left alone fits.
LEMMA Untouched ==
  ASSUME NEW st, NEW st2, NEW r, StillBeyond(st, st2), Tells(st, r), Committed(r)
  PROVE  Fits(st2, r, r)
BY DEF Fits, Same, StillBeyond, Tells, Beyond

\* Rows rewritten within their identity keep the lane.
LEMMA RowsRewritten ==
  ASSUME NEW st, NEW st2, NEW rw \in Seq(Row), NEW rw2 \in Seq(Row), Len(rw2) = Len(rw),
         RowsInv(st, rw), \A a \in 1..Len(rw) : Fits(st2, rw[a], rw2[a])
  PROVE  RowsInv(st2, rw2)
<1>1. FirstAttempts(rw2) = FirstAttempts(rw)
  BY DEF FirstAttempts, Fits, Same
<1>2. LaneInOrder(rw2)
  <2>1. \A a \in 1..Len(rw) : /\ rw2[a].nonce = rw[a].nonce
                              /\ LiveIn(rw2, a) <=> LiveIn(rw, a)
    BY DEF Fits, Same, LiveIn
  <2>2. LaneInOrder(rw)
    BY DEF RowsInv
  <2>3. \A a \in 1..Len(rw2) : rw2[a].nonce < Cardinality(FirstAttempts(rw2))
    BY <1>1, <2>1, <2>2 DEF LaneInOrder
  <2>4. \A a, b \in 1..Len(rw2) : LiveIn(rw2, a) /\ rw2[b].nonce = rw2[a].nonce => b <= a
    BY <2>1, <2>2 DEF LaneInOrder
  <2>5. \A a \in 1..Len(rw2) :
          \E b \in 1..Len(rw2) : LiveIn(rw2, b) /\ rw2[b].nonce = rw2[a].nonce
    BY <2>1, <2>2 DEF LaneInOrder
  <2>6. QED
    BY <2>3, <2>4, <2>5 DEF LaneInOrder
<1>3. Len(rw) \in Nat
  BY Table
<1>4. FeesInOrder(rw2)
  <2>1. \A a \in 1..Len(rw) : rw2[a].tip = rw[a].tip /\ rw2[a].fee = rw[a].fee
                              /\ rw2[a].nonce = rw[a].nonce
    BY DEF Fits, Same
  <2>2. QED
    BY <1>3, <2>1 DEF RowsInv, FeesInOrder, Displaces
<1>5. QED
  BY <1>2, <1>4 DEF RowsInv, Fits

\* One row is appended.
LEMMA Appended ==
  ASSUME NEW rw \in Seq(Row), NEW row \in Row
  PROVE  /\ Append(rw, row) \in Seq(Row)
         /\ Len(Append(rw, row)) = Len(rw) + 1
         /\ \A a \in 1..Len(rw) : Append(rw, row)[a] = rw[a]
         /\ Append(rw, row)[Len(rw) + 1] = row
BY AppendProperties

\* The set of first attempts is finite, and its size a natural number.
LEMMA FirstAttemptsFinite ==
  ASSUME NEW rw \in Seq(Row)
  PROVE  IsFiniteSet(FirstAttempts(rw)) /\ Cardinality(FirstAttempts(rw)) \in Nat
<1>1. IsFiniteSet(1..Len(rw))
  BY Table, FS_Interval
<1>2. IsFiniteSet(FirstAttempts(rw))
  BY <1>1, FS_Subset DEF FirstAttempts
<1>3. QED
  BY <1>2, FS_CardinalityType

\* reserveNonce and the first attempt of an operation: a nonce nobody holds.
LEMMA FirstAttemptInserted ==
  ASSUME NEW st, NEW st2, NEW rw \in Seq(Row), NEW row \in Row,
         RowsInv(st, rw), StillBeyond(st, st2),
         row.repl = 0, row.nonce = Cardinality(FirstAttempts(rw)),
         row.status = "PREPARED", row.bytes = NoBytes, row.tip <= row.fee
  PROVE  RowsInv(st2, Append(rw, row))
<1> DEFINE n == Len(rw)
           rw2 == Append(rw, row)
           N == Cardinality(FirstAttempts(rw))
<1>1. /\ n \in Nat /\ rw2 \in Seq(Row) /\ Len(rw2) = n + 1
      /\ \A a \in 1..n : rw2[a] = rw[a] /\ rw[a] \in Row
      /\ rw2[n + 1] = row
  BY Table, Appended
<1>2. N \in Nat /\ IsFiniteSet(FirstAttempts(rw))
  BY FirstAttemptsFinite
<1> HIDE DEF rw2
<1>3. FirstAttempts(rw2) = FirstAttempts(rw) \cup {n + 1} /\ n + 1 \notin FirstAttempts(rw)
  BY <1>1 DEF FirstAttempts
<1>4. Cardinality(FirstAttempts(rw2)) = N + 1
  <2> DEFINE S == FirstAttempts(rw)  x == n + 1
  <2>1. IsFiniteSet(S) /\ x \notin S /\ FirstAttempts(rw2) = S \cup {x} /\ N = Cardinality(S)
    BY <1>2, <1>3
  <2> HIDE DEF S, x, N
  <2>2. Cardinality(S \cup {x}) = Cardinality(S) + 1
    BY <2>1, FS_AddElement
  <2>3. QED
    BY <2>1, <2>2
<1>5. \A a \in 1..n : rw[a].nonce < N /\ rw[a].nonce \in Nat
  BY <1>1 DEF RowsInv, LaneInOrder, Row
<1> HIDE DEF N
<1>6. \A a \in 1..(n + 1) : a \in 1..n \/ a = n + 1
  BY <1>1
<1>7. row.nonce = N
  BY DEF N
<1>8. LaneInOrder(rw2)
  <2>1. \A a \in 1..(n + 1) : rw2[a].nonce < N + 1
    BY <1>1, <1>2, <1>5, <1>6, <1>7
  <2>2. ASSUME NEW a \in 1..(n + 1), NEW b \in 1..(n + 1), LiveIn(rw2, a),
               rw2[b].nonce = rw2[a].nonce
        PROVE  b <= a
    <3>1. CASE a = n + 1
      BY <1>1, <3>1
    <3>2. CASE a \in 1..n /\ b = n + 1
      BY <1>1, <1>2, <1>5, <1>7, <2>2, <3>2
    <3>3. CASE a \in 1..n /\ b \in 1..n
      BY <1>1, <2>2, <3>3 DEF RowsInv, LaneInOrder, LiveIn
    <3>4. QED
      BY <1>6, <3>1, <3>2, <3>3
  <2>3. ASSUME NEW a \in 1..(n + 1)
        PROVE  \E b \in 1..(n + 1) : LiveIn(rw2, b) /\ rw2[b].nonce = rw2[a].nonce
    <3>1. CASE a = n + 1
      BY <1>1, <3>1 DEF LiveIn
    <3>2. CASE a \in 1..n
      <4>1. PICK b \in 1..n : LiveIn(rw, b) /\ rw[b].nonce = rw[a].nonce
        BY <3>2 DEF RowsInv, LaneInOrder
      <4>2. b \in 1..(n + 1) /\ LiveIn(rw2, b) /\ rw2[b].nonce = rw2[a].nonce
        BY <1>1, <3>2, <4>1 DEF LiveIn
      <4>3. QED
        BY <4>2
    <3>3. QED
      BY <1>6, <3>1, <3>2
  <2>4. QED
    BY <1>1, <1>4, <2>1, <2>2, <2>3 DEF LaneInOrder
<1>9. FeesInOrder(rw2)
  <2>1. ASSUME NEW a \in 1..n
        PROVE  /\ rw2[a].tip <= rw2[a].fee
               /\ \A b \in 1..(a - 1) : rw2[b].nonce = rw2[a].nonce => Displaces(rw2[a], rw2[b])
    BY <1>1 DEF RowsInv, FeesInOrder
  <2>2. \A b \in 1..n : rw2[b].nonce # rw2[n + 1].nonce
    BY <1>1, <1>2, <1>5, <1>7
  <2>3. (n + 1) - 1 = n
    BY <1>1
  <2>4. QED
    BY <1>1, <1>6, <2>1, <2>2, <2>3 DEF FeesInOrder
<1>10. ASSUME NEW a \in 1..(n + 1) PROVE Tells(st2, rw2[a]) /\ Committed(rw2[a])
  <2>1. CASE a = n + 1
    BY <1>1, <2>1 DEF Tells, Committed
  <2>2. CASE a \in 1..n
    <3>1. Tells(st, rw[a]) /\ Committed(rw[a])
      BY <2>2 DEF RowsInv
    <3>2. QED
      BY <1>1, <2>2, <3>1, Untouched DEF Fits
  <2>3. QED
    BY <1>6, <2>1, <2>2
<1>11. QED
  BY <1>1, <1>8, <1>9, <1>10 DEF RowsInv, rw2

\* signReplacement: the live row is retired and the next one takes its nonce.
LEMMA ReplacementInserted ==
  ASSUME NEW st, NEW rw \in Seq(Row), NEW a \in 1..Len(rw), NEW row \in Row,
         RowsInv(st, rw), LiveIn(rw, a), Beyond(st, rw[a].purpose), Beyond(st, row.purpose),
         row.nonce = rw[a].nonce, row.repl = rw[a].repl + 1,
         row.status = "PREPARED", row.bytes = NoBytes, GoodFees(row, rw[a])
  PROVE  /\ Append([rw EXCEPT ![a] = [rw[a] EXCEPT !.status = "REPLACED"]], row) \in Seq(Row)
         /\ RowsInv(st, Append([rw EXCEPT ![a] = [rw[a] EXCEPT !.status = "REPLACED"]], row))
<1> DEFINE n == Len(rw)
           old == [rw[a] EXCEPT !.status = "REPLACED"]
           mid == [rw EXCEPT ![a] = old]
           rw2 == Append(mid, row)
<1>1. n \in Nat /\ \A b \in 1..n : rw[b] \in Row
  BY Table
<1>2. old \in Row /\ Same(rw[a], old) /\ old.status = "REPLACED" /\ old.bytes = rw[a].bytes
  BY <1>1 DEF Row, Same, Statuses
<1> HIDE DEF old
<1>3. /\ mid \in Seq(Row) /\ Len(mid) = n /\ mid[a] = old
      /\ \A b \in 1..n : b # a => mid[b] = rw[b]
  BY <1>1, <1>2, ExceptSeq
<1> HIDE DEF mid
<1>4. /\ rw2 \in Seq(Row) /\ Len(rw2) = n + 1 /\ rw2[n + 1] = row /\ rw2[a] = old
      /\ \A b \in 1..n : b # a => rw2[b] = rw[b]
  BY <1>3, Appended
<1> HIDE DEF rw2
<1>5. \A b \in 1..n : Same(rw[b], rw2[b])
  BY <1>2, <1>4 DEF Same
<1>6. \A b \in 1..n : /\ rw2[b].nonce = rw[b].nonce /\ rw2[b].tip = rw[b].tip
                      /\ rw2[b].fee = rw[b].fee /\ rw2[b].repl = rw[b].repl
  BY <1>5 DEF Same
<1>7. \A b \in 1..(n + 1) : b \in 1..n \/ b = n + 1
  BY <1>1
<1>8. row.repl # 0
  <2>1. rw[a].repl \in Nat
    BY <1>1 DEF Row
  <2>2. rw[a].repl + 1 # 0
    BY <2>1
  <2>3. QED
    BY <2>2
<1>9. FirstAttempts(rw2) = FirstAttempts(rw)
  BY <1>1, <1>4, <1>6, <1>7, <1>8 DEF FirstAttempts
<1>10. \A b \in 1..n : rw[b].nonce = rw[a].nonce => b <= a
  BY DEF RowsInv, LaneInOrder
<1>11. LaneInOrder(rw2)
  <2>1. \A b \in 1..(n + 1) : rw2[b].nonce < Cardinality(FirstAttempts(rw2))
    BY <1>4, <1>6, <1>7, <1>9 DEF RowsInv, LaneInOrder
  <2>2. ASSUME NEW b \in 1..(n + 1), NEW c \in 1..(n + 1), LiveIn(rw2, b),
               rw2[c].nonce = rw2[b].nonce
        PROVE  c <= b
    <3>1. CASE b = n + 1
      BY <1>1, <3>1
    <3>2. CASE b \in 1..n
      <4>1. b # a /\ LiveIn(rw, b)
        BY <1>2, <1>4, <2>2, <3>2 DEF LiveIn
      <4>2. CASE c \in 1..n
        BY <1>6, <2>2, <3>2, <4>1, <4>2 DEF RowsInv, LaneInOrder
      <4>3. CASE c = n + 1
        <5>1. rw[a].nonce = rw[b].nonce
          BY <1>4, <1>6, <2>2, <3>2, <4>3
        <5>2. a <= b /\ b <= a
          BY <1>10, <3>2, <4>1, <5>1 DEF RowsInv, LaneInOrder
        <5>3. QED
          BY <1>1, <3>2, <4>1, <5>2
      <4>4. QED
        BY <1>7, <4>2, <4>3
    <3>3. QED
      BY <1>7, <3>1, <3>2
  <2>3. ASSUME NEW b \in 1..(n + 1)
        PROVE  \E c \in 1..(n + 1) : LiveIn(rw2, c) /\ rw2[c].nonce = rw2[b].nonce
    <3>1. n + 1 \in 1..(n + 1) /\ LiveIn(rw2, n + 1) /\ rw2[n + 1].nonce = rw[a].nonce
      BY <1>1, <1>4 DEF LiveIn
    <3>2. CASE b = n + 1
      BY <3>1, <3>2
    <3>3. CASE b \in 1..n
      <4>1. PICK c \in 1..n : LiveIn(rw, c) /\ rw[c].nonce = rw[b].nonce
        BY <3>3 DEF RowsInv, LaneInOrder
      <4>2. CASE c = a
        BY <1>6, <3>1, <3>3, <4>1, <4>2
      <4>3. CASE c # a
        <5>1. c \in 1..(n + 1) /\ LiveIn(rw2, c) /\ rw2[c].nonce = rw2[b].nonce
          BY <1>1, <1>4, <1>6, <3>3, <4>1, <4>3 DEF LiveIn
        <5>2. QED
          BY <5>1
      <4>4. QED
        BY <4>2, <4>3
    <3>4. QED
      BY <1>7, <3>2, <3>3
  <2>4. QED
    BY <1>4, <2>1, <2>2, <2>3 DEF LaneInOrder
<1>12. FeesInOrder(rw2)
  <2>1. ASSUME NEW b \in 1..n
        PROVE  /\ rw2[b].tip <= rw2[b].fee
               /\ \A c \in 1..(b - 1) : rw2[c].nonce = rw2[b].nonce => Displaces(rw2[b], rw2[c])
    BY <1>1, <1>6 DEF RowsInv, FeesInOrder, Displaces
  <2>2. ASSUME NEW b \in 1..n, rw2[b].nonce = row.nonce PROVE Displaces(row, rw2[b])
    <3>1. rw[b].nonce = rw[a].nonce /\ b <= a
      BY <1>6, <1>10, <2>2
    <3>2. Displaces(row, rw[a])
      BY DEF GoodFees
    <3>3. CASE b = a
      BY <1>6, <3>2, <3>3 DEF Displaces
    <3>4. CASE b # a
      <4>1. b \in 1..(a - 1)
        BY <1>1, <3>1, <3>4
      <4>2. Displaces(rw[a], rw[b])
        BY <3>1, <4>1 DEF RowsInv, FeesInOrder
      <4>3. /\ row.fee \in Nat /\ row.tip \in Nat /\ rw[a].fee \in Nat /\ rw[a].tip \in Nat
            /\ rw[b].fee \in Nat /\ rw[b].tip \in Nat
        BY <1>1 DEF Row
      <4>4. Displaces(row, rw[b])
        BY <3>2, <4>2, <4>3, DisplacesAll
      <4>5. QED
        BY <1>6, <4>4 DEF Displaces
    <3>5. QED
      BY <3>3, <3>4
  <2>3. row.tip <= row.fee /\ (n + 1) - 1 = n
    BY <1>1 DEF GoodFees
  <2>4. QED
    BY <1>4, <1>7, <2>1, <2>2, <2>3 DEF FeesInOrder
<1>13. ASSUME NEW b \in 1..(n + 1) PROVE Tells(st, rw2[b]) /\ Committed(rw2[b])
  <2>1. CASE b = n + 1
    BY <1>4, <2>1 DEF Tells, Committed
  <2>2. CASE b = a
    BY <1>2, <1>4, <2>2 DEF Tells, Committed, Same, RowsInv, UnsignedRequest
  <2>3. CASE b \in 1..n /\ b # a
    BY <1>4, <2>3 DEF RowsInv
  <2>4. QED
    BY <1>7, <2>1, <2>2, <2>3
<1>14. RowsInv(st, rw2)
  BY <1>4, <1>11, <1>12, <1>13 DEF RowsInv
<1>15. QED
  BY <1>4, <1>14 DEF rw2, mid, old

-----------------------------------------------------------------------------
(* What a step leaves of the knowledge of the call chains *)

\* A call that is idle knows nothing.
LEMMA IdleKnows ==
  ASSUME NEW st, NEW row, NEW st2, NEW s, NEW q, Knows(st, row, q), q.pc = "idle"
  PROVE  Knows(st2, s, q)
BY DEF Knows

LEMMA IdleIsIdle ==
  /\ Idle \in CallChain /\ Idle.pc = "idle"
  /\ \A st, row : Knows(st, row, Idle)
BY DEF Idle, CallChain, CallPcs, Fees, Answers, Bytes, NoAnswer, Knows

\* Knowledge of a row outlives a change of its status or its bytes.
LEMMA KnowsStill ==
  ASSUME NEW st, NEW st2, NEW r, NEW s, NEW q, Knows(st, r, q), Same(r, s), StillBeyond(st, st2)
  PROVE  Knows(st2, s, q)
<1>1. UnsignedRequest(s) = UnsignedRequest(r)
  BY DEF UnsignedRequest, Same
<1>2. Beyond(st, r.purpose) => Beyond(st2, s.purpose)
  BY DEF StillBeyond, Same, Beyond
<1>3. GoodFees(q.fees, r) => GoodFees(q.fees, s)
  BY DEF GoodFees, Displaces, Same
<1>4. s.purpose = r.purpose /\ s.repl = r.repl
  BY DEF Same
<1>5. QED
  BY <1>1, <1>2, <1>3, <1>4 DEF Knows

\* A step of call chain p, that leaves it as q: the others keep what they know if the rows
\* keep their identity; no one else holds the row of a replacement.
LEMMA CallsKept ==
  ASSUME NEW st, NEW st2, NEW rw, NEW rw2, NEW pr \in [Procs -> CallChain],
         NEW p \in Procs, NEW q \in CallChain,
         CallsInv(st, rw, pr), StillBeyond(st, st2),
         \A x \in Procs : pr[x].pc # "idle" => pr[x].att \in 1..Len(rw),
         \A a \in 1..Len(rw) : Same(rw[a], rw2[a]),
         Knows(st2, rw2[q.att], q),
         Replaces(rw2[q.att], q) =>
           /\ Unsettled(rw2[q.att], q)
           /\ \A x \in Procs \ {p} : pr[x].pc # "idle" => pr[x].att # q.att,
         \A x \in Procs \ {p} : Replaces(rw[pr[x].att], pr[x]) =>
           /\ rw2[pr[x].att].status = rw[pr[x].att].status
           /\ q.pc # "idle" => q.att # pr[x].att
  PROVE  CallsInv(st2, rw2, [pr EXCEPT ![p] = q])
<1> DEFINE pr2 == [pr EXCEPT ![p] = q]
<1>1. pr2[p] = q /\ \A x \in Procs \ {p} : pr2[x] = pr[x]
  OBVIOUS
<1> HIDE DEF pr2
<1>2. ASSUME NEW x \in Procs PROVE Knows(st2, rw2[pr2[x].att], pr2[x])
  <2>1. CASE x = p
    BY <1>1, <2>1
  <2>2. CASE x # p
    <3>1. Knows(st, rw[pr[x].att], pr[x])
      BY DEF CallsInv
    <3>2. CASE pr[x].pc = "idle"
      BY <1>1, <2>2, <3>1, <3>2, IdleKnows
    <3>3. CASE pr[x].pc # "idle"
      BY <1>1, <2>2, <3>1, <3>3, KnowsStill
    <3>4. QED
      BY <3>2, <3>3
  <2>3. QED
    BY <2>1, <2>2
<1>3. ASSUME NEW x \in Procs, Replaces(rw2[pr2[x].att], pr2[x])
      PROVE  /\ Unsettled(rw2[pr2[x].att], pr2[x])
             /\ \A y \in Procs \ {x} : pr2[y].pc # "idle" => pr2[y].att # pr2[x].att
  <2>1. CASE x = p
    BY <1>1, <1>3, <2>1
  <2>2. CASE x # p
    <3>1. Knows(st, rw[pr[x].att], pr[x])
      BY DEF CallsInv
    <3>2. pr[x].via = "replace" /\ pr[x].pc # "idle"
      BY <1>1, <1>3, <2>2, <3>1 DEF Replaces, Knows
    <3>3. Same(rw[pr[x].att], rw2[pr[x].att])
      BY <3>2
    <3>4. Replaces(rw[pr[x].att], pr[x])
      BY <1>1, <1>3, <2>2, <3>3 DEF Replaces, Same
    <3>5. /\ Unsettled(rw[pr[x].att], pr[x])
          /\ \A y \in Procs \ {x} : pr[y].pc # "idle" => pr[y].att # pr[x].att
      BY <3>4 DEF CallsInv, OwnReplacement
    <3>6. Unsettled(rw2[pr2[x].att], pr2[x])
      BY <1>1, <2>2, <3>4, <3>5 DEF Unsettled
    <3>7. ASSUME NEW y \in Procs \ {x}, pr2[y].pc # "idle" PROVE pr2[y].att # pr2[x].att
      <4>1. CASE y = p
        BY <1>1, <2>2, <3>4, <3>7, <4>1
      <4>2. CASE y # p
        BY <1>1, <2>2, <3>5, <3>7, <4>2
      <4>3. QED
        BY <4>1, <4>2
    <3>8. QED
      BY <3>6, <3>7
  <2>3. QED
    BY <2>1, <2>2
<1>4. QED
  BY <1>2, <1>3 DEF CallsInv, OwnReplacement, pr2

-----------------------------------------------------------------------------
(* Steps that leave the rows and the operations alone *)

\* The program counters at which a call chain works on the attempt it was begun for.
WorkPcs == CallPcs \ {"idle", "replace", "cancel", "abandonTx"}

\* The call chain goes on with its attempt.
Continues(old, q) ==
  /\ old.pc \in WorkPcs /\ q.pc \in WorkPcs
  /\ q.via = old.via /\ q.att = old.att
  /\ q.pc \in AskPcs => old.pc \in AskPcs

\* The call chain begins, and not with a row of a replacement that is being written.
Begins(row, q) ==
  /\ q.via # "replace" \/ q.pc = "replace"
  /\ row.purpose \in Ops /\ row.repl > 0 => row.status \notin {"PREPARED", "SIGNED"}

LEMMA QuietCalls ==
  ASSUME TypeInv, CallsInv(op, rows, proc), NEW p \in Procs, NEW q \in CallChain,
         Knows(op, rows[q.att], q),
         q.pc = "idle" \/ Continues(proc[p], q) \/ Begins(rows[q.att], q)
  PROVE  CallsInv(op, rows, [proc EXCEPT ![p] = q])
<1>1. StillBeyond(op, op) /\ \A a \in 1..Len(rows) : Same(rows[a], rows[a])
  BY DEF StillBeyond, Same
<1>2. \A x \in Procs : Knows(op, rows[proc[x].att], proc[x])
  BY DEF CallsInv
<1>3. ASSUME NEW x \in Procs, Replaces(rows[proc[x].att], proc[x])
      PROVE  /\ rows[proc[x].att].repl > 0
             /\ rows[proc[x].att].purpose \in Ops
             /\ Unsettled(rows[proc[x].att], proc[x])
             /\ \A y \in Procs \ {x} : proc[y].pc # "idle" => proc[y].att # proc[x].att
  <2>1. rows[proc[x].att].repl > 0 /\ rows[proc[x].att].purpose \in Ops
    BY <1>2, <1>3 DEF Replaces, Knows
  <2>2. QED
    BY <1>3, <2>1 DEF CallsInv, OwnReplacement
<1>4. ASSUME Continues(proc[p], q), Replaces(rows[q.att], q)
      PROVE  Replaces(rows[proc[p].att], proc[p]) /\ (q.pc \in AskPcs => proc[p].pc \in AskPcs)
  BY <1>4 DEF Continues, Replaces, WorkPcs
<1>5. ASSUME Replaces(rows[q.att], q)
      PROVE  /\ Unsettled(rows[q.att], q)
             /\ \A x \in Procs \ {p} : proc[x].pc # "idle" => proc[x].att # q.att
  <2>1. Continues(proc[p], q)
    BY <1>5 DEF Replaces, Begins, Knows
  <2>2. q.att = proc[p].att
    BY <2>1 DEF Continues
  <2>3. QED
    BY <1>3, <1>4, <1>5, <2>1, <2>2 DEF Unsettled
<1>6. ASSUME NEW x \in Procs \ {p}, Replaces(rows[proc[x].att], proc[x]), q.pc # "idle"
      PROVE  q.att # proc[x].att
  <2>1. CASE Continues(proc[p], q)
    <3>1. q.att = proc[p].att /\ proc[p].pc # "idle"
      BY <2>1 DEF Continues, WorkPcs
    <3>2. QED
      BY <1>3, <1>6, <3>1
  <2>2. CASE Begins(rows[q.att], q)
    BY <1>3, <1>6, <2>2 DEF Begins, Unsettled
  <2>3. QED
    BY <1>6, <2>1, <2>2
<1>7. proc \in [Procs -> CallChain] /\ \A x \in Procs : proc[x].pc # "idle" => proc[x].att \in 1..Len(rows)
  BY DEF TypeInv
<1>8. QED
  BY <1>1, <1>5, <1>6, <1>7, CallsKept

\* Call chain p becomes q, and nothing else is written that others rely on.
QuietAs(p, q) ==
  /\ proc' = [proc EXCEPT ![p] = q]
  /\ q.pc # "idle" => q.att \in 1..Len(rows)
  /\ Knows(op, rows[q.att], q)
  /\ q.pc = "idle" \/ Continues(proc[p], q) \/ Begins(rows[q.att], q)

Quiet(p) == UNCHANGED <<op, rows>> /\ \E q \in CallChain : QuietAs(p, q)

\* The signer and the table of its requests keep their types.
SideTyped ==
  /\ req' \in [Attempts -> RequestStatuses]
  /\ lapsed' \subseteq Attempts
  /\ held' \in [Attempts -> Held]

LEMMA QuietStep ==
  ASSUME SigningInv, NEW p \in Procs, Quiet(p), SideTyped
  PROVE  SigningInv'
<1>1. PICK q \in CallChain : QuietAs(p, q)
  BY DEF Quiet
<1>2. op' = op /\ rows' = rows /\ proc' = [proc EXCEPT ![p] = q]
  BY <1>1 DEF Quiet, QuietAs
<1>3. TypeInv'
  BY <1>1, <1>2 DEF SigningInv, TypeInv, QuietAs, SideTyped
<1>4. CallsInv(op, rows, [proc EXCEPT ![p] = q])
  BY <1>1, QuietCalls DEF SigningInv, QuietAs
<1>5. QED
  BY <1>2, <1>3, <1>4 DEF SigningInv

LEMMA DoneIsQuiet ==
  ASSUME NEW p \in Procs, Done(p), UNCHANGED <<op, rows>>
  PROVE  Quiet(p)
BY IdleIsIdle DEF Done, Quiet, QuietAs

\* A call chain at work takes up its next step, with the answer it has now.
LEMMA WorkIsQuiet ==
  ASSUME SigningInv, NEW p \in Procs, UNCHANGED <<op, rows>>,
         proc[p].pc \in WorkPcs, NEW pc \in WorkPcs, NEW answer \in Answers,
         pc \in AskPcs => proc[p].pc \in AskPcs,
         pc = "failOp" => proc[p].via = "execute",
         pc = "persist" =>
           answer.bytes = Signature(UnsignedRequest(rows[proc[p].att]), "signer"),
         proc' = [proc EXCEPT ![p] = [proc[p] EXCEPT !.pc = pc, !.answer = answer]]
  PROVE  Quiet(p)
<1> DEFINE q == [proc[p] EXCEPT !.pc = pc, !.answer = answer]
<1>1. proc[p] \in CallChain /\ (proc[p].pc # "idle" => proc[p].att \in 1..Len(rows))
  BY DEF SigningInv, TypeInv
<1>2. /\ q \in CallChain /\ q.pc = pc /\ q.via = proc[p].via /\ q.att = proc[p].att
      /\ q.answer = answer
  BY <1>1 DEF CallChain, WorkPcs
<1>3. proc' = [proc EXCEPT ![p] = q]
  OBVIOUS
<1> HIDE DEF q
<1>4. Continues(proc[p], q)
  BY <1>2 DEF Continues
<1>5. Knows(op, rows[proc[p].att], proc[p])
  BY DEF SigningInv, CallsInv
<1>6. Knows(op, rows[q.att], q)
  BY <1>2, <1>5 DEF Knows, WorkPcs
<1>7. QED
  BY <1>1, <1>2, <1>3, <1>4, <1>6 DEF Quiet, QuietAs, WorkPcs

LEMMA GotoIsQuiet ==
  ASSUME SigningInv, NEW p \in Procs, UNCHANGED <<op, rows>>,
         proc[p].pc \in WorkPcs, NEW pc \in WorkPcs, Goto(p, pc),
         pc \in AskPcs => proc[p].pc \in AskPcs,
         pc = "failOp" => proc[p].via = "execute",
         pc = "persist" =>
           proc[p].answer.bytes = Signature(UnsignedRequest(rows[proc[p].att]), "signer")
  PROVE  Quiet(p)
<1>1. proc \in [Procs -> CallChain] /\ proc[p] \in CallChain /\ proc[p].answer \in Answers
  BY DEF SigningInv, TypeInv, CallChain
<1>2. [proc[p] EXCEPT !.pc = pc] = [proc[p] EXCEPT !.pc = pc, !.answer = proc[p].answer]
  BY <1>1 DEF CallChain
<1>3. proc' = [proc EXCEPT ![p] = [proc[p] EXCEPT !.pc = pc, !.answer = proc[p].answer]]
  BY <1>1, <1>2 DEF Goto
<1>4. QED
  BY <1>1, <1>3, WorkIsQuiet

\* An exception ends the call, or leads execute to failOperation.
LEMMA ThrownIsQuiet ==
  ASSUME SigningInv, NEW p \in Procs, UNCHANGED <<op, rows>>, proc[p].pc \in WorkPcs, Thrown(p)
  PROVE  Quiet(p)
<1>1. CASE proc[p].via = "execute" /\ Goto(p, "failOp")
  <2>1. "failOp" \in WorkPcs /\ "failOp" \notin AskPcs
    BY DEF WorkPcs, CallPcs, AskPcs
  <2>2. QED
    BY <1>1, <2>1, GotoIsQuiet
<1>2. CASE Done(p)
  BY <1>2, DoneIsQuiet
<1>3. QED
  BY <1>1, <1>2 DEF Thrown

\* An idle call chain takes up an attempt.
LEMMA BeginIsQuiet ==
  ASSUME SigningInv, NEW p \in Procs, UNCHANGED <<op, rows>>,
         NEW pc \in {"resumeSig", "abandonTx", "replace", "cancel"},
         NEW via \in {"resume", "recover", "replace", "lane"},
         NEW a \in 1..Len(rows), NEW fees \in Fees,
         proc' = [proc EXCEPT ![p] = [Idle EXCEPT !.pc = pc, !.via = via, !.att = a, !.fees = fees]],
         pc = "abandonTx" <=> via = "recover",
         pc = "replace" <=> via = "replace",
         pc = "cancel" => via = "lane",
         pc \in {"replace", "cancel"} =>
           Beyond(op, rows[a].purpose) /\ GoodFees(fees, rows[a]),
         via \in {"resume", "recover"} => rows[a].purpose \in Ops,
         via = "lane" /\ pc # "cancel" => rows[a].purpose = Recovery,
         rows[a].purpose \in Ops /\ rows[a].repl > 0 => rows[a].status \notin {"PREPARED", "SIGNED"}
  PROVE  Quiet(p)
<1> DEFINE q == [Idle EXCEPT !.pc = pc, !.via = via, !.att = a, !.fees = fees]
<1>1. rows[a] \in Row /\ a \in Attempts
  BY Table, BoundsAssumption DEF SigningInv, TypeInv, Attempts
<1>2. /\ q \in CallChain /\ q.pc = pc /\ q.via = via /\ q.att = a /\ q.fees = fees
  BY <1>1, IdleIsIdle DEF CallChain, CallPcs
<1>3. proc' = [proc EXCEPT ![p] = q]
  OBVIOUS
<1> HIDE DEF q
<1>4. Knows(op, rows[a], q)
  BY <1>2 DEF Knows
<1>5. Begins(rows[a], q)
  BY <1>2 DEF Begins
<1>6. QED
  BY <1>2, <1>3, <1>4, <1>5 DEF Quiet, QuietAs

-----------------------------------------------------------------------------
(* The quiet steps, action by action *)

LEMMA SignerTypes ==
  /\ NoAnswer \in Answers /\ Pending \in Answers /\ Rejected \in Answers
  /\ NoRequest \in Held
  /\ \A row \in Row : UnsignedRequest(row) \in Request
BY DEF NoAnswer, Pending, Rejected, NoRequest, Held, Answers, Bytes, Row, UnsignedRequest, Request

\* Whatever the signer decides is an answer.
LEMMA DecisionsAreAnswers ==
  ASSUME NEW a, rows[a] \in Row, NEW d \in Decisions(a)
  PROVE  d \in Answers
<1> DEFINE request == UnsignedRequest(rows[a])
<1>1. request \in Request
  BY SignerTypes
<1> HIDE DEF request
<1>2. ASSUME NEW b \in Forged(request) \cup {Signature(request, "signer")} PROVE b \in Bytes
  BY <1>1 DEF Forged, Signature, Request, Bytes
<1>3. ASSUME NEW b \in Bytes PROVE Released(b) \in Answers
  BY <1>3 DEF Released, Answers
<1>4. d = Rejected \/ \E b \in Forged(request) \cup {Signature(request, "signer")} : d = Released(b)
  BY DEF Decisions, request
<1>5. QED
  BY <1>2, <1>3, <1>4, SignerTypes

\* A poll of the signer.
LEMMA AdvanceIsQuiet ==
  ASSUME SigningInv, NEW p \in Procs, UNCHANGED <<op, rows>>, NEW h \in Held,
         NEW pc \in {"recordReq", "fetched"}, proc[p].pc \in {"ask", "fetch"},
         Advance(p, h, pc)
  PROVE  Quiet(p) /\ held' \in [Attempts -> Held]
<1> DEFINE a == proc[p].att
<1>1. /\ proc[p] \in CallChain /\ a \in 1..Len(rows) /\ held \in [Attempts -> Held]
      /\ rows[a] \in Row
  BY Table DEF SigningInv, TypeInv
<1>2. \E answer \in Answers, kept \in Held :
        /\ held' = [held EXCEPT ![a] = kept]
        /\ proc' = [proc EXCEPT ![p] = [proc[p] EXCEPT !.pc = pc, !.answer = answer]]
  <2>1. h.answer \in Answers /\ h.polls \in Nat
    BY DEF Held
  <2>2. \A answer \in Answers : [h EXCEPT !.answer = answer] \in Held
    BY DEF Held
  <2>3. h.polls > 0 => [h EXCEPT !.polls = @ - 1] \in Held
    BY <2>1 DEF Held
  <2>4. \A d \in Decisions(a) : d \in Answers
    BY <1>1, DecisionsAreAnswers
  <2>5. QED
    BY <2>1, <2>2, <2>3, <2>4, SignerTypes DEF Advance
<1>3. PICK answer \in Answers, kept \in Held :
        /\ held' = [held EXCEPT ![a] = kept]
        /\ proc' = [proc EXCEPT ![p] = [proc[p] EXCEPT !.pc = pc, !.answer = answer]]
  BY <1>2
<1>4. /\ proc[p].pc \in WorkPcs /\ pc \in WorkPcs /\ proc[p].pc \in AskPcs
      /\ pc \notin {"failOp", "persist"}
  BY DEF WorkPcs, CallPcs, AskPcs
<1>5. Quiet(p)
  BY <1>3, <1>4, WorkIsQuiet
<1>6. QED
  BY <1>1, <1>3, <1>5

LEMMA RequestSignatureStep ==
  ASSUME SigningInv, NEW p \in Procs, RequestSignature(p)
  PROVE  SigningInv'
<1>1. /\ op' = op /\ rows' = rows /\ req' = req /\ lapsed' = lapsed /\ proc[p].pc = "ask"
  BY DEF RequestSignature
<1>2. ASSUME NEW polls \in 0..MaxPolls
      PROVE  [NoRequest EXCEPT !.polls = polls, !.answer = Pending] \in Held
  <2>1. polls \in Nat
    BY BoundsAssumption
  <2>2. QED
    BY <2>1, SignerTypes DEF Held, NoRequest
<1>3. Quiet(p) /\ held' \in [Attempts -> Held]
  <2>1. CASE \E polls \in 0..MaxPolls :
               Advance(p, [NoRequest EXCEPT !.polls = polls, !.answer = Pending], "recordReq")
    BY <1>1, <1>2, <2>1, AdvanceIsQuiet
  <2>2. CASE Thrown(p) /\ UNCHANGED held
    <3>1. proc[p].pc \in WorkPcs
      BY <1>1 DEF WorkPcs, CallPcs
    <3>2. QED
      BY <1>1, <2>2, <3>1, ThrownIsQuiet DEF SigningInv, TypeInv
  <2>3. QED
    BY <2>1, <2>2 DEF RequestSignature
<1>4. QED
  BY <1>1, <1>3, QuietStep DEF SideTyped, SigningInv, TypeInv

LEMMA FetchSignatureStep ==
  ASSUME SigningInv, NEW p \in Procs, FetchSignature(p)
  PROVE  SigningInv'
<1>1. /\ op' = op /\ rows' = rows /\ req' = req /\ lapsed' = lapsed /\ proc[p].pc = "fetch"
  BY DEF FetchSignature
<1>2. held[proc[p].att] \in Held
  BY <1>1, BoundsAssumption DEF SigningInv, TypeInv, Attempts
<1>3. Quiet(p) /\ held' \in [Attempts -> Held]
  <2>1. CASE Advance(p, held[proc[p].att], "fetched")
    BY <1>1, <1>2, <2>1, AdvanceIsQuiet
  <2>2. CASE Done(p) /\ UNCHANGED held
    BY <1>1, <2>2, DoneIsQuiet DEF SigningInv, TypeInv
  <2>3. QED
    BY <2>1, <2>2 DEF FetchSignature
<1>4. QED
  BY <1>1, <1>3, QuietStep DEF SideTyped, SigningInv, TypeInv

\* The reviewer, the clock, a crash and a restart.
LEMMA OutsideStep ==
  ASSUME SigningInv,
         \/ \E a \in Attempts : Reject(a) \/ Release(a) \/ Lapse(a)
         \/ \E p \in Procs : Crash(p)
         \/ Restart
  PROVE  SigningInv'
<1>1. CASE \E a \in Attempts : Reject(a) \/ Release(a) \/ Lapse(a)
  <2>1. PICK a \in Attempts : Reject(a) \/ Release(a) \/ Lapse(a)
    BY <1>1
  <2>2. op' = op /\ rows' = rows /\ req' = req /\ proc' = proc
    BY <2>1 DEF Reject, Release, Lapse
  <2>3. held \in [Attempts -> Held] /\ lapsed \subseteq Attempts
    BY DEF SigningInv, TypeInv
  <2>4. [held[a] EXCEPT !.refused = TRUE] \in Held /\ [held[a] EXCEPT !.polls = 0] \in Held
    BY <2>3 DEF Held
  <2>5. lapsed' \subseteq Attempts /\ held' \in [Attempts -> Held]
    BY <2>1, <2>3, <2>4 DEF Reject, Release, Lapse
  <2>6. QED
    BY <2>2, <2>5 DEF SigningInv, TypeInv
<1>2. CASE \E p \in Procs : Crash(p)
  BY <1>2, DoneIsQuiet, QuietStep DEF Crash, SideTyped, SigningInv, TypeInv
<1>3. CASE Restart
  <2>1. op' = op /\ rows' = rows /\ req' = req /\ lapsed' = lapsed
        /\ proc' = [p \in Procs |-> Idle] /\ held' = [a \in Attempts |-> NoRequest]
    BY <1>3 DEF Restart
  <2>2. TypeInv'
    BY <2>1, SignerTypes, IdleIsIdle DEF SigningInv, TypeInv
  <2>3. \A p \in Procs : proc'[p] = Idle
    BY <2>1
  <2>4. CallsInv(op, rows, proc')
    BY <2>3, IdleIsIdle DEF CallsInv, OwnReplacement, Replaces, Idle
  <2>5. QED
    BY <2>1, <2>2, <2>4 DEF SigningInv
<1>4. QED
  BY <1>1, <1>2, <1>3

LEMMA RecordRequestStep ==
  ASSUME SigningInv, NEW p \in Procs, RecordRequest(p)
  PROVE  SigningInv'
<1>1. op' = op /\ rows' = rows /\ held' = held /\ lapsed' = lapsed /\ proc[p].pc = "recordReq"
  BY DEF RecordRequest
<1>2. req' \in [Attempts -> RequestStatuses]
  BY DEF RecordRequest, SigningInv, TypeInv, CallChain, Answers, RequestStatuses
<1>3. Quiet(p)
  <2>1. CASE Done(p)
    BY <1>1, <2>1, DoneIsQuiet
  <2>2. CASE Goto(p, "settle")
    <3>1. proc[p].pc \in WorkPcs /\ "settle" \in WorkPcs /\ proc[p].pc \in AskPcs
      BY <1>1 DEF WorkPcs, CallPcs, AskPcs
    <3>2. QED
      BY <1>1, <2>2, <3>1, GotoIsQuiet
  <2>3. QED
    BY <2>1, <2>2 DEF RecordRequest
<1>4. QED
  BY <1>1, <1>2, <1>3, QuietStep DEF SideTyped, SigningInv, TypeInv

\* resumeSignature, expireLapsedSignerRequest and touchSignerRequest.
LEMMA ResumeSteps ==
  ASSUME SigningInv, NEW p \in Procs, ResumeSignature(p) \/ ExpireLapsed(p) \/ Fetched(p)
  PROVE  SigningInv'
<1>1. op' = op /\ rows' = rows /\ held' = held /\ lapsed' = lapsed
  BY DEF ResumeSignature, ExpireLapsed, Fetched
<1>2. req' \in [Attempts -> RequestStatuses]
  BY DEF ResumeSignature, ExpireLapsed, Fetched, SigningInv, TypeInv, RequestStatuses
<1>3. proc[p].pc \in {"resumeSig", "expire", "fetched"}
  BY DEF ResumeSignature, ExpireLapsed, Fetched
<1>4. \E pc \in {"expire", "fail", "fetch", "settle"} : Done(p) \/ Goto(p, pc)
  BY DEF ResumeSignature, ExpireLapsed, Fetched
<1>5. proc[p].pc \in WorkPcs /\ proc[p].pc \in AskPcs
  BY <1>3 DEF WorkPcs, CallPcs, AskPcs
<1>6. ASSUME NEW pc \in {"expire", "fail", "fetch", "settle"}
      PROVE  pc \in WorkPcs /\ pc # "failOp" /\ pc # "persist"
  BY DEF WorkPcs, CallPcs
<1>7. Quiet(p)
  BY <1>1, <1>4, <1>5, <1>6, DoneIsQuiet, GotoIsQuiet
<1>8. QED
  BY <1>1, <1>2, <1>7, QuietStep DEF SideTyped, SigningInv, TypeInv

\* settleSignature: only bytes that are the row's request get to persistSignedAttempt.
LEMMA SettleStep ==
  ASSUME SigningInv, NEW p \in Procs, Settle(p)
  PROVE  SigningInv'
<1>1. op' = op /\ rows' = rows /\ held' = held /\ lapsed' = lapsed /\ proc[p].pc = "settle"
  BY DEF Settle
<1>2. req' \in [Attempts -> RequestStatuses]
  BY DEF Settle, SigningInv, TypeInv, RequestStatuses
<1>3. proc[p].pc \in WorkPcs /\ proc[p].pc \in AskPcs /\ "fail" \in WorkPcs /\ "persist" \in WorkPcs
  BY <1>1 DEF WorkPcs, CallPcs, AskPcs
<1>4. CASE Goto(p, "fail")
  BY <1>1, <1>2, <1>3, <1>4, GotoIsQuiet, QuietStep DEF SideTyped, SigningInv, TypeInv
<1>5. CASE /\ Goto(p, "persist")
           /\ proc[p].answer # Rejected
           /\ Verify(proc[p].answer.bytes, UnsignedRequest(rows[proc[p].att]))
  <2> DEFINE b == proc[p].answer.bytes  u == UnsignedRequest(rows[proc[p].att])
  <2>1. b \in Bytes /\ proc[p].answer.status \in {"NONE", "PENDING", "REJECTED", "SIGNED"}
    BY DEF SigningInv, TypeInv, CallChain, Answers
  <2>2. b.by = "signer" /\ b.request = u
    BY <1>5 DEF Verify
  <2> HIDE DEF b, u
  <2>3. b # NoBytes
    BY <2>2 DEF NoBytes
  <2>4. b = Signature(u, "signer")
    BY <2>1, <2>2, <2>3 DEF Bytes, Signature
  <2>5. Quiet(p)
    BY <1>1, <1>3, <1>5, <2>4, GotoIsQuiet DEF b, u
  <2>6. QED
    BY <1>1, <1>2, <2>5, QuietStep DEF SideTyped, SigningInv, TypeInv
<1>6. QED
  BY <1>4, <1>5 DEF Settle

LEMMA CheckStep ==
  ASSUME SigningInv, NEW p \in Procs, AssertBroadcastAllowed(p)
  PROVE  SigningInv'
<1>1. /\ op' = op /\ rows' = rows /\ held' = held /\ lapsed' = lapsed /\ req' = req
      /\ proc[p].pc = "check" /\ \E pc \in {"announce", "fail"} : Goto(p, pc)
  BY DEF AssertBroadcastAllowed
<1>2. proc[p].pc \in WorkPcs
  BY <1>1 DEF WorkPcs, CallPcs
<1>3. \A pc \in {"announce", "fail"} : pc \in WorkPcs /\ pc \notin AskPcs
  BY DEF WorkPcs, CallPcs, AskPcs
<1>4. Quiet(p)
  BY <1>1, <1>2, <1>3, GotoIsQuiet
<1>5. QED
  BY <1>1, <1>4, QuietStep DEF SideTyped, SigningInv, TypeInv

\* The recovery sweep and the lane sweep take up an attempt.
LEMMA SweepStep ==
  ASSUME SigningInv, NEW p \in Procs, Sweep(p)
  PROVE  SigningInv'
<1>1. op' = op /\ rows' = rows /\ held' = held /\ lapsed' = lapsed /\ req' = req
  BY DEF Sweep, ResumeSigning, ResumeRecovery
<1>2. /\ Len(rows) \in Nat /\ \A a \in 1..Len(rows) : rows[a] \in Row /\ Tells(op, rows[a])
      /\ op \in [Ops -> States]
  BY Table DEF SigningInv, TypeInv, RowsInv
<1> DEFINE none == [fee |-> 0, tip |-> 0]
<1>0. none \in Fees
  BY DEF Fees
<1>3. \A pc, via, a : [Idle EXCEPT !.pc = pc, !.via = via, !.att = a]
                      = [Idle EXCEPT !.pc = pc, !.via = via, !.att = a, !.fees = none]
  <2>1. Idle \in CallChain /\ Idle.fees = none
    BY IdleIsIdle DEF Idle
  <2>2. QED
    BY <2>1 DEF CallChain
<1> HIDE DEF none
<1>4. ASSUME NEW o \in Ops, ResumeSigning(p, o) PROVE Quiet(p)
  <2>1. op[o] = "SIGNING"
    BY <1>4 DEF ResumeSigning
  <2>2. ASSUME NEW a, IsLatestAttempt(o, a)
        PROVE  a \in 1..Len(rows) /\ rows[a].purpose = o /\ ~(rows[a].repl > 0)
    <3>1. a \in 1..Len(rows) /\ rows[a].purpose = o
      BY <2>2 DEF IsLatestAttempt
    <3>2. QED
      BY <1>2, <2>1, <3>1 DEF Tells, Beyond
  <2>3. CASE \E a \in Attempts : Resumable(o, a) /\ Begin(p, "resumeSig", "resume", a)
    <3>1. PICK a \in Attempts : Resumable(o, a) /\ Begin(p, "resumeSig", "resume", a)
      BY <2>3
    <3>2. IsLatestAttempt(o, a)
      BY <3>1 DEF Resumable
    <3>3. a \in 1..Len(rows) /\ rows[a].purpose = o /\ ~(rows[a].repl > 0)
      BY <2>2, <3>2
    <3>4. proc' = [proc EXCEPT ![p] = [Idle EXCEPT !.pc = "resumeSig", !.via = "resume", !.att = a,
                                                      !.fees = none]]
      BY <1>3, <3>1 DEF Begin
    <3>5. QED
      BY <1>0, <1>1, <3>3, <3>4, BeginIsQuiet
  <2>4. CASE \E a \in Attempts : IsLatestAttempt(o, a) /\ Begin(p, "abandonTx", "recover", a)
    <3>1. PICK a \in Attempts : IsLatestAttempt(o, a) /\ Begin(p, "abandonTx", "recover", a)
      BY <2>4
    <3>2. a \in 1..Len(rows) /\ rows[a].purpose = o /\ ~(rows[a].repl > 0)
      BY <2>2, <3>1
    <3>3. proc' = [proc EXCEPT ![p] = [Idle EXCEPT !.pc = "abandonTx", !.via = "recover", !.att = a,
                                                      !.fees = none]]
      BY <1>3, <3>1 DEF Begin
    <3>4. QED
      BY <1>0, <1>1, <3>2, <3>3, BeginIsQuiet
  <2>5. QED
    BY <1>4, <2>3, <2>4 DEF ResumeSigning
<1>5. ASSUME NEW a \in Attempts, ResumeRecovery(p, a) PROVE Quiet(p)
  <2>1. a \in 1..Len(rows) /\ rows[a].purpose = Recovery /\ Begin(p, "resumeSig", "lane", a)
    BY <1>5 DEF ResumeRecovery, Live
  <2>2. Recovery \notin Ops
    BY OpsAssumption DEF Recovery
  <2>3. proc' = [proc EXCEPT ![p] = [Idle EXCEPT !.pc = "resumeSig", !.via = "lane", !.att = a,
                                                      !.fees = none]]
    BY <1>3, <2>1 DEF Begin
  <2>4. QED
    BY <1>0, <1>1, <2>1, <2>2, <2>3, BeginIsQuiet
<1>6. Quiet(p)
  BY <1>4, <1>5 DEF Sweep
<1>7. QED
  BY <1>1, <1>6, QuietStep DEF SideTyped, SigningInv, TypeInv

\* replaceOne and cancelBlocked read the row they mean to replace.
LEMMA BeginReplacementStep ==
  ASSUME SigningInv, NEW p \in Procs, NEW a \in Attempts, ReplaceOne(p, a) \/ CancelBlocked(p, a)
  PROVE  SigningInv'
<1>1. /\ op' = op /\ rows' = rows /\ held' = held /\ lapsed' = lapsed /\ req' = req
      /\ a \in 1..Len(rows)
      /\ rows[a].status \in {"BROADCASTING", "FAILED"}
  BY DEF ReplaceOne, CancelBlocked, BeginReplacement, Live
<1>2. rows[a] \in Row /\ Tells(op, rows[a]) /\ rows[a].tip <= rows[a].fee
  BY <1>1, Table DEF SigningInv, TypeInv, RowsInv, FeesInOrder
<1>3. PICK pv \in {<<"replace", "replace">>, <<"cancel", "lane">>} :
             BeginReplacement(p, a, pv[1], pv[2])
  <2>1. BeginReplacement(p, a, "replace", "replace") \/ BeginReplacement(p, a, "cancel", "lane")
    BY DEF ReplaceOne, CancelBlocked
  <2>2. QED
    BY <2>1
<1>4. PICK current \in Estimates :
        proc' = [proc EXCEPT ![p] = [Idle EXCEPT !.pc = pv[1], !.via = pv[2], !.att = a,
                                                 !.fees = BumpFees(rows[a], current)]]
  BY <1>3 DEF BeginReplacement
<1>5. BumpFees(rows[a], current) \in Fees /\ GoodFees(BumpFees(rows[a], current), rows[a])
  BY <1>2, Bumped
<1>6. Beyond(op, rows[a].purpose)
  BY <1>1, <1>2 DEF Tells
<1>7. Quiet(p)
  <2>1. /\ pv[1] \in {"replace", "cancel"} /\ pv[2] \in {"replace", "lane"}
        /\ pv[1] = "replace" <=> pv[2] = "replace"
        /\ pv[1] = "cancel" <=> pv[2] = "lane"
    OBVIOUS
  <2>2. rows[a].status \notin {"PREPARED", "SIGNED"}
    BY <1>1
  <2> DEFINE pc == pv[1]  via == pv[2]  fees == BumpFees(rows[a], current)
  <2>3. /\ pc \in {"resumeSig", "abandonTx", "replace", "cancel"}
        /\ via \in {"resume", "recover", "replace", "lane"}
        /\ pc = "abandonTx" <=> via = "recover"
        /\ pc = "replace" <=> via = "replace"
        /\ pc = "cancel" => via = "lane"
        /\ via \notin {"resume", "recover"}
        /\ ~(via = "lane" /\ pc # "cancel")
    BY <2>1
  <2>4. /\ fees \in Fees /\ GoodFees(fees, rows[a])
        /\ proc' = [proc EXCEPT ![p] = [Idle EXCEPT !.pc = pc, !.via = via, !.att = a,
                                                    !.fees = fees]]
    BY <1>4, <1>5
  <2> HIDE DEF pc, via, fees
  <2>5. QED
    BY <1>1, <1>6, <2>2, <2>3, <2>4, BeginIsQuiet
<1>8. QED
  BY <1>1, <1>7, QuietStep DEF SideTyped, SigningInv, TypeInv

-----------------------------------------------------------------------------
(* Steps that rewrite a row *)

\* No call chain but p writes the row a of a replacement.
OnlyOneAt(p, a) ==
  \A x \in Procs \ {p} : Replaces(rows[proc[x].att], proc[x]) => proc[x].att # a

\* A call chain at work holds its row alone, if it is a replacement's.
LEMMA HolderIsAlone ==
  ASSUME SigningInv, NEW p \in Procs, proc[p].pc # "idle"
  PROVE  OnlyOneAt(p, proc[p].att)
BY DEF SigningInv, CallsInv, OwnReplacement, OnlyOneAt

LEMMA RewriteStep ==
  ASSUME SigningInv, NEW p \in Procs, NEW a \in 1..Len(rows), NEW row \in Row, NEW q \in CallChain,
         NEW st \in [Ops -> States], op' = st, StillBeyond(op, st),
         rows' = [rows EXCEPT ![a] = row], Fits(st, rows[a], row),
         proc' = [proc EXCEPT ![p] = q], SideTyped, OnlyOneAt(p, a),
         \/ q = Idle
         \/ /\ Continues(proc[p], q) /\ a = proc[p].att /\ Knows(st, row, q)
            /\ row.status = "SIGNED" /\ q.pc \notin AskPcs
  PROVE  SigningInv'
<1> DEFINE rw == [rows EXCEPT ![a] = row]
<1>1. /\ rows \in Seq(Row) /\ Len(rows) \in Nat /\ proc \in [Procs -> CallChain]
      /\ Len(rows) <= MaxAttempts
      /\ \A b \in 1..Len(rows) : rows[b] \in Row
      /\ \A x \in Procs : proc[x].pc # "idle" => proc[x].att \in 1..Len(rows)
  BY Table DEF SigningInv, TypeInv
<1>2. rw \in Seq(Row) /\ Len(rw) = Len(rows) /\ rw[a] = row
      /\ \A b \in 1..Len(rows) : b # a => rw[b] = rows[b]
  BY <1>1, ExceptSeq
<1>3. rows' = rw
  OBVIOUS
<1> HIDE DEF rw
<1>4. ASSUME NEW b \in 1..Len(rows) PROVE Fits(st, rows[b], rw[b])
  <2>1. Tells(op, rows[b]) /\ Committed(rows[b])
    BY DEF SigningInv, RowsInv
  <2>2. QED
    BY <1>2, <2>1, Untouched
<1>5. RowsInv(st, rw)
  BY <1>1, <1>2, <1>4, RowsRewritten DEF SigningInv
<1>6. \A b \in 1..Len(rows) : Same(rows[b], rw[b])
  BY <1>4 DEF Fits
<1>7. CallsInv(op, rows, proc)
  BY DEF SigningInv
<1>8. Knows(st, rw[q.att], q)
  BY <1>2, IdleIsIdle DEF Continues
<1>9. ASSUME Replaces(rw[q.att], q)
      PROVE  /\ Unsettled(rw[q.att], q)
             /\ \A x \in Procs \ {p} : proc[x].pc # "idle" => proc[x].att # q.att
  <2>1. q # Idle
    BY <1>9 DEF Replaces, Idle
  <2>2. Continues(proc[p], q) /\ a = proc[p].att /\ row.status = "SIGNED" /\ q.pc \notin AskPcs
    BY <2>1
  <2>3. q.att = a /\ q.via = proc[p].via /\ proc[p].pc \in WorkPcs
    BY <2>2 DEF Continues
  <2>4. Replaces(rows[proc[p].att], proc[p])
    BY <1>2, <1>6, <1>9, <2>2, <2>3 DEF Replaces, WorkPcs, Same
  <2>5. QED
    BY <1>2, <1>7, <2>2, <2>3, <2>4 DEF Unsettled, CallsInv, OwnReplacement
<1>10. ASSUME NEW x \in Procs \ {p}, Replaces(rows[proc[x].att], proc[x])
       PROVE  /\ rw[proc[x].att].status = rows[proc[x].att].status
              /\ q.pc # "idle" => q.att # proc[x].att
  <2>1. proc[x].att # a
    BY <1>10 DEF OnlyOneAt
  <2>2. proc[x].att \in 1..Len(rows)
    BY <1>1, <1>7, <1>10 DEF CallsInv, Knows, Replaces
  <2>3. q.pc # "idle" => q.att = a
    BY IdleIsIdle DEF Continues
  <2>4. QED
    BY <1>2, <2>1, <2>2, <2>3
<1>11. CallsInv(st, rw, [proc EXCEPT ![p] = q])
  BY <1>1, <1>6, <1>7, <1>8, <1>9, <1>10, CallsKept
<1>12. TypeInv'
  <2>1. q.pc # "idle" => q.att \in 1..Len(rows)
    BY IdleIsIdle DEF Continues
  <2>2. proc' \in [Procs -> CallChain] /\ \A x \in Procs : proc'[x].pc # "idle" => proc'[x].att \in 1..Len(rows)
    BY <1>1, <2>1
  <2>3. QED
    BY <1>1, <1>2, <1>3, <2>2 DEF TypeInv, SideTyped
<1>13. QED
  BY <1>3, <1>5, <1>11, <1>12 DEF SigningInv

\* What a committed transaction of call chain p does: the row keeps its identity, it is not
\* one that was replaced, and the operation is where the row says.
LEMMA CommitFits ==
  ASSUME SigningInv, NEW p \in Procs, proc[p].pc \in {"fail", "persist", "announce"},
         NEW to \in {"FAILED", "SIGNED", "BROADCASTING"}, NEW row \in Row,
         Same(rows[proc[p].att], row), row.status = to, Committed(row), Commit(p, row, to)
  PROVE  /\ proc[p].att \in 1..Len(rows)
         /\ rows' = [rows EXCEPT ![proc[p].att] = row]
         /\ op' \in [Ops -> States] /\ StillBeyond(op, op')
         /\ Fits(op', rows[proc[p].att], row)
         /\ OnlyOneAt(p, proc[p].att)
<1> DEFINE a == proc[p].att
           o == row.purpose
           st == IF Moves(p) THEN [op EXCEPT ![o] = to] ELSE op
<1>1. /\ op \in [Ops -> States] /\ proc[p] \in CallChain
      /\ a \in 1..Len(rows) /\ rows[a] \in Row /\ Tells(op, rows[a])
      /\ Knows(op, rows[a], proc[p])
  BY Table DEF SigningInv, TypeInv, RowsInv, CallsInv
<1>2. RowAllowed(a, row) /\ HookAllows(p, to) /\ rows' = [rows EXCEPT ![a] = row] /\ op' = st
  BY DEF Commit
<1>3. o = rows[a].purpose /\ row.nonce = rows[a].nonce /\ row.repl = rows[a].repl
  BY DEF Same
<1>4. rows[a].status # "REPLACED"
  <2>1. SUFFICES ASSUME rows[a].status = "REPLACED" PROVE FALSE
    OBVIOUS
  <2>2. PICK b \in 1..Len(rows) : LiveIn(rows, b) /\ rows[b].nonce = rows[a].nonce
    BY <1>1 DEF SigningInv, RowsInv, LaneInOrder
  <2>3. b # a /\ Live(b)
    BY <2>1, <2>2 DEF LiveIn, Live
  <2>4. QED
    BY <1>2, <1>3, <2>2, <2>3 DEF RowAllowed
<1>5. CASE Moves(p)
  <2>1. o \in Ops /\ CanTransition(op[o], to)
    BY <1>1, <1>2, <1>3, <1>5 DEF Moves, Knows, HookAllows
  <2>2. op[o] \in States /\ op[o] # "FAILED" /\ (op[o] = "BROADCASTING" => to = "FAILED")
    BY <1>1, <2>1 DEF CanTransition, AllowedTransitions, States
  <2>3. st = [op EXCEPT ![o] = to] /\ to \in States
    BY <1>5 DEF States
  <2>4. st \in [Ops -> States] /\ st[o] = to /\ \A x \in Ops : x # o => st[x] = op[x]
    BY <1>1, <2>1, <2>3
  <2> HIDE DEF st, o
  <2>5. StillBeyond(op, st)
    BY <2>1, <2>2, <2>4 DEF StillBeyond, Beyond
  <2>6. Tells(st, row)
    BY <1>1, <1>3, <2>1, <2>2, <2>4 DEF Tells, Beyond, o
  <2>7. QED
    BY <1>1, <1>2, <1>4, <2>4, <2>5, <2>6, HolderIsAlone DEF Fits
<1>6. CASE ~Moves(p)
  <2>1. op' = op
    BY <1>2, <1>6
  <2>2. Beyond(op, o)
    <3>1. proc[p].via \in {"replace", "lane"}
      BY <1>1, <1>6 DEF Moves, CallChain, Knows
    <3>2. rows[a].repl > 0 \/ o = Recovery
      BY <1>1, <1>3, <3>1 DEF Knows
    <3>3. Recovery \notin Ops
      BY OpsAssumption DEF Recovery
    <3>4. QED
      BY <1>1, <1>3, <3>2, <3>3 DEF Tells, Beyond
  <2>3. StillBeyond(op, op)
    BY DEF StillBeyond
  <2>4. Fits(op, rows[a], row)
    BY <1>4, <2>2 DEF Fits, Tells
  <2>5. QED
    BY <1>1, <1>2, <2>1, <2>3, <2>4, HolderIsAlone
<1>7. QED
  BY <1>5, <1>6

\* A transaction that throws changes nothing.
LEMMA RolledBackStep ==
  ASSUME SigningInv, NEW p \in Procs, NEW row, NEW to, proc[p].pc \in {"fail", "persist", "announce"},
         RolledBack(p, row, to), UNCHANGED <<lapsed, held>>
  PROVE  SigningInv'
<1>1. proc[p].pc \in WorkPcs
  BY DEF WorkPcs, CallPcs
<1>2. Quiet(p)
  BY <1>1, ThrownIsQuiet DEF RolledBack
<1>3. QED
  BY <1>2, QuietStep DEF RolledBack, SideTyped, SigningInv, TypeInv

\* failAttempt and the announcement end the call.
LEMMA EndOfCallStep ==
  ASSUME SigningInv, NEW p \in Procs, FailAttempt(p) \/ AnnounceBroadcast(p)
  PROVE  SigningInv'
<1>1. PICK to \in {"FAILED", "BROADCASTING"} :
        /\ \/ /\ Commit(p, [rows[proc[p].att] EXCEPT !.status = to], to)
              /\ Done(p) /\ UNCHANGED req
           \/ RolledBack(p, [rows[proc[p].att] EXCEPT !.status = to], to)
        /\ proc[p].pc \in {"fail", "announce"}
        /\ UNCHANGED <<lapsed, held>>
  BY DEF FailAttempt, AnnounceBroadcast
<1> DEFINE row == [rows[proc[p].att] EXCEPT !.status = to]
<1>2. CASE RolledBack(p, row, to)
  BY <1>1, <1>2, RolledBackStep
<1>3. CASE Commit(p, row, to) /\ Done(p) /\ UNCHANGED req
  <2>1. /\ rows[proc[p].att] \in Row /\ Committed(rows[proc[p].att])
    BY <1>1, Table DEF SigningInv, TypeInv, RowsInv
  <2>2. /\ row \in Row /\ Same(rows[proc[p].att], row) /\ row.status = to
        /\ row.bytes = rows[proc[p].att].bytes
    BY <2>1 DEF Row, Same, Statuses
  <2>3. Committed(row)
    BY <2>1, <2>2 DEF Committed, Same, UnsignedRequest
  <2> HIDE DEF row
  <2>4. /\ proc[p].att \in 1..Len(rows)
        /\ rows' = [rows EXCEPT ![proc[p].att] = row]
        /\ op' \in [Ops -> States] /\ StillBeyond(op, op')
        /\ Fits(op', rows[proc[p].att], row)
        /\ OnlyOneAt(p, proc[p].att)
    BY <1>1, <1>3, <2>2, <2>3, CommitFits
  <2>5. proc' = [proc EXCEPT ![p] = Idle] /\ SideTyped
    BY <1>1, <1>3 DEF Done, SideTyped, SigningInv, TypeInv
  <2>6. QED
    BY <2>2, <2>4, <2>5, IdleIsIdle, RewriteStep
<1>4. QED
  BY <1>1, <1>2, <1>3

\* persistSignedAttempt stores the bytes that were verified.
LEMMA PersistStep ==
  ASSUME SigningInv, NEW p \in Procs, PersistSigned(p)
  PROVE  SigningInv'
<1> DEFINE a == proc[p].att
           row == [rows[a] EXCEPT !.status = "SIGNED", !.bytes = proc[p].answer.bytes]
           q == [proc[p] EXCEPT !.pc = "check"]
<1>1. proc[p].pc = "persist" /\ lapsed' = lapsed /\ held' = held
  BY DEF PersistSigned
<1>2. CASE RolledBack(p, row, "SIGNED")
  BY <1>1, <1>2, RolledBackStep
<1>3. CASE Commit(p, row, "SIGNED") /\ req' = [req EXCEPT ![a] = "SIGNED"] /\ Goto(p, "check")
  <2>1. /\ rows[a] \in Row /\ proc[p] \in CallChain /\ proc \in [Procs -> CallChain]
        /\ Knows(op, rows[a], proc[p])
    BY <1>1, Table DEF SigningInv, TypeInv, CallsInv
  <2>2. proc[p].answer.bytes = Signature(UnsignedRequest(rows[a]), "signer")
    BY <1>1, <2>1 DEF Knows
  <2>3. proc[p].answer.bytes \in Bytes
    BY <2>1 DEF CallChain, Answers
  <2>4. /\ row \in Row /\ Same(rows[a], row) /\ row.status = "SIGNED"
        /\ row.bytes = proc[p].answer.bytes
    BY <2>1, <2>3 DEF Row, Same, Statuses
  <2>5. Committed(row)
    BY <2>2, <2>4 DEF Committed, Same, UnsignedRequest
  <2>6. /\ q \in CallChain /\ q.pc = "check" /\ q.via = proc[p].via /\ q.att = a
        /\ proc' = [proc EXCEPT ![p] = q]
    BY <1>3, <2>1 DEF CallChain, CallPcs, Goto
  <2> HIDE DEF row, q
  <2>7. /\ a \in 1..Len(rows) /\ rows' = [rows EXCEPT ![a] = row]
        /\ op' \in [Ops -> States] /\ StillBeyond(op, op')
        /\ Fits(op', rows[a], row)
        /\ OnlyOneAt(p, a)
    BY <1>1, <1>3, <2>4, <2>5, CommitFits
  <2>8. Continues(proc[p], q) /\ q.pc \notin AskPcs
    BY <1>1, <2>6 DEF Continues, WorkPcs, CallPcs, AskPcs
  <2>9. Knows(op, rows[a], q)
    BY <1>1, <2>1, <2>6 DEF Knows
  <2>10. Knows(op', row, q)
    BY <2>4, <2>7, <2>9, KnowsStill
  <2>11. SideTyped
    BY <1>1, <1>3 DEF SideTyped, SigningInv, TypeInv, RequestStatuses
  <2>12. QED
    BY <2>4, <2>6, <2>7, <2>8, <2>10, <2>11, RewriteStep
<1>4. QED
  BY <1>2, <1>3 DEF PersistSigned

\* An operation that is not announced fails together with the row a, or alone.
LEMMA OperationFailed ==
  ASSUME SigningInv, NEW p \in Procs, NEW o \in Ops, op[o] \notin {"BROADCASTING", "FAILED"},
         op' = [op EXCEPT ![o] = "FAILED"], Done(p), UNCHANGED <<req, lapsed, held>>,
         NEW a \in 1..Len(rows), rows[a].purpose = o,
         rows' = rows \/ rows' = [rows EXCEPT ![a] = [rows[a] EXCEPT !.status = "FAILED"]]
  PROVE  SigningInv'
<1> DEFINE st == [op EXCEPT ![o] = "FAILED"]
           failed == [rows[a] EXCEPT !.status = "FAILED"]
<1>1. /\ op \in [Ops -> States] /\ rows \in Seq(Row) /\ rows[a] \in Row
      /\ Tells(op, rows[a]) /\ Committed(rows[a])
  BY Table DEF SigningInv, TypeInv, RowsInv
<1>2. st \in [Ops -> States] /\ op' = st /\ st[o] = "FAILED" /\ \A x \in Ops : x # o => st[x] = op[x]
  BY <1>1 DEF States
<1> HIDE DEF st
<1>3. StillBeyond(op, st)
  BY <1>2 DEF StillBeyond, Beyond
<1>4. rows[a].status # "REPLACED" /\ ~(rows[a].repl > 0)
  BY <1>1 DEF Tells, Beyond
<1>5. /\ failed \in Row /\ Same(rows[a], failed) /\ failed.status = "FAILED"
      /\ failed.bytes = rows[a].bytes
  BY <1>1 DEF Row, Same, Statuses
<1> HIDE DEF failed
<1>6. Fits(st, rows[a], failed)
  <2>1. Tells(st, failed)
    BY <1>2, <1>5 DEF Tells, Beyond, Same
  <2>2. Committed(failed)
    BY <1>1, <1>5 DEF Committed, Same, UnsignedRequest
  <2>3. QED
    BY <1>4, <1>5, <2>1, <2>2 DEF Fits
<1>7. Fits(st, rows[a], rows[a])
  BY <1>1, <1>3, Untouched
<1>8. OnlyOneAt(p, a)
  <2>1. ASSUME NEW x \in Procs, Replaces(rows[proc[x].att], proc[x]) PROVE rows[proc[x].att].repl > 0
    BY <2>1 DEF SigningInv, CallsInv, Knows, Replaces
  <2>2. QED
    BY <1>4, <2>1 DEF OnlyOneAt
<1>9. PICK row \in {failed, rows[a]} : rows' = [rows EXCEPT ![a] = row]
  <2>1. CASE rows' = rows
    <3>1. rows = [rows EXCEPT ![a] = rows[a]]
      BY <1>1
    <3>2. QED
      BY <2>1, <3>1
  <2>2. CASE rows' = [rows EXCEPT ![a] = failed]
    BY <2>2
  <2>3. QED
    BY <2>1, <2>2 DEF failed
<1>10. row \in Row /\ Fits(st, rows[a], row)
  BY <1>1, <1>5, <1>6, <1>7
<1>11. proc' = [proc EXCEPT ![p] = Idle] /\ SideTyped
  BY DEF Done, SideTyped, SigningInv, TypeInv
<1>12. QED
  BY <1>2, <1>3, <1>8, <1>9, <1>10, <1>11, IdleIsIdle, RewriteStep

LEMMA AbandonStep ==
  ASSUME SigningInv, NEW p \in Procs, AbandonTx(p)
  PROVE  SigningInv'
<1> DEFINE a == proc[p].att
           o == rows[a].purpose
<1>1. /\ proc[p].pc = "abandonTx" /\ Done(p)
      /\ req' = req /\ lapsed' = lapsed /\ held' = held
  BY DEF AbandonTx
<1>2. /\ a \in 1..Len(rows) /\ rows \in Seq(Row) /\ Knows(op, rows[a], proc[p])
  BY <1>1 DEF SigningInv, TypeInv, CallsInv
<1>3. o \in Ops
  BY <1>1, <1>2 DEF Knows
<1>4. CASE op' = op /\ rows' = rows
  BY <1>1, <1>4, DoneIsQuiet, QuietStep DEF SideTyped, SigningInv, TypeInv
<1>5. CASE /\ op[o] \in {"PREPARING", "SIGNING"}
           /\ op' = [op EXCEPT ![o] = "FAILED"]
           /\ rows' = [rows EXCEPT ![a].status = "FAILED"]
  <2>1. rows' = [rows EXCEPT ![a] = [rows[a] EXCEPT !.status = "FAILED"]]
    BY <1>5
  <2>2. op[o] \notin {"BROADCASTING", "FAILED"}
    BY <1>5
  <2>3. QED
    BY <1>1, <1>2, <1>3, <1>5, <2>1, <2>2, OperationFailed
<1>6. QED
  BY <1>4, <1>5 DEF AbandonTx

LEMMA FailOperationStep ==
  ASSUME SigningInv, NEW p \in Procs, FailOperation(p)
  PROVE  SigningInv'
<1> DEFINE a == proc[p].att
           o == rows[a].purpose
           Fails(b) == IsLatestAttempt(o, b) /\ rows[b].status = "PREPARED"
           failed(b) == [rows[b] EXCEPT !.status = "FAILED"]
<1>1. /\ proc[p].pc = "failOp" /\ Done(p)
      /\ req' = req /\ lapsed' = lapsed /\ held' = held
  BY DEF FailOperation
<1>2. /\ a \in 1..Len(rows) /\ rows \in Seq(Row) /\ Knows(op, rows[a], proc[p])
      /\ Len(rows) \in Nat /\ DOMAIN rows = 1..Len(rows)
  BY <1>1, Table DEF SigningInv, TypeInv, CallsInv
<1>3. o \in Ops
  BY <1>1, <1>2 DEF Knows
<1>4. CASE op' = op /\ rows' = rows
  BY <1>1, <1>4, DoneIsQuiet, QuietStep DEF SideTyped, SigningInv, TypeInv
<1>5. CASE /\ op[o] \in PreChainStates
           /\ op' = [op EXCEPT ![o] = "FAILED"]
           /\ rows' = [b \in 1..Len(rows) |-> IF Fails(b) THEN failed(b) ELSE rows[b]]
  <2>1. op[o] \notin {"BROADCASTING", "FAILED"}
    BY <1>5 DEF PreChainStates
  <2>2. CASE \A b \in 1..Len(rows) : ~Fails(b)
    <3>1. rows' = [b \in 1..Len(rows) |-> rows[b]]
      BY <1>5, <2>2
    <3>2. rows' = rows
      BY <1>2, <3>1
    <3>3. QED
      BY <1>1, <1>2, <1>3, <1>5, <2>1, <3>2, OperationFailed
  <2>3. CASE \E b \in 1..Len(rows) : Fails(b)
    <3>1. PICK c \in 1..Len(rows) : Fails(c)
      BY <2>3
    <3>2. \A b \in 1..Len(rows) : Fails(b) => b = c
      BY <1>2, <3>1 DEF IsLatestAttempt
    <3>3. rows[c].purpose = o
      BY <3>1 DEF IsLatestAttempt
    <3> HIDE DEF Fails, failed
    <3>4. rows' = [rows EXCEPT ![c] = failed(c)]
      BY <1>2, <1>5, <3>1, <3>2
    <3>5. QED
      BY <1>1, <1>3, <1>5, <2>1, <3>3, <3>4, OperationFailed DEF failed
  <2>4. QED
    BY <2>2, <2>3
<1>6. QED
  BY <1>4, <1>5 DEF FailOperation

-----------------------------------------------------------------------------
(* Steps that insert a row *)

LEMMA EstimateTyped ==
  ASSUME NEW current \in Estimates
  PROVE  current \in Fees /\ current.tip <= current.fee
<1>1. PICK sg \in Suggested : current = [fee |-> Max({sg[1], sg[2]}), tip |-> sg[2]]
  BY DEF Estimates
<1>2. sg[1] \in Nat /\ sg[2] \in Nat
  BY SuggestedAssumption
<1>3. QED
  BY <1>1, <1>2, MaxOfTwo DEF Fees

LEMMA PreparedRowTyped ==
  ASSUME NEW purpose \in Ops \cup {Recovery}, NEW nonce \in Nat, NEW fees \in Fees, NEW repl \in Nat
  PROVE  /\ PreparedRow(purpose, nonce, fees, repl) \in Row
         /\ PreparedRow(purpose, nonce, fees, repl).purpose = purpose
         /\ PreparedRow(purpose, nonce, fees, repl).nonce = nonce
         /\ PreparedRow(purpose, nonce, fees, repl).fee = fees.fee
         /\ PreparedRow(purpose, nonce, fees, repl).tip = fees.tip
         /\ PreparedRow(purpose, nonce, fees, repl).repl = repl
         /\ PreparedRow(purpose, nonce, fees, repl).status = "PREPARED"
         /\ PreparedRow(purpose, nonce, fees, repl).bytes = NoBytes
<1>1. purpose \in {"DEPLOY_TOKEN", "MINT", "SET_ELIGIBILITY", "NONCE_RECOVERY"}
  BY OpsAssumption DEF Recovery
<1>2. /\ Call[purpose].to \in {"none", "token", "self", "other"}
      /\ Call[purpose].data \in {"create", "mintWithReference", "setEligibility", "empty", "other"}
  BY <1>1 DEF Call
<1>3. QED
  BY <1>2 DEF PreparedRow, Row, Fees, Statuses, Bytes

\* A call chain takes up the row it has just inserted.
LEMMA InsertStep ==
  ASSUME SigningInv, NEW p \in Procs, NEW q \in CallChain, NEW row \in Row,
         NEW st \in [Ops -> States], op' = st, StillBeyond(op, st),
         NEW rw \in Seq(Row), rows' = rw, RowsInv(st, rw),
         Len(rw) = Len(rows) + 1, Len(rw) <= MaxAttempts, rw[Len(rows) + 1] = row,
         \A a \in 1..Len(rows) : Same(rows[a], rw[a]),
         \A x \in Procs \ {p} : Replaces(rows[proc[x].att], proc[x]) =>
           rw[proc[x].att].status = rows[proc[x].att].status,
         proc' = [proc EXCEPT ![p] = q],
         q.att = Len(rows) + 1, Knows(st, row, q), row.status = "PREPARED",
         UNCHANGED <<req, lapsed, held>>
  PROVE  SigningInv'
<1>1. /\ proc \in [Procs -> CallChain] /\ CallsInv(op, rows, proc) /\ Len(rows) \in Nat
      /\ \A x \in Procs : proc[x].pc # "idle" => proc[x].att \in 1..Len(rows)
  BY Table DEF SigningInv, TypeInv
<1>2. \A x \in Procs : proc[x].pc # "idle" => proc[x].att # q.att
  BY <1>1
<1>3. \A x \in Procs : Replaces(rows[proc[x].att], proc[x]) => proc[x].pc # "idle"
  BY <1>1 DEF CallsInv, Knows, Replaces
<1>4. Unsettled(rw[q.att], q)
  BY DEF Unsettled
<1>5. Knows(st, rw[q.att], q)
  OBVIOUS
<1>6. CallsInv(st, rw, [proc EXCEPT ![p] = q])
  BY <1>1, <1>2, <1>3, <1>4, <1>5, CallsKept
<1>7. TypeInv'
  <2>1. proc' \in [Procs -> CallChain] /\ \A x \in Procs : proc'[x].pc # "idle" => proc'[x].att \in 1..Len(rw)
    BY <1>1
  <2>2. QED
    BY <2>1 DEF SigningInv, TypeInv
<1>8. QED
  BY <1>6, <1>7 DEF SigningInv

LEMMA ExecuteStep ==
  ASSUME SigningInv, NEW p \in Procs, NEW o \in Ops, Execute(p, o)
  PROVE  SigningInv'
<1>1. PICK fees \in Estimates : rows' = Append(rows, PreparedRow(o, NextNonce, fees, 0))
  BY DEF Execute
<1> DEFINE row == PreparedRow(o, NextNonce, fees, 0)
           n == Len(rows) + 1
           q == [Idle EXCEPT !.pc = "ask", !.via = "execute", !.att = n]
           st == [op EXCEPT ![o] = "SIGNING"]
<1>2. /\ op[o] = "PREPARING" /\ Len(rows) < MaxAttempts /\ op' = st
      /\ proc' = [proc EXCEPT ![p] = q] /\ UNCHANGED <<req, lapsed, held>>
  BY DEF Execute, Begin
<1>3. /\ op \in [Ops -> States] /\ rows \in Seq(Row) /\ Len(rows) \in Nat /\ RowsInv(op, rows)
  BY Table DEF SigningInv, TypeInv
<1>4. NextNonce \in Nat /\ NextNonce = Cardinality(FirstAttempts(rows))
  BY <1>3, FirstAttemptsFinite DEF NextNonce, FirstAttempts
<1>5. fees \in Fees /\ fees.tip <= fees.fee
  BY EstimateTyped
<1>6. /\ row \in Row /\ row.purpose = o /\ row.nonce = NextNonce /\ row.repl = 0
      /\ row.status = "PREPARED" /\ row.bytes = NoBytes /\ row.tip <= row.fee
  BY <1>4, <1>5, PreparedRowTyped
<1>7. /\ q \in CallChain /\ q.pc = "ask" /\ q.via = "execute" /\ q.att = n
  <2>1. n \in Attempts
    BY <1>2, <1>3, BoundsAssumption DEF Attempts
  <2>2. QED
    BY <2>1, IdleIsIdle DEF CallChain, CallPcs
<1>8. st \in [Ops -> States] /\ \A x \in Ops : x # o => st[x] = op[x]
  BY <1>3 DEF States
<1> HIDE DEF row, q, st
<1>9. StillBeyond(op, st)
  BY <1>2, <1>8 DEF StillBeyond, Beyond
<1>10. RowsInv(st, Append(rows, row))
  BY <1>3, <1>4, <1>6, <1>9, FirstAttemptInserted
<1>11. Knows(st, row, q)
  BY <1>6, <1>7 DEF Knows
<1> DEFINE rw == Append(rows, row)
<1>12. /\ rw \in Seq(Row) /\ Len(rw) = n /\ rw[n] = row /\ Len(rw) <= MaxAttempts
       /\ \A a \in 1..Len(rows) : rw[a] = rows[a]
  BY <1>2, <1>3, <1>6, Appended, BoundsAssumption
<1>13. rows' = rw /\ RowsInv(st, rw)
  BY <1>1, <1>10 DEF row
<1> HIDE DEF rw
<1>14. \A a \in 1..Len(rows) : Same(rows[a], rw[a])
  BY <1>12 DEF Same
<1>15. \A x \in Procs : Replaces(rows[proc[x].att], proc[x]) =>
         rw[proc[x].att].status = rows[proc[x].att].status
  BY <1>12 DEF SigningInv, TypeInv, CallsInv, Knows, Replaces
<1>16. QED
  BY <1>2, <1>6, <1>7, <1>8, <1>9, <1>11, <1>12, <1>13, <1>14, <1>15, InsertStep

\* signReplacement, for the fees the call chain has computed.
LEMMA SignReplacementStep ==
  ASSUME SigningInv, NEW p \in Procs, NEW purpose \in Ops \cup {Recovery},
         SignReplacement(p, purpose), UNCHANGED <<op, req, lapsed, held>>,
         \/ proc[p].pc = "replace" /\ purpose = rows[proc[p].att].purpose
         \/ proc[p].pc = "cancel" /\ purpose = Recovery
  PROVE  SigningInv'
<1> DEFINE a == proc[p].att
           retired == [rows[a] EXCEPT !.status = "REPLACED"]
           row == PreparedRow(purpose, rows[a].nonce, proc[p].fees, rows[a].repl + 1)
           mid == [rows EXCEPT ![a] = retired]
           rw == Append(mid, row)
           n == Len(rows) + 1
           q == [proc[p] EXCEPT !.pc = "ask", !.att = n]
<1>1. /\ Live(a) /\ Len(rows) < MaxAttempts /\ rows' = rw /\ proc' = [proc EXCEPT ![p] = q]
  BY DEF SignReplacement
<1>2. /\ op \in [Ops -> States] /\ rows \in Seq(Row) /\ Len(rows) \in Nat /\ RowsInv(op, rows)
      /\ a \in 1..Len(rows) /\ rows[a] \in Row /\ proc[p] \in CallChain
      /\ Knows(op, rows[a], proc[p])
  BY Table DEF SigningInv, TypeInv, CallsInv
<1>3. /\ Beyond(op, rows[a].purpose) /\ GoodFees(proc[p].fees, rows[a])
  BY <1>2 DEF Knows
<1>4. /\ row \in Row /\ row.purpose = purpose /\ row.nonce = rows[a].nonce
      /\ row.repl = rows[a].repl + 1 /\ row.fee = proc[p].fees.fee /\ row.tip = proc[p].fees.tip
      /\ row.status = "PREPARED" /\ row.bytes = NoBytes
  <2> DEFINE nonce == rows[a].nonce  repl == rows[a].repl + 1  fees == proc[p].fees
  <2>1. nonce \in Nat /\ rows[a].repl \in Nat
    BY <1>2 DEF Row
  <2>2. repl \in Nat
    BY <2>1
  <2>3. fees \in Fees
    BY <1>2 DEF CallChain
  <2>4. row = PreparedRow(purpose, nonce, fees, repl)
    OBVIOUS
  <2> HIDE DEF nonce, repl, fees, row
  <2>5. /\ row \in Row /\ row.purpose = purpose /\ row.nonce = nonce
        /\ row.repl = repl /\ row.fee = fees.fee /\ row.tip = fees.tip
        /\ row.status = "PREPARED" /\ row.bytes = NoBytes
    BY <2>1, <2>2, <2>3, <2>4, PreparedRowTyped
  <2>6. QED
    BY <2>5 DEF nonce, repl, fees
<1>5. retired \in Row /\ Same(rows[a], retired)
  BY <1>2 DEF Row, Same, Statuses
<1>6. /\ q \in CallChain /\ q.pc = "ask" /\ q.via = proc[p].via /\ q.att = n
  <2>1. n \in Attempts
    BY <1>1, <1>2, BoundsAssumption DEF Attempts
  <2>2. QED
    BY <1>2, <2>1 DEF CallChain, CallPcs
<1> HIDE DEF row, q
<1>7. Beyond(op, row.purpose) /\ Recovery \notin Ops
  BY <1>3, <1>4, OpsAssumption DEF Beyond, Recovery
<1>8. GoodFees(row, rows[a]) /\ LiveIn(rows, a)
  BY <1>1, <1>3, <1>4 DEF GoodFees, Displaces, Live, LiveIn
<1>9. rw \in Seq(Row) /\ RowsInv(op, rw)
  BY <1>2, <1>3, <1>4, <1>7, <1>8, ReplacementInserted
<1>10. mid \in Seq(Row) /\ Len(mid) = Len(rows) /\ mid[a] = retired
       /\ \A b \in 1..Len(rows) : b # a => mid[b] = rows[b]
  BY <1>2, <1>5, ExceptSeq
<1> HIDE DEF retired, mid
<1>11. /\ Len(rw) = n /\ rw[n] = row /\ Len(rw) <= MaxAttempts /\ rw[a] = retired
       /\ \A b \in 1..Len(rows) : b # a => rw[b] = rows[b]
  BY <1>1, <1>2, <1>4, <1>10, Appended, BoundsAssumption
<1> HIDE DEF rw
<1>12. \A b \in 1..Len(rows) : Same(rows[b], rw[b])
  BY <1>5, <1>11 DEF Same
<1>13. Knows(op, row, q)
  <2>1. row.repl > 0
    <3>1. rows[a].repl \in Nat
      BY <1>2 DEF Row
    <3>2. QED
      BY <1>4, <3>1
  <2>2. CASE proc[p].pc = "replace"
    <3>1. proc[p].via = "replace"
      BY <1>2, <2>2 DEF Knows
    <3>2. QED
      BY <1>6, <2>1, <3>1 DEF Knows
  <2>3. CASE proc[p].pc = "cancel" /\ purpose = Recovery
    <3>1. proc[p].via = "lane"
      BY <1>2, <2>3 DEF Knows
    <3>2. QED
      BY <1>4, <1>6, <2>3, <3>1 DEF Knows
  <2>4. QED
    BY <2>2, <2>3
<1>14. \A x \in Procs \ {p} : Replaces(rows[proc[x].att], proc[x]) =>
         rw[proc[x].att].status = rows[proc[x].att].status
  <2>1. OnlyOneAt(p, a)
    BY HolderIsAlone
  <2>2. \A x \in Procs : Replaces(rows[proc[x].att], proc[x]) => proc[x].att \in 1..Len(rows)
    BY DEF SigningInv, TypeInv, CallsInv, Knows, Replaces
  <2>3. QED
    BY <1>11, <2>1, <2>2 DEF OnlyOneAt
<1>15. StillBeyond(op, op)
  BY DEF StillBeyond
<1>16. QED
  BY <1>1, <1>2, <1>4, <1>6, <1>9, <1>11, <1>12, <1>13, <1>14, <1>15, InsertStep

LEMMA ReplaceStep ==
  ASSUME SigningInv, NEW p \in Procs, ReplaceFees(p) \/ CancelNonce(p)
  PROVE  SigningInv'
<1>1. op' = op /\ req' = req /\ lapsed' = lapsed /\ held' = held
  BY DEF ReplaceFees, CancelNonce
<1>2. CASE Done(p) /\ UNCHANGED rows
  BY <1>1, <1>2, DoneIsQuiet, QuietStep DEF SideTyped, SigningInv, TypeInv
<1>3. CASE proc[p].pc = "replace" /\ SignReplacement(p, rows[proc[p].att].purpose)
  <2>1. rows[proc[p].att].purpose \in Ops \cup {Recovery}
    BY <1>3, Table DEF SigningInv, TypeInv, Row
  <2>2. QED
    BY <1>1, <1>3, <2>1, SignReplacementStep
<1>4. CASE proc[p].pc = "cancel" /\ SignReplacement(p, Recovery)
  BY <1>1, <1>4, SignReplacementStep
<1>5. QED
  BY <1>2, <1>3, <1>4 DEF ReplaceFees, CancelNonce

-----------------------------------------------------------------------------
(* The invariant and what follows from it *)

LEMMA SigningInit == Init => SigningInv
<1> SUFFICES ASSUME Init PROVE SigningInv
  OBVIOUS
<1>1. rows = << >> /\ Len(rows) = 0 /\ rows \in Seq(Row)
  BY DEF Init
<1>2. \A p \in Procs : proc[p] = Idle
  BY DEF Init
<1>3. TypeInv
  BY <1>1, <1>2, IdleIsIdle, SignerTypes, BoundsAssumption
     DEF Init, TypeInv, States, RequestStatuses
<1>4. RowsInv(op, rows)
  BY <1>1 DEF RowsInv, LaneInOrder, FeesInOrder
<1>5. CallsInv(op, rows, proc)
  BY <1>2, IdleIsIdle DEF CallsInv, OwnReplacement, Replaces, Idle
<1>6. QED
  BY <1>3, <1>4, <1>5 DEF SigningInv

LEMMA SigningNext == SigningInv /\ [Next]_vars => SigningInv'
<1> SUFFICES ASSUME SigningInv, [Next]_vars PROVE SigningInv'
  OBVIOUS
<1>1. ASSUME NEW p \in Procs, WriterStep(p) PROVE SigningInv'
  BY <1>1, RequestSignatureStep, RecordRequestStep, ResumeSteps, FetchSignatureStep, SettleStep,
     EndOfCallStep, PersistStep, CheckStep, FailOperationStep, AbandonStep, ReplaceStep
     DEF WriterStep
<1>2. ASSUME NEW p \in Procs, Sweep(p) PROVE SigningInv'
  BY <1>2, SweepStep
<1>3. ASSUME NEW p \in Procs, NEW o \in Ops, Execute(p, o) PROVE SigningInv'
  BY <1>3, ExecuteStep
<1>4. ASSUME NEW p \in Procs, NEW a \in Attempts, ReplaceOne(p, a) \/ CancelBlocked(p, a)
      PROVE  SigningInv'
  BY <1>4, BeginReplacementStep
<1>5. CASE \/ \E a \in Attempts : Reject(a) \/ Release(a) \/ Lapse(a)
           \/ \E p \in Procs : Crash(p)
           \/ Restart
  BY <1>5, OutsideStep
<1>6. CASE UNCHANGED vars
  BY <1>6 DEF SigningInv, TypeInv, vars
<1>7. QED
  BY <1>1, <1>2, <1>3, <1>4, <1>5, <1>6 DEF Next

\* SigningInv holds in every state: whatever the signer answers, whoever collects it and
\* wherever a call stops.
THEOREM SigningInvariant == Spec => []SigningInv
BY SigningInit, SigningNext, PTL DEF Spec

\* Tables, requests, the signer's memory and the call chains keep their types.
THEOREM SigningTyped == Spec => []TypeOK
<1>1. SigningInv => TypeOK
  <2> SUFFICES ASSUME SigningInv PROVE TypeOK
    OBVIOUS
  <2>1. TypeInv /\ \A a \in 1..Len(rows) : rows[a] \in Row
    BY Table DEF SigningInv, TypeInv
  <2>2. \A a \in 1..Len(rows) :
          /\ rows[a].purpose \in Ops \cup {Recovery}
          /\ UnsignedRequest(rows[a]) \in Request
          /\ rows[a].repl \in Nat
          /\ rows[a].status \in Statuses
          /\ rows[a].bytes \in Bytes
    BY <2>1, SignerTypes DEF Row
  <2>3. \A p \in Procs :
          /\ proc[p].via \in {"none", "execute", "resume", "recover", "replace", "lane"}
          /\ proc[p].att \in Attempts \cup {0}
          /\ proc[p].fees \in [fee : Nat, tip : Nat]
          /\ proc[p].answer \in Answers
    BY <2>1 DEF TypeInv, CallChain, Fees
  <2>4. QED
    BY <2>1, <2>2, <2>3 DEF TypeInv, TypeOK, Statuses, States, RequestStatuses, Held
<1>2. QED
  BY <1>1, SigningInvariant, PTL

\* verifySignedTransaction and the order of the writes are enough: the stored bytes of every
\* attempt are the request that was committed before the signer was asked.
THEOREM StoredBytesAreTheRequest == Spec => []BytesAreCommitted
<1>1. SigningInv => BytesAreCommitted
  BY DEF SigningInv, RowsInv, Committed, BytesAreCommitted, HasBytes
<1>2. QED
  BY <1>1, SigningInvariant, PTL

\* bumpFees is enough for a node, for every percentage the configuration allows and every
\* estimate: each attempt displaces all earlier ones at its nonce.
THEOREM NodesTakeReplacements == Spec => []ReplacementsAreAccepted
<1>1. SigningInv => ReplacementsAreAccepted
  BY DEF SigningInv, RowsInv, FeesInOrder, ReplacementsAreAccepted
<1>2. QED
  BY <1>1, SigningInvariant, PTL

\* The only step that writes bytes finds the operation or the row in the way.
LEMMA PersistRevivesNothing ==
  ASSUME SigningInv, NEW p \in Procs, PersistSigned(p), NEW a \in 1..Len(rows),
         rows[a].status = "FAILED", ~HasBytes(a), rows[a].purpose # Recovery
  PROVE  rows'[a].bytes = NoBytes
<1>1. rows[a].bytes = NoBytes /\ rows \in Seq(Row) /\ rows[a] \in Row
  BY Table DEF HasBytes, SigningInv, TypeInv
<1>2. rows[a].purpose \in Ops
  BY <1>1 DEF Row
<1>3. op[rows[a].purpose] \in {"BROADCASTING", "FAILED"}
  BY <1>2 DEF SigningInv, RowsInv, Tells, Beyond
<1>4. proc[p].pc = "persist" /\ proc[p] \in CallChain /\ Knows(op, rows[proc[p].att], proc[p])
      /\ proc[p].att \in 1..Len(rows)
  BY DEF PersistSigned, SigningInv, TypeInv, CallsInv
<1> DEFINE row == [rows[proc[p].att] EXCEPT !.status = "SIGNED", !.bytes = proc[p].answer.bytes]
<1>5. CASE UNCHANGED rows
  BY <1>1, <1>5
<1>6. CASE Commit(p, row, "SIGNED")
  <2>1. HookAllows(p, "SIGNED") /\ rows' = [rows EXCEPT ![proc[p].att] = row]
    BY <1>6 DEF Commit
  <2>2. proc[p].att # a
    <3>1. SUFFICES ASSUME proc[p].att = a PROVE FALSE
      OBVIOUS
    <3>2. CASE Moves(p)
      BY <1>3, <2>1, <3>1, <3>2 DEF HookAllows, CanTransition, AllowedTransitions
    <3>3. CASE proc[p].via = "replace"
      <4>1. Replaces(rows[proc[p].att], proc[p]) /\ proc[p].pc \in AskPcs
        BY <1>2, <1>4, <3>1, <3>3 DEF Replaces, AskPcs
      <4>2. QED
        BY <3>1, <4>1 DEF SigningInv, CallsInv, OwnReplacement, Unsettled
    <3>4. CASE proc[p].via = "lane"
      BY <1>4, <3>1, <3>4 DEF Knows
    <3>5. proc[p].via \in {"execute", "resume", "replace", "lane"}
      BY <1>4 DEF Knows, CallChain
    <3>6. QED
      BY <3>2, <3>3, <3>4, <3>5 DEF Moves
  <2>3. QED
    BY <1>1, <2>1, <2>2
<1>7. QED
  BY <1>5, <1>6 DEF PersistSigned, RolledBack

\* No other step writes bytes.
LEMMA OthersWriteNoBytes ==
  ASSUME SigningInv, [Next]_vars, \A p \in Procs : ~PersistSigned(p), NEW a \in 1..Len(rows)
  PROVE  rows'[a].bytes = rows[a].bytes
<1>1. rows \in Seq(Row) /\ Len(rows) \in Nat /\ \A b \in 1..Len(rows) : rows[b] \in Row
  BY Table DEF SigningInv, TypeInv
<1>2. ASSUME NEW b \in 1..Len(rows), NEW status \in Statuses, NEW row,
             row = [rows[b] EXCEPT !.status = status]
      PROVE  row \in Row /\ [rows EXCEPT ![b] = row][a].bytes = rows[a].bytes
  <2>1. row \in Row /\ row.bytes = rows[b].bytes
    BY <1>1, <1>2 DEF Row
  <2>2. [rows EXCEPT ![b] = row][a] = IF a = b THEN row ELSE rows[a]
    BY <1>1, LenProperties
  <2>3. QED
    BY <2>1, <2>2
<1>3. ASSUME NEW p \in Procs, proc[p].pc # "idle" PROVE proc[p].att \in 1..Len(rows)
  BY <1>3 DEF SigningInv, TypeInv
<1>4. ASSUME NEW p \in Procs, FailAttempt(p) \/ AnnounceBroadcast(p) \/ AbandonTx(p)
      PROVE  rows'[a].bytes = rows[a].bytes
  <2>1. proc[p].att \in 1..Len(rows)
    BY <1>3, <1>4 DEF FailAttempt, AnnounceBroadcast, AbandonTx
  <2>2. CASE rows' = rows
    BY <2>2
  <2>3. \/ rows' = rows
        \/ \E status \in Statuses :
             rows' = [rows EXCEPT ![proc[p].att] = [rows[proc[p].att] EXCEPT !.status = status]]
    BY <1>4 DEF FailAttempt, AnnounceBroadcast, AbandonTx, Commit, RolledBack, Statuses
  <2>4. CASE \E status \in Statuses :
               rows' = [rows EXCEPT ![proc[p].att] = [rows[proc[p].att] EXCEPT !.status = status]]
    <3>1. PICK status \in Statuses :
            rows' = [rows EXCEPT ![proc[p].att] = [rows[proc[p].att] EXCEPT !.status = status]]
      BY <2>4
    <3>2. QED
      BY <1>2, <2>1, <3>1
  <2>5. QED
    BY <2>2, <2>3, <2>4
<1>5. ASSUME NEW p \in Procs, FailOperation(p) PROVE rows'[a].bytes = rows[a].bytes
  <2>1. rows'[a] \in {rows[a], [rows[a] EXCEPT !.status = "FAILED"]}
    BY <1>5 DEF FailOperation
  <2>2. QED
    BY <1>1, <2>1 DEF Row
<1>6. ASSUME NEW p \in Procs, NEW purpose, SignReplacement(p, purpose)
      PROVE  rows'[a].bytes = rows[a].bytes
  <2> DEFINE c == proc[p].att
             retired == [rows[c] EXCEPT !.status = "REPLACED"]
             mid == [rows EXCEPT ![c] = retired]
             next == PreparedRow(purpose, rows[c].nonce, proc[p].fees, rows[c].repl + 1)
  <2>1. c \in 1..Len(rows) /\ rows' = Append(mid, next)
    BY <1>6 DEF SignReplacement, Live
  <2>2. retired \in Row /\ mid[a].bytes = rows[a].bytes
    BY <1>2, <2>1 DEF Statuses
  <2> HIDE DEF retired
  <2>3. mid \in Seq(Row) /\ Len(mid) = Len(rows)
    BY <1>1, <2>1, <2>2, ExceptSeq
  <2> HIDE DEF mid, next
  <2>4. Append(mid, next)[a] = mid[a]
    BY <1>1, <2>3
  <2>5. QED
    BY <2>1, <2>2, <2>4
<1>7. ASSUME NEW p \in Procs, NEW o \in Ops, Execute(p, o) PROVE rows'[a].bytes = rows[a].bytes
  <2>1. PICK row : rows' = Append(rows, row)
    BY <1>7 DEF Execute
  <2>2. QED
    BY <1>1, <2>1
<1>8. ASSUME NEW p \in Procs, WriterStep(p) PROVE rows'[a].bytes = rows[a].bytes
  <2>1. CASE RequestSignature(p) \/ RecordRequest(p) \/ ResumeSignature(p) \/ ExpireLapsed(p)
             \/ FetchSignature(p) \/ Fetched(p) \/ Settle(p) \/ AssertBroadcastAllowed(p)
    BY <2>1 DEF RequestSignature, RecordRequest, ResumeSignature, ExpireLapsed, FetchSignature,
                Fetched, Settle, AssertBroadcastAllowed
  <2>2. CASE ReplaceFees(p) \/ CancelNonce(p)
    BY <1>6, <2>2 DEF ReplaceFees, CancelNonce
  <2>3. QED
    BY <1>4, <1>5, <1>8, <2>1, <2>2 DEF WriterStep
<1>9. ASSUME NEW p \in Procs, Sweep(p) \/ Crash(p) PROVE rows' = rows
  BY <1>9 DEF Sweep, ResumeSigning, ResumeRecovery, Crash
<1>10. ASSUME NEW p \in Procs, NEW b \in Attempts, ReplaceOne(p, b) \/ CancelBlocked(p, b)
       PROVE  rows' = rows
  BY <1>10 DEF ReplaceOne, CancelBlocked, BeginReplacement
<1>11. CASE (\E b \in Attempts : Reject(b) \/ Release(b) \/ Lapse(b)) \/ Restart \/ UNCHANGED vars
  BY <1>11 DEF Reject, Release, Lapse, Restart, vars
<1>12. QED
  BY <1>7, <1>8, <1>9, <1>10, <1>11 DEF Next

\* Once an operation's attempt has failed without bytes, no call that still holds a signature
\* stores it: chain-writer.ts, "a signature released afterwards must not revive it".
THEOREM LateSignaturesAreDropped == Spec => FailedIsNotRevived
<1> DEFINE NotRevived ==
      \A a \in 1..Len(rows) :
        rows[a].status = "FAILED" /\ ~HasBytes(a) /\ rows[a].purpose # Recovery
        => rows'[a].bytes = NoBytes
<1>1. SigningInv /\ [Next]_vars => [NotRevived]_rows
  <2> SUFFICES ASSUME SigningInv, [Next]_vars PROVE NotRevived
    OBVIOUS
  <2>1. CASE \E p \in Procs : PersistSigned(p)
    BY <2>1, PersistRevivesNothing
  <2>2. CASE \A p \in Procs : ~PersistSigned(p)
    BY <2>2, OthersWriteNoBytes DEF HasBytes
  <2>3. QED
    BY <2>1, <2>2
<1>2. QED
  BY <1>1, SigningInvariant, PTL DEF Spec, FailedIsNotRevived

=============================================================================
