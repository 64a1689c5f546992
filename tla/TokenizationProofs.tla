------------------------- MODULE TokenizationProofs --------------------------
(***************************************************************************)
(* An asset is ACTIVE only for a deployment that SUCCEEDED, names its      *)
(* contract for good, and every contract's supply is backed by the         *)
(* references it consumed and the balances it keeps.  The lane is mined    *)
(* once and in order, so the books follow the blocks, what was seen on the *)
(* chain is the block it was seen in, SUCCEEDED is final unless that block *)
(* was misread, and deployments and mints implement the ledger.            *)
(***************************************************************************)
EXTENDS Tokenization, SequenceTheorems, FiniteSetTheorems, FunctionTheorems,
        WellFoundedInduction, TLAPS

-----------------------------------------------------------------------------
(* Sums over a finite set.  MapThenSumSet takes the elements in an order   *)
(* that CHOOSE fixes; here the sum is counted instead: Total is the number *)
(* of pairs of an element and one of its units.                            *)

Unit(f, x) == {x} \X (1..f[x])
Units(f, s) == UNION {Unit(f, x) : x \in s}
Total(f, s) == Cardinality(Units(f, s))

\* The element that MapThenSumSet takes next, and the equation that defines its partial
\* sums h over the subsets of S.
Pick(s) == CHOOSE x \in s : TRUE
SumsOver(f, S, h) ==
  h = [s \in SUBSET S |-> IF s = {} THEN 0 ELSE f[Pick(s)] + h[s \ {Pick(s)}]]

LEMMA UnitCount ==
  ASSUME NEW f, NEW x, f[x] \in Nat
  PROVE  IsFiniteSet(Unit(f, x)) /\ Cardinality(Unit(f, x)) = f[x]
<1>1. IsFiniteSet({x}) /\ Cardinality({x}) = 1
  BY FS_Singleton, Zenon
<1>2. IsFiniteSet(1..f[x]) /\ Cardinality(1..f[x]) = f[x]
  <2> DEFINE n == f[x]
  <2>1. n \in Nat
    OBVIOUS
  <2> HIDE DEF n
  <2>2. IsFiniteSet(1..n) /\ Cardinality(1..n) = n
    BY <2>1, FS_Interval
  <2>3. QED
    BY <2>2 DEF n
<1>3. IsFiniteSet({x} \X (1..f[x])) /\ Cardinality({x} \X (1..f[x])) = 1 * f[x]
  <2> DEFINE A == {x}
             B == 1..f[x]
  <2>1. IsFiniteSet(A) /\ IsFiniteSet(B) /\ Cardinality(A) = 1 /\ Cardinality(B) = f[x]
    BY <1>1, <1>2
  <2> HIDE DEF A, B
  <2>2. IsFiniteSet(A \X B) /\ Cardinality(A \X B) = Cardinality(A) * Cardinality(B)
    BY <2>1, FS_Product
  <2>3. QED
    BY <2>1, <2>2 DEF A, B
<1>4. QED
  BY <1>3 DEF Unit

\* The units of finitely many elements are finitely many.
LEMMA UnitsFinite ==
  ASSUME NEW f, NEW S, IsFiniteSet(S), \A x \in S : f[x] \in Nat
  PROVE  IsFiniteSet(Units(f, S)) /\ Total(f, S) \in Nat
<1> DEFINE T == {Unit(f, x) : x \in S}
           u == [x \in S |-> Unit(f, x)]
<1>1. u \in Surjection(S, T)
  BY DEF Surjection
<1>2. IsFiniteSet(T)
  <2> HIDE DEF T, u
  <2>1. QED
    BY <1>1, FS_Surjection
<1>3. \A t \in T : IsFiniteSet(t)
  BY UnitCount
<1>4. IsFiniteSet(Units(f, S))
  BY <1>2, <1>3, FS_UNION DEF Units
<1>5. QED
  BY <1>4, FS_CardinalityType DEF Total

LEMMA TotalOfNothing == ASSUME NEW f PROVE Total(f, {}) = 0
<1>1. Units(f, {}) = {}
  BY DEF Units
<1>2. QED
  BY <1>1, FS_EmptySet DEF Total

\* An element can be taken out of the sum, whichever it is.
LEMMA TotalSplits ==
  ASSUME NEW f, NEW S, IsFiniteSet(S), \A x \in S : f[x] \in Nat, NEW x \in S
  PROVE  Total(f, S) = f[x] + Total(f, S \ {x})
<1> DEFINE A == Unit(f, x)
           B == Units(f, S \ {x})
<1>1. Units(f, S) = A \cup B
  BY DEF Units
<1>2. A \cap B = {}
  BY DEF Units, Unit
<1>3. IsFiniteSet(A) /\ Cardinality(A) = f[x]
  BY UnitCount
<1>4. IsFiniteSet(S \ {x})
  BY FS_RemoveElement
<1>5. IsFiniteSet(B) /\ Cardinality(B) \in Nat
  BY <1>4, UnitsFinite DEF Total
<1>6. Cardinality(Units(f, S)) = Cardinality(A) + Cardinality(B) - Cardinality(A \cap B)
  <2> HIDE DEF A, B
  <2>1. QED
    BY <1>1, <1>3, <1>5, FS_Union
<1>7. Cardinality(A \cap B) = 0
  BY <1>2, FS_EmptySet
<1>8. QED
  BY <1>3, <1>5, <1>6, <1>7 DEF Total

\* The equation has no other solution: in a smallest set on which one differs from the
\* total, the element taken out leaves a smaller one.
LEMMA TotalIsTheSum ==
  ASSUME NEW f, NEW S, IsFiniteSet(S), \A x \in S : f[x] \in Nat,
         NEW h, SumsOver(f, S, h)
  PROVE  h[S] = Total(f, S)
<1> DEFINE Bad == {s \in SUBSET S : h[s] # Total(f, s)}
           R == StrictSubsetOrdering(S)
<1>0. SUFFICES ASSUME Bad # {} PROVE FALSE
  OBVIOUS
<1>1. PICK s \in Bad : \A t \in Bad : <<t, s>> \notin R
  <2>1. IsWellFoundedOn(R, SUBSET S)
    BY FS_StrictSubsetOrderingWellFounded, FS_FiniteSubsetsOfFinite
  <2>2. Bad \subseteq SUBSET S
    OBVIOUS
  <2> HIDE DEF Bad, R
  <2>3. QED
    BY <1>0, <2>1, <2>2, WFMin
<1>2. s \in SUBSET S /\ h[s] # Total(f, s)
  OBVIOUS
<1>3. h[s] = IF s = {} THEN 0 ELSE f[Pick(s)] + h[s \ {Pick(s)}]
  BY <1>2 DEF SumsOver
<1>4. CASE s = {}
  BY <1>2, <1>3, <1>4, TotalOfNothing
<1>5. CASE s # {}
  <2> DEFINE x == Pick(s)
  <2>1. x \in s
    BY <1>5 DEF Pick
  <2>2. s \ {x} \in SUBSET S /\ <<s \ {x}, s>> \in R
    BY <1>2, <2>1 DEF StrictSubsetOrdering
  <2>3. h[s \ {x}] = Total(f, s \ {x})
    BY <1>1, <2>2
  <2>4. IsFiniteSet(s) /\ \A y \in s : f[y] \in Nat
    BY <1>2, FS_Subset
  <2>5. Total(f, s) = f[x] + Total(f, s \ {x})
    BY <2>1, <2>4, TotalSplits
  <2>6. QED
    BY <1>2, <1>3, <1>5, <2>3, <2>5
<1>6. QED
  BY <1>4, <1>5

\* The equation has a solution.
LEMMA TotalSums ==
  ASSUME NEW f, NEW S, IsFiniteSet(S), \A x \in S : f[x] \in Nat
  PROVE  SumsOver(f, S, [s \in SUBSET S |-> Total(f, s)])
<1> DEFINE h == [s \in SUBSET S |-> Total(f, s)]
<1>1. ASSUME NEW s \in SUBSET S
      PROVE  h[s] = IF s = {} THEN 0 ELSE f[Pick(s)] + h[s \ {Pick(s)}]
  <2>1. CASE s = {}
    BY <2>1, TotalOfNothing
  <2>2. CASE s # {}
    <3>1. Pick(s) \in s
      BY <2>2 DEF Pick
    <3>2. IsFiniteSet(s) /\ \A y \in s : f[y] \in Nat
      BY FS_Subset
    <3>3. Total(f, s) = f[Pick(s)] + Total(f, s \ {Pick(s)})
      BY <3>1, <3>2, TotalSplits
    <3>4. QED
      BY <2>2, <3>3
  <2>3. QED
    BY <2>1, <2>2
<1>2. QED
  BY <1>1 DEF SumsOver

\* What MapThenSumSet computes does not depend on the order it takes.
LEMMA SumIsTotal ==
  ASSUME NEW f, NEW S, IsFiniteSet(S), \A x \in S : f[x] \in Nat
  PROVE  MapThenSumSet(LAMBDA x : f[x], S) = Total(f, S)
<1>1. MapThenSumSet(LAMBDA x : f[x], S) = (CHOOSE h : SumsOver(f, S, h))[S]
  BY Zenon DEF MapThenSumSet, MapThenFoldSet, SumsOver, Pick
<1>2. SumsOver(f, S, CHOOSE h : SumsOver(f, S, h))
  BY TotalSums
<1>3. QED
  BY <1>1, <1>2, TotalIsTheSum

\* Only the values at the elements count.
LEMMA TotalDepends ==
  ASSUME NEW f, NEW g, NEW S, \A x \in S : f[x] = g[x]
  PROVE  Total(f, S) = Total(g, S)
<1>1. \A x \in S : Unit(f, x) = Unit(g, x)
  BY DEF Unit
<1>2. Units(f, S) = Units(g, S)
  BY <1>1 DEF Units
<1>3. QED
  BY <1>2 DEF Total

\* A value that changes at one element changes the total by as much.
LEMMA TotalChanges ==
  ASSUME NEW f, NEW g, NEW S, IsFiniteSet(S), \A x \in S : f[x] \in Nat /\ g[x] \in Nat,
         NEW x \in S, \A y \in S \ {x} : f[y] = g[y]
  PROVE  Total(g, S) = Total(f, S) + g[x] - f[x]
<1>1. Total(f, S) = f[x] + Total(f, S \ {x}) /\ Total(g, S) = g[x] + Total(g, S \ {x})
  BY TotalSplits
<1>2. Total(f, S \ {x}) = Total(g, S \ {x})
  BY TotalDepends
<1>3. Total(f, S \ {x}) \in Nat
  <2>1. IsFiniteSet(S \ {x})
    BY FS_RemoveElement
  <2>2. QED
    BY <2>1, UnitsFinite
<1>4. QED
  BY <1>1, <1>2, <1>3

-----------------------------------------------------------------------------
(* The invariant *)

\* A token whose supply is what its references issued, what its holders have, and within
\* the cap.
GoodToken ==
  {t \in Token : /\ IsFiniteSet(t.consumed)
                 /\ t.supply = Total(Amount, t.consumed)
                 /\ t.supply = Total(t.balance, Wallets)
                 /\ t.supply <= SupplyCap}

GoodStorage == [Deployments -> GoodToken]

\* Every block of the canonical chain leaves such tokens.
BooksAreKept ==
  \A i \in 1..Len(chain), d \in Deployments : chain[i].storage[d] \in GoodToken

\* Deployments past the check that the asset is still provisioning.
UnderWay == {"PREPARING", "SUBMITTED", "INCLUDED"}

\* An asset is ACTIVE by a deployment that succeeded, and mints are of an ACTIVE asset.
ActiveIsBacked ==
  /\ asset.status = "ACTIVE" => op[asset.contract] = "SUCCEEDED"
  /\ \A m \in Mints : op[m] # "NONE" => asset.status = "ACTIVE"

\* What the row, its deployments and its mints say of each other, beyond the property.
AssetTells ==
  /\ asset.status = "NONE" => calls = {} /\ \A o \in Operations : op[o] = "NONE"
  /\ asset.status = "ACTIVE" <=> asset.contract # NoContract
  /\ asset.status = "ACTIVE" => \A d \in Deployments : op[d] \notin UnderWay

\* requestDeployment keeps one deployment at a time, whatever its callers have read.
OneLiveDeployment == \A d, e \in LiveDeployments : d = e

\* The inductive invariant.
AssetInv == TypeOK /\ BooksAreKept /\ ActiveIsBacked /\ AssetTells /\ OneLiveDeployment

\* The part of the type invariant that only observation writes.
ObservationTyped == seen \in [Operations -> Observation] /\ misread \subseteq Operations

-----------------------------------------------------------------------------
(* What a block leaves in storage *)

LEMMA NewTokens == NoToken \in GoodToken /\ Deployed \in GoodToken
<1> DEFINE zero == [w \in Wallets |-> 0]
<1>1. zero \in [Wallets -> Nat]
  OBVIOUS
<1>2. Total(zero, Wallets) = 0
  <2>1. \A w \in Wallets : Unit(zero, w) = {}
    BY DEF Unit
  <2>2. Units(zero, Wallets) = {}
    BY <2>1 DEF Units
  <2>3. QED
    BY <2>2, FS_EmptySet DEF Total
<1>3. Total(Amount, {}) = 0 /\ IsFiniteSet({})
  BY TotalOfNothing, FS_EmptySet
<1>4. /\ NoToken \in Token /\ NoToken.supply = 0
      /\ NoToken.consumed = {} /\ NoToken.balance = zero
  BY <1>1 DEF NoToken, Token
<1>5. /\ Deployed \in Token /\ Deployed.supply = 0
      /\ Deployed.consumed = {} /\ Deployed.balance = zero
  BY <1>4 DEF Deployed, Token
<1> HIDE DEF zero
<1>6. QED
  BY <1>2, <1>3, <1>4, <1>5, SupplyCapAssumption DEF GoodToken

LEMMA GoodLatest == ASSUME TypeOK, BooksAreKept PROVE Latest \in GoodStorage
<1>1. Len(chain) \in Nat
  BY LenProperties DEF TypeOK
<1>2. CASE Len(chain) = 0
  BY <1>2, NewTokens DEF Latest, Storage, GoodStorage
<1>3. CASE Len(chain) # 0
  <2>1. Len(chain) \in 1..Len(chain) /\ chain[Len(chain)] \in Block
    BY <1>1, <1>3, ElementOfSeq DEF TypeOK
  <2>2. Latest = chain[Len(chain)].storage
    BY <1>3 DEF Latest, Storage
  <2>3. QED
    BY <2>1, <2>2 DEF BooksAreKept, Block, GoodStorage, GoodToken
<1>4. QED
  BY <1>2, <1>3

\* One contract's storage changes to a good one.
LEMMA GoodChange ==
  ASSUME TypeOK, BooksAreKept, NEW c, NEW t, c \in Deployments => t \in GoodToken
  PROVE  [Latest EXCEPT ![c] = t] \in GoodStorage
BY GoodLatest DEF GoodStorage

\* mintWithReference issues what the reference says, once, to the recipient.
LEMMA GoodMint ==
  ASSUME NEW t \in GoodToken, NEW m \in Mints, NEW late_, MintAllowed(t, m, late_)
  PROVE  MintWithReference(t, m) \in GoodToken
<1> DEFINE supply == t.supply + Amount[m]
           consumed == t.consumed \cup {m}
           balance == [t.balance EXCEPT ![Recipient] = @ + Amount[m]]
<1>1. t \in Token /\ Amount[m] \in Nat /\ supply <= SupplyCap /\ m \notin t.consumed
  BY AmountAssumption DEF GoodToken, MintAllowed
<1>2. t.balance \in [Wallets -> Nat] /\ t.supply \in Nat /\ t.consumed \in SUBSET Mints
  BY <1>1 DEF Token
<1>3. balance \in [Wallets -> Nat] /\ balance[Recipient] = t.balance[Recipient] + Amount[m]
      /\ \A w \in Wallets \ {Recipient} : t.balance[w] = balance[w]
  BY <1>1, <1>2, RecipientAssumption
<1>4. supply \in Nat /\ consumed \in SUBSET Mints
  BY <1>1, <1>2
<1>5. IsFiniteSet(consumed) /\ supply = Total(Amount, consumed)
  <2>1. IsFiniteSet(consumed)
    BY FS_AddElement DEF GoodToken
  <2>2. \A x \in consumed : Amount[x] \in Nat
    BY <1>4, AmountAssumption
  <2>3. Total(Amount, consumed) = Amount[m] + Total(Amount, consumed \ {m})
    <3>1. m \in consumed
      OBVIOUS
    <3> HIDE DEF consumed
    <3>2. QED
      BY <2>1, <2>2, <3>1, TotalSplits
  <2>4. consumed \ {m} = t.consumed
    BY <1>1
  <2>5. t.supply = Total(Amount, t.consumed)
    BY DEF GoodToken
  <2>6. QED
    BY <1>1, <1>2, <2>1, <2>3, <2>4, <2>5
<1>6. supply = Total(balance, Wallets)
  <2> HIDE DEF balance
  <2>1. \A w \in Wallets : t.balance[w] \in Nat /\ balance[w] \in Nat
    BY <1>2, <1>3
  <2>2. Total(balance, Wallets)
        = Total(t.balance, Wallets) + balance[Recipient] - t.balance[Recipient]
    BY <1>3, <2>1, WalletsAssumption, RecipientAssumption, TotalChanges
  <2>3. t.supply = Total(t.balance, Wallets) /\ t.balance[Recipient] \in Nat
    BY <2>1, RecipientAssumption DEF GoodToken
  <2>4. QED
    BY <1>1, <1>2, <1>3, <2>2, <2>3
<1>7. MintWithReference(t, m)
      = [t EXCEPT !.consumed = consumed, !.supply = supply, !.balance = balance]
  BY <1>1 DEF MintWithReference, Token
<1>8. supply <= SupplyCap
  BY <1>1
<1> HIDE DEF supply, consumed, balance
<1>9. /\ MintWithReference(t, m) \in Token
      /\ MintWithReference(t, m).supply = supply
      /\ MintWithReference(t, m).consumed = consumed
      /\ MintWithReference(t, m).balance = balance
  BY <1>1, <1>3, <1>4, <1>7 DEF Token
<1>10. QED
  BY <1>5, <1>6, <1>8, <1>9 DEF GoodToken

\* A transfer takes from one holder what it gives to another.
LEMMA GoodTransfer ==
  ASSUME NEW t \in GoodToken, NEW from \in Wallets, NEW to \in Wallets,
         TransferAllowed(t, from, to), from # to
  PROVE  Transfer(t, from, to) \in GoodToken
<1> DEFINE given == [w \in Wallets |-> t.balance[w] + (IF w = to THEN 1 ELSE 0)]
           after == [w \in Wallets |->
             t.balance[w] + (IF w = to THEN 1 ELSE 0) - (IF w = from THEN 1 ELSE 0)]
<1>1. t \in Token /\ t.balance \in [Wallets -> Nat] /\ t.balance[from] > 0
  BY DEF GoodToken, Token, TransferAllowed
<1>2. after \in [Wallets -> Nat] /\ given \in [Wallets -> Nat]
  BY <1>1
<1>3. given[to] = t.balance[to] + 1 /\ \A w \in Wallets \ {to} : t.balance[w] = given[w]
  BY <1>1
<1>4. after[from] = given[from] - 1 /\ \A w \in Wallets \ {from} : given[w] = after[w]
  BY <1>1
<1>5. Transfer(t, from, to) = [t EXCEPT !.balance = after]
  BY DEF Transfer
<1> HIDE DEF after, given
<1>6. \A w \in Wallets : t.balance[w] \in Nat /\ given[w] \in Nat /\ after[w] \in Nat
  BY <1>1, <1>2
<1>7. Total(given, Wallets) = Total(t.balance, Wallets) + given[to] - t.balance[to]
  BY <1>3, <1>6, WalletsAssumption, TotalChanges
<1>8. Total(after, Wallets) = Total(given, Wallets) + after[from] - given[from]
  BY <1>4, <1>6, WalletsAssumption, TotalChanges
<1>9. Total(t.balance, Wallets) \in Nat
  BY <1>6, WalletsAssumption, UnitsFinite
<1>10. Total(after, Wallets) = Total(t.balance, Wallets)
  BY <1>3, <1>4, <1>6, <1>7, <1>8, <1>9
<1>11. /\ Transfer(t, from, to) \in Token
       /\ Transfer(t, from, to).balance = after
       /\ Transfer(t, from, to).supply = t.supply
       /\ Transfer(t, from, to).consumed = t.consumed
  BY <1>1, <1>2, <1>5 DEF Token
<1>12. QED
  BY <1>10, <1>11 DEF GoodToken

LEMMA GoodSetting ==
  ASSUME NEW t \in GoodToken
  PROVE  /\ \A open \in SUBSET Wallets : SetEligibility(t, open) \in GoodToken
         /\ \A paused \in BOOLEAN : SetPaused(t, paused) \in GoodToken
BY DEF GoodToken, Token, SetEligibility, SetPaused

\* A block that leaves good storage is all that mining adds.
Mines ==
  \E tx \in Operations \cup {Nobody}, ok \in BOOLEAN, storage \in GoodStorage :
    AppendBlock(tx, ok, storage)

LEMMA LaneMines == ASSUME TypeOK, BooksAreKept, MineNext PROVE Mines
<1> DEFINE S == {i \in 1..Len(chain) : chain[i].tx \in Operations}
           mined == Cardinality(S)
           o == lane[mined + 1]
           c == asset.contract
<1>1. mined \in Nat
  <2>1. Len(chain) \in Nat
    BY LenProperties DEF TypeOK
  <2>2. IsFiniteSet(1..Len(chain))
    BY <2>1, FS_Interval
  <2>3. QED
    BY <2>2, FS_Subset, FS_CardinalityType
<1>2. o \in Operations
  <2>1. mined < Len(lane) /\ Len(lane) \in Nat
    BY LenProperties DEF MineNext, TypeOK
  <2>2. mined + 1 \in 1..Len(lane)
    BY <1>1, <2>1
  <2>3. QED
    BY <2>2, ElementOfSeq DEF TypeOK
<1>3. CASE AppendBlock(o, FALSE, Latest)
  BY <1>2, <1>3, GoodLatest DEF Mines
<1>4. CASE o \in Deployments /\ AppendBlock(o, TRUE, [Latest EXCEPT ![o] = Deployed])
  BY <1>2, <1>4, GoodChange, NewTokens DEF Mines
<1>5. CASE /\ o \in Mints /\ MintAllowed(Latest[c], o, o \in late)
           /\ AppendBlock(o, TRUE, [Latest EXCEPT ![c] = MintWithReference(Latest[c], o)])
  <2>1. c \in Deployments => Latest[c] \in GoodToken
    BY GoodLatest DEF GoodStorage
  <2>2. c \in Deployments => MintWithReference(Latest[c], o) \in GoodToken
    BY <1>5, <2>1, GoodMint
  <2>3. [Latest EXCEPT ![c] = MintWithReference(Latest[c], o)] \in GoodStorage
    BY <2>2, GoodChange
  <2>4. QED
    BY <1>2, <1>5, <2>3 DEF Mines
<1>6. QED
  BY <1>3, <1>4, <1>5 DEF MineNext

LEMMA OtherMines ==
  ASSUME TypeOK, BooksAreKept, NEW c \in Deployments, MineOther(c) PROVE Mines
<1> DEFINE t == Latest[c]
<1>1. t \in GoodToken /\ t.paused \in BOOLEAN
  BY GoodLatest DEF GoodStorage, GoodToken, Token
<1>2. ASSUME NEW storage \in GoodToken,
             AppendBlock(Nobody, TRUE, [Latest EXCEPT ![c] = storage])
      PROVE  Mines
  BY <1>2, GoodChange DEF Mines
<1>3. ASSUME NEW open \in SUBSET Wallets,
             AppendBlock(Nobody, TRUE, [Latest EXCEPT ![c] = SetEligibility(t, open)])
      PROVE  Mines
  BY <1>1, <1>2, <1>3, GoodSetting
<1>4. ASSUME AppendBlock(Nobody, TRUE, [Latest EXCEPT ![c] = SetPaused(t, ~t.paused)])
      PROVE  Mines
  BY <1>1, <1>2, <1>4, GoodSetting
<1>5. ASSUME NEW from \in Wallets, NEW to \in Wallets, from # to, TransferAllowed(t, from, to),
             AppendBlock(Nobody, TRUE, [Latest EXCEPT ![c] = Transfer(t, from, to)])
      PROVE  Mines
  BY <1>1, <1>2, <1>5, GoodTransfer
<1>6. QED
  BY <1>3, <1>4, <1>5 DEF MineOther

-----------------------------------------------------------------------------
(* Steps of the chain *)

\* What the tables hold does not change.
ChainOnly == UNCHANGED <<asset, calls, op, lane>>

LEMMA ChainKeeps ==
  ASSUME AssetInv, ChainOnly, TypeOK', BooksAreKept' PROVE AssetInv'
BY DEF AssetInv, ActiveIsBacked, AssetTells, OneLiveDeployment, LiveDeployments, ChainOnly

LEMMA MiningKeeps == ASSUME AssetInv, Mines, ObservationTyped' PROVE AssetInv'
<1>1. PICK tx \in Operations \cup {Nobody}, ok \in BOOLEAN, storage \in GoodStorage :
        AppendBlock(tx, ok, storage)
  BY DEF Mines
<1> DEFINE b == [tx |-> tx, ok |-> ok, storage |-> storage]
<1>2. b \in Block /\ b.storage = storage
  BY DEF Block, GoodStorage, GoodToken
<1>3. chain' = Append(chain, b) /\ chain \in Seq(Block) /\ final \in 0..Len(chain)
  BY <1>1 DEF AppendBlock, AssetInv, TypeOK
<1> HIDE DEF b
<1>4. /\ chain' \in Seq(Block) /\ Len(chain) \in Nat /\ Len(chain') = Len(chain) + 1
      /\ chain'[Len(chain) + 1] = b /\ \A i \in 1..Len(chain) : chain'[i] = chain[i]
  BY <1>2, <1>3, AppendProperties, LenProperties
<1>5. UNCHANGED <<asset, calls, op, lane, late, final, reorgs>>
  BY <1>1 DEF AppendBlock
<1>6. TypeOK'
  BY <1>3, <1>4, <1>5 DEF AssetInv, TypeOK, ObservationTyped
<1>7. BooksAreKept'
  <2>1. ASSUME NEW i \in 1..Len(chain'), NEW d \in Deployments
        PROVE  chain'[i].storage[d] \in GoodToken
    <3>1. CASE i \in 1..Len(chain)
      BY <1>4, <3>1 DEF AssetInv, BooksAreKept
    <3>2. CASE i = Len(chain) + 1
      BY <1>2, <1>4, <3>2 DEF GoodStorage, GoodToken
    <3>3. QED
      BY <1>4, <3>1, <3>2
  <2>2. QED
    BY <2>1 DEF BooksAreKept
<1>8. ChainOnly
  BY <1>5 DEF ChainOnly
<1>9. QED
  BY <1>6, <1>7, <1>8, ChainKeeps

LEMMA ReorgKeeps == ASSUME AssetInv, Reorg, ObservationTyped' PROVE AssetInv'
<1> DEFINE n == Len(chain) - 1
<1>1. chain \in Seq(Block) /\ Len(chain) \in Nat /\ final \in 0..Len(chain)
      /\ final < Len(chain) /\ chain' = SubSeq(chain, 1, n)
  BY LenProperties DEF Reorg, AssetInv, TypeOK
<1>2. n \in 0..Len(chain) /\ n \in Nat
  BY <1>1
<1>3. \A i \in 1..n : chain[i] \in Block
  BY <1>1, <1>2, ElementOfSeq
<1>4. /\ chain' \in Seq(Block) /\ Len(chain') = n
      /\ \A i \in 1..n : chain'[i] = chain[i]
  <2> HIDE DEF n
  <2>1. /\ SubSeq(chain, 1, n) \in Seq(Block)
        /\ Len(SubSeq(chain, 1, n)) = IF 1 <= n THEN n - 1 + 1 ELSE 0
        /\ \A i \in 1..(n - 1 + 1) : SubSeq(chain, 1, n)[i] = chain[1 + i - 1]
    BY <1>2, <1>3, SubSeqProperties
  <2>2. Len(SubSeq(chain, 1, n)) = n /\ \A i \in 1..n : SubSeq(chain, 1, n)[i] = chain[i]
    BY <1>2, <2>1
  <2>3. QED
    BY <1>1, <2>1, <2>2
<1>5. /\ UNCHANGED <<asset, calls, op, lane, late, final>>
      /\ reorgs' = reorgs + 1 /\ reorgs < MaxReorgs
  BY DEF Reorg
<1>6. TypeOK'
  BY <1>1, <1>2, <1>4, <1>5, BoundsAssumption DEF AssetInv, TypeOK, ObservationTyped
<1>7. BooksAreKept'
  BY <1>1, <1>4 DEF AssetInv, BooksAreKept
<1>8. ChainOnly
  BY <1>5 DEF ChainOnly
<1>9. QED
  BY <1>6, <1>7, <1>8, ChainKeeps

LEMMA ChainStepKeeps == ASSUME AssetInv, Chain, ObservationTyped' PROVE AssetInv'
<1>1. TypeOK /\ BooksAreKept /\ Len(chain) \in Nat
  BY LenProperties DEF AssetInv, TypeOK
<1>2. CASE Finalize
  <2>1. ChainOnly
    BY <1>2 DEF Finalize, ChainOnly
  <2>2. TypeOK' /\ BooksAreKept'
    BY <1>1, <1>2 DEF Finalize, TypeOK, ObservationTyped, BooksAreKept
  <2>3. QED
    BY <2>1, <2>2, ChainKeeps
<1>3. ASSUME NEW m \in Mints, DeadlinePasses(m) PROVE AssetInv'
  <2>1. ChainOnly
    BY <1>3 DEF DeadlinePasses, ChainOnly
  <2>2. TypeOK' /\ BooksAreKept'
    BY <1>1, <1>3 DEF DeadlinePasses, TypeOK, ObservationTyped, BooksAreKept
  <2>3. QED
    BY <2>1, <2>2, ChainKeeps
<1>4. QED
  BY <1>1, <1>2, <1>3, LaneMines, OtherMines, MiningKeeps, ReorgKeeps DEF Chain

-----------------------------------------------------------------------------
(* Steps of the services and the worker *)

\* An operation moves without success; only one deployment is live at a time, and one
\* that gets under way finds the asset still provisioning.
LEMMA OperationMoves ==
  ASSUME AssetInv, NEW o \in Operations, NEW s \in OperationState \ {"SUCCEEDED"},
         op' = [op EXCEPT ![o] = s], op[o] # "SUCCEEDED",
         UNCHANGED <<asset, late, chain, final, reorgs>>, ObservationTyped',
         calls' \subseteq Callers, lane' \in Seq(Operations),
         asset.status # "NONE",
         o \in Mints => asset.status = "ACTIVE",
         o \in Deployments /\ s \in UnderWay => asset.status # "ACTIVE",
         o \in Deployments => o \in LiveDeployments \/ s \in TerminalStates
                              \/ LiveDeployments = {}
  PROVE  AssetInv'
<1>1. op \in [Operations -> OperationState \cup {"NONE"}]
  BY DEF AssetInv, TypeOK
<1>2. op' \in [Operations -> OperationState \cup {"NONE"}] /\ op'[o] = s
      /\ \A r \in Operations \ {o} : op'[r] = op[r]
  BY <1>1
<1>3. TypeOK' /\ BooksAreKept'
  BY <1>2 DEF AssetInv, TypeOK, ObservationTyped, BooksAreKept
<1>4. ActiveIsBacked'
  <2>1. asset.status = "ACTIVE" => op'[asset.contract] = "SUCCEEDED"
    <3> SUFFICES ASSUME asset.status = "ACTIVE" PROVE op'[asset.contract] = "SUCCEEDED"
      OBVIOUS
    <3>1. asset.contract \in Operations
      BY DEF AssetInv, AssetTells, TypeOK, Operations
    <3>2. op[asset.contract] = "SUCCEEDED"
      BY DEF AssetInv, ActiveIsBacked
    <3>3. QED
      BY <1>2, <3>1, <3>2
  <2>2. \A m \in Mints : op'[m] # "NONE" => asset.status = "ACTIVE"
    BY <1>2 DEF AssetInv, ActiveIsBacked, Operations
  <2>3. QED
    BY <2>1, <2>2 DEF ActiveIsBacked
<1>5. AssetTells'
  BY <1>2 DEF AssetInv, AssetTells, Operations
<1>6. OneLiveDeployment'
  <2>1. ASSUME NEW d \in LiveDeployments' PROVE d \in Deployments /\ (d \in LiveDeployments \/ d = o)
    BY <1>2 DEF LiveDeployments, Operations
  <2>2. ASSUME o \in LiveDeployments' PROVE o \in LiveDeployments \/ LiveDeployments = {}
    BY <1>2, <2>2 DEF LiveDeployments
  <2>3. QED
    BY <2>1, <2>2 DEF AssetInv, OneLiveDeployment
<1>7. QED
  BY <1>3, <1>4, <1>5, <1>6 DEF AssetInv

\* The deployment that is queued is a new one.
LEMMA FreshIsNew ==
  ASSUME \E d \in Deployments : op[d] = "NONE"
  PROVE  FreshDeployment \in Deployments /\ op[FreshDeployment] = "NONE"
BY DEF FreshDeployment

LEMMA ServiceKeeps == ASSUME AssetInv, Service, ObservationTyped' PROVE AssetInv'
<1>1. AssetTells /\ TypeOK /\ op \in [Operations -> OperationState \cup {"NONE"}]
  BY DEF AssetInv, TypeOK
<1>2. "READY" \in OperationState \ {"SUCCEEDED"} /\ "READY" \notin UnderWay
  BY DEF OperationState, PreChainStates, UnderWay
<1>3. CASE CreateAsset
  <2> DEFINE d == FreshDeployment
  <2>1. asset.status = "NONE" /\ \A o \in Operations : op[o] = "NONE"
    BY <1>1, <1>3 DEF CreateAsset, AssetTells
  <2>2. d \in Deployments /\ d \in Operations
    BY <2>1, FreshIsNew, DeploymentsAssumption DEF Operations
  <2>3. /\ asset'.status = "PROVISIONING" /\ asset'.contract = NoContract
        /\ asset' \in [status : {"NONE", "PROVISIONING", "ACTIVE"},
                       contract : Deployments \cup {NoContract}]
    BY <1>1, <1>3, <2>1 DEF CreateAsset, AssetTells, TypeOK
  <2>4. op' = [op EXCEPT ![d] = "READY"] /\ UNCHANGED <<calls, lane, late, chain, final, reorgs>>
    BY <1>3 DEF CreateAsset
  <2> HIDE DEF d
  <2>5. /\ op' \in [Operations -> OperationState \cup {"NONE"}]
        /\ \A o \in Operations \ {d} : op'[o] = "NONE"
        /\ op'[d] = "READY"
    BY <1>1, <1>2, <2>1, <2>2, <2>4
  <2>6. TypeOK' /\ BooksAreKept'
    BY <2>3, <2>4, <2>5 DEF AssetInv, TypeOK, ObservationTyped, BooksAreKept
  <2>7. \A m \in Mints : m \in Operations \ {d}
    BY <2>2, OperationsAssumption DEF Operations
  <2>8. ActiveIsBacked'
    BY <2>2, <2>3, <2>5, <2>7 DEF ActiveIsBacked
  <2>9. AssetTells'
    BY <2>3 DEF AssetTells
  <2>10. OneLiveDeployment'
    BY <2>5 DEF OneLiveDeployment, LiveDeployments, Operations
  <2>11. QED
    BY <2>6, <2>8, <2>9, <2>10 DEF AssetInv
<1>4. ASSUME UNCHANGED <<asset, op, lane, late, chain, final, reorgs>>,
             calls' \subseteq Callers, asset.status # "NONE"
      PROVE  AssetInv'
  BY <1>4 DEF AssetInv, TypeOK, ObservationTyped, BooksAreKept, ActiveIsBacked, AssetTells,
              OneLiveDeployment, LiveDeployments
<1>5. ASSUME NEW c \in Callers, ReadAsset(c) PROVE AssetInv'
  BY <1>1, <1>4, <1>5 DEF ReadAsset, TypeOK
<1>6. ASSUME NEW c \in Callers, RequestDeployment(c) PROVE AssetInv'
  <2>1. /\ calls' \subseteq Callers /\ UNCHANGED <<asset, lane, late, chain, final, reorgs>>
        /\ asset.status # "NONE"
    BY <1>1, <1>6 DEF RequestDeployment, TypeOK, AssetTells
  <2>2. CASE UNCHANGED op
    BY <1>4, <2>1, <2>2
  <2>3. CASE /\ LiveDeployments = {} /\ \E d \in Deployments : op[d] = "NONE"
             /\ op' = [op EXCEPT ![FreshDeployment] = "READY"]
    <3> DEFINE d == FreshDeployment
    <3>1. d \in Deployments /\ op[d] = "NONE" /\ d \in Operations /\ d \notin Mints
      BY <2>3, FreshIsNew, OperationsAssumption DEF Operations
    <3>2. op' = [op EXCEPT ![d] = "READY"] /\ lane' \in Seq(Operations) /\ LiveDeployments = {}
      BY <1>1, <2>1, <2>3 DEF TypeOK
    <3> HIDE DEF d
    <3>3. QED
      BY <1>2, <2>1, <3>1, <3>2, OperationMoves
  <2>4. QED
    BY <1>6, <2>2, <2>3 DEF RequestDeployment
<1>7. ASSUME NEW m \in Mints, RequestMint(m) PROVE AssetInv'
  <2>1. m \in Operations /\ m \notin Deployments
    BY OperationsAssumption DEF Operations
  <2>2. /\ asset.status = "ACTIVE" /\ op[m] = "NONE" /\ op' = [op EXCEPT ![m] = "READY"]
        /\ UNCHANGED <<asset, late, chain, final, reorgs>>
        /\ calls' \subseteq Callers /\ lane' \in Seq(Operations)
    BY <1>1, <1>7 DEF RequestMint, TypeOK
  <2>3. QED
    BY <1>2, <2>1, <2>2, OperationMoves
<1>8. QED
  BY <1>3, <1>5, <1>6, <1>7 DEF Service

\* An operation that exists belongs to an asset; a mint to an active one.
LEMMA Existing ==
  ASSUME AssetInv, NEW o \in Operations, op[o] # "NONE"
  PROVE  /\ asset.status # "NONE"
         /\ o \in Mints => asset.status = "ACTIVE"
         /\ o \in Deployments /\ op[o] \in UnderWay => asset.status # "ACTIVE"
BY DEF AssetInv, AssetTells, ActiveIsBacked

LEMMA WorkerKeeps == ASSUME AssetInv, Worker, ObservationTyped' PROVE AssetInv'
<1> USE DEF UnderWay
<1>1. /\ TypeOK /\ op \in [Operations -> OperationState \cup {"NONE"}]
      /\ calls \subseteq Callers /\ lane \in Seq(Operations)
  BY DEF AssetInv, TypeOK
<1>2. {"PREPARING", "SUBMITTED", "INCLUDED", "REVERTED", "FAILED"}
      \subseteq OperationState \ {"SUCCEEDED"}
  BY DEF OperationState, PreChainStates, ChainInflightStates, TerminalStates
<1>3. {"READY", "PREPARING", "SUBMITTED", "INCLUDED"}
      \cap ({"NONE", "SUCCEEDED"} \cup TerminalStates) = {}
  BY DEF TerminalStates
<1>4. ASSUME NEW o \in Operations, op[o] \in {"READY", "PREPARING", "SUBMITTED", "INCLUDED"},
             NEW s \in {"PREPARING", "SUBMITTED", "INCLUDED", "REVERTED", "FAILED"},
             s \in UnderWay => op[o] \in UnderWay \/ o \in Mints \/ asset.status # "ACTIVE",
             op' = [op EXCEPT ![o] = s],
             UNCHANGED <<asset, calls, late, chain, final, reorgs>>, lane' \in Seq(Operations)
      PROVE  AssetInv'
  <2>1. op[o] # "NONE" /\ op[o] # "SUCCEEDED" /\ op[o] \notin TerminalStates
    BY <1>3, <1>4
  <2>2. o \in Deployments => o \in LiveDeployments
    BY <2>1 DEF LiveDeployments
  <2>3. /\ asset.status # "NONE"
        /\ o \in Mints => asset.status = "ACTIVE"
        /\ o \in Deployments /\ s \in UnderWay => asset.status # "ACTIVE"
    BY <1>4, <2>1, Existing, OperationsAssumption
  <2>4. s \in OperationState \ {"SUCCEEDED"}
    BY <1>2, <1>4
  <2>5. QED
    BY <1>1, <1>4, <2>1, <2>2, <2>3, <2>4, OperationMoves
<1>5. ASSUME NEW d \in Deployments, PrepareDeployment(d) PROVE AssetInv'
  BY <1>1, <1>4, <1>5 DEF PrepareDeployment, Prepared, IsProvisioning, Operations
<1>6. ASSUME NEW m \in Mints, PrepareMint(m) PROVE AssetInv'
  <2>1. PICK s \in {"PREPARING", "FAILED"} : op' = [op EXCEPT ![m] = s]
    BY <1>6 DEF PrepareMint, Prepared
  <2>2. op[m] = "READY" /\ UNCHANGED <<asset, calls, lane, late, chain, final, reorgs>>
    BY <1>6 DEF PrepareMint, Prepared
  <2>3. QED
    BY <1>1, <1>4, <2>1, <2>2 DEF Operations
<1>7. ASSUME NEW o \in Operations, Send(o) PROVE AssetInv'
  <2>1. lane' \in Seq(Operations)
    BY <1>1, <1>7, AppendProperties DEF Send
  <2>2. QED
    BY <1>4, <1>7, <2>1 DEF Send
<1>8. ASSUME NEW o \in Operations, FailUnsent(o) \/ FailInFlight(o) \/ ObserveReorg(o)
      PROVE  AssetInv'
  BY <1>1, <1>4, <1>8 DEF FailUnsent, FailInFlight, ObserveReorg
<1>9. ASSUME NEW o \in Operations, Observe(o) PROVE AssetInv'
  <2>1. PICK s \in {"INCLUDED", "REVERTED"} : op' = [op EXCEPT ![o] = s]
    BY <1>9 DEF Observe
  <2>2. /\ op[o] \in {"SUBMITTED", "INCLUDED"}
        /\ UNCHANGED <<asset, calls, lane, late, chain, final, reorgs>>
    BY <1>9 DEF Observe
  <2>3. QED
    BY <1>1, <1>4, <2>1, <2>2
<1>10. ASSUME NEW o \in Operations, Settle(o) PROVE AssetInv'
  <2>1. /\ op[o] = "INCLUDED" /\ op' = [op EXCEPT ![o] = "SUCCEEDED"]
        /\ asset' = ApplySuccess(o) /\ UNCHANGED <<calls, lane, late, chain, final, reorgs>>
    BY <1>10 DEF Settle
  <2>2. /\ op' \in [Operations -> OperationState \cup {"NONE"}] /\ op'[o] = "SUCCEEDED"
        /\ \A r \in Operations \ {o} : op'[r] = op[r]
    BY <1>1, <2>1 DEF OperationState, TerminalStates
  <2>3. CASE o \in Mints
    <3>1. o \notin Deployments /\ asset' = asset
      BY <2>1, <2>3, OperationsAssumption DEF ApplySuccess
    <3>2. asset.status = "ACTIVE" /\ asset.contract \in Operations
          /\ op[asset.contract] = "SUCCEEDED"
      BY <2>1, <2>3, Existing DEF AssetInv, ActiveIsBacked, AssetTells, TypeOK, Operations
    <3>3. TypeOK' /\ BooksAreKept'
      BY <2>1, <2>2, <3>1 DEF AssetInv, TypeOK, ObservationTyped, BooksAreKept
    <3>4. ActiveIsBacked'
      BY <2>1, <2>2, <3>1, <3>2 DEF AssetInv, ActiveIsBacked
    <3>5. AssetTells'
      BY <2>2, <3>1, <3>2 DEF AssetInv, AssetTells, Operations
    <3>6. OneLiveDeployment'
      BY <2>2, <3>1 DEF AssetInv, OneLiveDeployment, LiveDeployments, Operations
    <3>7. QED
      BY <3>3, <3>4, <3>5, <3>6 DEF AssetInv
  <2>4. CASE o \in Deployments
    <3>1. asset'.status = "ACTIVE" /\ asset'.contract = o
          /\ asset' = [status |-> "ACTIVE", contract |-> o]
      BY <2>1, <2>4 DEF ApplySuccess
    <3>2. TypeOK' /\ BooksAreKept'
      BY <2>1, <2>2, <2>4, <3>1 DEF AssetInv, TypeOK, ObservationTyped, BooksAreKept
    <3>3. ActiveIsBacked'
      BY <2>1, <2>2, <3>1 DEF AssetInv, ActiveIsBacked
    <3>4. o \in LiveDeployments /\ LiveDeployments = {o}
      BY <1>3, <2>1, <2>4 DEF AssetInv, OneLiveDeployment, LiveDeployments
    <3>5. \A d \in Deployments : op'[d] \in TerminalStates \cup {"NONE"}
      BY <2>2, <3>4 DEF LiveDeployments, TerminalStates, Operations
    <3>6. o # NoContract
      BY <2>4, OperationsAssumption DEF NoContract
    <3>7. AssetTells'
      BY <1>3, <3>1, <3>5, <3>6 DEF AssetTells
    <3>8. OneLiveDeployment'
      BY <3>5 DEF OneLiveDeployment, LiveDeployments
    <3>9. QED
      BY <3>2, <3>3, <3>7, <3>8 DEF AssetInv
  <2>5. QED
    BY <2>3, <2>4 DEF Operations
<1>11. ASSUME UNCHANGED <<asset, calls, op, lane, late, chain, final, reorgs>>
       PROVE  AssetInv'
  BY <1>11 DEF AssetInv, TypeOK, ObservationTyped, BooksAreKept, ActiveIsBacked, AssetTells,
               OneLiveDeployment, LiveDeployments
<1>12. ASSUME NEW o \in Operations, ReadFinality(o) PROVE AssetInv'
  <2>1. UNCHANGED <<asset, calls, lane, late, chain, final, reorgs>>
    BY <1>12 DEF ReadFinality, Finalized
  <2>2. op' = op \/ (op[o] = "SUBMITTED" /\ op' = [op EXCEPT ![o] = "INCLUDED"])
    BY <1>12 DEF ReadFinality, Finalized
  <2>3. QED
    BY <1>1, <1>4, <1>11, <2>1, <2>2
<1>13. ASSUME NEW o \in Operations,
              CheckCanonical(o) \/ FindEffect(o) \/ Reconcile(o) \/ StopObserving(o)
       PROVE  AssetInv'
  BY <1>11, <1>13 DEF CheckCanonical, FindEffect, Reconcile, StopObserving
<1>14. QED
  BY <1>5, <1>6, <1>7, <1>8, <1>9, <1>10, <1>12, <1>13 DEF Worker

LEMMA InitAsset == Init => AssetInv
<1> SUFFICES ASSUME Init PROVE AssetInv
  OBVIOUS
<1>1. Len(chain) = 0 /\ chain \in Seq(Block) /\ lane \in Seq(Operations)
  BY EmptySeq DEF Init
<1>2. \A o \in Operations : op[o] = "NONE"
  BY DEF Init
<1>3. TypeOK
  BY <1>1, BoundsAssumption DEF Init, TypeOK, Observation
<1>4. BooksAreKept
  BY <1>1 DEF BooksAreKept
<1>5. ActiveIsBacked
  BY <1>2 DEF Init, ActiveIsBacked, Operations
<1>6. AssetTells /\ OneLiveDeployment
  BY <1>2 DEF Init, AssetTells, OneLiveDeployment, LiveDeployments, Operations
<1>7. QED
  BY <1>3, <1>4, <1>5, <1>6 DEF AssetInv

\* What a step does to the observation of an operation.
LEMMA StepObserves == ASSUME TypeOK, [Next]_vars PROVE ObservationTyped'
<1> USE DEF ObservationTyped, observation
<1>1. ObservationTyped /\ seen \in [Operations -> Observation]
  BY DEF TypeOK
<1>2. CASE UNCHANGED observation
  BY <1>1, <1>2
<1>3. ASSUME NEW o \in Operations, NEW stage \in Observation, Advance(o, stage),
             misread' \subseteq Operations
      PROVE  ObservationTyped'
  BY <1>1, <1>3 DEF Advance
<1>4. {"none", "canonical", "finalized", "found", "matched"} \subseteq Observation
      /\ "orphaned" \in Observation
  BY DEF Observation
<1>5. ASSUME NEW o \in Operations,
             CheckCanonical(o) \/ FindEffect(o) \/ Reconcile(o) \/ Settle(o) \/ StopObserving(o)
      PROVE  ObservationTyped'
  BY <1>1, <1>3, <1>4, <1>5 DEF CheckCanonical, FindEffect, Reconcile, Settle, StopObserving
<1>6. ASSUME NEW o \in Operations, ReadFinality(o) PROVE ObservationTyped'
  <2>1. misread' \subseteq Operations /\ Advance(o, "finalized")
    BY <1>1, <1>6 DEF ReadFinality, Finalized
  <2>2. QED
    BY <1>3, <1>4, <2>1
<1>7. CASE Reorg
  BY <1>1, <1>4, <1>7 DEF Reorg
<1>8. CASE Service
  BY <1>2, <1>8 DEF Service, CreateAsset, ReadAsset, RequestDeployment, RequestMint
<1>9. CASE Chain
  BY <1>2, <1>7, <1>9 DEF Chain, MineNext, MineOther, AppendBlock, Finalize, DeadlinePasses
<1>10. CASE Worker
  BY <1>2, <1>5, <1>6, <1>10
     DEF Worker, PrepareDeployment, PrepareMint, Prepared, Send, FailUnsent, FailInFlight,
         Observe, ObserveReorg
<1>11. QED
  BY <1>2, <1>8, <1>9, <1>10 DEF Next, vars

LEMMA StepKeepsAsset == ASSUME AssetInv, [Next]_vars PROVE AssetInv'
<1>1. CASE UNCHANGED vars
  BY <1>1 DEF vars, AssetInv, TypeOK, BooksAreKept, ActiveIsBacked, AssetTells,
              OneLiveDeployment, LiveDeployments
<1>2. ObservationTyped'
  BY StepObserves DEF AssetInv
<1>3. QED
  BY <1>1, <1>2, ServiceKeeps, WorkerKeeps, ChainStepKeeps DEF Next

-----------------------------------------------------------------------------
(* What the invariant says *)

\* The row of the asset, its operations and the chain agree, whatever its callers have
\* read, others do on the chain, and reorganisations undo.
THEOREM AssetInvariant == Spec => []AssetInv
<1>1. AssetInv /\ [Next]_vars => AssetInv'
  BY StepKeepsAsset
<1>2. QED
  BY <1>1, InitAsset, PTL DEF Spec

\* The tables and the chain hold values of their kinds.
THEOREM TokenizationTyped == Spec => []TypeOK
<1>1. AssetInv => TypeOK
  BY DEF AssetInv
<1>2. QED
  BY <1>1, AssetInvariant, PTL

\* In every block of the canonical chain each contract has issued exactly what the
\* references it consumed allow, its holders have exactly what it issued, and that is
\* within the cap (mintWithReference, _update), whichever mints were prepared against the
\* same supply, reorganised, late or claimed failed.
THEOREM SupplyAlwaysBacked == Spec => []SupplyIsBacked
<1>1. ASSUME NEW t \in GoodToken
      PROVE  /\ t.supply = MapThenSumSet(LAMBDA m : Amount[m], t.consumed)
             /\ t.supply = MapThenSumSet(LAMBDA w : t.balance[w], Wallets)
             /\ t.supply <= SupplyCap
  <2>1. \A m \in t.consumed : Amount[m] \in Nat
    BY AmountAssumption DEF GoodToken, Token
  <2>2. \A w \in Wallets : t.balance[w] \in Nat
    BY DEF GoodToken, Token
  <2>3. MapThenSumSet(LAMBDA m : Amount[m], t.consumed) = Total(Amount, t.consumed)
    BY <2>1, SumIsTotal DEF GoodToken
  <2>4. MapThenSumSet(LAMBDA w : t.balance[w], Wallets) = Total(t.balance, Wallets)
    BY <2>2, WalletsAssumption, SumIsTotal
  <2>5. QED
    BY <2>3, <2>4 DEF GoodToken
<1>2. AssetInv => SupplyIsBacked
  BY <1>1 DEF AssetInv, BooksAreKept, SupplyIsBacked
<1>3. QED
  BY <1>2, AssetInvariant, PTL

\* markAssetActive never replaces a contract: a deployment that a stale requestDeployment
\* queues is refused by requireProvisioningAsset.
THEOREM OneContractForGood == Spec => ContractNeverChanges
<1>1. AssetInv /\ [Next]_vars
      => [asset.contract # NoContract => asset'.contract = asset.contract]_asset
  <2> SUFFICES ASSUME AssetInv, [Next]_vars, asset.contract # NoContract, asset' # asset
               PROVE  asset'.contract = asset.contract
    OBVIOUS
  <2>1. asset.status = "ACTIVE"
    BY DEF AssetInv, AssetTells
  <2>2. CASE CreateAsset
    BY <2>1, <2>2 DEF CreateAsset
  <2>3. ASSUME NEW o \in Operations, Settle(o) PROVE asset' = asset
    <3>1. o \notin Deployments
      BY <2>1, <2>3, Existing DEF Settle, UnderWay
    <3>2. QED
      BY <2>3, <3>1 DEF Settle, ApplySuccess
  <2>4. QED
    BY <2>2, <2>3
       DEF Next, Service, Worker, Chain, ReadAsset, RequestDeployment, RequestMint,
           PrepareDeployment, PrepareMint, Prepared, Send, FailUnsent, FailInFlight,
           Observe, ObserveReorg, CheckCanonical, ReadFinality, Finalized, FindEffect,
           Reconcile, StopObserving, MineNext, MineOther, AppendBlock, Finalize, Reorg,
           DeadlinePasses, vars
<1>2. QED
  BY <1>1, AssetInvariant, PTL DEF Spec, ContractNeverChanges

-----------------------------------------------------------------------------
(* The lane and the chain.  The definitions take the chain, the lane and   *)
(* the states as parameters, so that a step is a fact about two values.    *)

\* States in which nothing of an operation has been sent.
Unsent == {"NONE", "READY", "PREPARING"}

\* An operation has one nonce, none before it was sent, and mints come after deployments.
LaneTells(ln, st) ==
  /\ \A k, l \in 1..Len(ln) : ln[k] = ln[l] => k = l
  /\ \A k \in 1..Len(ln) : st[ln[k]] \notin Unsent
  /\ \A k, l \in 1..Len(ln) : ln[k] \in Mints /\ ln[l] \in Deployments => l < k

\* How many of the first i blocks hold a transaction of the lane.
Rank(ch, i) == Cardinality({j \in 1..i : ch[j].tx \in Operations})

\* The lane is mined in the order of its nonces.
Ordered(ch, ln) ==
  \A i \in 1..Len(ch) : ch[i].tx \in Operations =>
    Rank(ch, i) \in 1..Len(ln) /\ ch[i].tx = ln[Rank(ch, i)]

\* The mints of the first i blocks.
MinedBy(ch, i) == {m \in Mints : \E j \in 1..i : ch[j].tx = m /\ ch[j].ok}

\* A storage in which contract c, and it alone, has consumed the references ms.
Holds(storage, c, ms) ==
  \A d \in Deployments : storage[d].consumed = IF d = c THEN ms ELSE {}

Books(ch, c) == \A i \in 1..Len(ch) : Holds(ch[i].storage, c, MinedBy(ch, i))

\* The inductive invariant of the lane, beside AssetInv.
LaneInv == LaneTells(lane, op) /\ Ordered(chain, lane) /\ Books(chain, asset.contract)

LEMMA RankType ==
  ASSUME NEW ch, NEW i \in Nat
  PROVE  IsFiniteSet({j \in 1..i : ch[j].tx \in Operations}) /\ Rank(ch, i) \in Nat
<1>1. IsFiniteSet(1..i)
  BY FS_Interval
<1>2. IsFiniteSet({j \in 1..i : ch[j].tx \in Operations})
  BY <1>1, FS_Subset
<1>3. QED
  BY <1>2, FS_CardinalityType DEF Rank

LEMMA RankSame ==
  ASSUME NEW ch, NEW ch2, NEW i, \A j \in 1..i : ch[j] = ch2[j]
  PROVE  Rank(ch, i) = Rank(ch2, i)
<1>1. {j \in 1..i : ch[j].tx \in Operations} = {j \in 1..i : ch2[j].tx \in Operations}
  OBVIOUS
<1>2. QED
  BY <1>1 DEF Rank

\* The next block of the lane is the next in rank.
LEMMA RankNext ==
  ASSUME NEW ch, NEW i \in Nat, ch[i + 1].tx \in Operations
  PROVE  Rank(ch, i + 1) = Rank(ch, i) + 1
<1> DEFINE A == {j \in 1..i : ch[j].tx \in Operations}
           B == {j \in 1..(i + 1) : ch[j].tx \in Operations}
<1>1. B = A \cup {i + 1} /\ i + 1 \notin A
  OBVIOUS
<1>2. IsFiniteSet(A)
  BY RankType
<1> HIDE DEF A, B
<1>3. Cardinality(B) = Cardinality(A) + 1
  BY <1>1, <1>2, FS_AddElement
<1>4. QED
  BY <1>3 DEF Rank, A, B

\* A block of the lane outranks every earlier one.
LEMMA RankGrows ==
  ASSUME NEW ch, NEW i \in Nat, NEW j \in Nat, i < j, ch[j].tx \in Operations
  PROVE  Rank(ch, i) < Rank(ch, j)
<1> DEFINE A == {k \in 1..i : ch[k].tx \in Operations}
           B == {k \in 1..(j - 1) : ch[k].tx \in Operations}
<1>1. j - 1 \in Nat /\ A \subseteq B
  OBVIOUS
<1>2. IsFiniteSet(B) /\ Rank(ch, j - 1) \in Nat /\ Rank(ch, i) \in Nat
  BY <1>1, RankType
<1>3. Cardinality(A) <= Cardinality(B)
  <2> HIDE DEF A, B
  <2>1. QED
    BY <1>1, <1>2, FS_Subset
<1>4. Rank(ch, (j - 1) + 1) = Rank(ch, j - 1) + 1
  <2>1. ch[(j - 1) + 1].tx \in Operations
    OBVIOUS
  <2>2. QED
    BY <1>1, <2>1, RankNext
<1>5. Rank(ch, i) <= Rank(ch, j - 1)
  BY <1>3 DEF Rank
<1>6. (j - 1) + 1 = j
  OBVIOUS
<1>7. QED
  BY <1>2, <1>4, <1>5, <1>6

\* Two blocks of one operation are one block.
LEMMA MinedOnce ==
  ASSUME NEW ch, Len(ch) \in Nat, NEW ln, NEW st, LaneTells(ln, st), Ordered(ch, ln),
         NEW i \in 1..Len(ch), NEW j \in 1..Len(ch),
         ch[i].tx \in Operations, ch[i].tx = ch[j].tx
  PROVE  i = j
<1>1. Rank(ch, i) = Rank(ch, j)
  BY DEF Ordered, LaneTells
<1>2. i \in Nat /\ j \in Nat
  OBVIOUS
<1>3. Rank(ch, i) \in Nat
  BY <1>2, RankType
<1>4. ~(i < j) /\ ~(j < i)
  BY <1>1, <1>2, <1>3, RankGrows
<1>5. QED
  BY <1>2, <1>4

\* A mint is mined only for an ACTIVE asset.
LEMMA MintNeedsAsset ==
  ASSUME AssetInv, LaneInv, asset.status # "ACTIVE"
  PROVE  \A k \in 1..Len(lane) : lane[k] \notin Mints
<1>1. \A m \in Mints : op[m] = "NONE"
  BY DEF AssetInv, ActiveIsBacked
<1>2. QED
  BY <1>1 DEF LaneInv, LaneTells, Unsent

LEMMA NoMintMined ==
  ASSUME AssetInv, LaneInv, asset.status # "ACTIVE", NEW i \in 0..Len(chain)
  PROVE  MinedBy(chain, i) = {}
<1>1. \A k \in 1..Len(lane) : lane[k] \notin Mints
  BY MintNeedsAsset
<1>2. Len(chain) \in Nat
  BY LenProperties DEF AssetInv, TypeOK
<1>3. SUFFICES ASSUME NEW m \in Mints, NEW j \in 1..i, chain[j].tx = m PROVE FALSE
  BY DEF MinedBy
<1>4. j \in 1..Len(chain) /\ m \in Operations
  BY <1>2 DEF Operations
<1>5. QED
  BY <1>1, <1>3, <1>4 DEF LaneInv, Ordered

\* What the latest storage holds.
LEMMA LatestHolds ==
  ASSUME AssetInv, LaneInv
  PROVE  Holds(Latest, asset.contract, MinedBy(chain, Len(chain)))
<1>1. Len(chain) \in Nat
  BY LenProperties DEF AssetInv, TypeOK
<1>2. CASE Len(chain) = 0
  <2>1. MinedBy(chain, 0) = {}
    BY DEF MinedBy
  <2>2. Latest = [d \in Deployments |-> NoToken] /\ NoToken.consumed = {}
    BY <1>2 DEF Latest, Storage, NoToken
  <2>3. QED
    BY <1>2, <2>1, <2>2 DEF Holds
<1>3. CASE Len(chain) # 0
  <2>1. Len(chain) \in 1..Len(chain) /\ Latest = chain[Len(chain)].storage
    BY <1>1, <1>3 DEF Latest, Storage
  <2>2. QED
    BY <2>1 DEF LaneInv, Books
<1>4. QED
  BY <1>2, <1>3

\* What a block adds to the references consumed.
Adds(tx, ok) == IF tx \in Mints /\ ok THEN {tx} ELSE {}

\* A block after which the storage holds what it should, in its turn if it is the lane's.
GoodBlock(tx, ok, storage) ==
  /\ tx \in Operations =>
       LET k == Rank(chain, Len(chain)) + 1 IN k \in 1..Len(lane) /\ tx = lane[k]
  /\ Holds(storage, asset.contract, MinedBy(chain, Len(chain)) \cup Adds(tx, ok))

LEMMA LaneBlock ==
  ASSUME AssetInv, LaneInv, MineNext
  PROVE  \E tx, ok, storage : AppendBlock(tx, ok, storage) /\ GoodBlock(tx, ok, storage)
<1> DEFINE n == Len(chain)
           mined == Rank(chain, n)
           o == lane[mined + 1]
           c == asset.contract
           ms == MinedBy(chain, n)
<1>1. n \in Nat /\ mined \in Nat /\ Len(lane) \in Nat /\ lane \in Seq(Operations)
      /\ Latest \in GoodStorage /\ asset.contract \in Deployments \cup {NoContract}
  BY LenProperties, RankType, GoodLatest DEF AssetInv, TypeOK
<1>2. /\ mined < Len(lane)
      /\ \/ AppendBlock(o, FALSE, Latest)
         \/ /\ o \in Deployments
            /\ AppendBlock(o, TRUE, [Latest EXCEPT ![o] = Deployed])
         \/ /\ o \in Mints
            /\ AppendBlock(o, TRUE, [Latest EXCEPT ![c] = MintWithReference(Latest[c], o)])
  BY DEF MineNext, Rank
<1>3. mined + 1 \in 1..Len(lane)
  BY <1>1, <1>2
<1>4. Holds(Latest, c, ms)
  BY LatestHolds
<1>5. CASE AppendBlock(o, FALSE, Latest)
  <2>1. Adds(o, FALSE) = {}
    BY DEF Adds
  <2>2. GoodBlock(o, FALSE, Latest)
    BY <1>3, <1>4, <2>1 DEF GoodBlock
  <2>3. QED
    BY <1>5, <2>2
<1>6. CASE o \in Deployments /\ AppendBlock(o, TRUE, [Latest EXCEPT ![o] = Deployed])
  <2>1. Adds(o, TRUE) = {} /\ Deployed.consumed = {}
    BY <1>6, OperationsAssumption DEF Adds, Deployed, NoToken
  <2>2. ms = {}
    <3> SUFFICES ASSUME NEW m \in Mints, NEW j \in 1..n, chain[j].tx = m PROVE FALSE
      BY DEF MinedBy
    <3>1. Rank(chain, j) \in 1..Len(lane) /\ lane[Rank(chain, j)] = m /\ m \in Operations
      BY DEF LaneInv, Ordered, Operations
    <3>2. mined + 1 < Rank(chain, j)
      BY <1>3, <1>6, <3>1 DEF LaneInv, LaneTells
    <3>3. Rank(chain, j) <= mined
      <4>1. j \in Nat /\ (j < n \/ j = n)
        BY <1>1
      <4>2. CASE j = n
        BY <4>2, <1>1
      <4>3. CASE j < n
        <5>1. {k \in 1..j : chain[k].tx \in Operations} \in
                SUBSET {k \in 1..n : chain[k].tx \in Operations}
          BY <1>1, <4>1
        <5>2. QED
          BY <1>1, <5>1, RankType, FS_Subset DEF Rank
      <4>4. QED
        BY <4>1, <4>2, <4>3
    <3>4. QED
      BY <1>1, <3>1, <3>2, <3>3
  <2>3. Holds([Latest EXCEPT ![o] = Deployed], c, ms \cup {})
    BY <1>1, <1>4, <1>6, <2>1, <2>2 DEF Holds, GoodStorage
  <2>4. GoodBlock(o, TRUE, [Latest EXCEPT ![o] = Deployed])
    BY <1>3, <2>1, <2>3 DEF GoodBlock
  <2>5. QED
    BY <1>6, <2>4
<1>7. CASE /\ o \in Mints
           /\ AppendBlock(o, TRUE, [Latest EXCEPT ![c] = MintWithReference(Latest[c], o)])
  <2>1. Adds(o, TRUE) = {o}
    BY <1>7 DEF Adds
  <2>2. c \in Deployments
    <3>1. asset.status = "ACTIVE"
      BY <1>3, <1>7, MintNeedsAsset
    <3>2. QED
      BY <1>1, <3>1 DEF AssetInv, AssetTells
  <2>3. MintWithReference(Latest[c], o).consumed = ms \cup {o}
    <3>1. Latest[c] \in Token /\ Latest[c].consumed = ms
      BY <1>1, <1>4, <2>2 DEF Holds, GoodStorage, GoodToken
    <3>2. QED
      BY <3>1 DEF MintWithReference, Token
  <2> DEFINE after == MintWithReference(Latest[c], o)
             storage == [Latest EXCEPT ![c] = after]
  <2>4. Holds(storage, c, ms \cup {o})
    <3> HIDE DEF after
    <3>1. \A d \in Deployments : storage[d] = IF d = c THEN after ELSE Latest[d]
      BY <1>1 DEF GoodStorage
    <3>2. after.consumed = ms \cup {o}
      BY <2>3 DEF after
    <3> HIDE DEF storage
    <3>3. QED
      BY <1>4, <3>1, <3>2 DEF Holds
  <2>5. GoodBlock(o, TRUE, storage)
    BY <1>3, <2>1, <2>4 DEF GoodBlock
  <2>6. QED
    BY <1>7, <2>5
<1>8. QED
  BY <1>2, <1>5, <1>6, <1>7

LEMMA OtherBlock ==
  ASSUME AssetInv, LaneInv, NEW c \in Deployments, MineOther(c)
  PROVE  \E tx, ok, storage : AppendBlock(tx, ok, storage) /\ GoodBlock(tx, ok, storage)
<1> DEFINE t == Latest[c]
           ms == MinedBy(chain, Len(chain))
<1>1. Latest \in GoodStorage /\ t \in Token
  BY GoodLatest DEF AssetInv, GoodStorage, GoodToken
<1>2. Holds(Latest, asset.contract, ms)
  BY LatestHolds
<1>3. ASSUME NEW u, u.consumed = t.consumed,
             AppendBlock(Nobody, TRUE, [Latest EXCEPT ![c] = u])
      PROVE  \E tx, ok, storage : AppendBlock(tx, ok, storage) /\ GoodBlock(tx, ok, storage)
  <2> DEFINE storage == [Latest EXCEPT ![c] = u]
  <2>1. \A d \in Deployments : storage[d].consumed = Latest[d].consumed
    BY <1>1, <1>3 DEF GoodStorage
  <2>2. Nobody \notin Operations /\ Adds(Nobody, TRUE) = {}
    BY OperationsAssumption DEF Operations, Adds
  <2> HIDE DEF storage
  <2>3. Holds(storage, asset.contract, ms \cup Adds(Nobody, TRUE))
    <3>1. ms \cup Adds(Nobody, TRUE) = ms
      BY <2>2
    <3> HIDE DEF ms
    <3>2. QED
      BY <1>2, <2>1, <3>1 DEF Holds
  <2>4. GoodBlock(Nobody, TRUE, storage)
    BY <2>2, <2>3 DEF GoodBlock
  <2>5. AppendBlock(Nobody, TRUE, storage)
    BY <1>3 DEF storage
  <2>6. QED
    BY <2>4, <2>5
<1>4. PICK u : /\ AppendBlock(Nobody, TRUE, [Latest EXCEPT ![c] = u])
               /\ \/ \E open \in SUBSET Wallets : u = SetEligibility(t, open)
                  \/ u = SetPaused(t, ~t.paused)
                  \/ \E from, to \in Wallets : u = Transfer(t, from, to)
  BY DEF MineOther
<1>5. u.consumed = t.consumed
  BY <1>1, <1>4 DEF SetEligibility, SetPaused, Transfer, Token
<1>6. QED
  BY <1>3, <1>4, <1>5

\* The chain grows by a good block.
LEMMA BlockKeepsLane ==
  ASSUME AssetInv, LaneInv, NEW tx, NEW ok, NEW storage,
         AppendBlock(tx, ok, storage), GoodBlock(tx, ok, storage)
  PROVE  LaneInv'
<1> DEFINE b == [tx |-> tx, ok |-> ok, storage |-> storage]
           n == Len(chain)
           c == asset.contract
<1>1. chain' = Append(chain, b) /\ UNCHANGED <<asset, op, lane>>
  BY DEF AppendBlock
<1>2. b.tx = tx /\ b.ok = ok /\ b.storage = storage
  OBVIOUS
<1> HIDE DEF b
<1>3. /\ n \in Nat /\ Len(chain') = n + 1 /\ chain'[n + 1] = b
      /\ \A i \in 1..n : chain'[i] = chain[i]
  <2>1. chain \in Seq(Block)
    BY DEF AssetInv, TypeOK
  <2>2. QED
    BY <1>1, <2>1, LenProperties
<1> HIDE DEF n
<1>4. \A i \in 0..n : Rank(chain', i) = Rank(chain, i) /\ MinedBy(chain', i) = MinedBy(chain, i)
  <2>1. SUFFICES ASSUME NEW i \in 0..n
                 PROVE  Rank(chain', i) = Rank(chain, i) /\ MinedBy(chain', i) = MinedBy(chain, i)
    OBVIOUS
  <2>2. \A j \in 1..i : chain'[j] = chain[j]
    BY <1>3
  <2>3. QED
    BY <2>2, RankSame DEF MinedBy
<1>5. Ordered(chain', lane)
  <2>1. SUFFICES ASSUME NEW i \in 1..(n + 1), chain'[i].tx \in Operations
                 PROVE  Rank(chain', i) \in 1..Len(lane) /\ chain'[i].tx = lane[Rank(chain', i)]
    BY <1>3 DEF Ordered
  <2>2. CASE i \in 1..n
    BY <1>3, <1>4, <2>1, <2>2 DEF LaneInv, Ordered, n
  <2>3. CASE i = n + 1
    <3>1. Rank(chain', n + 1) = Rank(chain', n) + 1
      BY <1>3, <2>1, <2>3, RankNext
    <3>2. Rank(chain', n) = Rank(chain, n)
      BY <1>3, <1>4
    <3>3. tx \in Operations
      BY <1>2, <1>3, <2>1, <2>3
    <3>4. Rank(chain, n) + 1 \in 1..Len(lane) /\ tx = lane[Rank(chain, n) + 1]
      BY <3>3 DEF GoodBlock, n
    <3>5. QED
      BY <1>2, <1>3, <2>3, <3>1, <3>2, <3>4
  <2>4. QED
    BY <1>3, <2>2, <2>3
<1>6. MinedBy(chain', n + 1) = MinedBy(chain, n) \cup Adds(tx, ok)
  <2>1. \A j : j \in 1..(n + 1) <=> j \in 1..n \/ j = n + 1
    BY <1>3
  <2>2. \A m \in Mints : (\E j \in 1..(n + 1) : chain'[j].tx = m /\ chain'[j].ok)
          <=> (\E j \in 1..n : chain[j].tx = m /\ chain[j].ok) \/ (tx = m /\ ok)
    BY <1>2, <1>3, <2>1
  <2>3. QED
    BY <2>2 DEF MinedBy, Adds
<1>7. Books(chain', c)
  <2>1. SUFFICES ASSUME NEW i \in 1..(n + 1)
                 PROVE  Holds(chain'[i].storage, c, MinedBy(chain', i))
    BY <1>3 DEF Books
  <2>2. CASE i \in 1..n
    BY <1>3, <1>4, <2>2 DEF LaneInv, Books, n
  <2>3. CASE i = n + 1
    BY <1>2, <1>3, <1>6, <2>3 DEF GoodBlock, n
  <2>4. QED
    BY <1>3, <2>2, <2>3
<1>8. QED
  BY <1>1, <1>5, <1>7 DEF LaneInv

LEMMA ReorgKeepsLane == ASSUME AssetInv, LaneInv, Reorg PROVE LaneInv'
<1> DEFINE n == Len(chain) - 1
<1>1. chain \in Seq(Block) /\ Len(chain) \in Nat /\ final \in 0..Len(chain)
      /\ final < Len(chain) /\ chain' = SubSeq(chain, 1, n) /\ UNCHANGED <<asset, op, lane>>
  BY LenProperties DEF Reorg, AssetInv, TypeOK
<1>2. n \in Nat
  BY <1>1
<1>3. Len(chain') = n /\ \A i \in 1..n : chain'[i] = chain[i]
  <2>1. \A i \in 1..n : chain[i] \in Block
    BY <1>1, ElementOfSeq
  <2> HIDE DEF n
  <2>2. /\ Len(SubSeq(chain, 1, n)) = IF 1 <= n THEN n - 1 + 1 ELSE 0
        /\ \A i \in 1..(n - 1 + 1) : SubSeq(chain, 1, n)[i] = chain[1 + i - 1]
    BY <1>2, <2>1, SubSeqProperties
  <2>3. QED
    BY <1>1, <1>2, <2>2
<1>4. \A i \in 1..n : i \in 1..Len(chain)
  BY <1>1
<1> HIDE DEF n
<1>5. \A i \in 1..n : Rank(chain', i) = Rank(chain, i) /\ MinedBy(chain', i) = MinedBy(chain, i)
  <2>1. SUFFICES ASSUME NEW i \in 1..n
                 PROVE  Rank(chain', i) = Rank(chain, i) /\ MinedBy(chain', i) = MinedBy(chain, i)
    OBVIOUS
  <2>2. \A j \in 1..i : chain'[j] = chain[j]
    BY <1>2, <1>3
  <2>3. QED
    BY <2>2, RankSame DEF MinedBy
<1>6. Ordered(chain', lane)
  BY <1>3, <1>4, <1>5 DEF LaneInv, Ordered
<1>7. Books(chain', asset.contract)
  BY <1>3, <1>4, <1>5 DEF LaneInv, Books
<1>8. QED
  BY <1>1, <1>6, <1>7 DEF LaneInv

\* An operation moves, and what is in the lane stays sent.
LEMMA MoveKeepsLane ==
  ASSUME AssetInv, LaneInv, NEW o \in Operations, NEW s, op' = [op EXCEPT ![o] = s],
         op[o] \in Unsent \/ s \notin Unsent,
         UNCHANGED <<lane, chain>>, asset'.contract = asset.contract
  PROVE  LaneInv'
<1>1. op \in [Operations -> OperationState \cup {"NONE"}]
      /\ \A k \in 1..Len(lane) : lane[k] \in Operations
  BY ElementOfSeq DEF AssetInv, TypeOK
<1>2. \A k \in 1..Len(lane) : op'[lane[k]] \notin Unsent
  BY <1>1 DEF LaneInv, LaneTells
<1>3. LaneTells(lane, op')
  BY <1>2 DEF LaneInv, LaneTells
<1>4. QED
  BY <1>3 DEF LaneInv

\* A transaction is given the next nonce.  A deployment that is sent finds no mint before it.
LEMMA SendKeepsLane ==
  ASSUME AssetInv, LaneInv, NEW o \in Operations, Send(o) PROVE LaneInv'
<1> DEFINE n == Len(lane)
<1>1. /\ op \in [Operations -> OperationState \cup {"NONE"}] /\ lane \in Seq(Operations)
      /\ op[o] = "PREPARING" /\ op' = [op EXCEPT ![o] = "SUBMITTED"]
      /\ lane' = Append(lane, o) /\ UNCHANGED <<asset, chain>>
  BY DEF AssetInv, TypeOK, Send
<1>2. /\ n \in Nat /\ Len(lane') = n + 1 /\ lane'[n + 1] = o
      /\ \A k \in 1..n : lane'[k] = lane[k] /\ lane[k] \in Operations
  BY <1>1, LenProperties, AppendProperties, ElementOfSeq
<1>3. \A k \in 1..n : lane[k] # o
  BY <1>1 DEF LaneInv, LaneTells, Unsent
<1>4. o \in Deployments => \A k \in 1..n : lane[k] \notin Mints
  <2>1. o \in Deployments => asset.status # "ACTIVE"
    BY <1>1, Existing DEF UnderWay
  <2>2. QED
    BY <2>1, MintNeedsAsset
<1>5. op'[o] = "SUBMITTED" /\ \A r \in Operations \ {o} : op'[r] = op[r]
  BY <1>1
<1>6. \A k : k \in 1..(n + 1) <=> k \in 1..n \/ k = n + 1
  BY <1>2
<1>7. Deployments \cap Mints = {}
  BY OperationsAssumption
<1>8. LaneTells(lane', op')
  <2>1. \A k, l \in 1..Len(lane') : lane'[k] = lane'[l] => k = l
    BY <1>2, <1>3, <1>6 DEF LaneInv, LaneTells, n
  <2>2. \A k \in 1..Len(lane') : op'[lane'[k]] \notin Unsent
    BY <1>2, <1>3, <1>5, <1>6 DEF LaneInv, LaneTells, Unsent, n
  <2>3. \A k, l \in 1..Len(lane') : lane'[k] \in Mints /\ lane'[l] \in Deployments => l < k
    <3> SUFFICES ASSUME NEW k \in 1..(n + 1), NEW l \in 1..(n + 1),
                        lane'[k] \in Mints, lane'[l] \in Deployments
                 PROVE  l < k
      BY <1>2
    <3>1. CASE k = n + 1
      BY <1>2, <1>6, <1>7, <3>1
    <3>2. CASE k \in 1..n /\ l = n + 1
      BY <1>2, <1>4, <3>2
    <3>3. CASE k \in 1..n /\ l \in 1..n
      BY <1>2, <3>3 DEF LaneInv, LaneTells
    <3>4. QED
      BY <1>6, <3>1, <3>2, <3>3
  <2>4. QED
    BY <2>1, <2>2, <2>3 DEF LaneTells
<1>9. Ordered(chain', lane')
  BY <1>1, <1>2 DEF LaneInv, Ordered
<1>10. QED
  BY <1>1, <1>8, <1>9 DEF LaneInv

\* markAssetActive finds no reference consumed anywhere, since no mint was requested.
LEMMA SettleKeepsLane ==
  ASSUME AssetInv, LaneInv, NEW o \in Operations, Settle(o) PROVE LaneInv'
<1>1. /\ op[o] = "INCLUDED" /\ op' = [op EXCEPT ![o] = "SUCCEEDED"]
      /\ asset' = ApplySuccess(o) /\ UNCHANGED <<lane, chain>>
  BY DEF Settle
<1>2. CASE o \notin Deployments
  BY <1>1, <1>2, MoveKeepsLane DEF ApplySuccess, Unsent
<1>3. CASE o \in Deployments
  <2>1. asset'.contract = o
    BY <1>1, <1>3 DEF ApplySuccess
  <2>2. asset.status # "ACTIVE" /\ asset.contract = NoContract
    BY <1>1, <1>3, Existing DEF UnderWay, AssetInv, AssetTells
  <2>3. \A i \in 1..Len(chain) : MinedBy(chain, i) = {}
    <3>1. \A i \in 1..Len(chain) : i \in 0..Len(chain)
      BY LenProperties DEF AssetInv, TypeOK
    <3>2. QED
      BY <2>2, <3>1, NoMintMined
  <2>4. Books(chain, o)
    <3>1. ASSUME NEW i \in 1..Len(chain) PROVE Holds(chain[i].storage, o, MinedBy(chain, i))
      <4>1. MinedBy(chain, i) = {} /\ Holds(chain[i].storage, asset.contract, MinedBy(chain, i))
        BY <2>3 DEF LaneInv, Books
      <4>2. QED
        BY <4>1 DEF Holds
    <3>2. QED
      BY <3>1 DEF Books
  <2>5. \A k \in 1..Len(lane) : op'[lane[k]] \notin Unsent
    <3>1. op \in [Operations -> OperationState \cup {"NONE"}]
          /\ \A k \in 1..Len(lane) : lane[k] \in Operations
      BY ElementOfSeq DEF AssetInv, TypeOK
    <3>2. QED
      BY <1>1, <3>1 DEF LaneInv, LaneTells, Unsent
  <2>6. LaneTells(lane, op')
    BY <2>5 DEF LaneInv, LaneTells
  <2>7. QED
    BY <1>1, <2>1, <2>4, <2>6 DEF LaneInv
<1>4. QED
  BY <1>2, <1>3

LEMMA StepKeepsLane == ASSUME AssetInv, LaneInv, [Next]_vars PROVE LaneInv'
<1>1. ASSUME UNCHANGED <<asset, op, lane, chain>> PROVE LaneInv'
  BY <1>1 DEF LaneInv
<1>2. CASE Chain
  <2>1. CASE MineNext
    BY <2>1, LaneBlock, BlockKeepsLane
  <2>2. CASE \E d \in Deployments : MineOther(d)
    BY <2>2, OtherBlock, BlockKeepsLane
  <2>3. CASE Finalize \/ \E m \in Mints : DeadlinePasses(m)
    BY <1>1, <2>3 DEF Finalize, DeadlinePasses
  <2>4. QED
    BY <1>2, <2>1, <2>2, <2>3, ReorgKeepsLane DEF Chain
<1>3. CASE Service
  <2>1. CASE CreateAsset
    <3>1. \E d \in Deployments : op[d] = "NONE"
      BY <2>1, DeploymentsAssumption DEF CreateAsset, AssetInv, AssetTells, Operations
    <3>2. FreshDeployment \in Operations /\ op[FreshDeployment] \in Unsent
      BY <3>1, FreshIsNew DEF Operations, Unsent
    <3>3. asset'.contract = asset.contract
      BY <2>1 DEF CreateAsset, AssetInv, TypeOK
    <3>4. QED
      BY <2>1, <3>2, <3>3, MoveKeepsLane DEF CreateAsset
  <2>2. ASSUME NEW c \in Callers, RequestDeployment(c) PROVE LaneInv'
    <3>1. CASE UNCHANGED op
      BY <1>1, <2>2, <3>1 DEF RequestDeployment
    <3>2. CASE ~UNCHANGED op
      <4>1. FreshDeployment \in Operations /\ op[FreshDeployment] \in Unsent
        BY <2>2, <3>2, FreshIsNew DEF RequestDeployment, Operations, Unsent
      <4>2. QED
        BY <2>2, <3>2, <4>1, MoveKeepsLane DEF RequestDeployment
    <3>3. QED
      BY <3>1, <3>2
  <2>3. ASSUME NEW c \in Callers, ReadAsset(c) PROVE LaneInv'
    BY <1>1, <2>3 DEF ReadAsset
  <2>4. ASSUME NEW m \in Mints, RequestMint(m) PROVE LaneInv'
    BY <2>4, MoveKeepsLane DEF RequestMint, Operations, Unsent
  <2>5. QED
    BY <1>3, <2>1, <2>2, <2>3, <2>4 DEF Service
<1>4. CASE Worker
  <2>1. ASSUME NEW o \in Operations, NEW ok, Prepared(o, ok) PROVE LaneInv'
    BY <2>1, MoveKeepsLane DEF Prepared, Unsent
  <2>2. ASSUME NEW d \in Deployments, PrepareDeployment(d) PROVE LaneInv'
    BY <2>1, <2>2 DEF PrepareDeployment, Operations
  <2>3. ASSUME NEW m \in Mints, PrepareMint(m) PROVE LaneInv'
    BY <2>1, <2>3 DEF PrepareMint, Operations
  <2>4. ASSUME NEW o \in Operations, FailUnsent(o) \/ FailInFlight(o) \/ ObserveReorg(o)
        PROVE  LaneInv'
    BY <2>4, MoveKeepsLane DEF FailUnsent, FailInFlight, ObserveReorg, Unsent
  <2>5. ASSUME NEW o \in Operations, Observe(o) PROVE LaneInv'
    <3>1. PICK s \in {"INCLUDED", "REVERTED"} : op' = [op EXCEPT ![o] = s]
      BY <2>5 DEF Observe
    <3>2. UNCHANGED <<lane, chain, asset>>
      BY <2>5 DEF Observe
    <3>3. QED
      BY <3>1, <3>2, MoveKeepsLane DEF Unsent
  <2>6. ASSUME NEW o \in Operations, ReadFinality(o) PROVE LaneInv'
    <3>1. UNCHANGED <<lane, chain, asset>>
      BY <2>6 DEF ReadFinality, Finalized
    <3>2. op' = op \/ (op[o] = "SUBMITTED" /\ op' = [op EXCEPT ![o] = "INCLUDED"])
      BY <2>6 DEF ReadFinality, Finalized
    <3>3. QED
      BY <1>1, <3>1, <3>2, MoveKeepsLane DEF Unsent
  <2>7. ASSUME NEW o \in Operations,
               CheckCanonical(o) \/ FindEffect(o) \/ Reconcile(o) \/ StopObserving(o)
        PROVE  LaneInv'
    BY <1>1, <2>7 DEF CheckCanonical, FindEffect, Reconcile, StopObserving
  <2>8. QED
    BY <1>4, <2>2, <2>3, <2>4, <2>5, <2>6, <2>7, SendKeepsLane, SettleKeepsLane DEF Worker
<1>5. QED
  BY <1>1, <1>2, <1>3, <1>4 DEF Next, vars

\* The lane is mined once and in order, and the books of the contracts follow it.
THEOREM LaneInvariant == Spec => [](AssetInv /\ LaneInv)
<1>1. Init => LaneInv
  <2> SUFFICES ASSUME Init PROVE LaneInv
    OBVIOUS
  <2>1. Len(lane) = 0 /\ Len(chain) = 0
    BY EmptySeq DEF Init
  <2>2. QED
    BY <2>1 DEF LaneInv, LaneTells, Ordered, Books
<1>2. AssetInv /\ LaneInv /\ [Next]_vars => LaneInv'
  BY StepKeepsLane
<1>3. QED
  BY <1>1, <1>2, AssetInvariant, PTL DEF Spec

\* The contract that the asset names, and it alone, has in every block consumed the
\* references of exactly the mints mined with success up to it: markAssetActive never
\* leaves issued tokens behind in another contract (requireProvisioningAsset), and a nonce
\* is executed once (mintWithReference).
THEOREM ReferencesFollowBlocks == Spec => []IssuedAsMined
<1>1. ASSUME LaneInv, NEW i \in 1..Len(chain), NEW d \in Deployments
      PROVE  chain[i].storage[d].consumed =
               {m \in Mints : d = asset.contract /\ \E j \in 1..i : chain[j].tx = m /\ chain[j].ok}
  <2>1. chain[i].storage[d].consumed = IF d = asset.contract THEN MinedBy(chain, i) ELSE {}
    BY <1>1 DEF LaneInv, Books, Holds
  <2>2. QED
    BY <2>1 DEF MinedBy
<1>2. LaneInv => IssuedAsMined
  BY <1>1 DEF IssuedAsMined
<1>3. QED
  BY <1>2, LaneInvariant, PTL

-----------------------------------------------------------------------------
(* What is observed.  awaitConfirmation, reconciliation and settlement are *)
(* separate steps; what one of them saw has to hold when the next one acts.*)

\* Stages after awaitConfirmation reported FINALIZED.
Judged == {"finalized", "found", "matched"}

Evident(o) == o \in misread \/ InFinalBlock(o)

\* A block that was canonical when its hash was compared is there until a reorganisation
\* is noted, and FINALIZED means a final block unless it was misread.
SightInv ==
  \A o \in Operations :
    /\ seen[o] = "canonical" => EffectsOf(o) # {}
    /\ seen[o] \in Judged \/ op[o] = "SUCCEEDED" => Evident(o)

\* The final part of the chain and the misreadings of the past stay as they are.
LEMMA StepKeepsFinal ==
  ASSUME AssetInv, [Next]_vars
  PROVE  /\ final \in Nat /\ final' \in Nat /\ final <= final'
         /\ \A i \in 1..final : chain'[i] = chain[i]
         /\ misread \subseteq misread'
<1> USE DEF observation
<1>1. chain \in Seq(Block) /\ Len(chain) \in Nat /\ final \in 0..Len(chain)
  BY LenProperties DEF AssetInv, TypeOK
<1>2. CASE UNCHANGED <<chain, final>> /\ misread \subseteq misread'
  BY <1>1, <1>2
<1>3. ASSUME NEW tx, NEW ok, NEW storage, AppendBlock(tx, ok, storage)
      PROVE  UNCHANGED <<final, misread>> /\ \A i \in 1..Len(chain) : chain'[i] = chain[i]
  <2>1. chain' = Append(chain, [tx |-> tx, ok |-> ok, storage |-> storage])
    BY <1>3 DEF AppendBlock
  <2>2. QED
    BY <1>1, <1>3, <2>1 DEF AppendBlock
<1>4. CASE Chain
  <2>1. CASE MineNext \/ \E d \in Deployments : MineOther(d)
    <3>1. PICK tx, ok, storage : AppendBlock(tx, ok, storage)
      BY <2>1 DEF MineNext, MineOther
    <3>2. QED
      BY <1>1, <1>3, <3>1
  <2>2. CASE Finalize
    BY <1>1, <2>2 DEF Finalize
  <2>3. CASE Reorg
    <3> DEFINE n == Len(chain) - 1
    <3>1. chain' = SubSeq(chain, 1, n) /\ UNCHANGED <<final, misread>> /\ final \in 0..n
      BY <1>1, <2>3 DEF Reorg
    <3>2. n \in Nat /\ \A i \in 1..n : chain[i] \in Block
      BY <1>1, <3>1, ElementOfSeq
    <3> HIDE DEF n
    <3>3. \A i \in 1..(n - 1 + 1) : SubSeq(chain, 1, n)[i] = chain[1 + i - 1]
      BY <3>2, SubSeqProperties
    <3>4. \A i \in 1..final : chain'[i] = chain[i]
      BY <3>1, <3>2, <3>3
    <3>5. final \in Nat /\ final' = final /\ misread' = misread
      BY <1>1, <3>1
    <3>6. QED
      BY <3>4, <3>5
  <2>4. CASE \E m \in Mints : DeadlinePasses(m)
    BY <1>2, <2>4 DEF DeadlinePasses
  <2>5. QED
    BY <1>4, <2>1, <2>2, <2>3, <2>4 DEF Chain
<1>5. CASE Service
  BY <1>2, <1>5 DEF Service, CreateAsset, ReadAsset, RequestDeployment, RequestMint
<1>6. CASE Worker
  BY <1>2, <1>6
     DEF Worker, PrepareDeployment, PrepareMint, Prepared, Send, FailUnsent, FailInFlight,
         Observe, ObserveReorg, CheckCanonical, ReadFinality, Finalized, FindEffect,
         Reconcile, Settle, StopObserving
<1>7. QED
  BY <1>2, <1>4, <1>5, <1>6 DEF Next, vars

LEMMA EvidentStays ==
  ASSUME AssetInv, [Next]_vars, NEW o \in Operations, Evident(o) PROVE Evident(o)'
BY StepKeepsFinal DEF Evident, InFinalBlock

\* The observation of an operation that a step advances, and of all others.
LEMMA SightMoves ==
  ASSUME AssetInv, SightInv, [Next]_vars, NEW o \in Operations,
         NEW stage \in Observation, Advance(o, stage), chain' = chain,
         stage = "canonical" => EffectsOf(o) # {},
         stage \in Judged => Evident(o) \/ Evident(o)',
         \A r \in Operations : op'[r] = "SUCCEEDED" => op[r] = "SUCCEEDED" \/ Evident(r)
  PROVE  SightInv'
<1>1. seen'[o] = stage /\ \A r \in Operations \ {o} : seen'[r] = seen[r]
  BY DEF Advance, AssetInv, TypeOK
<1>2. \A r \in Operations : EffectsOf(r)' = EffectsOf(r)
  BY DEF EffectsOf, BlocksOf
<1>3. \A r \in Operations : seen'[r] = "canonical" => EffectsOf(r)' # {}
  BY <1>1, <1>2 DEF SightInv
<1>4. \A r \in Operations : op'[r] = "SUCCEEDED" => Evident(r)'
  BY EvidentStays DEF SightInv
<1>5. \A r \in Operations : seen'[r] \in Judged => Evident(r)'
  BY <1>1, EvidentStays DEF SightInv
<1>6. QED
  BY <1>3, <1>4, <1>5 DEF SightInv

\* The chain moves, and an observation only where it loses its block.
LEMMA SightStays ==
  ASSUME AssetInv, SightInv, [Next]_vars,
         \A r \in Operations :
           /\ seen'[r] = seen[r] \/ seen'[r] \notin Judged \cup {"canonical"}
           /\ seen'[r] = "canonical" /\ EffectsOf(r) # {} => EffectsOf(r)' # {}
           /\ op'[r] = "SUCCEEDED" => op[r] = "SUCCEEDED"
  PROVE  SightInv'
<1>1. ASSUME NEW r \in Operations, seen'[r] = "canonical" PROVE EffectsOf(r)' # {}
  BY <1>1 DEF SightInv
<1>2. ASSUME NEW r \in Operations, seen'[r] \in Judged \/ op'[r] = "SUCCEEDED"
      PROVE  Evident(r)'
  <2>1. Evident(r)
    BY <1>2 DEF SightInv
  <2>2. QED
    BY <2>1, EvidentStays
<1>3. QED
  BY <1>1, <1>2 DEF SightInv

\* A move of one operation, not to SUCCEEDED, with nothing observed.
LEMMA MoveKeepsSight ==
  ASSUME AssetInv, SightInv, [Next]_vars, UNCHANGED <<chain, observation>>,
         NEW o, NEW s, op' = op \/ (op' = [op EXCEPT ![o] = s] /\ s # "SUCCEEDED")
  PROVE  SightInv'
<1>1. \A r \in Operations : op'[r] = "SUCCEEDED" => op[r] = "SUCCEEDED"
  BY DEF AssetInv, TypeOK
<1>2. \A r \in Operations : EffectsOf(r)' = EffectsOf(r) /\ seen'[r] = seen[r]
  BY DEF EffectsOf, BlocksOf, observation
<1>3. QED
  BY <1>1, <1>2, SightStays

\* FINALIZED is reported of the one block of the operation, which is the one that was seen
\* to succeed, or of a block that had gone.
LEMMA FinalityKeepsSight ==
  ASSUME AssetInv, LaneInv, SightInv, [Next]_vars, NEW o \in Operations, ReadFinality(o)
  PROVE  SightInv'
<1>1. Advance(o, "finalized") /\ chain' = chain /\ "finalized" \in Observation
  BY DEF ReadFinality, Finalized, Observation
<1>2. Evident(o) \/ Evident(o)'
  <2>1. CASE seen[o] = "orphaned" /\ misread' = misread \cup {o}
    BY <2>1 DEF Evident
  <2>2. ASSUME seen[o] = "canonical", NEW i \in BlocksOf(o), i <= final PROVE Evident(o)
    <3>1. PICK j \in BlocksOf(o) : chain[j].ok
      BY <2>2 DEF SightInv, EffectsOf
    <3>2. /\ i \in 1..Len(chain) /\ j \in 1..Len(chain)
          /\ chain[i].tx = o /\ chain[j].tx = o
      BY DEF BlocksOf
    <3>3. Len(chain) \in Nat /\ LaneTells(lane, op) /\ Ordered(chain, lane)
      BY LenProperties DEF AssetInv, TypeOK, LaneInv
    <3>4. i = j
      BY <3>2, <3>3, MinedOnce
    <3>5. i \in 1..final
      BY <2>2, <3>2, <3>3 DEF AssetInv, TypeOK
    <3>6. QED
      BY <3>1, <3>2, <3>4, <3>5 DEF Evident, InFinalBlock
  <2>3. QED
    BY <2>1, <2>2 DEF ReadFinality
<1>3. \A r \in Operations : op'[r] = "SUCCEEDED" => op[r] = "SUCCEEDED"
  <2>1. op' = op \/ op' = [op EXCEPT ![o] = "INCLUDED"]
    BY DEF ReadFinality, Finalized
  <2>2. QED
    BY <2>1 DEF AssetInv, TypeOK
<1>4. "finalized" # "canonical"
  OBVIOUS
<1>5. QED
  BY <1>1, <1>2, <1>3, <1>4, SightMoves

LEMMA WorkerKeepsSight ==
  ASSUME AssetInv, LaneInv, SightInv, Worker PROVE SightInv'
<1> USE DEF observation
<1>1. [Next]_vars
  BY DEF Next
<1>2. {"none", "canonical", "found", "matched"} \subseteq Observation
      /\ {"none", "canonical"} \cap Judged = {} /\ {"finalized", "found", "matched"} = Judged
  BY DEF Observation, Judged
<1>3. ASSUME NEW d \in Deployments, PrepareDeployment(d) PROVE SightInv'
  <2>1. PICK s \in {"PREPARING", "FAILED"} : op' = [op EXCEPT ![d] = s]
    BY <1>3 DEF PrepareDeployment, Prepared
  <2>2. UNCHANGED <<chain, observation>>
    BY <1>3 DEF PrepareDeployment, Prepared
  <2>3. QED
    BY <1>1, <2>1, <2>2, MoveKeepsSight
<1>4. ASSUME NEW m \in Mints, PrepareMint(m) PROVE SightInv'
  <2>1. PICK s \in {"PREPARING", "FAILED"} : op' = [op EXCEPT ![m] = s]
    BY <1>4 DEF PrepareMint, Prepared
  <2>2. UNCHANGED <<chain, observation>>
    BY <1>4 DEF PrepareMint, Prepared
  <2>3. QED
    BY <1>1, <2>1, <2>2, MoveKeepsSight
<1>5. ASSUME NEW o \in Operations,
             Send(o) \/ FailUnsent(o) \/ FailInFlight(o) \/ ObserveReorg(o)
      PROVE  SightInv'
  BY <1>1, <1>5, MoveKeepsSight DEF Send, FailUnsent, FailInFlight, ObserveReorg
<1>6. ASSUME NEW o \in Operations, Observe(o) PROVE SightInv'
  <2>1. PICK s \in {"INCLUDED", "REVERTED"} : op' = [op EXCEPT ![o] = s]
    BY <1>6 DEF Observe
  <2>2. UNCHANGED <<chain, observation>>
    BY <1>6 DEF Observe
  <2>3. QED
    BY <1>1, <2>1, <2>2, MoveKeepsSight
<1>7. ASSUME NEW o \in Operations, CheckCanonical(o) PROVE SightInv'
  <2>1. EffectsOf(o) # {} /\ Advance(o, "canonical") /\ UNCHANGED <<op, chain>>
    BY <1>7 DEF CheckCanonical, EffectsOf
  <2>2. QED
    BY <1>1, <1>2, <2>1, SightMoves
<1>8. ASSUME NEW o \in Operations, FindEffect(o) \/ Reconcile(o) PROVE SightInv'
  <2>1. PICK stage \in {"found", "matched"} : Advance(o, stage)
    BY <1>8 DEF FindEffect, Reconcile
  <2>2. seen[o] \in Judged /\ UNCHANGED <<op, chain>>
    BY <1>2, <1>8 DEF FindEffect, Reconcile
  <2>3. Evident(o)
    BY <2>2 DEF SightInv
  <2>4. stage # "canonical" /\ stage \in Observation
    BY <1>2
  <2>5. QED
    BY <1>1, <2>1, <2>2, <2>3, <2>4, SightMoves
<1>9. ASSUME NEW o \in Operations, Settle(o) PROVE SightInv'
  <2>1. /\ Advance(o, "none") /\ seen[o] \in Judged /\ chain' = chain
        /\ op' = [op EXCEPT ![o] = "SUCCEEDED"]
    BY <1>2, <1>9 DEF Settle
  <2>2. Evident(o)
    BY <2>1 DEF SightInv
  <2>3. \A r \in Operations : op'[r] = "SUCCEEDED" => op[r] = "SUCCEEDED" \/ Evident(r)
    BY <2>1, <2>2 DEF AssetInv, TypeOK
  <2>4. QED
    BY <1>1, <1>2, <2>1, <2>3, SightMoves
<1>10. ASSUME NEW o \in Operations, StopObserving(o) PROVE SightInv'
  <2>1. Advance(o, "none") /\ UNCHANGED <<op, chain>>
    BY <1>10 DEF StopObserving
  <2>2. QED
    BY <1>1, <1>2, <2>1, SightMoves
<1>11. QED
  BY <1>1, <1>3, <1>4, <1>5, <1>6, <1>7, <1>8, <1>9, <1>10, FinalityKeepsSight DEF Worker

LEMMA ChainKeepsSight == ASSUME AssetInv, SightInv, Chain PROVE SightInv'
<1> USE DEF observation
<1>1. [Next]_vars
  BY DEF Next
<1>2. chain \in Seq(Block) /\ Len(chain) \in Nat /\ final \in 0..Len(chain)
      /\ seen \in [Operations -> Observation]
  BY LenProperties DEF AssetInv, TypeOK
<1>3. ASSUME NEW tx, NEW ok, NEW storage, AppendBlock(tx, ok, storage) PROVE SightInv'
  <2> DEFINE b == [tx |-> tx, ok |-> ok, storage |-> storage]
  <2>1. chain' = Append(chain, b) /\ UNCHANGED <<op, seen>>
    BY <1>3 DEF AppendBlock
  <2> HIDE DEF b
  <2>2. Len(chain') = Len(chain) + 1 /\ \A i \in 1..Len(chain) : chain'[i] = chain[i]
    BY <1>2, <2>1
  <2>3. \A i \in 1..Len(chain) : i \in 1..Len(chain') /\ chain'[i] = chain[i]
    BY <1>2, <2>2
  <2>4. \A r \in Operations : EffectsOf(r) \subseteq EffectsOf(r)'
    BY <2>3 DEF EffectsOf, BlocksOf
  <2>5. \A r \in Operations :
          /\ seen'[r] = seen[r] \/ seen'[r] \notin Judged \cup {"canonical"}
          /\ seen'[r] = "canonical" /\ EffectsOf(r) # {} => EffectsOf(r)' # {}
          /\ op'[r] = "SUCCEEDED" => op[r] = "SUCCEEDED"
    BY <2>1, <2>4
  <2>6. QED
    BY <1>1, <2>5, SightStays
<1>4. CASE MineNext \/ \E d \in Deployments : MineOther(d)
  <2>1. PICK tx, ok, storage : AppendBlock(tx, ok, storage)
    BY <1>4 DEF MineNext, MineOther
  <2>2. QED
    BY <1>3, <2>1
<1>5. CASE Reorg
  <2> DEFINE n == Len(chain) - 1
  <2>1. chain' = SubSeq(chain, 1, n) /\ UNCHANGED op /\ n \in Nat
    BY <1>2, <1>5 DEF Reorg
  <2>2. \A i \in 1..n : chain[i] \in Block
    BY <1>2, ElementOfSeq
  <2>3. \A i \in 1..Len(chain) : i = Len(chain) \/ i \in 1..n
    BY <1>2
  <2>4. \A r \in Operations : seen'[r] = IF seen[r] = "canonical" /\ chain[Len(chain)].tx = r
                                         THEN "orphaned" ELSE seen[r]
    BY <1>5 DEF Reorg
  <2> HIDE DEF n
  <2>5. /\ Len(SubSeq(chain, 1, n)) = IF 1 <= n THEN n - 1 + 1 ELSE 0
        /\ \A i \in 1..(n - 1 + 1) : SubSeq(chain, 1, n)[i] = chain[1 + i - 1]
    BY <2>1, <2>2, SubSeqProperties
  <2>6. \A i \in 1..n : i \in 1..Len(chain') /\ chain'[i] = chain[i]
    BY <2>1, <2>5
  <2>7. ASSUME NEW r \in Operations, seen'[r] = "canonical", NEW i \in EffectsOf(r)
        PROVE  i \in EffectsOf(r)'
    <3>1. chain[Len(chain)].tx # r
      BY <2>4, <2>7
    <3>2. i \in 1..Len(chain) /\ chain[i].tx = r /\ chain[i].ok
      BY DEF EffectsOf, BlocksOf
    <3>3. i \in 1..Len(chain') /\ chain'[i] = chain[i]
      BY <2>3, <2>6, <3>1, <3>2
    <3>4. QED
      BY <3>2, <3>3 DEF EffectsOf, BlocksOf
  <2>8. \A r \in Operations :
          /\ seen'[r] = seen[r] \/ seen'[r] \notin Judged \cup {"canonical"}
          /\ seen'[r] = "canonical" /\ EffectsOf(r) # {} => EffectsOf(r)' # {}
          /\ op'[r] = "SUCCEEDED" => op[r] = "SUCCEEDED"
    BY <2>1, <2>4, <2>7 DEF Judged
  <2>9. QED
    BY <1>1, <2>8, SightStays
<1>6. CASE Finalize \/ \E m \in Mints : DeadlinePasses(m)
  BY <1>1, <1>6, MoveKeepsSight DEF Finalize, DeadlinePasses
<1>7. QED
  BY <1>4, <1>5, <1>6 DEF Chain

LEMMA StepKeepsSight ==
  ASSUME AssetInv, LaneInv, SightInv, [Next]_vars PROVE SightInv'
<1> USE DEF observation
<1>1. CASE UNCHANGED vars
  BY <1>1, MoveKeepsSight DEF vars
<1>2. CASE Service
  <2>1. UNCHANGED <<chain, observation>>
    BY <1>2 DEF Service, CreateAsset, ReadAsset, RequestDeployment, RequestMint
  <2>2. \E o : op' = op \/ op' = [op EXCEPT ![o] = "READY"]
    BY <1>2 DEF Service, CreateAsset, ReadAsset, RequestDeployment, RequestMint
  <2>3. QED
    BY <2>1, <2>2, MoveKeepsSight
<1>3. QED
  BY <1>1, <1>2, WorkerKeepsSight, ChainKeepsSight DEF Next

\* What observation remembers is true of the chain when it is used, although confirmation,
\* the two reads of reconciliation and settlement are steps of their own.
THEOREM SightInvariant == Spec => [](AssetInv /\ LaneInv /\ SightInv)
<1>1. Init => SightInv
  BY DEF Init, SightInv, Judged
<1>2. AssetInv /\ LaneInv /\ SightInv /\ [Next]_vars => SightInv'
  BY StepKeepsSight
<1>3. QED
  BY <1>1, <1>2, LaneInvariant, PTL DEF Spec

\* SUCCEEDED is final on the chain although awaitConfirmation, reconcile and settle act one
\* after the other on a chain that may drop blocks in between, unless the block was
\* replaced between the hash check and the finality read (confirmation.ts); an ACTIVE asset
\* has a SUCCEEDED deployment, and mints exist only for an ACTIVE asset (applySuccess,
\* requestMint).
THEOREM NoUnconfirmedContract == Spec => []ActiveIsConfirmed
<1>1. AssetInv /\ SightInv => ActiveIsConfirmed
  BY DEF AssetInv, ActiveIsBacked, SightInv, Evident, ActiveIsConfirmed
<1>2. QED
  BY <1>1, SightInvariant, PTL

\* The tokens of a mint that is reported SUCCEEDED, and was not misread, are issued by the
\* contract the asset names, in the final block and in every later one.
SuccessIsIssued ==
  \A m \in Mints \ misread : op[m] = "SUCCEEDED" =>
    /\ asset.contract \in Deployments
    /\ \A i \in final..Len(chain) : m \in Storage(i)[asset.contract].consumed

\* What settle reports stays on the contract's books, misreadings apart: no later
\* activation, deployment, transfer or reorganisation takes an issue back or has it looked
\* for elsewhere.
THEOREM SuccessStaysIssued == Spec => []SuccessIsIssued
<1>1. ASSUME AssetInv, LaneInv, SightInv, NEW m \in Mints \ misread, op[m] = "SUCCEEDED",
             NEW i \in final..Len(chain)
      PROVE  asset.contract \in Deployments /\ m \in Storage(i)[asset.contract].consumed
  <2>1. Len(chain) \in Nat /\ final \in 0..Len(chain) /\ m \in Operations
    BY <1>1, LenProperties DEF AssetInv, TypeOK, Operations
  <2>2. PICK j \in 1..final : chain[j].tx = m /\ chain[j].ok
    BY <1>1, <2>1 DEF SightInv, Evident, InFinalBlock
  <2>3. asset.contract \in Deployments
    BY <1>1, <2>1, Existing DEF AssetInv, AssetTells, TypeOK
  <2>4. i \in 1..Len(chain) /\ i # 0 /\ j \in 1..i
    BY <2>1, <2>2
  <2>5. m \in MinedBy(chain, i)
    BY <2>2, <2>4 DEF MinedBy
  <2>6. chain[i].storage[asset.contract].consumed = MinedBy(chain, i)
    BY <1>1, <2>3, <2>4 DEF LaneInv, Books, Holds
  <2>7. QED
    BY <2>3, <2>4, <2>5, <2>6 DEF Storage
<1>2. AssetInv /\ LaneInv /\ SightInv => SuccessIsIssued
  <2>1. AssetInv => final \in final..Len(chain)
    BY LenProperties DEF AssetInv, TypeOK
  <2>2. QED
    BY <1>1, <2>1 DEF SuccessIsIssued
<1>3. QED
  BY <1>2, SightInvariant, PTL

-----------------------------------------------------------------------------
(* Refinement of the ledger *)

SameClaims == \A o \in Operations : ClaimOf(op'[o]) = ClaimOf(op[o])
SameEffects == \A o \in Operations : EffectsOf(o)' = EffectsOf(o)

LedgerStep == [Ledger!LedgerNext]_(Ledger!ledgerVars)

LEMMA SameClaimMap ==
  ASSUME SameClaims PROVE UNCHANGED [o \in Operations |-> ClaimOf(op[o])]
BY DEF SameClaims

LEMMA SameEffectMap ==
  ASSUME SameEffects PROVE UNCHANGED [o \in Operations |-> EffectsOf(o)]
BY DEF SameEffects

LEMMA LedgerStutters ==
  ASSUME SameClaims, SameEffects, UNCHANGED <<final, misread>> PROVE LedgerStep
BY SameClaimMap, SameEffectMap DEF LedgerStep, Ledger!ledgerVars

LEMMA LedgerSeals ==
  ASSUME SameClaims, SameEffects, final' = final + 1, misread' = misread PROVE LedgerStep
BY SameClaimMap, SameEffectMap DEF LedgerStep, Ledger!LedgerNext, Ledger!Seal

LEMMA LedgerMisreads ==
  ASSUME SameClaims, SameEffects, final' = final, NEW o \in Operations,
         misread' = misread \cup {o}
  PROVE  LedgerStep
<1>1. Ledger!Misreads(o)
  BY SameClaimMap, SameEffectMap DEF Ledger!Misreads
<1>2. QED
  BY <1>1 DEF LedgerStep, Ledger!LedgerNext

\* One operation takes effect, or its effect is undone, above what is final.
LEMMA LedgerEffect ==
  ASSUME SameClaims, UNCHANGED <<final, misread>>, NEW o \in Operations,
         NEW h \in Nat, h > final,
         \/ EffectsOf(o) = {} /\ EffectsOf(o)' = {h}
         \/ EffectsOf(o) = {h} /\ EffectsOf(o)' = {},
         \A r \in Operations \ {o} : EffectsOf(r)' = EffectsOf(r)
  PROVE  LedgerStep
<1> DEFINE before == [r \in Operations |-> EffectsOf(r)]
<1>1. CASE EffectsOf(o) = {} /\ EffectsOf(o)' = {h}
  <2>1. before' = [before EXCEPT ![o] = {h}] /\ before[o] = {} /\ h \in before'[o]
    BY <1>1
  <2>2. Ledger!Mint(o)
    BY <2>1, SameClaimMap DEF Ledger!Mint
  <2>3. QED
    BY <2>2 DEF LedgerStep, Ledger!LedgerNext
<1>2. CASE EffectsOf(o) = {h} /\ EffectsOf(o)' = {}
  <2>1. before' = [before EXCEPT ![o] = {}] /\ before[o] = {h}
    BY <1>2
  <2>2. Ledger!Undo(o)
    BY <2>1, SameClaimMap DEF Ledger!Undo
  <2>3. QED
    BY <2>2 DEF LedgerStep, Ledger!LedgerNext
<1>3. QED
  BY <1>1, <1>2

\* One operation is closed, or succeeds with an effect that is final or was misread.
LEMMA LedgerClaims ==
  ASSUME SameEffects, UNCHANGED <<final, misread>>, NEW o \in Operations,
         ClaimOf(op[o]) = "open",
         \/ ClaimOf(op'[o]) = "closed"
         \/ /\ ClaimOf(op'[o]) = "succeeded"
            /\ o \in misread \/ \E h \in EffectsOf(o) : h <= final,
         \A r \in Operations \ {o} : op'[r] = op[r]
  PROVE  LedgerStep
<1>1. [r \in Operations |-> ClaimOf(op[r])]'
      = [[r \in Operations |-> ClaimOf(op[r])] EXCEPT ![o] = ClaimOf(op'[o])]
  <2>1. \A r \in Operations :
          ClaimOf(op'[r]) = IF r = o THEN ClaimOf(op'[o]) ELSE ClaimOf(op[r])
    OBVIOUS
  <2>2. QED
    BY <2>1
<1>2. /\ [r \in Operations |-> ClaimOf(op[r])][o] = "open"
      /\ [r \in Operations |-> EffectsOf(r)][o] = EffectsOf(o)
  OBVIOUS
<1>3. Ledger!ClaimSuccess(o) \/ Ledger!Close(o)
  BY <1>1, <1>2, SameEffectMap DEF Ledger!ClaimSuccess, Ledger!Close
<1>4. QED
  BY <1>3 DEF LedgerStep, Ledger!LedgerNext

LEMMA SameChainSameEffects == ASSUME chain' = chain PROVE SameEffects
BY DEF SameEffects, EffectsOf, BlocksOf

\* A step that moves one operation which is not over yet.
LEMMA MoveRefines ==
  ASSUME AssetInv, NEW o \in Operations, NEW s, op' = [op EXCEPT ![o] = s],
         op[o] \notin TerminalStates, s = "SUCCEEDED" => Evident(o),
         UNCHANGED <<chain, final, misread>>
  PROVE  LedgerStep
<1>1. op'[o] = s /\ \A r \in Operations \ {o} : op'[r] = op[r]
  BY DEF AssetInv, TypeOK
<1>2. SameEffects
  BY SameChainSameEffects
<1>3. ClaimOf(op[o]) = "open"
  BY DEF ClaimOf, TerminalStates
<1>4. CASE ClaimOf(s) = "open"
  <2>1. SameClaims
    BY <1>1, <1>3, <1>4 DEF SameClaims
  <2>2. QED
    BY <1>2, <2>1, LedgerStutters
<1>5. CASE ClaimOf(s) = "closed"
  BY <1>1, <1>2, <1>3, <1>5, LedgerClaims
<1>6. CASE s = "SUCCEEDED"
  <2>1. o \in misread \/ \E h \in EffectsOf(o) : h <= final
    BY <1>6, LenProperties DEF Evident, InFinalBlock, EffectsOf, BlocksOf, AssetInv, TypeOK
  <2>2. ClaimOf(s) = "succeeded"
    BY <1>6 DEF ClaimOf
  <2>3. QED
    BY <1>1, <1>2, <1>3, <2>1, <2>2, LedgerClaims
<1>7. QED
  BY <1>4, <1>5, <1>6 DEF ClaimOf

\* One block more, or one less: at most one operation's effects change, by that block.
LEMMA BlockRefines ==
  ASSUME AssetInv, NEW tx, NEW ok, NEW storage, AppendBlock(tx, ok, storage),
         LaneInv, LaneInv'
  PROVE  LedgerStep
<1> DEFINE b == [tx |-> tx, ok |-> ok, storage |-> storage]
           n == Len(chain) + 1
<1>1. chain' = Append(chain, b) /\ UNCHANGED <<op, final, misread>> /\ b.tx = tx /\ b.ok = ok
  BY DEF AppendBlock, observation
<1> HIDE DEF b
<1>2. /\ Len(chain) \in Nat /\ Len(chain') = n /\ chain'[n] = b /\ n \in Nat /\ n > final
      /\ \A i \in 1..Len(chain) : chain'[i] = chain[i]
  <2>1. chain \in Seq(Block) /\ final \in 0..Len(chain)
    BY DEF AssetInv, TypeOK
  <2>2. QED
    BY <1>1, <2>1, LenProperties
<1>3. \A i : i \in 1..n <=> i \in 1..Len(chain) \/ i = n
  BY <1>2
<1>4. n \notin 1..Len(chain)
  BY <1>2
<1> HIDE DEF n
<1>5. \A o \in Operations :
        EffectsOf(o)' = EffectsOf(o) \cup (IF tx = o /\ ok THEN {n} ELSE {})
  BY <1>1, <1>2, <1>3 DEF EffectsOf, BlocksOf
<1>6. SameClaims
  BY <1>1 DEF SameClaims
<1>7. CASE tx \in Operations /\ ok
  <2>1. EffectsOf(tx) = {}
    <3> SUFFICES ASSUME NEW i \in EffectsOf(tx) PROVE FALSE
      OBVIOUS
    <3>1. i \in 1..Len(chain) /\ chain[i].tx = tx
      BY DEF EffectsOf, BlocksOf
    <3>2. i \in 1..Len(chain') /\ n \in 1..Len(chain') /\ Len(chain') \in Nat
          /\ chain'[i].tx = tx /\ chain'[n].tx = tx
      BY <1>1, <1>2, <1>3, <3>1 DEF n
    <3>3. LaneTells(lane', op') /\ Ordered(chain', lane')
      BY DEF LaneInv
    <3>4. i = n
      BY <1>7, <3>2, <3>3, MinedOnce
    <3>5. QED
      BY <1>4, <3>1, <3>4
  <2>2. EffectsOf(tx)' = {n} /\ \A r \in Operations \ {tx} : EffectsOf(r)' = EffectsOf(r)
    BY <1>5, <1>7, <2>1
  <2>3. QED
    BY <1>1, <1>2, <1>6, <1>7, <2>1, <2>2, LedgerEffect
<1>8. CASE ~(tx \in Operations /\ ok)
  <2>1. SameEffects
    BY <1>5, <1>8 DEF SameEffects
  <2>2. QED
    BY <1>1, <1>6, <2>1, LedgerStutters
<1>9. QED
  BY <1>7, <1>8

LEMMA ReorgRefines == ASSUME AssetInv, LaneInv, Reorg PROVE LedgerStep
<1> DEFINE n == Len(chain)
<1>1. chain \in Seq(Block) /\ n \in Nat /\ final \in 0..n /\ final < n
      /\ chain' = SubSeq(chain, 1, n - 1) /\ UNCHANGED <<op, final, misread>>
  BY LenProperties DEF Reorg, AssetInv, TypeOK
<1>2. Len(chain') = n - 1 /\ \A i \in 1..(n - 1) : chain'[i] = chain[i]
  <2>1. \A i \in 1..(n - 1) : chain[i] \in Block
    BY <1>1, ElementOfSeq
  <2> DEFINE m == n - 1
  <2>2. m \in Nat /\ \A i \in 1..m : chain[i] \in Block
    BY <1>1, <2>1
  <2>3. chain' = SubSeq(chain, 1, m)
    BY <1>1
  <2> HIDE DEF m
  <2>4. /\ Len(SubSeq(chain, 1, m)) = IF 1 <= m THEN m - 1 + 1 ELSE 0
        /\ \A i \in 1..(m - 1 + 1) : SubSeq(chain, 1, m)[i] = chain[1 + i - 1]
    BY <2>2, SubSeqProperties
  <2>5. Len(chain') = m /\ \A i \in 1..m : chain'[i] = chain[i]
    BY <2>2, <2>3, <2>4
  <2>6. QED
    BY <2>5 DEF m
<1>3. \A i : i \in 1..(n - 1) <=> i \in 1..n /\ i # n
  BY <1>1
<1>4. n \in 1..n /\ n > final
  BY <1>1
<1>5. \A o \in Operations : EffectsOf(o)' = EffectsOf(o) \ {n}
  BY <1>2, <1>3 DEF EffectsOf, BlocksOf
<1>6. SameClaims
  BY <1>1 DEF SameClaims
<1>7. CASE chain[n].tx \in Operations /\ chain[n].ok
  <2>1. PICK o \in Operations : o = chain[n].tx
    BY <1>7
  <2>2. ASSUME NEW i \in EffectsOf(o) PROVE i = n
    <3>1. i \in 1..n /\ chain[i].tx = o
      BY DEF EffectsOf, BlocksOf
    <3>2. LaneTells(lane, op) /\ Ordered(chain, lane) /\ n \in 1..n
      BY <1>4 DEF LaneInv
    <3>3. QED
      BY <1>1, <2>1, <3>1, <3>2, MinedOnce
  <2>3. n \in EffectsOf(o)
    BY <1>4, <1>7, <2>1 DEF EffectsOf, BlocksOf
  <2>4. EffectsOf(o) = {n}
    BY <2>2, <2>3
  <2>5. \A r \in Operations \ {o} : n \notin EffectsOf(r)
    BY <2>1 DEF EffectsOf, BlocksOf
  <2>6. EffectsOf(o)' = {} /\ \A r \in Operations \ {o} : EffectsOf(r)' = EffectsOf(r)
    <3>1. EffectsOf(o)' = {}
      BY <1>5, <2>4
    <3>2. ASSUME NEW r \in Operations \ {o} PROVE EffectsOf(r)' = EffectsOf(r)
      BY <1>5, <2>5
    <3>3. QED
      BY <3>1, <3>2
  <2> HIDE DEF n
  <2>7. QED
    BY <1>1, <1>4, <1>6, <2>4, <2>6, LedgerEffect
<1>8. CASE ~(chain[n].tx \in Operations /\ chain[n].ok)
  <2>1. \A r \in Operations : n \notin EffectsOf(r)
    BY <1>8 DEF EffectsOf, BlocksOf
  <2>2. SameEffects
    BY <1>5, <2>1 DEF SameEffects
  <2>3. QED
    BY <1>1, <1>6, <2>2, LedgerStutters
<1>9. QED
  BY <1>7, <1>8

LEMMA StepRefines ==
  ASSUME AssetInv, LaneInv, LaneInv', SightInv, [Next]_vars PROVE LedgerStep
<1> USE DEF observation
<1>1. ASSUME UNCHANGED <<op, chain, final, misread>> PROVE LedgerStep
  BY <1>1, SameChainSameEffects, LedgerStutters DEF SameClaims
<1>2. {"NONE", "READY", "PREPARING", "SUBMITTED", "INCLUDED"} \cap TerminalStates = {}
  BY DEF TerminalStates
<1>3. CASE Chain
  <2>1. CASE MineNext \/ \E d \in Deployments : MineOther(d)
    BY <2>1, LaneBlock, OtherBlock, BlockRefines
  <2>2. CASE Finalize
    BY <2>2, SameChainSameEffects, LedgerSeals DEF Finalize, SameClaims
  <2>3. CASE \E m \in Mints : DeadlinePasses(m)
    BY <1>1, <2>3 DEF DeadlinePasses
  <2>4. QED
    BY <1>3, <2>1, <2>2, <2>3, ReorgRefines DEF Chain
<1>4. CASE Service
  <2>1. ASSUME op' = [op EXCEPT ![FreshDeployment] = "READY"],
               \E d \in Deployments : op[d] = "NONE", UNCHANGED <<chain, final, misread>>
        PROVE  LedgerStep
    <3>1. FreshDeployment \in Operations /\ op[FreshDeployment] = "NONE"
      BY <2>1, FreshIsNew DEF Operations
    <3>2. PICK d \in Operations : d = FreshDeployment
      BY <3>1
    <3>3. QED
      BY <1>2, <2>1, <3>1, <3>2, MoveRefines
  <2>2. CASE CreateAsset
    <3>1. \E d \in Deployments : op[d] = "NONE"
      BY <2>2, DeploymentsAssumption DEF CreateAsset, AssetInv, AssetTells, Operations
    <3>2. QED
      BY <2>1, <2>2, <3>1 DEF CreateAsset
  <2>3. ASSUME NEW c \in Callers, RequestDeployment(c) PROVE LedgerStep
    BY <1>1, <2>1, <2>3 DEF RequestDeployment
  <2>4. ASSUME NEW c \in Callers, ReadAsset(c) PROVE LedgerStep
    BY <1>1, <2>4 DEF ReadAsset
  <2>5. ASSUME NEW m \in Mints, RequestMint(m) PROVE LedgerStep
    BY <1>2, <2>5, MoveRefines DEF RequestMint, Operations
  <2>6. QED
    BY <1>4, <2>2, <2>3, <2>4, <2>5 DEF Service
<1>5. CASE Worker
  <2>1. ASSUME NEW o \in Operations, NEW ok, Prepared(o, ok) PROVE LedgerStep
    <3>1. PICK s \in {"PREPARING", "FAILED"} : op' = [op EXCEPT ![o] = s]
      BY <2>1 DEF Prepared
    <3>2. QED
      BY <1>2, <2>1, <3>1, MoveRefines DEF Prepared
  <2>2. ASSUME NEW d \in Deployments, PrepareDeployment(d) PROVE LedgerStep
    BY <2>1, <2>2 DEF PrepareDeployment, Operations
  <2>3. ASSUME NEW m \in Mints, PrepareMint(m) PROVE LedgerStep
    BY <2>1, <2>3 DEF PrepareMint, Operations
  <2>4. ASSUME NEW o \in Operations,
               Send(o) \/ FailUnsent(o) \/ FailInFlight(o) \/ ObserveReorg(o)
        PROVE  LedgerStep
    BY <1>2, <2>4, MoveRefines DEF Send, FailUnsent, FailInFlight, ObserveReorg
  <2>5. ASSUME NEW o \in Operations, Observe(o) PROVE LedgerStep
    <3>1. PICK s \in {"INCLUDED", "REVERTED"} : op' = [op EXCEPT ![o] = s]
      BY <2>5 DEF Observe
    <3>2. op[o] \in {"SUBMITTED", "INCLUDED"} /\ UNCHANGED <<chain, final, misread>>
      BY <2>5 DEF Observe
    <3>3. QED
      BY <1>2, <3>1, <3>2, MoveRefines
  <2>6. ASSUME NEW o \in Operations, Settle(o) PROVE LedgerStep
    <3>1. Evident(o)
      BY <2>6 DEF Settle, SightInv, Judged
    <3>2. QED
      BY <1>2, <2>6, <3>1, MoveRefines DEF Settle
  <2>7. ASSUME NEW o \in Operations, ReadFinality(o) PROVE LedgerStep
    <3>1. SameEffects /\ final' = final
      BY <2>7, SameChainSameEffects DEF ReadFinality, Finalized
    <3>2. SameClaims
      <4>1. op' = op \/ (op[o] = "SUBMITTED" /\ op' = [op EXCEPT ![o] = "INCLUDED"])
        BY <2>7 DEF ReadFinality, Finalized
      <4>2. ClaimOf("SUBMITTED") = "open" /\ ClaimOf("INCLUDED") = "open"
        BY DEF ClaimOf, TerminalStates
      <4>3. QED
        BY <4>1, <4>2 DEF SameClaims, AssetInv, TypeOK
    <3>3. misread' = misread \/ misread' = misread \cup {o}
      BY <2>7 DEF ReadFinality
    <3>4. QED
      BY <3>1, <3>2, <3>3, LedgerStutters, LedgerMisreads
  <2>8. ASSUME NEW o \in Operations,
               CheckCanonical(o) \/ FindEffect(o) \/ Reconcile(o) \/ StopObserving(o)
        PROVE  LedgerStep
    BY <1>1, <2>8 DEF CheckCanonical, FindEffect, Reconcile, StopObserving
  <2>9. QED
    BY <1>5, <2>2, <2>3, <2>4, <2>5, <2>6, <2>7, <2>8 DEF Worker
<1>6. QED
  BY <1>1, <1>3, <1>4, <1>5 DEF Next, vars

LEMMA InitRefines == Init => Ledger!LedgerInit
<1> SUFFICES ASSUME Init PROVE Ledger!LedgerInit
  OBVIOUS
<1>1. Len(chain) = 0 /\ final = 0 /\ misread = {}
  BY EmptySeq DEF Init
<1>2. \A o \in Operations : ClaimOf(op[o]) = "open"
  BY DEF Init, ClaimOf, TerminalStates
<1>3. \A o \in Operations : EffectsOf(o) = {}
  BY <1>1 DEF EffectsOf, BlocksOf
<1>4. QED
  BY <1>1, <1>2, <1>3 DEF Ledger!LedgerInit

\* Deployments and mints in one lane keep the pipeline's promise, whatever callers, holders
\* and reorganisations do: every step is a step of the ledger or changes nothing it shows;
\* success is claimed for an effect that is final, or that was misread.
THEOREM TokenizationImplementsLedger == Spec => AssetImplementsLedger
<1>1. AssetInv /\ LaneInv /\ LaneInv' /\ SightInv /\ [Next]_vars
      => [Ledger!LedgerNext]_(Ledger!ledgerVars)
  BY StepRefines DEF LedgerStep
<1>2. QED
  BY <1>1, InitRefines, SightInvariant, PTL
     DEF Spec, AssetImplementsLedger, Ledger!LedgerSpec
=============================================================================
