-------------------------- MODULE InstitutionalToken -------------------------
(***************************************************************************)
(* The token contract: its storage and what each transaction does to it.   *)
(* The roles are held by the orchestrator's signer alone; block time is    *)
(* reduced to whether a deadline or an eligibility window has passed.      *)
(***************************************************************************)
EXTENDS Naturals, FiniteSets, FiniteSetsExt

CONSTANTS
  Wallets,     \* accounts that may hold the token
  Mints,       \* mint operations, each with its single-use reference
  Recipient,   \* the wallet the mints go to
  Amount,      \* amount of each mint
  SupplyCap    \* the asset's immutable cap

ASSUME RecipientAssumption == Recipient \in Wallets
ASSUME WalletsAssumption == IsFiniteSet(Wallets)   \* addresses have 160 bits
ASSUME AmountAssumption == Amount \in [Mints -> Nat \ {0}]
ASSUME SupplyCapAssumption == SupplyCap \in Nat \ {0}

Token ==
  [deployed : BOOLEAN, paused : BOOLEAN, eligible : SUBSET Wallets,
   consumed : SUBSET Mints, supply : Nat, balance : [Wallets -> Nat]]

NoToken ==
  [deployed |-> FALSE, paused |-> FALSE, eligible |-> {}, consumed |-> {},
   supply |-> 0, balance |-> [w \in Wallets |-> 0]]

\* The constructor; asset definitions have a positive cap.
Deployed == [NoToken EXCEPT !.deployed = TRUE]

\* setEligibility for some wallets, after which the windows of exactly these are open.
SetEligibility(t, open) == [t EXCEPT !.eligible = open]

SetPaused(t, paused) == [t EXCEPT !.paused = paused]

\* _update lets nothing move while paused, and nothing move to a wallet that is not
\* eligible.
MayMoveTo(t, w) == ~t.paused /\ w \in t.eligible

\* Mutant: the contract relies on the check made before signing.
MintAllowedWithoutCap(t, m, late) ==
  /\ t.deployed /\ MayMoveTo(t, Recipient)
  /\ m \notin t.consumed /\ ~late

\* mintWithReference reverts unless all of its checks pass.
MintAllowed(t, m, late) ==
  /\ t.deployed /\ MayMoveTo(t, Recipient)
  /\ m \notin t.consumed /\ ~late
  /\ t.supply + Amount[m] <= SupplyCap

\* Mutant: the reference is checked but not marked as used.
MintUnmarked(t, m) ==
  [t EXCEPT !.supply = @ + Amount[m],
            !.balance = [t.balance EXCEPT ![Recipient] = @ + Amount[m]]]

MintWithReference(t, m) ==
  [t EXCEPT !.consumed = @ \cup {m},
            !.supply = @ + Amount[m],
            !.balance = [t.balance EXCEPT ![Recipient] = @ + Amount[m]]]

\* Mutant: _update does not hand over to the ERC-20 it overrides.
TransferAllowedUnfunded(t, from, to) == t.deployed /\ MayMoveTo(t, to)

\* ERC-20 transfer of one unit.
TransferAllowed(t, from, to) == t.deployed /\ MayMoveTo(t, to) /\ t.balance[from] > 0

Transfer(t, from, to) ==
  [t EXCEPT !.balance = [w \in Wallets |->
     t.balance[w] + (IF w = to THEN 1 ELSE 0) - (IF w = from THEN 1 ELSE 0)]]
=============================================================================
