---------------------------- MODULE MCTokenization ---------------------------
(***************************************************************************)
(* A small instance of tokenization for TLC: two mints that do not fit     *)
(* under the cap together, the larger one of which fills it exactly.       *)
(***************************************************************************)
EXTENDS Tokenization

CONSTANTS m1, m2

MCAmount == [m \in Mints |-> IF m = m1 THEN 1 ELSE 2]
=============================================================================
