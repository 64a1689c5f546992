------------------------------- MODULE MCSigning -----------------------------
(***************************************************************************)
(* A small instance of signing for TLC.                                    *)
(***************************************************************************)
EXTENDS Signing

\* A low estimate, and one above what a bump of it reaches, whose fee is below its tip.
MCSuggested == {<<1, 1>>, <<9, 12>>}
=============================================================================
