---------------------------- MODULE MCCompliance ----------------------------
(***************************************************************************)
(* A small instance of the compliance component.  One of its properties is *)
(* temporal, so no symmetry is used.                                       *)
(***************************************************************************)
EXTENDS Compliance
=============================================================================
