------------------------------ MODULE MCIntake ------------------------------
(***************************************************************************)
(* A small instance of the intake: two requesters with a key each, who may *)
(* approve each other's operations, and a third approver.                  *)
(***************************************************************************)
EXTENDS Intake, TLC

CONSTANTS u1, u2, u3

MCUsers == {u1, u2, u3}

MCKeys == [actor : {u1, u2}, name : {"k"}]

\* Requests are interchangeable, and so are bodies.
Symmetry == Permutations(Requests) \cup Permutations(Bodies)
=============================================================================
