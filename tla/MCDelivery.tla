----------------------------- MODULE MCDelivery -----------------------------
(***************************************************************************)
(* A small instance of the outbox and the queue, with liveness and without *)
(* symmetry.                                                               *)
(***************************************************************************)
EXTENDS Delivery
=============================================================================
