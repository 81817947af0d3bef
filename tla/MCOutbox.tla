------------------------------ MODULE MCOutbox ------------------------------
(* Outbox on a small instance: see the .cfg files for the bounds. *)
EXTENDS Outbox
=============================================================================
