----------------------------- MODULE MC_Outbox -----------------------------
(* Model checking of Outbox; the instances are in the .cfg files. *)
EXTENDS Outbox
=============================================================================
