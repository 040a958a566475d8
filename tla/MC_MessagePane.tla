--------------------------- MODULE MC_MessagePane ---------------------------
(* Model checking of MessagePane; the instances are in the .cfg files. *)
EXTENDS MessagePane
=============================================================================
