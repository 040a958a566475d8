---------------------------- MODULE MC_OpenFolder ----------------------------
(* Model checking of OpenFolder; the instances are in the .cfg files. *)
EXTENDS OpenFolder
==============================================================================
