----------------------------- MODULE MC_Watcher -----------------------------
(* Model checking of Watcher over Session; the instance is in Watcher.cfg. *)
EXTENDS Watcher
=============================================================================
