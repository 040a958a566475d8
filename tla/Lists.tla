------------------------------- MODULE Lists --------------------------------
(***************************************************************************)
(* Filtering a list.  SelectSeq is opaque to the proof system, which is    *)
(* why the modules that are proved about pick the places instead: a        *)
(* recursive function of two values, about which there are lemmas in       *)
(* Lists_proofs.                                                           *)
(***************************************************************************)
EXTENDS Naturals, Sequences, FiniteSets

(* The elements of `s` at the places in K, in their order. *)
Picked(s, K) ==
  LET picked[n \in 0..Len(s)] ==
        IF n = 0 THEN <<>> ELSE IF n \in K THEN Append(picked[n - 1], s[n]) ELSE picked[n - 1]
  IN picked[Len(s)]
=============================================================================
