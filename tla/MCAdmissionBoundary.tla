------------------------- MODULE MCAdmissionBoundary -------------------------
(***************************************************************************)
(* A small AdmissionBoundary for TLC: more records than slots.             *)
(***************************************************************************)
EXTENDS AdmissionBoundary, TLC

Symmetry == Permutations(Records)
=============================================================================
