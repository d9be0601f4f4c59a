-------------------------- MODULE MCRequiredChecks --------------------------
(***************************************************************************)
(* Two jobs of one branch and one of another, with a queue for one request *)
(* and a token that expires within the run.                                *)
(***************************************************************************)
EXTENDS RequiredChecks, TLC

CONSTANTS j1, j2, j3, b1, b2

JobBranches == (j1 :> b1) @@ (j2 :> b1) @@ (j3 :> b2)
=============================================================================
