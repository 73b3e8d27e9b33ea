----------------------------- MODULE MCWorkspace -----------------------------
(***************************************************************************)
(* Two runs of one issue; the two are alike.                               *)
(***************************************************************************)
EXTENDS Workspace, TLC

RunsAlike == Permutations(Runs)
===============================================================================
