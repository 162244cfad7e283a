------------------------------ MODULE MCPanel ------------------------------
(* Two worktrees for Panel.                                                *)
EXTENDS Panel
Two == 1..2
============================================================================
