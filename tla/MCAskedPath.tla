----------------------------- MODULE MCAskedPath ----------------------------
(* The playbooks of MCMatchTick, with the player's walks remembered.       *)
EXTENDS AskedPath, MCMatchTick

=============================================================================
