---------------------------- MODULE MCPiTeammate ----------------------------
(***************************************************************************)
(* Values of PiTeammate's constants for TLC.                               *)
(***************************************************************************)
EXTENDS PiTeammate

CONSTANT i1

EnvAll == {"pane", "failTool", "boot", "reset", "lost"}
=============================================================================
