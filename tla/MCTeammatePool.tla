-------------------------- MODULE MCTeammatePool --------------------------
(***************************************************************************)
(* Values of TeammatePool's constants for TLC.                             *)
(***************************************************************************)
EXTENDS TeammatePool, TLC

CONSTANTS n1, n2

EnvPool    == {"crash", "silence", "quit", "dismiss", "spawn", "named", "size", "close", "leader",
               "terminal", "boot"}
===========================================================================
