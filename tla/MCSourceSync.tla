--------------------------- MODULE MCSourceSync ---------------------------
(***************************************************************************)
(* Values of SourceSync's constants for TLC.                               *)
(***************************************************************************)
EXTENDS SourceSync, TLC

CONSTANT i1

EnvSync == {"fail", "boot", "gate", "switch", "archive", "run", "hook", "comment", "retry"}
===========================================================================
