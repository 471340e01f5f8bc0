-------------------------- MODULE MCAssistantChat --------------------------
(***************************************************************************)
(* Values of AssistantChat's constants for TLC.                            *)
(***************************************************************************)
EXTENDS AssistantChat, TLC

EnvChat == {"delete", "lost", "roll", "boot", "terminal"}

===========================================================================
