----------------------------- MODULE ItemStates -----------------------------
(***************************************************************************)
(* The states of a WorkItem (src/shared/types.ts WorkItemState).           *)
(***************************************************************************)

ActiveStates   == {"READY", "IN_PROGRESS", "MORIBUND"}   \* ACTIVE_WORK_ITEM_STATES
InFlightStates == {"IN_PROGRESS", "MORIBUND"}
TerminalStates == {"COMPLETE", "FAILED", "CANCELED"}
AllStates      == ActiveStates \union TerminalStates
=============================================================================
