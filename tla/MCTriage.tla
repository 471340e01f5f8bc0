----------------------------- MODULE MCTriage -----------------------------
(***************************************************************************)
(* Triage on a small instance.  The two teammates are alike.               *)
(***************************************************************************)
EXTENDS Triage, TLC

CONSTANTS m1, m2

EnvNote == {"archive", "patch", "delete", "cancel", "fail", "crash", "silence", "decide", "generic"}

===========================================================================
