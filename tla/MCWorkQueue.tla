---------------------------- MODULE MCWorkQueue ----------------------------
(***************************************************************************)
(* Values of WorkQueue's constants for TLC.                                *)
(***************************************************************************)
EXTENDS WorkQueue, TLC

CONSTANTS a1, a2, d1, d2

Ws == <<"ws">>
App == <<"ws", "app">>
Elsewhere == <<"elsewhere">>

MCDirs == {Ws, App, Elsewhere}

\* Two nested checkouts, so that the lease decides.
NestedWork   == (d1 :> Ws) @@ (d2 :> App)
NestedAgents == [a \in Agents |-> IF a = a1 THEN Ws ELSE App]

\* One WorkDef without a directory, and one in a directory no teammate has.
LooseWork == (d1 :> NoDir) @@ (d2 :> Elsewhere)

EnvFailures == {"crash", "restart", "silence", "lost", "dismiss", "stop"}
EnvPeople   == {"delete", "cancel", "force", "failTool", "silence", "boot", "pause", "readiness",
               "leases"}
EnvLive     == {"crash", "silence"}
=============================================================================
