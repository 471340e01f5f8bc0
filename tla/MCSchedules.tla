---------------------------- MODULE MCSchedules ----------------------------
(***************************************************************************)
(* Values of Schedules' constants for TLC.                                 *)
(***************************************************************************)
EXTENDS Schedules, TLC

CONSTANTS s1, j1, j2

OneSchedule == (j1 :> s1) @@ (j2 :> s1)

Date(month, dom, dow, hour, minute) ==
    [month |-> month, dom |-> dom, dow |-> dow, hour |-> hour, minute |-> minute]

\* Midnight between a Saturday and a Sunday, and the first minutes of a Monday.
Midnight == <<Date(1, 31, 6, 23, 59), Date(2, 1, 0, 0, 0), Date(2, 1, 0, 0, 1), Date(2, 2, 1, 0, 0)>>

At(n)          == {[any |-> FALSE, lo |-> n, hi |-> n, step |-> 0]}
Range2(a, b, n) == {[any |-> FALSE, lo |-> a, hi |-> b, step |-> n]}
Every(n)       == {[any |-> TRUE, lo |-> 0, hi |-> 0, step |-> n]}

Cron(minute, hour, dom, month, dow) ==
    [minute |-> minute, hour |-> hour, dom |-> dom, month |-> month, dow |-> dow]

\* `* * * * *`, `0-30/30,1 0 2 * 7` and `*/2 * * 2 5-7`.
MinuteAndSunday == {Cron(Star, Star, Star, Star, Star),
                    Cron(Range2(0, 30, 30) \union At(1), At(0), At(2), Star, At(7)),
                    Cron(Every(2), Star, Star, At(2), Range2(5, 7, 0))}
============================================================================
