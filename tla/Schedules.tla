----------------------------- MODULE Schedules -----------------------------
(***************************************************************************)
(* Schedules: cron parents that enqueue their jobs (WorkDefs) on a timer,  *)
(* hold them while the team cannot work, and can be made pending.          *)
(*                                                                         *)
(* Time is the number of the minute: isCronDue compares nothing finer.     *)
(* Calendar gives the local date of each; the 30 s timer may run any       *)
(* number of times within a minute, or not at all when the daemon is busy  *)
(* or down.  A schedule and its jobs are files, the team's readiness and   *)
(* members are memory.                                                     *)
(*                                                                         *)
(* Code: src/daemon/sources/schedule.ts, src/daemon/store/schedules.ts,    *)
(* src/daemon/store.ts.                                                    *)
(***************************************************************************)
EXTENDS Cron

CONSTANTS Schedules,    \* the ids of schedules
          Jobs,         \* the ids of Scheduled WorkDefs
          Parent,       \* the schedule of each job
          Crons,        \* the cron expressions people write
          Calendar,     \* the local date of each minute
          Never,        \* no schedule file
          MaxEvents     \* bound on what people do and on changes of the team

ASSUME ScheduleAssumption ==
    /\ Parent \in [Jobs -> Schedules]
    /\ 1 \in DOMAIN Calendar /\ DOMAIN Calendar \subseteq Nat
    /\ Never \notin [cron : Crons, last : Nat, resumed : Nat, held : BOOLEAN, pending : BOOLEAN]
    /\ MaxEvents \in Nat
    /\ \A c \in Crons : ValidCron(c)
ASSUME CronAssumption ==
    /\ Crons \subseteq Expression
    /\ \A m \in DOMAIN Calendar : Calendar[m] \in LocalDate

VARIABLES now,        \* the minute
          sched,      \* the schedule files
          jobs,       \* the jobs that exist
          draft,      \* ... whose definition is pending
          archived,   \* ... that are archived
          inflight,   \* the jobs with an active WorkItem
          ready,      \* isTeamReady
          online,     \* a member is not offline
          occurred,   \* history: the last minute in which the timer met each schedule's occurrence
          ranFor,     \* history: ... as it was when the scheduler last ran each job
          owed,       \* history: jobs whose occurrence came and was not run yet
          pausedAt,   \* history: the last minute in which each schedule was pending
          events      \* how many bounded events have happened

files   == <<sched, jobs, draft, archived>>
team    == <<ready, online>>
history == <<occurred, ranFor, owed, pausedAt>>
vars    == <<now, files, inflight, team, history, events>>

Minutes == DOMAIN Calendar

\* lastEnqueuedAt and resumedAt are 0 while absent.
ScheduleFile == [cron : Crons, last : Nat, resumed : Nat, held : BOOLEAN, pending : BOOLEAN]

Existing == {s \in Schedules : sched[s] # Never}
Children(s) == {j \in jobs : Parent[j] = s}

---------------------------------------------------------------------------
(* Whether a schedule is due.                                              *)

\* scheduleCursor: the later of the last genuine firing and the last activation.
ScheduleCursor(rec) == IF rec.resumed > rec.last THEN rec.resumed ELSE rec.last

\* The minutes each expression matches.
Matching == [c \in Crons |-> {m \in Minutes : CronMatches(c, Calendar[m])}]

\* isCronDue: the minute matches and is later than the cursor's.
IsCronDue(rec) == now \in Matching[rec.cron] /\ ScheduleCursor(rec) < now

\* canScheduleNow: gating is about teams that are connected but unable.
CanEnqueueNow == online => ready

---------------------------------------------------------------------------
(* The tick.                                                               *)

\* The jobs a schedule's firing concerns: the active ones with nothing in flight.
Idle(s) == Children(s) \ (draft \union archived \union inflight)

\* A pending schedule is skipped; any other is worked when due or holding work.
Due(s)    == s \in Existing /\ ~sched[s].pending /\ IsCronDue(sched[s])
Worked(s) == s \in Existing /\ ~sched[s].pending /\ (IsCronDue(sched[s]) \/ sched[s].held)

Fired == {j \in Jobs : CanEnqueueNow /\ Worked(Parent[j]) /\ j \in Idle(Parent[j])}

\* Mutant: a hold, once set, is not lifted by the run that makes up for it.
StampKeepsHold(s) ==
    LET anyHeld == ~CanEnqueueNow /\ Idle(s) # {}
    IN  [sched[s] EXCEPT !.last = IF Due(s) THEN now ELSE @, !.held = @ \/ anyHeld]

\* Mutant: only the jobs held in a due minute keep their schedule held.
StampForgetsHold(s) ==
    LET anyHeld == ~CanEnqueueNow /\ Idle(s) # {}
    IN  [sched[s] EXCEPT !.last = IF Due(s) THEN now ELSE @, !.held = Due(s) /\ anyHeld]

\* Mutant: the minute of a firing is not stamped.
StampForgetsMinute(s) ==
    LET anyHeld == ~CanEnqueueNow /\ Idle(s) # {}
    IN  [sched[s] EXCEPT !.held = anyHeld]

\* What a worked schedule's file becomes: stamped when due, held when some job was.
Stamp(s) ==
    LET anyHeld == ~CanEnqueueNow /\ Idle(s) # {}
    IN  [sched[s] EXCEPT !.last = IF Due(s) THEN now ELSE @, !.held = anyHeld]

\* The minutes crontab(5) names for each expression, and the last of them a schedule that
\* is not pending was met in, this tick's included: what the histories are kept by.
StandardMinutes == [c \in Crons |-> {m \in Minutes : Standard(c, Calendar[m])}]

Occurs(s) == s \in Existing /\ ~sched[s].pending /\ now \in StandardMinutes[sched[s].cron]
LastOccurrence(s) == IF Occurs(s) THEN now ELSE occurred[s]

\* runSchedules, in one go.
RunSchedules ==
    /\ sched' = [s \in Schedules |-> IF Worked(s) THEN Stamp(s) ELSE sched[s]]
    /\ inflight' = inflight \union Fired
    /\ occurred' = [s \in Schedules |-> LastOccurrence(s)]
    /\ ranFor' = [j \in Jobs |-> IF j \in Fired THEN LastOccurrence(Parent[j]) ELSE ranFor[j]]
    /\ owed' = (owed \union {j \in Jobs : Due(Parent[j]) /\ j \in Idle(Parent[j])}) \ Fired
    /\ UNCHANGED <<now, jobs, draft, archived, team, pausedAt>>

---------------------------------------------------------------------------
(* What people do with schedules.                                          *)

\* Creating Scheduled work: a schedule file, and WorkDefs that point at it.
Create(s, c, js, drafts) ==
    /\ sched[s] = Never
    /\ sched' = [sched EXCEPT ![s] = [cron |-> c, last |-> 0, resumed |-> 0,
                                      held |-> FALSE, pending |-> FALSE]]
    /\ jobs' = jobs \union js /\ draft' = draft \union drafts
    /\ pausedAt' = [pausedAt EXCEPT ![s] = 0]
    /\ UNCHANGED <<now, archived, inflight, team, occurred, ranFor, owed>>

\* PUT of a cron.
EditCron(s, c) ==
    /\ s \in Existing
    /\ sched' = [sched EXCEPT ![s].cron = c]
    /\ UNCHANGED <<now, jobs, draft, archived, inflight, team, history>>

\* Mutant: going pending keeps the hold.
WithPendingKeepingHold(rec, pending) ==
    IF pending = rec.pending THEN rec
    ELSE IF pending THEN [rec EXCEPT !.pending = TRUE]
    ELSE [rec EXCEPT !.pending = FALSE, !.resumed = now]

\* updateSchedule's side effects of a change of `pending`.
WithPending(rec, pending) ==
    IF pending = rec.pending THEN rec
    ELSE IF pending THEN [rec EXCEPT !.pending = TRUE, !.held = FALSE]
    ELSE [rec EXCEPT !.pending = FALSE, !.resumed = now]

\* POST /api/schedules/:id/pending, /activate.
SetSchedulePending(s, pending) ==
    /\ s \in Existing
    /\ sched' = [sched EXCEPT ![s] = WithPending(@, pending)]
    /\ pausedAt' = [pausedAt EXCEPT ![s] = IF pending \/ sched[s].pending THEN now ELSE @]
    /\ owed' = IF pending THEN owed \ Children(s) ELSE owed
    /\ UNCHANGED <<now, jobs, draft, archived, inflight, team, occurred, ranFor>>

\* deleteSchedule: its children lose their parent, and so leave this module.
DeleteSchedule(s) ==
    /\ s \in Existing
    /\ sched' = [sched EXCEPT ![s] = Never]
    /\ jobs' = jobs \ Children(s) /\ draft' = draft \ Children(s)
    /\ archived' = archived \ Children(s) /\ inflight' = inflight \ Children(s)
    /\ owed' = owed \ Children(s)
    /\ occurred' = [occurred EXCEPT ![s] = 0]
    /\ ranFor' = [j \in Jobs |-> IF Parent[j] = s THEN 0 ELSE ranFor[j]]
    /\ UNCHANGED <<now, team, pausedAt>>

---------------------------------------------------------------------------
(* ... and with jobs.                                                      *)

\* activateWorkDef of Scheduled work: its source has no onActivate, nothing is enqueued.
ActivateJob(j) ==
    /\ j \in draft
    /\ draft' = draft \ {j}
    /\ UNCHANGED <<now, sched, jobs, archived, inflight, team, history>>

ArchiveJob(j) ==
    /\ j \in jobs
    /\ archived' = archived \union {j} /\ owed' = owed \ {j}
    /\ UNCHANGED <<now, sched, jobs, draft, inflight, team, occurred, ranFor, pausedAt>>

RestoreJob(j) ==
    /\ j \in archived
    /\ archived' = archived \ {j}
    /\ UNCHANGED <<now, sched, jobs, draft, inflight, team, history>>

\* deleteWorkDef cancels the active item.
DeleteJob(j) ==
    /\ j \in jobs
    /\ jobs' = jobs \ {j} /\ draft' = draft \ {j} /\ archived' = archived \ {j}
    /\ inflight' = inflight \ {j}
    /\ owed' = owed \ {j} /\ ranFor' = [ranFor EXCEPT ![j] = 0]
    /\ UNCHANGED <<now, sched, team, occurred, pausedAt>>

\* runSolitary: by hand, whatever the schedule and the team's readiness.
RunNow(j) ==
    /\ j \in jobs \ (draft \union inflight)
    /\ inflight' = inflight \union {j} /\ owed' = owed \ {j}
    /\ UNCHANGED <<now, files, team, occurred, ranFor, pausedAt>>

---------------------------------------------------------------------------
(* The rest of the world.                                                  *)

\* A job's item comes to its end.
ItemEnds(j) ==
    /\ j \in inflight
    /\ inflight' = inflight \ {j}
    /\ UNCHANGED <<now, files, team, history>>

\* The probe reports (setTeamReadiness), or members come and go.
TeamChanges ==
    /\ ready' \in BOOLEAN /\ online' \in BOOLEAN
    /\ UNCHANGED <<now, files, inflight, history>>

\* A restart forgets the report and the members.
Boot ==
    /\ ready' = TRUE /\ online' = FALSE
    /\ UNCHANGED <<now, files, inflight, history>>

\* The next minute.
MinutePasses ==
    /\ now + 1 \in Minutes
    /\ now' = now + 1
    /\ pausedAt' = [s \in Schedules |-> IF s \in Existing /\ sched[s].pending THEN now + 1 ELSE pausedAt[s]]
    /\ UNCHANGED <<files, inflight, team, occurred, ranFor, owed>>

---------------------------------------------------------------------------
Init ==
    /\ now = 1
    /\ sched = [s \in Schedules |-> Never]
    /\ jobs = {} /\ draft = {} /\ archived = {} /\ inflight = {}
    /\ ready = TRUE /\ online = FALSE
    /\ occurred = [s \in Schedules |-> 0] /\ ranFor = [j \in Jobs |-> 0]
    /\ owed = {} /\ pausedAt = [s \in Schedules |-> 0]
    /\ events = 0

PersonStep ==
    \/ \E s \in Schedules, c \in Crons :
          \/ EditCron(s, c)
          \/ \E js \in SUBSET {j \in Jobs : Parent[j] = s} :
                js # {} /\ \E drafts \in SUBSET js : Create(s, c, js, drafts)
    \/ \E s \in Schedules : DeleteSchedule(s) \/ \E pending \in BOOLEAN : SetSchedulePending(s, pending)
    \/ \E j \in Jobs : ActivateJob(j) \/ ArchiveJob(j) \/ RestoreJob(j) \/ DeleteJob(j) \/ RunNow(j)

Next ==
    \/ (PersonStep \/ TeamChanges \/ Boot) /\ events < MaxEvents /\ events' = events + 1
    \/ (RunSchedules \/ MinutePasses \/ \E j \in Jobs : ItemEnds(j)) /\ UNCHANGED events

Spec == Init /\ [][Next]_vars

\* The 30 s timer keeps ticking.
FairSpec == Spec /\ WF_vars(UNCHANGED events /\ RunSchedules)

---------------------------------------------------------------------------
\* Types; only existing jobs are drafts, archived or in flight, and no time is
\* recorded that has not come (store/schedules.ts, store/workdefs.ts).
TypeOK ==
    /\ now \in Minutes /\ events \in 0..MaxEvents
    /\ sched \in [Schedules -> ScheduleFile \union {Never}]
    /\ jobs \subseteq Jobs /\ owed \subseteq Jobs
    /\ occurred \in [Schedules -> Nat] /\ ranFor \in [Jobs -> Nat]
    /\ draft \subseteq jobs /\ archived \subseteq jobs /\ inflight \subseteq jobs
    /\ \A j \in jobs : Parent[j] \in Existing
    /\ ready \in BOOLEAN /\ online \in BOOLEAN
    /\ pausedAt \in [Schedules -> Nat]
    /\ \A s \in Existing : sched[s].last <= now /\ sched[s].resumed <= now

\* The scheduler runs j in this step.
RunBySchedule(j) == j \in inflight' \ inflight /\ RunSchedules

\* A job is run at most once for an occurrence: since the occurrence its last run was for,
\* the timer has met another minute crontab(5) names.  However often it ticks within the
\* minute, however the team's readiness comes and goes while an occurrence is held, and
\* whatever is edited, paused or restarted in between (runSchedules, isCronDue).
OncePerOccurrence ==
    [][\A j \in Jobs : RunBySchedule(j) => ranFor[j] < occurred'[Parent[j]]]_vars

\* Nothing that fell into a time when the schedule was pending is run afterwards, neither
\* the minute of its activation nor an occurrence that was held before (updateSchedule).
NoCatchUp ==
    [][\A j \in Jobs : RunBySchedule(j) => sched'[Parent[j]].last > pausedAt[Parent[j]]]_vars

\* A schedule that is not pending is stamped in the minutes crontab(5) names and in no
\* other, whenever the timer ticks later than its cursor (cronMatches, parseField).
StampsStandardMinutes ==
    [][RunSchedules => \A s \in Existing :
          ~sched[s].pending /\ sched[s].last < now /\ sched[s].resumed < now
             => (sched'[s].last = now <=> now \in StandardMinutes[sched[s].cron])]_vars

\* An occurrence that came while the team could not work is made up for when it can, unless
\* the job is run, archived or deleted or the schedule made pending first: no hold is lost
\* over later occurrences, edits and restarts (heldForReadiness).
HoldsAreMadeUp == \A j \in Jobs : j \in owed ~> j \notin owed \/ ~CanEnqueueNow
===========================================================================
