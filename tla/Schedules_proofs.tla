-------------------------- MODULE Schedules_proofs --------------------------
(***************************************************************************)
(* Theorems about Schedules for every set of schedules, jobs and cron      *)
(* expressions, and for every calendar.                                    *)
(*                                                                         *)
(* A held schedule fires outside its minutes, so what can go wrong is what *)
(* a hold means: HeldApart says that it stands for an occurrence none of   *)
(* its jobs was run for, and that came after the schedule was last         *)
(* pending.  Within its minutes it fires by the cursor: CursorPassed says  *)
(* that no occurrence already met, and no minute in which the schedule was *)
(* pending, is later than it.                                              *)
(***************************************************************************)
EXTENDS Schedules, Integers, TLAPS

HeldApart ==
    \A s \in Existing : sched[s].held =>
        /\ ~sched[s].pending
        /\ sched[s].last > pausedAt[s]
        /\ \A j \in Jobs : Parent[j] = s => ranFor[j] < occurred[s]

CursorPassed ==
    /\ \A s \in Existing :
          /\ pausedAt[s] <= now
          /\ sched[s].pending \/ pausedAt[s] <= sched[s].resumed
          /\ occurred[s] <= ScheduleCursor(sched[s])
    /\ \A s \in Schedules \ Existing : occurred[s] = 0
    /\ \A j \in Jobs : ranFor[j] <= occurred[Parent[j]]

Inv == TypeOK /\ HeldApart /\ CursorPassed

-----------------------------------------------------------------------------
(* The cron matcher does what crontab(5) says, for every valid expression and date. *)

\* The loop that counts up by step meets the whole multiples of it.
LEMMA Multiples ==
    ASSUME NEW a \in Nat, NEW step \in Nat \ {0}
    PROVE  a % step = 0 <=> \E k \in 0..a : a = k * step
  <1> DEFINE q == a \div step
             r == a % step
  <1>0. step \in Nat /\ step > 0
    OBVIOUS
  <1>1. /\ q \in Int /\ r \in Int /\ 0 <= r /\ r < step
        /\ a = step * q + r
    <2>1. q \in Int /\ r \in Int
      BY <1>0
    <2>2. 0 <= r /\ r < step
      BY <1>0
    <2>3. a = step * q + r
      BY <1>0
    <2> QED  BY <2>1, <2>2, <2>3
  <1> HIDE DEF q, r
  <1>2. ASSUME r = 0 PROVE \E k \in 0..a : a = k * step
    <2>1. a = q * step
      BY <1>1, <1>2
    <2>2. q >= 0
      BY <1>1, <2>1
    <2>3. q <= q * step
      BY <1>1, <2>2
    <2> QED  BY <1>1, <2>1, <2>2, <2>3
  <1>3. ASSUME NEW k \in 0..a, a = k * step PROVE r = 0
    <2>1. r = step * (k - q)
      BY <1>1, <1>3
    <2>2. k - q < 1
      <3> SUFFICES ASSUME k - q >= 1 PROVE FALSE
        BY <1>1
      <3>1. step * (k - q) >= step
        BY <1>1
      <3> QED  BY <1>1, <2>1, <3>1
    <2>3. k - q > -1
      <3> SUFFICES ASSUME k - q <= -1 PROVE FALSE
        BY <1>1
      <3>1. step * (k - q) <= -step
        BY <1>1
      <3> QED  BY <1>1, <2>1, <3>1
    <2>4. k - q = 0
      BY <1>1, <2>2, <2>3
    <2> QED  BY <2>1, <2>4
  <1> QED  BY <1>2, <1>3 DEF r

\* A part stands for the values it names.
LEMMA PartNames ==
    ASSUME NEW min \in Nat, NEW max \in Nat, NEW p \in Part, ValidPart(p, min, max), NEW v \in min..max
    PROVE  v \in PartValues(p, min, max) <=> Names(p, v, min, max)
  <1> DEFINE lo == Low(p, min)
             hi == High(p, max)
             step == Step(p)
  <1>1. /\ lo \in Nat /\ hi \in Nat /\ step \in Nat \ {0}
        /\ min <= lo /\ hi <= max
    BY DEF Part, ValidPart, Low, High, Step
  <1>2. /\ v \in PartValues(p, min, max) <=> \E k \in 0..max : v = lo + k * step /\ v <= hi
        /\ Names(p, v, min, max) <=> lo <= v /\ v <= hi /\ (v - lo) % step = 0
    BY DEF PartValues, Names
  <1> HIDE DEF lo, hi, step
  <1>3. ASSUME NEW k \in 0..max, v = lo + k * step, v <= hi
        PROVE  lo <= v /\ (v - lo) % step = 0
    <2>1. k * step \in Nat /\ k <= k * step
      BY <1>1
    <2>2. v - lo \in Nat /\ v - lo = k * step /\ k \in 0..(v - lo)
      BY <1>1, <1>3, <2>1
    <2> QED  BY <1>1, <2>2, Multiples
  <1>4. ASSUME lo <= v, v <= hi, (v - lo) % step = 0
        PROVE  \E k \in 0..max : v = lo + k * step /\ v <= hi
    <2>1. v - lo \in Nat /\ v - lo <= max
      BY <1>1, <1>4
    <2>2. PICK k \in 0..(v - lo) : v - lo = k * step
      BY <1>1, <1>4, <2>1, Multiples
    <2>3. k \in 0..max /\ k * step \in Nat
      BY <1>1, <2>1
    <2> QED  BY <1>1, <1>4, <2>2, <2>3
  <1> QED  BY <1>2, <1>3, <1>4

\* A field that is valid stands for the values its parts name.
LEMMA FieldSelects ==
    ASSUME NEW min \in Nat, NEW max \in Nat, NEW field \in SUBSET Part,
           ParseField(field, min, max) # {}, NEW v \in min..max
    PROVE  v \in ParseField(field, min, max) <=> Selects(field, v, min, max)
  <1>1. \A p \in field : ValidPart(p, min, max)
    BY DEF ParseField
  <1>2. ParseField(field, min, max) = UNION {PartValues(p, min, max) : p \in field}
    BY <1>1 DEF ParseField
  <1>3. \A p \in field : v \in PartValues(p, min, max) <=> Names(p, v, min, max)
    BY <1>1, PartNames
  <1> QED  BY <1>2, <1>3 DEF Selects

\* The field `*` selects every value.
LEMMA StarSelects ==
    ASSUME NEW min \in Nat, NEW max \in Nat, NEW v \in min..max
    PROVE  Selects(Star, v, min, max)
  <1> DEFINE p == [any |-> TRUE, lo |-> 0, hi |-> 0, step |-> 0]
  <1>1. p \in Star /\ Low(p, min) = min /\ High(p, max) = max /\ Step(p) = 1
    BY DEF Star, Low, High, Step
  <1>2. (v - min) % 1 = 0
    OBVIOUS
  <1>3. Names(p, v, min, max)
    BY <1>1, <1>2 DEF Names
  <1> QED  BY <1>1, <1>3 DEF Selects

\* The day of the week, Sunday written 0 or 7.
LEMMA DaySelects ==
    ASSUME NEW field \in SUBSET Part, ParseField(field, 0, 7) # {}, NEW d \in 0..6
    PROVE  d \in DaysOfWeek(field) <=> SelectsDay(field, d)
  <1>1. d \in 0..7 /\ d # 7
    OBVIOUS
  <1>2. d \in DaysOfWeek(field)
          <=> d \in ParseField(field, 0, 7) \/ (d = 0 /\ 7 \in ParseField(field, 0, 7))
    BY <1>1 DEF DaysOfWeek
  <1>3. /\ d \in ParseField(field, 0, 7) <=> Selects(field, d, 0, 7)
        /\ 7 \in ParseField(field, 0, 7) <=> Selects(field, 7, 0, 7)
    BY <1>1, FieldSelects
  <1> QED  BY <1>2, <1>3 DEF SelectsDay

\* A date matches a valid expression exactly when crontab(5) says so: lists, ranges and steps
\* in every field, Sunday as 0 or 7, and the day by the month or the week when both are
\* restricted (parseField, parseCron, cronMatches).
THEOREM CronIsStandard ==
    ASSUME NEW cron \in Expression, ValidCron(cron), NEW date \in LocalDate
    PROVE  CronMatches(cron, date) <=> Standard(cron, date)
  <1>1. /\ cron.minute \in SUBSET Part /\ cron.hour \in SUBSET Part /\ cron.dom \in SUBSET Part
        /\ cron.month \in SUBSET Part /\ cron.dow \in SUBSET Part
    BY DEF Expression
  <1>2. /\ date.minute \in 0..59 /\ date.hour \in 0..23 /\ date.dom \in 1..31
        /\ date.month \in 1..12 /\ date.dow \in 0..6
    BY DEF LocalDate
  <1>3. /\ date.minute \in ParseField(cron.minute, 0, 59) <=> Selects(cron.minute, date.minute, 0, 59)
        /\ date.hour \in ParseField(cron.hour, 0, 23) <=> Selects(cron.hour, date.hour, 0, 23)
        /\ date.month \in ParseField(cron.month, 1, 12) <=> Selects(cron.month, date.month, 1, 12)
        /\ date.dom \in ParseField(cron.dom, 1, 31) <=> Selects(cron.dom, date.dom, 1, 31)
        /\ date.dow \in DaysOfWeek(cron.dow) <=> SelectsDay(cron.dow, date.dow)
    BY <1>1, <1>2, FieldSelects, DaySelects DEF ValidCron
  <1>4. /\ cron.dom = Star => Selects(cron.dom, date.dom, 1, 31)
        /\ cron.dow = Star => SelectsDay(cron.dow, date.dow)
    <2>1. date.dow \in 0..7
      BY <1>2
    <2> QED  BY <1>2, <2>1, StarSelects DEF SelectsDay
  <1> DEFINE D == Selects(cron.dom, date.dom, 1, 31)
             W == SelectsDay(cron.dow, date.dow)
  <1>5. DayMatches(cron, date)
          <=> IF cron.dom # Star /\ cron.dow # Star THEN D \/ W ELSE D /\ W
    BY <1>3 DEF DayMatches
  <1>6. (CASE cron.dom = Star -> W
           [] cron.dow = Star -> D
           [] OTHER -> D \/ W)
        <=> IF cron.dom # Star /\ cron.dow # Star THEN D \/ W ELSE D /\ W
    <2>1. CASE cron.dom # Star /\ cron.dow # Star
      BY <2>1
    <2>2. CASE cron.dom = Star /\ cron.dow # Star
      BY <2>2, <1>4
    <2>3. CASE cron.dom # Star /\ cron.dow = Star
      BY <2>3, <1>4
    <2>4. CASE cron.dom = Star /\ cron.dow = Star
      BY <2>4, <1>4
    <2> QED  BY <2>1, <2>2, <2>3, <2>4
  <1> QED  BY <1>3, <1>5, <1>6 DEF CronMatches, Standard

\* The minutes of a schedule's expression, by the matcher and by crontab(5).
LEMMA SameMinutes ==
    ASSUME TypeOK, NEW s \in Existing
    PROVE  now \in Matching[sched[s].cron] <=> now \in StandardMinutes[sched[s].cron]
  <1> DEFINE c == sched[s].cron
  <1>1. c \in Crons /\ now \in Minutes
    BY DEF TypeOK, Existing, ScheduleFile
  <1>2. CronMatches(c, Calendar[now]) <=> Standard(c, Calendar[now])
    BY <1>1, CronIsStandard, ScheduleAssumption, CronAssumption DEF Minutes
  <1>3. now \in Matching[c] <=> CronMatches(c, Calendar[now])
    BY <1>1 DEF Matching
  <1>4. now \in StandardMinutes[c] <=> Standard(c, Calendar[now])
    BY <1>1 DEF StandardMinutes
  <1> QED  BY <1>2, <1>3, <1>4

-----------------------------------------------------------------------------
(* The file a worked schedule becomes. *)

LEMMA FilesExist == Never \notin ScheduleFile
  BY ScheduleAssumption DEF ScheduleFile

\* A stamp changes the last firing and the hold alone.
LEMMA Stamped ==
    ASSUME TypeOK, NEW s \in Existing
    PROVE  /\ Stamp(s) \in ScheduleFile
           /\ Stamp(s).pending = sched[s].pending /\ Stamp(s).resumed = sched[s].resumed
           /\ Stamp(s).last = (IF Due(s) THEN now ELSE sched[s].last)
           /\ Stamp(s).held => ~CanEnqueueNow
           /\ Stamp(s) # Never
  <1>1. sched[s] \in ScheduleFile /\ now \in Nat
    BY ScheduleAssumption DEF TypeOK, Existing, Minutes
  <1>2. Due(s) \in BOOLEAN /\ (~CanEnqueueNow /\ Idle(s) # {}) \in BOOLEAN
    BY DEF Due, CanEnqueueNow
  <1>3. Stamp(s) \in ScheduleFile
    BY <1>1, <1>2 DEF Stamp, ScheduleFile
  <1> QED  BY <1>1, <1>2, <1>3, ScheduleAssumption DEF Stamp, ScheduleFile

\* The files after a tick.
LEMMA Ticked ==
    ASSUME TypeOK, RunSchedules, NEW s \in Existing
    PROVE  sched'[s] = IF Worked(s) THEN Stamp(s) ELSE sched[s]
  BY DEF RunSchedules, Existing

\* The tick makes no schedule file and takes none away.
LEMMA TickKeepsFiles ==
    ASSUME TypeOK, RunSchedules
    PROVE  /\ sched' \in [Schedules -> ScheduleFile \union {Never}]
           /\ Existing' = Existing
  <1>1. ASSUME NEW s \in Schedules
        PROVE  sched'[s] \in ScheduleFile \union {Never} /\ (sched'[s] # Never <=> sched[s] # Never)
    <2>1. CASE Worked(s)
      BY <2>1, <1>1, Stamped DEF Worked, RunSchedules, Existing
    <2>2. CASE ~Worked(s)
      BY <2>2, <1>1 DEF RunSchedules, TypeOK
    <2> QED  BY <2>1, <2>2
  <1>2. sched' = [s \in Schedules |-> sched'[s]]
    BY DEF RunSchedules
  <1>3. sched' \in [Schedules -> ScheduleFile \union {Never}]
    BY <1>1, <1>2
  <1> QED  BY <1>1, <1>3 DEF Existing

-----------------------------------------------------------------------------
(* Type correctness. *)

LEMMA TypeInit == Init => TypeOK
  <1> SUFFICES ASSUME Init PROVE TypeOK
    OBVIOUS
  <1>1. now \in Minutes /\ events \in 0..MaxEvents
    BY ScheduleAssumption DEF Init, Minutes
  <1>2. Existing = {}
    BY DEF Init, Existing
  <1>3. sched \in [Schedules -> ScheduleFile \union {Never}] /\ pausedAt \in [Schedules -> Nat]
    BY DEF Init
  <1> QED  BY <1>1, <1>2, <1>3 DEF Init, TypeOK

LEMMA TickTyped ==
    ASSUME TypeOK, RunSchedules, UNCHANGED events
    PROVE  TypeOK'
  <1>1. Fired \subseteq jobs
    BY DEF Fired, Idle, Children
  <1>2. {j \in Jobs : Due(Parent[j]) /\ j \in Idle(Parent[j])} \subseteq Jobs
    OBVIOUS
  <1>3. ASSUME NEW s \in Existing'
        PROVE  sched'[s].last <= now' /\ sched'[s].resumed <= now'
    <2>1. s \in Existing /\ now' = now /\ now \in Nat
      BY <1>3, TickKeepsFiles, ScheduleAssumption DEF RunSchedules, TypeOK, Minutes
    <2>2. sched[s].last <= now /\ sched[s].resumed <= now
      BY <2>1 DEF TypeOK
    <2>3. CASE Worked(s)
      BY <2>1, <2>2, <2>3, Ticked, Stamped
    <2>4. CASE ~Worked(s)
      BY <2>1, <2>2, <2>4, Ticked
    <2> QED  BY <2>3, <2>4
  <1>4. sched' \in [Schedules -> ScheduleFile \union {Never}] /\ Existing' = Existing
    BY TickKeepsFiles
  <1>5. jobs \subseteq Jobs /\ \A j \in jobs' : Parent[j] \in Existing'
    BY <1>4 DEF TypeOK, RunSchedules
  <1>6. inflight' \subseteq jobs' /\ owed' \subseteq Jobs
    BY <1>1, <1>5 DEF TypeOK, RunSchedules
  <1>7. occurred' \in [Schedules -> Nat] /\ ranFor' \in [Jobs -> Nat]
    <2>1. \A s \in Schedules : LastOccurrence(s) \in Nat
      BY ScheduleAssumption DEF LastOccurrence, TypeOK, Minutes
    <2>2. \A j \in Jobs : Parent[j] \in Schedules
      BY ScheduleAssumption
    <2> QED  BY <2>1, <2>2 DEF RunSchedules, TypeOK
  <1> QED  BY <1>3, <1>4, <1>5, <1>6, <1>7 DEF TypeOK, RunSchedules, team

LEMMA PersonTyped ==
    ASSUME TypeOK, PersonStep, events' \in 0..MaxEvents
    PROVE  TypeOK'
  <1> USE DEF TypeOK
  <1>n. now \in Nat  BY ScheduleAssumption DEF Minutes
  <1>1. ASSUME NEW s \in Schedules, NEW c \in Crons, EditCron(s, c)
        PROVE  TypeOK'
    <2>1. sched[s] \in ScheduleFile  BY <1>1 DEF EditCron, Existing
    <2>2. [sched[s] EXCEPT !.cron = c] \in ScheduleFile  BY <2>1 DEF ScheduleFile
    <2>3. /\ sched' \in [Schedules -> ScheduleFile \union {Never}]
          /\ Existing' = Existing
          /\ \A t \in Existing : sched'[t].last = sched[t].last /\ sched'[t].resumed = sched[t].resumed
      BY <1>1, <2>1, <2>2, ScheduleAssumption DEF EditCron, Existing, ScheduleFile
    <2> QED  BY <1>1, <2>3 DEF EditCron, history, team
  <1>2. ASSUME NEW s \in Schedules, NEW c \in Crons, NEW js \in SUBSET {j \in Jobs : Parent[j] = s},
               NEW drafts \in SUBSET js, Create(s, c, js, drafts)
        PROVE  TypeOK'
    <2> DEFINE file == [cron |-> c, last |-> 0, resumed |-> 0, held |-> FALSE, pending |-> FALSE]
    <2>0. file \in ScheduleFile  BY DEF ScheduleFile
    <2>1. file \in ScheduleFile /\ file # Never  BY <2>0, FilesExist
    <2>2. /\ sched' \in [Schedules -> ScheduleFile \union {Never}]
          /\ Existing' = Existing \union {s}
          /\ \A t \in Existing : sched'[t] = sched[t]
      BY <1>2, <2>1 DEF Create, Existing
    <2>3. \A t \in Existing' : sched'[t].last <= now /\ sched'[t].resumed <= now
      BY <1>2, <2>2, <1>n DEF Create
    <2>4. jobs' \subseteq Jobs /\ \A j \in jobs' : Parent[j] \in Existing'
      BY <1>2, <2>2 DEF Create
    <2>5. pausedAt' \in [Schedules -> Nat]
      BY <1>2 DEF Create
    <2>6. /\ draft' \subseteq jobs' /\ archived' \subseteq jobs' /\ inflight' \subseteq jobs'
          /\ owed' \subseteq Jobs /\ now' = now /\ occurred' = occurred /\ ranFor' = ranFor
          /\ ready' = ready /\ online' = online
      BY <1>2 DEF Create, team
    <2> QED  BY <2>2, <2>3, <2>4, <2>5, <2>6
  <1>3. ASSUME NEW s \in Schedules, DeleteSchedule(s)
        PROVE  TypeOK'
    <2>1. /\ sched' \in [Schedules -> ScheduleFile \union {Never}]
          /\ Existing' = Existing \ {s}
          /\ \A t \in Existing' : sched'[t] = sched[t]
      BY <1>3 DEF DeleteSchedule, Existing
    <2>2. \A j \in jobs' : Parent[j] \in Existing'
      BY <1>3, <2>1 DEF DeleteSchedule, Children
    <2> QED  BY <1>3, <2>1, <2>2 DEF DeleteSchedule, team
  <1>4. ASSUME NEW s \in Schedules, NEW pending \in BOOLEAN, SetSchedulePending(s, pending)
        PROVE  TypeOK'
    <2>1. sched[s] \in ScheduleFile /\ sched[s].last <= now /\ sched[s].resumed <= now
      BY <1>4 DEF SetSchedulePending, Existing
    <2>2. /\ WithPending(sched[s], pending) \in ScheduleFile
          /\ WithPending(sched[s], pending).last <= now
          /\ WithPending(sched[s], pending).resumed <= now
      <3>1. CASE pending = sched[s].pending
        BY <3>1, <2>1 DEF WithPending
      <3>2. CASE pending # sched[s].pending /\ pending
        <4>1. WithPending(sched[s], pending) = [sched[s] EXCEPT !.pending = TRUE, !.held = FALSE]
          BY <3>2 DEF WithPending
        <4> QED  BY <2>1, <4>1 DEF ScheduleFile
      <3>3. CASE pending # sched[s].pending /\ ~pending
        <4>1. WithPending(sched[s], pending) = [sched[s] EXCEPT !.pending = FALSE, !.resumed = now]
          BY <3>3 DEF WithPending
        <4>2. [sched[s] EXCEPT !.pending = FALSE, !.resumed = now] \in ScheduleFile
          BY <2>1, <1>n DEF ScheduleFile
        <4>3. /\ [sched[s] EXCEPT !.pending = FALSE, !.resumed = now].last = sched[s].last
              /\ [sched[s] EXCEPT !.pending = FALSE, !.resumed = now].resumed = now
          BY <2>1 DEF ScheduleFile
        <4> QED  BY <2>1, <1>n, <4>1, <4>2, <4>3
      <3> QED  BY <3>1, <3>2, <3>3
    <2>3. /\ sched' \in [Schedules -> ScheduleFile \union {Never}]
          /\ Existing' = Existing
          /\ \A t \in Existing : sched'[t].last <= now /\ sched'[t].resumed <= now
      BY <1>4, <2>2, ScheduleAssumption DEF SetSchedulePending, Existing, ScheduleFile
    <2>4. pausedAt' \in [Schedules -> Nat]
      BY <1>4, <1>n DEF SetSchedulePending
    <2> QED  BY <1>4, <2>3, <2>4 DEF SetSchedulePending, team
  <1>5. ASSUME NEW j \in Jobs, ActivateJob(j) \/ ArchiveJob(j) \/ RestoreJob(j) \/ DeleteJob(j) \/ RunNow(j)
        PROVE  TypeOK'
    BY <1>5 DEF ActivateJob, ArchiveJob, RestoreJob, DeleteJob, RunNow, history, team, files, Existing
  <1> QED  BY <1>1, <1>2, <1>3, <1>4, <1>5 DEF PersonStep

LEMMA TypeStep == TypeOK /\ [Next]_vars => TypeOK'
  <1> SUFFICES ASSUME TypeOK, [Next]_vars PROVE TypeOK'
    OBVIOUS
  <1>1. CASE PersonStep /\ events < MaxEvents /\ events' = events + 1
    BY <1>1, PersonTyped, ScheduleAssumption DEF TypeOK
  <1>2. CASE (TeamChanges \/ Boot) /\ events < MaxEvents /\ events' = events + 1
    <2>1. events' \in 0..MaxEvents
      BY <1>2, ScheduleAssumption DEF TypeOK
    <2>2. ready' \in BOOLEAN /\ online' \in BOOLEAN
      BY <1>2 DEF TeamChanges, Boot
    <2>3. UNCHANGED <<now, files, inflight, history>>
      BY <1>2 DEF TeamChanges, Boot
    <2> QED  BY <2>1, <2>2, <2>3 DEF TypeOK, files, history, Existing
  <1>3. CASE RunSchedules /\ UNCHANGED events
    BY <1>3, TickTyped
  <1>4. CASE MinutePasses /\ UNCHANGED events
    <2>1. now' \in Minutes /\ now \in Nat /\ now' = now + 1
      BY <1>4, ScheduleAssumption DEF MinutePasses, TypeOK, Minutes
    <2>2. pausedAt' \in [Schedules -> Nat]
      BY <1>4, <2>1 DEF MinutePasses, TypeOK
    <2>3. \A s \in Existing : sched[s].last \in Nat /\ sched[s].resumed \in Nat
      BY DEF TypeOK, Existing, ScheduleFile
    <2>4. \A s \in Existing : sched[s].last <= now' /\ sched[s].resumed <= now'
      BY <2>1, <2>3 DEF TypeOK
    <2> QED  BY <1>4, <2>1, <2>2, <2>4 DEF TypeOK, MinutePasses, files, team, Existing
  <1>5. CASE (\E j \in Jobs : ItemEnds(j)) /\ UNCHANGED events
    BY <1>5 DEF TypeOK, ItemEnds, files, team, history, Existing
  <1>6. CASE UNCHANGED vars
    BY <1>6 DEF TypeOK, vars, files, team, history, Existing
  <1> QED  BY <1>1, <1>2, <1>3, <1>4, <1>5, <1>6 DEF Next

\* Every job that exists has a schedule, every draft, archived and running one exists, and
\* no schedule records a time to come (sources/schedule.ts, store/workdefs.ts).
THEOREM TypeCorrect == Spec => []TypeOK
  <1>1. Init => TypeOK  BY TypeInit
  <1>2. TypeOK /\ [Next]_vars => TypeOK'  BY TypeStep
  <1> QED  BY <1>1, <1>2, PTL DEF Spec

-----------------------------------------------------------------------------
(* What a hold means, and what activation does to the cursor. *)

LEMMA InvInit == Init => Inv
  <1>1. Init => Existing = {}
    BY DEF Init, Existing
  <1>2. Init => CursorPassed
    BY <1>1, ScheduleAssumption DEF Init, CursorPassed
  <1> QED  BY <1>1, <1>2, TypeInit DEF Inv, HeldApart

\* An occurrence that is due came after the schedule was last pending.
LEMMA DueIsLater ==
    ASSUME Inv, NEW s \in Existing, Due(s)
    PROVE  now > pausedAt[s]
  <1>1. sched[s] \in ScheduleFile /\ pausedAt[s] \in Nat /\ now \in Nat
    BY ScheduleAssumption DEF Inv, TypeOK, Existing, Minutes
  <1>2. sched[s].last \in Nat /\ sched[s].resumed \in Nat
    BY <1>1 DEF ScheduleFile
  <1>3. ~sched[s].pending /\ ScheduleCursor(sched[s]) < now
    BY DEF Due, IsCronDue
  <1>4. sched[s].resumed < now
    BY <1>1, <1>2, <1>3 DEF ScheduleCursor
  <1>5. pausedAt[s] <= sched[s].resumed
    BY <1>3 DEF Inv, CursorPassed
  <1> QED  BY <1>1, <1>2, <1>4, <1>5

\* After a tick, a worked schedule's last firing is later than its last pending minute.
LEMMA WorkedIsLater ==
    ASSUME Inv, RunSchedules, NEW s \in Existing, Worked(s)
    PROVE  sched'[s].last > pausedAt[s]
  <1>1. sched'[s].last = IF Due(s) THEN now ELSE sched[s].last
    BY Ticked, Stamped DEF Inv
  <1>2. CASE Due(s)
    BY <1>1, <1>2, DueIsLater
  <1>3. CASE ~Due(s)
    <2>1. sched[s].held
      BY <1>3 DEF Worked, Due
    <2> QED  BY <1>1, <1>3, <2>1 DEF Inv, HeldApart
  <1> QED  BY <1>2, <1>3

\* What a tick makes of the histories.
LEMMA HistoryTicked ==
    ASSUME Inv, RunSchedules, NEW s \in Schedules
    PROVE  /\ occurred'[s] = LastOccurrence(s) /\ occurred'[s] \in Nat /\ occurred[s] \in Nat
           /\ occurred[s] <= now /\ occurred[s] <= occurred'[s]
  <1>1. occurred'[s] = LastOccurrence(s) /\ now \in Nat /\ occurred[s] \in Nat
    BY ScheduleAssumption DEF RunSchedules, Inv, TypeOK, Minutes
  <1>2. occurred[s] <= now
    <2>1. CASE s \in Existing
      <3>1. sched[s] \in ScheduleFile /\ sched[s].last <= now /\ sched[s].resumed <= now
        BY <2>1 DEF Inv, TypeOK, Existing
      <3>2. ScheduleCursor(sched[s]) <= now /\ ScheduleCursor(sched[s]) \in Nat
        BY <3>1 DEF ScheduleCursor, ScheduleFile
      <3> QED  BY <1>1, <2>1, <3>2 DEF Inv, CursorPassed
    <2>2. CASE s \notin Existing
      BY <1>1, <2>2 DEF Inv, CursorPassed
    <2> QED  BY <2>1, <2>2
  <1> QED  BY <1>1, <1>2 DEF LastOccurrence

\* No occurrence is met that the cursor, after the tick, has not passed.
LEMMA OccurrenceStamped ==
    ASSUME Inv, RunSchedules, NEW s \in Existing
    PROVE  occurred'[s] <= ScheduleCursor(sched'[s])
  <1> DEFINE file == sched[s]
             after == sched'[s]
  <1>0. s \in Schedules /\ now \in Nat
    BY ScheduleAssumption DEF Existing, Inv, TypeOK, Minutes
  <1>1. file \in ScheduleFile /\ after \in ScheduleFile
    BY TickKeepsFiles, FilesExist DEF Inv, TypeOK, Existing
  <1>2. after.resumed = file.resumed /\ after.last = IF Due(s) THEN now ELSE file.last
    <2>1. CASE Worked(s)
      BY <2>1, Ticked, Stamped DEF Inv
    <2>2. CASE ~Worked(s)
      BY <2>2, Ticked DEF Inv, Worked, Due
    <2> QED  BY <2>1, <2>2
  <1>3. file.last <= now /\ file.resumed <= now
    BY DEF Inv, TypeOK
  <1>4. occurred'[s] = LastOccurrence(s) /\ occurred[s] <= ScheduleCursor(file) /\ occurred[s] \in Nat
    BY <1>0, HistoryTicked DEF Inv, CursorPassed
  <1>5. Occurs(s) => Due(s) \/ ScheduleCursor(file) >= now
    BY <1>0, <1>1, SameMinutes DEF Occurs, Due, IsCronDue, ScheduleCursor, ScheduleFile, Inv
  <1>6. /\ file.last \in Nat /\ file.resumed \in Nat
        /\ ScheduleCursor(file) = IF file.resumed > file.last THEN file.resumed ELSE file.last
        /\ ScheduleCursor(after) = IF after.resumed > after.last THEN after.resumed ELSE after.last
    BY <1>1 DEF ScheduleFile, ScheduleCursor
  <1>7. CASE Occurs(s)
    <2>1. occurred'[s] = now
      BY <1>4, <1>7 DEF LastOccurrence
    <2>2. after.last = now \/ ScheduleCursor(file) >= now
      BY <1>2, <1>5, <1>7
    <2>3. ScheduleCursor(after) >= now
      BY <1>0, <1>2, <1>3, <1>6, <2>2
    <2> QED  BY <1>0, <1>6, <2>1, <2>3
  <1>8. CASE ~Occurs(s)
    <2>1. occurred'[s] = occurred[s]
      BY <1>4, <1>8 DEF LastOccurrence
    <2>2. ScheduleCursor(file) <= ScheduleCursor(after)
      BY <1>0, <1>2, <1>3, <1>6
    <2> QED  BY <1>0, <1>2, <1>4, <1>6, <2>1, <2>2
  <1> QED  BY <1>7, <1>8

\* A run is never for an occurrence to come.
LEMMA RanForMet ==
    ASSUME Inv, RunSchedules, NEW j \in Jobs
    PROVE  ranFor'[j] <= occurred'[Parent[j]]
  <1>1. Parent[j] \in Schedules
    BY ScheduleAssumption
  <1>2. ranFor[j] <= occurred[Parent[j]] /\ ranFor[j] \in Nat
    BY DEF Inv, CursorPassed, TypeOK
  <1>3. ranFor'[j] = IF j \in Fired THEN LastOccurrence(Parent[j]) ELSE ranFor[j]
    BY DEF RunSchedules
  <1> QED  BY <1>1, <1>2, <1>3, HistoryTicked

\* A schedule is worked only for an occurrence that none of its jobs was run for.
LEMMA WorkedIsMet ==
    ASSUME Inv, RunSchedules, NEW s \in Existing, Worked(s), NEW j \in Jobs, Parent[j] = s
    PROVE  ranFor[j] < occurred'[s]
  <1>1. s \in Schedules /\ ranFor[j] \in Nat /\ ranFor[j] <= occurred[s] /\ now \in Nat
    BY ScheduleAssumption DEF Existing, Inv, CursorPassed, TypeOK, Minutes
  <1>2. occurred'[s] \in Nat /\ occurred[s] \in Nat /\ occurred[s] <= occurred'[s]
        /\ occurred'[s] = LastOccurrence(s)
    BY <1>1, HistoryTicked
  <1>3. CASE Due(s)
    <2>1. occurred'[s] = now
      BY <1>2, <1>3, SameMinutes DEF LastOccurrence, Occurs, Due, IsCronDue, Inv
    <2>2. ScheduleCursor(sched[s]) < now /\ ScheduleCursor(sched[s]) \in Nat
      <3>1. sched[s] \in ScheduleFile
        BY DEF Inv, TypeOK, Existing
      <3> QED  BY <1>3, <3>1 DEF Due, IsCronDue, ScheduleCursor, ScheduleFile
    <2>3. occurred[s] <= ScheduleCursor(sched[s])
      BY DEF Inv, CursorPassed
    <2> QED  BY <1>1, <1>2, <2>1, <2>2, <2>3
  <1>4. CASE ~Due(s)
    <2>1. sched[s].held
      BY <1>4 DEF Worked, Due
    <2>2. ranFor[j] < occurred[s]
      BY <2>1 DEF Inv, HeldApart
    <2> QED  BY <1>1, <1>2, <2>2
  <1> QED  BY <1>3, <1>4

LEMMA TickInv ==
    ASSUME Inv, RunSchedules, UNCHANGED events
    PROVE  Inv'
  <1>1. TypeOK'
    BY TickTyped DEF Inv
  <1>2. Existing' = Existing /\ now' = now /\ pausedAt' = pausedAt
    BY TickKeepsFiles DEF Inv, RunSchedules
  <1>3. ASSUME NEW s \in Existing
        PROVE  sched'[s].pending = sched[s].pending /\ sched'[s].resumed = sched[s].resumed
    BY Ticked, Stamped DEF Inv
  <1>4. CursorPassed'
    <2>1. ASSUME NEW s \in Existing
          PROVE  occurred'[s] <= ScheduleCursor(sched'[s])
      BY <2>1, OccurrenceStamped
    <2>2. ASSUME NEW s \in Schedules \ Existing
          PROVE  occurred'[s] = 0
      BY <2>2 DEF Inv, CursorPassed, RunSchedules, LastOccurrence, Occurs
    <2>3. ASSUME NEW j \in Jobs
          PROVE  ranFor'[j] <= occurred'[Parent[j]]
      BY <2>3, RanForMet
    <2> QED  BY <1>2, <1>3, <2>1, <2>2, <2>3 DEF Inv, CursorPassed
  <1>5. ASSUME NEW s \in Existing, sched'[s].held
        PROVE  /\ ~sched'[s].pending
               /\ sched'[s].last > pausedAt[s]
               /\ \A j \in Jobs : Parent[j] = s => ranFor'[j] < occurred'[s]
    <2>1. CASE Worked(s)
      <3>1. ~CanEnqueueNow
        BY <1>5, <2>1, Ticked, Stamped DEF Inv
      <3>2. Fired = {}
        BY <3>1 DEF Fired
      <3>3. \A j \in Jobs : ranFor'[j] = ranFor[j]
        BY <3>2 DEF RunSchedules
      <3>4. \A j \in Jobs : Parent[j] = s => ranFor[j] < occurred'[s]
        BY <2>1, WorkedIsMet
      <3> QED  BY <2>1, <3>3, <3>4, <1>3, WorkedIsLater DEF Worked
    <2>2. CASE ~Worked(s)
      <3>1. sched'[s] = sched[s] /\ ~sched[s].pending
        BY <2>2, <1>5, <1>3, Ticked DEF Inv, HeldApart
      <3>2. FALSE
        BY <3>1, <2>2, <1>5 DEF Worked
      <3> QED  BY <3>2
    <2> QED  BY <2>1, <2>2
  <1>6. HeldApart'
    BY <1>2, <1>5 DEF HeldApart
  <1> QED  BY <1>1, <1>4, <1>6 DEF Inv

LEMMA PersonInv ==
    ASSUME Inv, PersonStep, TypeOK'
    PROVE  HeldApart' /\ CursorPassed'
  <1> USE DEF Inv
  <1>n. now \in Nat
    BY ScheduleAssumption DEF TypeOK, Minutes
  <1>t. \A s \in Existing : sched[s] \in ScheduleFile /\ pausedAt[s] \in Nat
    BY DEF TypeOK, Existing
  <1>t2. ASSUME NEW file \in ScheduleFile, NEW pending \in BOOLEAN
         PROVE  WithPending(file, pending) # Never
    <2>1. \/ WithPending(file, pending) = file
          \/ WithPending(file, pending) = [file EXCEPT !.pending = TRUE, !.held = FALSE]
          \/ WithPending(file, pending) = [file EXCEPT !.pending = FALSE, !.resumed = now]
      BY DEF WithPending
    <2>2. /\ [file EXCEPT !.pending = TRUE, !.held = FALSE] \in ScheduleFile
          /\ [file EXCEPT !.pending = FALSE, !.resumed = now] \in ScheduleFile
      BY <1>n DEF ScheduleFile
    <2> QED  BY <2>1, <2>2, FilesExist
  <1>1. ASSUME NEW s \in Schedules, NEW c \in Crons, EditCron(s, c)
        PROVE  HeldApart' /\ CursorPassed'
    <2>1. sched[s] \in ScheduleFile  BY <1>1, <1>t DEF EditCron
    <2>2. /\ Existing' = Existing
          /\ \A t \in Existing : /\ sched'[t].held = sched[t].held /\ sched'[t].last = sched[t].last
                                 /\ sched'[t].pending = sched[t].pending
                                 /\ sched'[t].resumed = sched[t].resumed
      BY <1>1, <2>1, FilesExist DEF EditCron, Existing, ScheduleFile, TypeOK
    <2>3. \A t \in Existing : ScheduleCursor(sched'[t]) = ScheduleCursor(sched[t])
      BY <2>2 DEF ScheduleCursor
    <2> QED  BY <1>1, <2>2, <2>3 DEF EditCron, history, HeldApart, CursorPassed
  <1>2. ASSUME NEW s \in Schedules, NEW c \in Crons, NEW js \in SUBSET {j \in Jobs : Parent[j] = s},
               NEW drafts \in SUBSET js, Create(s, c, js, drafts)
        PROVE  HeldApart' /\ CursorPassed'
    <2>1. /\ sched'[s].held = FALSE /\ sched'[s].resumed = 0 /\ sched'[s].last = 0
          /\ pausedAt'[s] = 0 /\ s \notin Existing
          /\ \A t \in Existing' \ {s} : /\ t \in Existing /\ sched'[t] = sched[t]
                                        /\ pausedAt'[t] = pausedAt[t]
          /\ occurred' = occurred /\ ranFor' = ranFor /\ now' = now
      BY <1>2 DEF Create, Existing, TypeOK
    <2>2. ScheduleCursor(sched'[s]) = 0
      BY <2>1 DEF ScheduleCursor
    <2>3. occurred[s] = 0 /\ \A t \in Schedules \ Existing' : t \in Schedules \ Existing
      BY <1>2, <2>1, FilesExist DEF Create, Existing, CursorPassed, TypeOK
    <2> QED  BY <2>1, <2>2, <2>3, <1>n DEF HeldApart, CursorPassed
  <1>3. ASSUME NEW s \in Schedules, DeleteSchedule(s)
        PROVE  HeldApart' /\ CursorPassed'
    <2>1. /\ \A t \in Existing' : t \in Existing /\ t # s /\ sched'[t] = sched[t]
          /\ pausedAt' = pausedAt /\ now' = now
          /\ Schedules \ Existing' = (Schedules \ Existing) \union {s}
      BY <1>3 DEF DeleteSchedule, Existing, TypeOK
    <2>2. /\ occurred'[s] = 0 /\ \A t \in Schedules \ {s} : occurred'[t] = occurred[t]
          /\ \A j \in Jobs : ranFor'[j] = IF Parent[j] = s THEN 0 ELSE ranFor[j]
      BY <1>3 DEF DeleteSchedule, TypeOK
    <2>3. \A j \in Jobs : Parent[j] \in Schedules
      BY ScheduleAssumption
    <2>4. HeldApart'
      BY <2>1, <2>2, <2>3 DEF HeldApart, Existing
    <2> QED  BY <2>1, <2>2, <2>3, <2>4 DEF CursorPassed, Existing
  <1>4. ASSUME NEW s \in Schedules, NEW pending \in BOOLEAN, SetSchedulePending(s, pending)
        PROVE  HeldApart' /\ CursorPassed'
    <2>1. /\ s \in Existing /\ sched' = [sched EXCEPT ![s] = WithPending(@, pending)]
          /\ pausedAt' = [pausedAt EXCEPT ![s] = IF pending \/ sched[s].pending THEN now ELSE @]
          /\ occurred' = occurred /\ ranFor' = ranFor /\ now' = now
      BY <1>4 DEF SetSchedulePending
    <2>2. \A t \in Existing' \ {s} : t \in Existing /\ sched'[t] = sched[t] /\ pausedAt'[t] = pausedAt[t]
      BY <2>1 DEF Existing, TypeOK
    <2>3. sched'[s] = WithPending(sched[s], pending)
          /\ pausedAt'[s] = IF pending \/ sched[s].pending THEN now ELSE pausedAt[s]
      BY <2>1 DEF Existing, TypeOK
    <2>f. sched[s] \in ScheduleFile /\ s \in Schedules /\ occurred[s] \in Nat
      BY <2>1, <1>t DEF Existing, TypeOK
    <2>o. Schedules \ Existing' = Schedules \ Existing
      BY <1>t2, <1>4 DEF SetSchedulePending, Existing, TypeOK
    <2>4. CASE pending = sched[s].pending
      <3>1. sched'[s] = sched[s]
        BY <2>3, <2>4 DEF WithPending
      <3>2. pausedAt'[s] = pausedAt[s] \/ (pausedAt'[s] = now /\ sched[s].pending)
        BY <2>3, <2>4
      <3>3. /\ sched'[s].held => ~sched'[s].pending /\ sched'[s].last > pausedAt'[s]
            /\ pausedAt'[s] <= now' /\ (sched'[s].pending \/ pausedAt'[s] <= sched'[s].resumed)
        BY <2>1, <3>1, <3>2, <1>n DEF HeldApart, CursorPassed
      <3> QED  BY <2>1, <2>2, <2>o, <3>1, <3>3 DEF HeldApart, CursorPassed
    <2>5. CASE pending # sched[s].pending /\ pending
      <3>1. sched'[s] = [sched[s] EXCEPT !.pending = TRUE, !.held = FALSE]
        BY <2>3, <2>5 DEF WithPending
      <3>2. sched[s] \in ScheduleFile
        BY <2>1, <1>t
      <3>3. sched'[s].held = FALSE /\ sched'[s].pending
        BY <3>1, <3>2 DEF ScheduleFile
      <3>4. pausedAt'[s] = now
        BY <2>3, <2>5
      <3>5. HeldApart'
        BY <2>1, <2>2, <3>3 DEF HeldApart
      <3>c. ScheduleCursor(sched'[s]) = ScheduleCursor(sched[s])
        BY <3>1, <2>f DEF ScheduleCursor, ScheduleFile
      <3>6. CursorPassed'
        BY <2>1, <2>2, <2>o, <3>3, <3>4, <3>c, <1>n DEF CursorPassed
      <3> QED  BY <3>5, <3>6
    <2>6. CASE pending # sched[s].pending /\ ~pending
      <3>1. sched'[s] = [sched[s] EXCEPT !.pending = FALSE, !.resumed = now]
        BY <2>3, <2>6 DEF WithPending
      <3>2. sched[s] \in ScheduleFile
        BY <2>1, <1>t
      <3>3. sched[s].pending
        BY <3>2, <2>6 DEF ScheduleFile
      <3>4. sched'[s].held = sched[s].held /\ sched'[s].resumed = now
        BY <3>1, <3>2 DEF ScheduleFile
      <3>5. pausedAt'[s] = now
        BY <2>3, <3>3
      <3>6. ~sched'[s].held
        BY <2>1, <3>3, <3>4 DEF HeldApart
      <3>c. occurred[s] <= ScheduleCursor(sched'[s])
        <4>1. sched'[s].resumed = now /\ sched'[s].last = sched[s].last
          BY <3>1, <3>2 DEF ScheduleFile
        <4>2. sched[s].last \in Nat /\ sched[s].resumed \in Nat /\ sched[s].resumed <= now
          BY <2>1, <3>2 DEF ScheduleFile, TypeOK
        <4>3. occurred[s] <= ScheduleCursor(sched[s])
          BY <2>1 DEF CursorPassed
        <4> QED  BY <4>1, <4>2, <4>3, <2>f, <1>n DEF ScheduleCursor
      <3> QED  BY <2>1, <2>2, <2>o, <3>4, <3>5, <3>6, <3>c, <1>n DEF HeldApart, CursorPassed
    <2> QED  BY <2>4, <2>5, <2>6
  <1>5. ASSUME NEW j \in Jobs, ActivateJob(j) \/ ArchiveJob(j) \/ RestoreJob(j) \/ DeleteJob(j) \/ RunNow(j)
        PROVE  HeldApart' /\ CursorPassed'
    <2>1. sched' = sched /\ pausedAt' = pausedAt /\ now' = now /\ occurred' = occurred
      BY <1>5 DEF ActivateJob, ArchiveJob, RestoreJob, DeleteJob, RunNow, history, files
    <2>2. \A k \in Jobs : ranFor'[k] = ranFor[k] \/ ranFor'[k] = 0
      BY <1>5 DEF ActivateJob, ArchiveJob, RestoreJob, DeleteJob, RunNow, history, TypeOK
    <2>3. \A k \in Jobs : ranFor'[k] <= ranFor[k]
      BY <2>2 DEF TypeOK
    <2>4. \A k \in Jobs : Parent[k] \in Schedules /\ ranFor[k] \in Nat /\ ranFor'[k] \in Nat
                            /\ occurred[Parent[k]] \in Nat
      BY <2>2, ScheduleAssumption DEF TypeOK
    <2>5. HeldApart'
      BY <2>1, <2>3, <2>4 DEF HeldApart, Existing
    <2> QED  BY <2>1, <2>3, <2>4, <2>5 DEF CursorPassed, Existing
  <1> QED  BY <1>1, <1>2, <1>3, <1>4, <1>5 DEF PersonStep

LEMMA InvStep == Inv /\ [Next]_vars => Inv'
  <1> SUFFICES ASSUME Inv, [Next]_vars PROVE Inv'
    OBVIOUS
  <1>t. TypeOK'
    BY TypeStep DEF Inv
  <1>1. CASE PersonStep
    BY <1>1, <1>t, PersonInv DEF Inv
  <1>2. CASE RunSchedules /\ UNCHANGED events
    BY <1>2, TickInv
  <1>3. CASE MinutePasses
    <2>1. now' = now + 1 /\ now \in Nat
      BY <1>3, ScheduleAssumption DEF MinutePasses, Inv, TypeOK, Minutes
    <2>2. sched' = sched /\ occurred' = occurred /\ ranFor' = ranFor
      BY <1>3 DEF MinutePasses, files
    <2>3. \A s \in Existing :
             pausedAt[s] \in Nat /\ pausedAt'[s] = IF sched[s].pending THEN now' ELSE pausedAt[s]
      BY <1>3, <2>1 DEF MinutePasses, Existing, Inv, TypeOK
    <2>4. HeldApart'
      BY <2>2, <2>3 DEF Inv, HeldApart, Existing
    <2>5. CursorPassed'
      BY <2>1, <2>2, <2>3 DEF Inv, CursorPassed, Existing
    <2> QED  BY <1>t, <2>4, <2>5 DEF Inv
  <1>4. CASE TeamChanges \/ Boot \/ (\E j \in Jobs : ItemEnds(j)) \/ UNCHANGED vars
    <2>1. sched' = sched /\ pausedAt' = pausedAt /\ now' = now
          /\ occurred' = occurred /\ ranFor' = ranFor
      BY <1>4 DEF TeamChanges, Boot, ItemEnds, vars, files, history
    <2> QED  BY <1>t, <2>1 DEF Inv, HeldApart, CursorPassed, Existing
  <1> QED  BY <1>1, <1>2, <1>3, <1>4 DEF Next

\* Each occurrence of a schedule runs a job at most once, however the timer ticks, the team
\* comes and goes, the schedule is edited and the daemon restarts (runSchedules, isCronDue).
THEOREM OccurrenceRunsOnce == Spec => OncePerOccurrence
  <1>1. Init => Inv  BY InvInit
  <1>2. Inv /\ [Next]_vars => Inv'  BY InvStep
  <1>3. Inv => (\A j \in Jobs : RunBySchedule(j) => ranFor[j] < occurred'[Parent[j]])
    <2> SUFFICES ASSUME Inv, NEW j \in Jobs, RunBySchedule(j)
                 PROVE  ranFor[j] < occurred'[Parent[j]]
      OBVIOUS
    <2>1. RunSchedules /\ j \in Fired
      BY DEF RunBySchedule, RunSchedules
    <2>2. Worked(Parent[j])
      BY <2>1 DEF Fired
    <2> QED  BY <2>1, <2>2, WorkedIsMet DEF Worked
  <1> QED  BY <1>1, <1>2, <1>3, PTL DEF Spec, OncePerOccurrence

\* A schedule makes up for nothing that fell into a time when it was pending
\* (updateSchedule, scheduleCursor).
THEOREM PausesAreNotCaughtUp == Spec => NoCatchUp
  <1>1. Init => Inv  BY InvInit
  <1>2. Inv /\ [Next]_vars => Inv'  BY InvStep
  <1>3. Inv => (\A j \in Jobs : RunBySchedule(j) => sched'[Parent[j]].last > pausedAt[Parent[j]])
    <2> SUFFICES ASSUME Inv, NEW j \in Jobs, RunBySchedule(j)
                 PROVE  sched'[Parent[j]].last > pausedAt[Parent[j]]
      OBVIOUS
    <2>1. RunSchedules /\ j \in Fired
      BY DEF RunBySchedule, RunSchedules
    <2>2. Worked(Parent[j])
      BY <2>1 DEF Fired
    <2> QED  BY <2>1, <2>2, WorkedIsLater DEF Worked
  <1> QED  BY <1>1, <1>2, <1>3, PTL DEF Spec, NoCatchUp

-----------------------------------------------------------------------------
(* What is stamped. *)

\* A schedule that is not pending is stamped in the minutes crontab(5) names and in no other,
\* whenever the timer ticks later than its cursor (runSchedules, cronMatches, parseField).
THEOREM StampsStandardMinutesCorrect == Spec => StampsStandardMinutes
  <1>1. TypeOK => (RunSchedules => \A s \in Existing :
            ~sched[s].pending /\ sched[s].last < now /\ sched[s].resumed < now
               => (sched'[s].last = now <=> now \in StandardMinutes[sched[s].cron]))
    <2> SUFFICES ASSUME TypeOK, RunSchedules, NEW s \in Existing,
                        ~sched[s].pending, sched[s].last < now, sched[s].resumed < now
                 PROVE  sched'[s].last = now <=> now \in StandardMinutes[sched[s].cron]
      OBVIOUS
    <2> DEFINE c == sched[s].cron
    <2>1. /\ sched[s] \in ScheduleFile /\ c \in Crons
          /\ now \in Minutes /\ now \in Nat /\ sched[s].last \in Nat
      BY ScheduleAssumption DEF TypeOK, Existing, Minutes, ScheduleFile
    <2>2. ScheduleCursor(sched[s]) < now
      BY DEF ScheduleCursor
    <2>3. Due(s) <=> now \in StandardMinutes[c]
      BY <2>2, SameMinutes DEF Due, IsCronDue
    <2>4. sched'[s].last = IF Due(s) THEN now ELSE sched[s].last
      <3>1. CASE Worked(s)
        BY <3>1, Ticked, Stamped
      <3>2. CASE ~Worked(s)
        BY <3>2, Ticked DEF Worked, Due
      <3> QED  BY <3>1, <3>2
    <2> QED  BY <2>1, <2>3, <2>4
  <1> QED  BY <1>1, TypeCorrect, PTL DEF Spec, StampsStandardMinutes

=============================================================================
