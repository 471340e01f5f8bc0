------------------------------- MODULE Cron -------------------------------
(***************************************************************************)
(* The five-field cron matcher.  A field is the set of its comma-separated *)
(* parts; a part is a range with an optional step, `*` being the part that *)
(* is any value.  A date is the record of its local fields.                *)
(*                                                                         *)
(* Code: src/daemon/cron.ts.                                               *)
(***************************************************************************)
EXTENDS Naturals

\* `*`, `*/n`, `a`, `a-b`, `a-b/n`: step 0 stands for no step.
Part == [any : BOOLEAN, lo : Nat, hi : Nat, step : Nat]
Star == {[any |-> TRUE, lo |-> 0, hi |-> 0, step |-> 0]}

\* A parsed expression, and the local fields of a date.
Expression == [minute : SUBSET Part, hour : SUBSET Part, dom : SUBSET Part,
               month : SUBSET Part, dow : SUBSET Part]
LocalDate  == [minute : 0..59, hour : 0..23, dom : 1..31, month : 1..12, dow : 0..6]

Low(p, min)  == IF p.any THEN min ELSE p.lo
High(p, max) == IF p.any THEN max ELSE p.hi
Step(p)      == IF p.step = 0 THEN 1 ELSE p.step

ValidPart(p, min, max) == p.any \/ (min <= p.lo /\ p.lo <= p.hi /\ p.hi <= max)

\* The loop `for (let v = lo; v <= hi; v += step)`.
PartValues(p, min, max) ==
    {v \in min..max : \E k \in 0..max : v = Low(p, min) + k * Step(p) /\ v <= High(p, max)}

\* parseField: the values of every part, none (null) when a part is malformed.
ParseField(field, min, max) ==
    IF \A p \in field : ValidPart(p, min, max)
    THEN UNION {PartValues(p, min, max) : p \in field}
    ELSE {}

\* Mutant: 7 stays 7, which no date has.
DaysOfWeekUnnormalized(field) == ParseField(field, 0, 7)

\* parseCron's last step: Sunday is 0 or 7.
DaysOfWeek(field) ==
    LET dow == ParseField(field, 0, 7)
    IN  IF 7 \in dow THEN (dow \union {0}) \ {7} ELSE dow

\* isValidCron.
ValidCron(cron) ==
    /\ ParseField(cron.minute, 0, 59) # {} /\ ParseField(cron.hour, 0, 23) # {}
    /\ ParseField(cron.dom, 1, 31) # {} /\ ParseField(cron.month, 1, 12) # {}
    /\ ParseField(cron.dow, 0, 7) # {}

\* cronMatches: a date matches by its day of the month or of the week when both are
\* restricted, else by both.
DayMatches(cron, date) ==
    LET domOk == date.dom \in ParseField(cron.dom, 1, 31)
        dowOk == date.dow \in DaysOfWeek(cron.dow)
    IN  IF cron.dom # Star /\ cron.dow # Star THEN domOk \/ dowOk ELSE domOk /\ dowOk

CronMatches(cron, date) ==
    /\ ValidCron(cron)
    /\ date.minute \in ParseField(cron.minute, 0, 59)
    /\ date.hour \in ParseField(cron.hour, 0, 23)
    /\ date.month \in ParseField(cron.month, 1, 12)
    /\ DayMatches(cron, date)

---------------------------------------------------------------------------
(* The reference: what crontab(5) says a valid expression means.           *)

\* A value is named by a part if it lies in its range, a whole number of steps up.
Names(p, v, min, max) ==
    /\ Low(p, min) <= v /\ v <= High(p, max)
    /\ (v - Low(p, min)) % Step(p) = 0

Selects(field, v, min, max) == \E p \in field : Names(p, v, min, max)

\* Sunday may be written 0 or 7.
SelectsDay(field, dow) == Selects(field, dow, 0, 7) \/ (dow = 0 /\ Selects(field, 7, 0, 7))

Standard(cron, date) ==
    /\ Selects(cron.minute, date.minute, 0, 59)
    /\ Selects(cron.hour, date.hour, 0, 23)
    /\ Selects(cron.month, date.month, 1, 12)
    /\ CASE cron.dom = Star -> SelectsDay(cron.dow, date.dow)
         [] cron.dow = Star -> Selects(cron.dom, date.dom, 1, 31)
         [] OTHER -> Selects(cron.dom, date.dom, 1, 31) \/ SelectsDay(cron.dow, date.dow)
===========================================================================
