-------------------------- MODULE WorkQueue_proofs --------------------------
(***************************************************************************)
(* Theorems about WorkQueue for every set of WorkDefs, teammates and       *)
(* directories, every bound and every environment.                         *)
(*                                                                         *)
(* Everything rests on one lemma, StepShape: whatever the step, a row of   *)
(* work_items evolves in one of four ways (RowStep) and a new row is READY *)
(* and alone in its WorkDef's queue (NewRow).                              *)
(***************************************************************************)
EXTENDS WorkQueue, SequenceTheorems, TLAPS

-----------------------------------------------------------------------------
(* The row operations: each keeps the table well typed and its rows in     *)
(* place, and changes only what it says.                                   *)

\* r is a table of the same rows as q.
SameRows(q, r) == r \in Seq(WorkItem) /\ Len(r) = Len(q) /\ DOMAIN r = DOMAIN q

\* What setWorkItemStateRow and removeMember make of one row.
SetRow(x, hit, s) == IF hit THEN [x EXCEPT !.state = s] ELSE x

ForgetRow(x, a) ==
    IF x.member # a THEN x
    ELSE IF x.state = "IN_PROGRESS"
         THEN [x EXCEPT !.state = "MORIBUND", !.member = NoMember]
         ELSE [x EXCEPT !.member = NoMember]

\* A well-typed function on the rows of q is again a table of as many rows.
LEMMA TableIsSeq ==
    ASSUME NEW q \in Seq(WorkItem), NEW f \in [DOMAIN q -> WorkItem]
    PROVE  SameRows(q, f)
<1>1. DOMAIN q = 1 .. Len(q) /\ Len(q) \in Nat
  BY LenProperties
<1>2. f \in [1 .. Len(q) -> WorkItem]
  BY <1>1
<1>3. f \in Seq(WorkItem)
  BY <1>1, <1>2, SeqDef
<1>4. Len(f) = Len(q)
  BY <1>1, <1>2, <1>3, LenProperties
<1> QED
  BY <1>1, <1>2, <1>3, <1>4 DEF SameRows

\* setWorkItemStateRow writes the state of the rows of S and nothing else.
LEMMA SetStatesFacts ==
    ASSUME NEW q \in Seq(WorkItem), NEW S, NEW s \in AllStates
    PROVE  /\ SameRows(q, SetStates(q, S, s))
           /\ \A i \in DOMAIN q :
                SetStates(q, S, s)[i] = SetRow(q[i], i \in S, s)
<1>1. \A i \in DOMAIN q : q[i] \in WorkItem
  BY ElementOfSeq, LenProperties
<1>2. SetStates(q, S, s) \in [DOMAIN q -> WorkItem]
  BY <1>1 DEF SetStates, WorkItem
<1> QED
  BY <1>2, TableIsSeq DEF SetStates, SetRow

\* Removing a member forgets it and makes what it was running MORIBUND.
LEMMA ForgetFacts ==
    ASSUME NEW q \in Seq(WorkItem), NEW a
    PROVE  /\ SameRows(q, Forget(q, a))
           /\ \A i \in DOMAIN q :
                Forget(q, a)[i] = ForgetRow(q[i], a)
<1>1. \A i \in DOMAIN q : q[i] \in WorkItem
  BY ElementOfSeq, LenProperties
<1>2. Forget(q, a) \in [DOMAIN q -> WorkItem]
  <2> SUFFICES ASSUME NEW i \in DOMAIN q
               PROVE  Forget(q, a)[i] \in WorkItem
    BY DEF Forget
  <2>1. q[i] \in WorkItem
    BY <1>1
  <2> QED
    BY <2>1 DEF Forget, WorkItem, AllStates, ActiveStates
<1> QED
  BY <1>2, TableIsSeq DEF Forget, ForgetRow

\* A claim writes the state and the member of one row.
LEMMA LeaseFacts ==
    ASSUME NEW q \in Seq(WorkItem), NEW i \in DOMAIN q, NEW a \in Agents
    PROVE  /\ SameRows(q, Lease(q, i, a))
           /\ Lease(q, i, a)[i].state = "IN_PROGRESS"
           /\ Lease(q, i, a)[i].member = a
           /\ Lease(q, i, a)[i].def = q[i].def
           /\ Lease(q, i, a)[i].dir = q[i].dir
           /\ Lease(q, i, a)[i].attempt = q[i].attempt
           /\ Lease(q, i, a)[i].held = q[i].held
           /\ Lease(q, i, a)[i].read = q[i].read
           /\ \A j \in DOMAIN q : j # i => Lease(q, i, a)[j] = q[j]
<1>1. \A j \in DOMAIN q : q[j] \in WorkItem
  BY ElementOfSeq, LenProperties
<1>2. Lease(q, i, a) \in [DOMAIN q -> WorkItem]
  BY <1>1 DEF Lease, WorkItem, AllStates, ActiveStates
<1>3. Lease(q, i, a)[i] = [q[i] EXCEPT !.state = "IN_PROGRESS", !.member = a]
  BY <1>1 DEF Lease, WorkItem
<1>4. /\ Lease(q, i, a)[i].state = "IN_PROGRESS"
      /\ Lease(q, i, a)[i].member = a
      /\ Lease(q, i, a)[i].def = q[i].def
      /\ Lease(q, i, a)[i].dir = q[i].dir
      /\ Lease(q, i, a)[i].attempt = q[i].attempt
      /\ Lease(q, i, a)[i].held = q[i].held
      /\ Lease(q, i, a)[i].read = q[i].read
  BY <1>1, <1>3 DEF WorkItem
<1>5. \A j \in DOMAIN q : j # i => Lease(q, i, a)[j] = q[j]
  BY DEF Lease
<1> QED
  BY <1>2, <1>4, <1>5, TableIsSeq

\* r is q with one more row, of no member and READY.
Enqueued(q, r, d, dir, n, h) ==
    /\ r \in Seq(WorkItem)
    /\ Len(r) = Len(q) + 1
    /\ DOMAIN r = DOMAIN q \union {Len(q) + 1}
    /\ Len(q) + 1 \notin DOMAIN q
    /\ r[Len(q) + 1] = NewItem(d, dir, n, h)
    /\ \A i \in DOMAIN q : r[i] = q[i]

\* Enqueuing adds a READY row of no member after those there are.
LEMMA EnqueueFacts ==
    ASSUME NEW q \in Seq(WorkItem), NEW d \in Defs, NEW dir \in Dirs \union {NoDir},
           NEW n \in Nat \ {0}, NEW h \in BOOLEAN
    PROVE  Enqueued(q, EnqueueFor(q, d, dir, n, h), d, dir, n, h)
<1>1. NewItem(d, dir, n, h) \in WorkItem
  BY DEF NewItem, WorkItem, AllStates, ActiveStates
<1>2. /\ EnqueueFor(q, d, dir, n, h) \in Seq(WorkItem)
      /\ Len(EnqueueFor(q, d, dir, n, h)) = Len(q) + 1
      /\ EnqueueFor(q, d, dir, n, h)[Len(q) + 1] = NewItem(d, dir, n, h)
      /\ \A i \in 1 .. Len(q) : EnqueueFor(q, d, dir, n, h)[i] = q[i]
  BY <1>1, AppendProperties DEF EnqueueFor
<1>3. DOMAIN q = 1 .. Len(q) /\ Len(q) \in Nat
  BY LenProperties
<1>4. DOMAIN EnqueueFor(q, d, dir, n, h) = 1 .. Len(q) + 1
  BY <1>2, LenProperties
<1> QED
  BY <1>2, <1>3, <1>4 DEF Enqueued

-----------------------------------------------------------------------------
(* The shape of a step. *)

\* The bound on the table is kept by the guard Room.
Bounded == Len(items) <= MaxItems

\* Row i is claimed in this step.
Granted(i) == \E a \in Agents : Claim(a) /\ offer[a] = i

\* Row i, in flight, ends in a session error in this step.
Errored(i) == items[i].state \in InFlightStates /\ SessionErrorStep(i)

\* What a step may do to a row that is there.
RowStep(i, old, new) ==
    /\ new.def = old.def /\ new.dir = old.dir /\ new.attempt = old.attempt
    /\ new.held => old.held
    /\ new.read = old.read \/ Errored(i)
    /\ \/ new.state = old.state /\ new.member \in {old.member, NoMember}
       \/ /\ old.state = "READY" /\ new.state = "CANCELED"
          /\ new.member = old.member
       \/ /\ old.state \in InFlightStates /\ new.state # "READY"
          /\ new.member \in {old.member, NoMember}
       \/ /\ old.state = "READY" /\ new.state = "IN_PROGRESS"
          /\ Granted(i)

\* What a row that a step adds is.
NewRow(i, new) ==
    /\ i = Len(items) + 1
    /\ new.state = "READY" /\ new.member = NoMember
    /\ new.held => new.attempt > 1
    /\ new.read = FALSE /\ defs'[new.def] = "active"
    /\ new.attempt = 1 \/ \E j \in DOMAIN items : Errored(j)

\* No row of q other than i is active for the same WorkDef.
AloneActive(q, i) ==
    \A j \in DOMAIN q \ {i} : q[j].state \in ActiveStates => q[j].def # q[i].def

Evolves ==
    /\ items' \in Seq(WorkItem)
    /\ DOMAIN items \subseteq DOMAIN items'
    /\ Len(items') <= MaxItems
    /\ \A i \in DOMAIN items : RowStep(i, items[i], items'[i])
    /\ \A i \in DOMAIN items' \ DOMAIN items : NewRow(i, items'[i]) /\ AloneActive(items', i)

-----------------------------------------------------------------------------
(* The ways in which actions write the table. *)

\* Nothing is written.
LEMMA UnchangedEvolves ==
    ASSUME TypeOK, Bounded, UNCHANGED items
    PROVE  Evolves
  BY DEF Evolves, TypeOK, Bounded, RowStep, NewRow

\* Rows are set to a state that RowStep allows.
LEMMA SetStatesEvolves ==
    ASSUME TypeOK, Bounded, NEW S, NEW s \in AllStates,
           items' = SetStates(items, S, s),
           \A i \in DOMAIN items : i \in S =>
                \/ items[i].state = "READY" /\ s = "CANCELED"
                \/ items[i].state \in InFlightStates /\ s # "READY"
    PROVE  Evolves
<1>1. items \in Seq(WorkItem)
  BY DEF TypeOK
<1>2. \A i \in DOMAIN items : items[i] \in WorkItem
  BY <1>1, ElementOfSeq, LenProperties
<1>3. /\ SameRows(items, items')
      /\ \A i \in DOMAIN items : items'[i] = SetRow(items[i], i \in S, s)
  BY <1>1, SetStatesFacts
<1>4. ASSUME NEW i \in DOMAIN items
      PROVE  RowStep(i, items[i], items'[i])
  BY <1>2, <1>3, <1>4 DEF RowStep, WorkItem, SetRow
<1> QED
  BY <1>3, <1>4 DEF Evolves, Bounded, SameRows

\* One or no row ends, and a fresh row is enqueued for a WorkDef that then
\* has no active one.
LEMMA EnqueueEvolves ==
    ASSUME TypeOK, Bounded, Room,
           NEW q, SameRows(items, q),
           \A i \in DOMAIN items : RowStep(i, items[i], q[i]),
           NEW d \in Defs, NEW n \in Nat \ {0}, NEW h \in BOOLEAN, h => n > 1,
           ~HasActive(q, d), defs'[d] = "active",
           n = 1 \/ \E j \in DOMAIN items : Errored(j),
           items' = EnqueueFor(q, d, WorkDir[d], n, h)
    PROVE  Evolves
<1>1. WorkDir[d] \in Dirs \union {NoDir}
  BY WorkDirAssumption
<1>2. Enqueued(q, items', d, WorkDir[d], n, h)
  BY <1>1, EnqueueFacts DEF SameRows
<1>3. Len(items) \in Nat
  BY LenProperties DEF TypeOK
<1>4. Len(items') <= MaxItems
  BY <1>2, <1>3, BoundsAssumption DEF Room, Enqueued, SameRows
<1>5. NewRow(Len(items) + 1, items'[Len(items) + 1])
  BY <1>2 DEF NewRow, NewItem, Enqueued, SameRows
<1>6. AloneActive(items', Len(items) + 1)
  BY <1>2 DEF AloneActive, NewItem, HasActive, ActiveItems, InState, Enqueued, SameRows
<1> QED
  BY <1>2, <1>4, <1>5, <1>6 DEF Evolves, Enqueued, SameRows

\* No row is changed and a first attempt is enqueued.
LEMMA FirstAttemptEvolves ==
    ASSUME TypeOK, Bounded, Room, NEW d \in Defs, ~HasActive(items, d), defs'[d] = "active",
           items' = EnqueueFor(items, d, WorkDir[d], 1, FALSE)
    PROVE  Evolves
<1>1. \A i \in DOMAIN items : RowStep(i, items[i], items[i])
  BY DEF RowStep
<1>2. SameRows(items, items)
  BY DEF SameRows, TypeOK
<1>3. 1 \in Nat \ {0} /\ FALSE \in BOOLEAN /\ (FALSE => 1 > 1)
  OBVIOUS
<1> QED
  BY <1>1, <1>2, <1>3, EnqueueEvolves

\* The table after removeMember.
LEMMA ForgetEvolves ==
    ASSUME TypeOK, Bounded, NEW a \in Agents, items' = Forget(items, a)
    PROVE  Evolves
<1>1. items \in Seq(WorkItem)
  BY DEF TypeOK
<1>2. \A i \in DOMAIN items : items[i] \in WorkItem
  BY <1>1, ElementOfSeq, LenProperties
<1>3. /\ SameRows(items, items')
      /\ \A i \in DOMAIN items : items'[i] = ForgetRow(items[i], a)
  BY <1>1, ForgetFacts
<1>4. ASSUME NEW i \in DOMAIN items
      PROVE  RowStep(i, items[i], items'[i])
  BY <1>2, <1>3, <1>4 DEF RowStep, WorkItem, InFlightStates, ForgetRow
<1> QED
  BY <1>3, <1>4 DEF Evolves, Bounded, SameRows

-----------------------------------------------------------------------------
(* The actions that write it in ways of their own. *)

LEMMA ForceFailEvolves ==
    ASSUME TypeOK, Bounded, NEW i \in DOMAIN items, NEW r \in BOOLEAN, ForceFail(i, r)
    PROVE  Evolves
<1> DEFINE failed == SetStates(items, {i}, "FAILED")
           d == items[i].def
<1>1. items \in Seq(WorkItem) /\ items[i] \in WorkItem
  BY ElementOfSeq, LenProperties DEF TypeOK
<1>2. items[i].state = "MORIBUND"
  BY DEF ForceFail
<1>3. "FAILED" \in AllStates
  BY DEF AllStates, TerminalStates
<1>4. CASE items' = failed
  BY <1>2, <1>3, <1>4, SetStatesEvolves DEF InFlightStates
<1>5. CASE /\ Room /\ ~HasActive(failed, d) /\ defs'[d] = "active"
           /\ items' = EnqueueFor(failed, d, WorkDir[d], 1, FALSE)
  <2>1. d \in Defs
    BY <1>1 DEF WorkItem
  <2>2. /\ SameRows(items, failed)
        /\ \A j \in DOMAIN items : failed[j] = SetRow(items[j], j \in {i}, "FAILED")
    BY <1>1, <1>3, SetStatesFacts
  <2> HIDE DEF failed
  <2>3. ASSUME NEW j \in DOMAIN items
        PROVE  RowStep(j, items[j], failed[j])
    <3>1. CASE j # i
      BY <2>2, <3>1 DEF RowStep, SetRow
    <3>2. CASE j = i
      BY <1>1, <1>2, <2>2, <3>2 DEF RowStep, WorkItem, InFlightStates, SetRow
    <3> QED
      BY <3>1, <3>2
  <2>4. 1 \in Nat \ {0} /\ FALSE \in BOOLEAN /\ (FALSE => 1 > 1)
    OBVIOUS
  <2> HIDE DEF d
  <2> QED
    BY <1>5, <2>1, <2>2, <2>3, <2>4, EnqueueEvolves
<1> QED
  BY <1>4, <1>5 DEF ForceFail

LEMMA SessionErrorEvolves ==
    ASSUME TypeOK, Bounded, NEW i \in DOMAIN items,
           items[i].state \in InFlightStates, SessionErrorStep(i), UNCHANGED defs
    PROVE  Evolves
<1> DEFINE d == items[i].def
           again == items[i].attempt < MaxAttempts /\ defs[d] # "absent"
           failed == [items EXCEPT ![i].state = "FAILED", ![i].read = again]
<1>1. items \in Seq(WorkItem) /\ \A j \in DOMAIN items : items[j] \in WorkItem
  BY ElementOfSeq, LenProperties DEF TypeOK
<1>2. /\ d \in Defs
      /\ items[i].attempt \in Nat \ {0}
      /\ again \in BOOLEAN
  BY <1>1 DEF WorkItem
<1>3. \A j \in DOMAIN items : failed[j] =
            IF j = i THEN [items[j] EXCEPT !.state = "FAILED", !.read = again] ELSE items[j]
  BY <1>1 DEF WorkItem
<1>4. failed \in [DOMAIN items -> WorkItem]
  <2>1. ASSUME NEW j \in DOMAIN items
        PROVE  failed[j] \in WorkItem
    <3> HIDE DEF failed, again
    <3>1. CASE j # i
      BY <1>1, <1>3, <3>1
    <3>2. CASE j = i
      <4>1. \A x \in WorkItem, b \in BOOLEAN :
                [x EXCEPT !.state = "FAILED", !.read = b] \in WorkItem
        BY DEF WorkItem, AllStates, TerminalStates
      <4>2. failed[j] = [items[j] EXCEPT !.state = "FAILED", !.read = again]
        BY <1>3, <3>2
      <4>3. items[j] \in WorkItem /\ again \in BOOLEAN
        BY <1>1, <1>2
      <4> QED
        BY <4>1, <4>2, <4>3, Zenon
    <3> QED
      BY <3>1, <3>2
  <2> QED
    BY <2>1
<1>5. SameRows(items, failed)
  BY <1>1, <1>4, TableIsSeq
<1>6. ASSUME NEW j \in DOMAIN items
      PROVE  RowStep(j, items[j], failed[j])
  <2> HIDE DEF failed, again
  <2>1. CASE j # i
    BY <1>3, <2>1 DEF RowStep
  <2>2. CASE j = i
    <3>1. failed[i] = [items[i] EXCEPT !.state = "FAILED", !.read = again]
      BY <1>3
    <3>2. Errored(i)
      BY DEF Errored
    <3> QED
      BY <1>1, <2>2, <3>1, <3>2 DEF RowStep, WorkItem
  <2> QED
    BY <2>1, <2>2
<1>7. CASE items' = failed
  <2> HIDE DEF failed
  <2> QED
    BY <1>5, <1>6, <1>7 DEF Evolves, Bounded, SameRows
<1>8. CASE /\ Room /\ ~HasActive(failed, d) /\ defs'[d] = "active"
           /\ items' = EnqueueFor(failed, d, WorkDir[d], items[i].attempt + 1, TRUE)
  <2>1. items[i].attempt + 1 \in Nat \ {0} /\ items[i].attempt + 1 > 1
    BY <1>2
  <2>2. Errored(i)
    BY DEF Errored
  <2> HIDE DEF failed, d, again
  <2> QED
    BY <1>2, <1>5, <1>6, <1>8, <2>1, <2>2, EnqueueEvolves
<1> QED
  BY <1>7, <1>8 DEF SessionErrorStep

LEMMA SetWorkItemStateEvolves ==
    ASSUME TypeOK, Bounded, NEW a \in Agents, NEW i \in DOMAIN items,
           NEW outcome \in {"COMPLETE", "FAILED", "sessionError"},
           SetWorkItemState(a, i, outcome), UNCHANGED defs
    PROVE  Evolves
<1>1. CASE UNCHANGED items
  BY <1>1, UnchangedEvolves
<1>2. CASE items[i].state \in InFlightStates /\ SessionErrorStep(i)
  BY <1>2, SessionErrorEvolves
<1>3. CASE items[i].state \in InFlightStates /\ outcome # "sessionError"
           /\ items' = SetStates(items, {i}, outcome)
  <2>1. outcome \in AllStates /\ outcome # "READY"
    BY <1>3 DEF AllStates, TerminalStates
  <2> QED
    BY <1>3, <2>1, SetStatesEvolves
<1> QED
  BY <1>1, <1>2, <1>3 DEF SetWorkItemState

LEMMA ClaimEvolves ==
    ASSUME TypeOK, Bounded, NEW a \in Agents, Claim(a)
    PROVE  Evolves
<1> DEFINE i == offer[a]
<1>1. items \in Seq(WorkItem) /\ \A j \in DOMAIN items : items[j] \in WorkItem
  BY ElementOfSeq, LenProperties DEF TypeOK
<1>2. i \in DOMAIN items /\ items[i].state = "READY" /\ items' = Lease(items, i, a)
  BY DEF Claim, Claimable, TypeOK
<1>3. Granted(i)
  BY DEF Granted
<1> HIDE DEF i
<1>4. /\ SameRows(items, items')
      /\ items'[i].state = "IN_PROGRESS"
      /\ items'[i].member = a
      /\ items'[i].def = items[i].def
      /\ items'[i].dir = items[i].dir
      /\ items'[i].attempt = items[i].attempt
      /\ items'[i].held = items[i].held
      /\ items'[i].read = items[i].read
      /\ \A j \in DOMAIN items : j # i => items'[j] = items[j]
  BY <1>1, <1>2, LeaseFacts
<1>5. ASSUME NEW j \in DOMAIN items
      PROVE  RowStep(j, items[j], items'[j])
  <2>1. CASE j # i
    BY <1>4, <2>1 DEF RowStep
  <2>2. CASE j = i
    BY <1>1, <1>2, <1>3, <1>4, <2>2 DEF RowStep, WorkItem
  <2> QED
    BY <2>1, <2>2
<1> QED
  BY <1>4, <1>5 DEF Evolves, Bounded, SameRows

LEMMA BackoffPassesEvolves ==
    ASSUME TypeOK, Bounded, NEW i \in DOMAIN items, BackoffPasses(i)
    PROVE  Evolves
<1>1. items \in Seq(WorkItem) /\ \A j \in DOMAIN items : items[j] \in WorkItem
  BY ElementOfSeq, LenProperties DEF TypeOK
<1>2. items' = [items EXCEPT ![i].held = FALSE]
  BY DEF BackoffPasses
<1>3. items' \in [DOMAIN items -> WorkItem]
  BY <1>1, <1>2 DEF WorkItem
<1>4. SameRows(items, items')
  BY <1>1, <1>3, TableIsSeq
<1>5. \A j \in DOMAIN items : RowStep(j, items[j], items'[j])
  BY <1>1, <1>2 DEF RowStep, WorkItem
<1> QED
  BY <1>4, <1>5 DEF Evolves, Bounded, SameRows

-----------------------------------------------------------------------------
(* Every step. *)

LEMMA PersonStepShape ==
    ASSUME TypeOK, Bounded, PersonStep
    PROVE  Evolves
<1>1. ASSUME NEW d \in Defs, NEW p \in BOOLEAN, NEW e \in BOOLEAN, CreateDef(d, p, e)
      PROVE  Evolves
  BY <1>1, UnchangedEvolves, FirstAttemptEvolves DEF CreateDef, TypeOK
<1>2. ASSUME NEW d \in Defs, NEW e \in BOOLEAN, ActivateDef(d, e)
      PROVE  Evolves
  BY <1>2, UnchangedEvolves, FirstAttemptEvolves DEF ActivateDef, TypeOK
<1>3. ASSUME NEW d \in Defs, RunDef(d)
      PROVE  Evolves
  BY <1>3, FirstAttemptEvolves DEF RunDef
<1>4. ASSUME NEW d \in Defs, DeleteDef(d)
      PROVE  Evolves
  <2>1. "CANCELED" \in AllStates /\ "CANCELED" # "READY"
    BY DEF AllStates, TerminalStates
  <2>2. \A i \in DOMAIN items : i \in ActiveItems(items, d) =>
            items[i].state = "READY" \/ items[i].state \in InFlightStates
    BY DEF ActiveItems, InState, ActiveStates, InFlightStates
  <2>3. items' = SetStates(items, ActiveItems(items, d), "CANCELED")
    BY <1>4 DEF DeleteDef
  <2> QED
    BY <2>1, <2>2, <2>3, SetStatesEvolves
<1>5. ASSUME NEW i \in DOMAIN items, CancelItem(i)
      PROVE  Evolves
  <2>1. "CANCELED" \in AllStates
    BY DEF AllStates, TerminalStates
  <2> QED
    BY <1>5, <2>1, SetStatesEvolves DEF CancelItem
<1>6. ASSUME NEW i \in DOMAIN items, NEW r \in BOOLEAN, ForceFail(i, r)
      PROVE  Evolves
  BY <1>6, ForceFailEvolves
<1>7. ASSUME NEW a \in Agents, Dismiss(a)
      PROVE  Evolves
  BY <1>7, ForgetEvolves DEF Dismiss, RemoveMember
<1>8. ASSUME NEW a \in Agents, BeginStop(a)
      PROVE  Evolves
  BY <1>8, UnchangedEvolves DEF BeginStop, daemonVars
<1>9. CASE SetPaused
  BY <1>9, UnchangedEvolves DEF SetPaused
<1>10. CASE SetExclusive
  BY <1>10, UnchangedEvolves DEF SetExclusive
<1> QED
  BY <1>1, <1>2, <1>3, <1>4, <1>5, <1>6, <1>7, <1>8, <1>9, <1>10 DEF PersonStep

LEMMA DaemonStepShape ==
    ASSUME TypeOK, Bounded, DaemonStep
    PROVE  Evolves
<1>1. ASSUME NEW i \in DOMAIN items, BackoffPasses(i)
      PROVE  Evolves
  BY <1>1, BackoffPassesEvolves
<1>2. ASSUME NEW S \in SUBSET Agents, Reap(S)
      PROVE  Evolves
  <2> DEFINE M == UNION {HeldBy(items, a, {"IN_PROGRESS"}) : a \in S}
  <2>1. "MORIBUND" \in AllStates /\ "MORIBUND" # "READY"
    BY DEF AllStates, ActiveStates
  <2>2. \A i \in DOMAIN items : i \in M => items[i].state \in InFlightStates
    BY DEF HeldBy, InState, InFlightStates
  <2>3. items' = SetStates(items, M, "MORIBUND")
    BY <1>2 DEF Reap
  <2> HIDE DEF M
  <2> QED
    BY <2>1, <2>2, <2>3, SetStatesEvolves
<1>3. CASE SetReady
  BY <1>3, UnchangedEvolves DEF SetReady
<1>4. CASE Boot
  <2>1. "MORIBUND" \in AllStates /\ "MORIBUND" # "READY"
    BY DEF AllStates, ActiveStates
  <2>2. \A i \in DOMAIN items : i \in InState(items, {"IN_PROGRESS"}) =>
            items[i].state \in InFlightStates
    BY DEF InState, InFlightStates
  <2>3. items' = SetStates(items, InState(items, {"IN_PROGRESS"}), "MORIBUND")
    BY <1>4 DEF Boot
  <2> QED
    BY <2>1, <2>2, <2>3, SetStatesEvolves
<1> QED
  BY <1>1, <1>2, <1>3, <1>4 DEF DaemonStep

LEMMA AgentStepShape ==
    ASSUME TypeOK, Bounded, NEW a \in Agents, AgentStep(a)
    PROVE  Evolves
<1>1. CASE Start(a) \/ HeartbeatUnknown(a) \/ NextWork(a) \/ ClaimRefused(a) \/ Exit(a)
  BY <1>1, UnchangedEvolves
     DEF Start, HeartbeatUnknown, NextWork, ClaimRefused, Exit, daemonVars
<1>2. CASE Register(a)
  BY <1>2, UnchangedEvolves DEF Register
<1>3. CASE HeartbeatKnown(a)
  <2>1. "IN_PROGRESS" \in AllStates /\ "IN_PROGRESS" # "READY"
    BY DEF AllStates, ActiveStates
  <2>2. \A i \in DOMAIN items : i \in HeldBy(items, a, {"MORIBUND"}) =>
            items[i].state \in InFlightStates
    BY DEF HeldBy, InState, InFlightStates
  <2>3. CASE items' = SetStates(items, HeldBy(items, a, {"MORIBUND"}), "IN_PROGRESS")
    BY <2>1, <2>2, <2>3, SetStatesEvolves
  <2>4. CASE UNCHANGED items
    BY <2>4, UnchangedEvolves
  <2> QED
    BY <1>3, <2>3, <2>4 DEF HeartbeatKnown
<1>4. CASE Claim(a)
  BY <1>4, ClaimEvolves
<1>5. ASSUME NEW outcome \in {"COMPLETE", "FAILED", "sessionError"}, Report(a, outcome)
      PROVE  Evolves
  <2>1. work[a] \in DOMAIN items
    BY <1>5 DEF Report, TypeOK
  <2>2. CASE SetWorkItemState(a, work[a], outcome)
    BY <1>5, <2>1, <2>2, SetWorkItemStateEvolves DEF Report
  <2>3. CASE UNCHANGED items
    BY <2>3, UnchangedEvolves
  <2> QED
    BY <1>5, <2>2, <2>3 DEF Report
<1>6. CASE FailMidRun(a)
  <2>1. work[a] \in DOMAIN items
    BY <1>6 DEF FailMidRun, TypeOK
  <2>2. "FAILED" \in {"COMPLETE", "FAILED", "sessionError"}
    OBVIOUS
  <2> QED
    BY <1>6, <2>1, <2>2, SetWorkItemStateEvolves DEF FailMidRun
<1>7. CASE Deregister(a)
  BY <1>7, ForgetEvolves DEF Deregister, RemoveMember
<1> QED
  BY <1>1, <1>2, <1>3, <1>4, <1>5, <1>6, <1>7 DEF AgentStep

LEMMA StepShape ==
    ASSUME TypeOK, Bounded, [Next]_vars
    PROVE  Evolves
<1>1. CASE UNCHANGED vars
  BY <1>1, UnchangedEvolves DEF vars, daemonVars
<1> QED
  BY <1>1, PersonStepShape, DaemonStepShape, AgentStepShape DEF Next

-----------------------------------------------------------------------------
(* Type correctness. *)

Typed == TypeOK /\ Bounded

LEMMA TypedInit == Init => Typed
<1> SUFFICES ASSUME Init PROVE Typed
  OBVIOUS
<1>1. items \in Seq(WorkItem) /\ Len(items) = 0
  BY EmptySeq DEF Init
<1>2. Bounded
  BY <1>1, BoundsAssumption DEF Bounded
<1> QED
  BY <1>1, <1>2 DEF Init, Typed, TypeOK

\* What is left to show of a step once StepShape has dealt with the table.
LEMMA TypedFromTable ==
    ASSUME Typed, Evolves,
           defs' \in [Defs -> {"absent", "pending", "active"}],
           members' \in [Agents -> {"absent", "online", "offline"}],
           dismissed' \subseteq Agents,
           <<paused', ready', exclusive'>> \in BOOLEAN \X BOOLEAN \X BOOLEAN,
           proc' \in [Agents -> {"down", "joining", "up", "leaving"}],
           offer' \in [Agents -> DOMAIN items \union {0}],
           work' \in [Agents -> DOMAIN items \union {0}]
    PROVE  Typed'
  BY DEF Typed, TypeOK, Bounded, Evolves

LEMMA TypedStep ==
    ASSUME Typed, [Next]_vars
    PROVE  Typed'
<1> USE DEF Typed
<1>0. Evolves
  BY StepShape
<1>1. CASE UNCHANGED vars
  BY <1>0, <1>1, TypedFromTable DEF vars, daemonVars, agentVars, TypeOK
<1>2. CASE PersonStep
  <2>1. UNCHANGED <<members, dismissed, ready, offer, work>> \/ \E a \in Agents : Dismiss(a)
    BY <1>2 DEF PersonStep, CreateDef, ActivateDef, RunDef, DeleteDef, CancelItem, ForceFail,
                BeginStop, SetPaused, SetExclusive, switches, agentVars, daemonVars
  <2> QED
    BY <1>0, <1>2, TypedFromTable
       DEF TypeOK, PersonStep, CreateDef, ActivateDef, RunDef, DeleteDef, CancelItem, ForceFail,
           Dismiss, RemoveMember, BeginStop, SetPaused, SetExclusive, switches, agentVars,
           daemonVars
<1>3. CASE DaemonStep
  <2>1. ASSUME NEW i \in DOMAIN items, BackoffPasses(i)
        PROVE  Typed'
    BY <1>0, <2>1, TypedFromTable DEF TypeOK, BackoffPasses, switches, agentVars
  <2>2. ASSUME NEW S \in SUBSET Agents, Reap(S)
        PROVE  Typed'
    BY <1>0, <2>2, TypedFromTable DEF TypeOK, Reap, switches, agentVars
  <2>3. CASE SetReady
    BY <1>0, <2>3, TypedFromTable DEF TypeOK, SetReady, agentVars
  <2>4. CASE Boot
    BY <1>0, <2>4, TypedFromTable DEF TypeOK, Boot, agentVars
  <2> QED
    BY <1>3, <2>1, <2>2, <2>3, <2>4 DEF DaemonStep
<1>4. ASSUME NEW a \in Agents, AgentStep(a)
      PROVE  Typed'
  <2>1. Touch(a) => members' \in [Agents -> {"absent", "online", "offline"}]
    BY DEF TypeOK, Touch
  <2>2. CASE Start(a) \/ HeartbeatUnknown(a) \/ Exit(a)
    BY <1>0, <2>2, TypedFromTable
       DEF TypeOK, Start, HeartbeatUnknown, Exit, daemonVars
  <2>3. CASE Register(a) \/ HeartbeatKnown(a) \/ Deregister(a)
    BY <1>0, <2>3, TypedFromTable
       DEF TypeOK, Register, HeartbeatKnown, Deregister, RemoveMember, switches, agentVars
  <2>4. CASE NextWork(a)
    <3>1. Matching(a) \subseteq DOMAIN items
      BY DEF Matching, OwnDirectory, NoDirectory, OrphanDirectory, Candidates, InState
    <3> QED
      BY <1>0, <2>4, <3>1, TypedFromTable DEF TypeOK, NextWork, daemonVars
  <2>5. CASE Claim(a) \/ ClaimRefused(a)
    BY <1>0, <2>1, <2>5, TypedFromTable DEF TypeOK, Claim, ClaimRefused, switches, daemonVars
  <2>6. ASSUME NEW outcome \in {"COMPLETE", "FAILED", "sessionError"}, Report(a, outcome)
        PROVE  Typed'
    BY <1>0, <2>1, <2>6, TypedFromTable DEF TypeOK, Report, SetWorkItemState, switches
  <2>7. CASE FailMidRun(a)
    BY <1>0, <2>1, <2>7, TypedFromTable
       DEF TypeOK, FailMidRun, SetWorkItemState, switches, agentVars
  <2> QED
    BY <1>4, <2>2, <2>3, <2>4, <2>5, <2>6, <2>7 DEF AgentStep
<1> QED
  BY <1>1, <1>2, <1>3, <1>4 DEF Next

\* The table holds at most MaxItems rows and every variable has its type
\* (the tables of src/daemon/store/queue.ts and members.ts).
THEOREM TypeCorrect == Spec => [](TypeOK /\ Bounded)
<1>1. Init => Typed
  BY TypedInit
<1>2. Typed /\ [Next]_vars => Typed'
  BY TypedStep
<1>3. Typed => TypeOK /\ Bounded
  BY DEF Typed
<1> QED
  BY <1>1, <1>2, <1>3, PTL DEF Spec

-----------------------------------------------------------------------------
(* One active item of each WorkDef. *)

\* The rows of Create, Activate, Run, retry, force-fail and re-enqueue never
\* leave a WorkDef with two active items (getActiveWorkItem, enqueueFor).
LEMMA OneActiveStep ==
    ASSUME Typed, OneActive, [Next]_vars
    PROVE  OneActive'
<1>1. Evolves
  BY StepShape DEF Typed
<1> SUFFICES ASSUME NEW i \in DOMAIN items', NEW j \in DOMAIN items', i # j,
                    items'[i].state \in ActiveStates, items'[j].state \in ActiveStates,
                    items'[i].def = items'[j].def
             PROVE  FALSE
  BY DEF OneActive, InState
<1>2. i \in DOMAIN items /\ j \in DOMAIN items
  BY <1>1 DEF Evolves, AloneActive
<1>3. RowStep(i, items[i], items'[i]) /\ RowStep(j, items[j], items'[j])
  BY <1>1, <1>2 DEF Evolves
<1>4. /\ items[i].state \in ActiveStates
      /\ items[j].state \in ActiveStates
      /\ items[i].def = items[j].def
  BY <1>3 DEF RowStep, ActiveStates, InFlightStates
<1> QED
  BY <1>2, <1>4 DEF OneActive, InState

\* However Create, Activate, Run, retry, force-fail and re-enqueue interleave, a
\* WorkDef never has two active items (getActiveWorkItem and its callers).
THEOREM OneActiveCorrect == Spec => []OneActive
<1>1. Init => OneActive
  BY DEF Init, OneActive, InState
<1>2. Typed /\ OneActive /\ [Next]_vars => OneActive'
  BY OneActiveStep
<1>3. Spec => []Typed
  BY TypeCorrect, PTL DEF Typed
<1> QED
  BY <1>1, <1>2, <1>3, PTL DEF Spec

-----------------------------------------------------------------------------
(* The life of a row. *)

\* No step changes what a row is, revives an ended one or makes a claimed
\* one READY again.
THEOREM ItemLifecycleCorrect == Spec => ItemLifecycle
<1> DEFINE A == /\ DOMAIN items \subseteq DOMAIN items'
                /\ \A i \in DOMAIN items :
                     /\ items'[i].def = items[i].def
                     /\ items'[i].dir = items[i].dir
                     /\ items'[i].attempt = items[i].attempt
                     /\ items[i].state \in TerminalStates => items'[i].state = items[i].state
                     /\ items[i].state \in InFlightStates => items'[i].state # "READY"
<1>1. ASSUME Typed, [Next]_vars
      PROVE  A
  <2>1. Evolves
    BY <1>1, StepShape DEF Typed
  <2>2. ASSUME NEW i \in DOMAIN items
        PROVE  /\ items'[i].def = items[i].def
               /\ items'[i].dir = items[i].dir
               /\ items'[i].attempt = items[i].attempt
               /\ items[i].state \in TerminalStates => items'[i].state = items[i].state
               /\ items[i].state \in InFlightStates => items'[i].state # "READY"
    <3>1. RowStep(i, items[i], items'[i])
      BY <2>1 DEF Evolves
    <3> QED
      BY <3>1 DEF RowStep, TerminalStates, InFlightStates
  <2> QED
    BY <2>1, <2>2 DEF Evolves
<1>2. Spec => []Typed
  BY TypeCorrect, PTL DEF Typed
<1>3. Typed /\ [Next]_vars => [A]_vars
  BY <1>1
<1> HIDE DEF A
<1>4. Spec => [][A]_vars
  BY <1>2, <1>3, PTL DEF Spec
<1> QED
  BY <1>4 DEF A, ItemLifecycle

-----------------------------------------------------------------------------
(* One runner of each item. *)

\* Teammates only forget what they run, except for one that claims.
RunnersShrink == \A a \in Agents : work'[a] \in {0, work[a]}

Started(a) == Claim(a) /\ work' = [work EXCEPT ![a] = offer[a]]

LEMMA WorkShape ==
    ASSUME Typed, [Next]_vars
    PROVE  RunnersShrink \/ \E a \in Agents : Started(a)
<1> USE DEF Typed, TypeOK, RunnersShrink
<1>1. CASE UNCHANGED vars
  BY <1>1 DEF vars, agentVars
<1>2. CASE PersonStep
  BY <1>2 DEF PersonStep, CreateDef, ActivateDef, RunDef, DeleteDef, CancelItem, ForceFail,
              Dismiss, BeginStop, SetPaused, SetExclusive, agentVars
<1>3. CASE DaemonStep
  BY <1>3 DEF DaemonStep, BackoffPasses, Reap, SetReady, Boot, agentVars
<1>4. ASSUME NEW a \in Agents, AgentStep(a)
      PROVE  RunnersShrink \/ Started(a)
  <2>1. CASE Claim(a)
    BY <2>1 DEF Claim, Started
  <2>2. CASE UNCHANGED work
    BY <2>2
  <2>3. CASE work' = [work EXCEPT ![a] = 0]
    BY <2>3
  <2> QED
    BY <1>4, <2>1, <2>2, <2>3
       DEF AgentStep, Start, Register, HeartbeatKnown, HeartbeatUnknown, NextWork, ClaimRefused,
           Report, FailMidRun, Deregister, Exit, agentVars
<1> QED
  BY <1>1, <1>2, <1>3, <1>4 DEF Next

\* What a claim that is granted writes.
LEMMA ClaimWrites ==
    ASSUME Typed, NEW a \in Agents, Claim(a)
    PROVE  /\ offer[a] \in DOMAIN items
           /\ items[offer[a]].state = "READY"
           /\ ~Blocked(items, offer[a], exclusive)
           /\ items'[offer[a]].state = "IN_PROGRESS"
           /\ items'[offer[a]].member = a
           /\ items'[offer[a]].dir = items[offer[a]].dir
           /\ DOMAIN items' = DOMAIN items
           /\ \A j \in DOMAIN items : j # offer[a] => items'[j] = items[j]
<1>1. /\ offer[a] \in DOMAIN items
      /\ items[offer[a]].state = "READY"
      /\ ~Blocked(items, offer[a], exclusive)
      /\ items' = Lease(items, offer[a], a)
  BY DEF Typed, TypeOK, Claim, Claimable
<1>2. items \in Seq(WorkItem)
  BY DEF Typed, TypeOK
<1>3. /\ Lease(items, offer[a], a)[offer[a]].state = "IN_PROGRESS"
      /\ Lease(items, offer[a], a)[offer[a]].member = a
      /\ Lease(items, offer[a], a)[offer[a]].dir = items[offer[a]].dir
      /\ SameRows(items, Lease(items, offer[a], a))
      /\ \A j \in DOMAIN items : j # offer[a] => Lease(items, offer[a], a)[j] = items[j]
  BY <1>1, <1>2, LeaseFacts
<1> QED
  BY <1>1, <1>3 DEF SameRows

\* A row that some teammate is running, and that is not being claimed, stays
\* out of READY and with its holder.
LEMMA RunningRowStays ==
    ASSUME Typed, Evolves, NEW i \in DOMAIN items, NEW a \in Agents,
           items[i].state # "READY", items[i].member \in {a, NoMember}
    PROVE  items'[i].state # "READY" /\ items'[i].member \in {a, NoMember}
  BY DEF Evolves, RowStep

LEMMA OneRunnerStep ==
    ASSUME Typed, OneRunner, [Next]_vars
    PROVE  OneRunner'
<1>1. Evolves
  BY StepShape DEF Typed
<1>2. \A a \in Agents : work[a] # 0 => work[a] \in DOMAIN items
  BY DEF Typed, TypeOK
<1>3. ASSUME NEW a \in Agents, work'[a] = work[a], work[a] # 0
      PROVE  items'[work[a]].state # "READY" /\ items'[work[a]].member \in {a, NoMember}
  BY <1>1, <1>2, <1>3, RunningRowStays DEF OneRunner
<1>4. CASE RunnersShrink
  BY <1>3, <1>4 DEF RunnersShrink, OneRunner
<1>5. ASSUME NEW c \in Agents, Started(c)
      PROVE  OneRunner'
  <2>1. /\ items[offer[c]].state = "READY"
        /\ items'[offer[c]].state = "IN_PROGRESS"
        /\ items'[offer[c]].member = c
    BY <1>5, ClaimWrites DEF Started
  <2>2. work'[c] = offer[c] /\ \A a \in Agents \ {c} : work'[a] = work[a]
    BY <1>5 DEF Started, Typed, TypeOK
  <2>3. \A a \in Agents : work[a] # 0 => work[a] # offer[c]
    BY <2>1 DEF OneRunner
  <2>4. ASSUME NEW a \in Agents, work'[a] # 0
        PROVE  /\ items'[work'[a]].state # "READY"
               /\ items'[work'[a]].member \in {a, NoMember}
    BY <1>3, <2>1, <2>2, <2>4
  <2>5. ASSUME NEW a \in Agents, NEW b \in Agents, work'[a] # 0, work'[b] = work'[a]
        PROVE  b = a
    BY <2>2, <2>3, <2>5 DEF OneRunner
  <2> QED
    BY <2>4, <2>5 DEF OneRunner
<1> QED
  BY <1>4, <1>5, WorkShape

\* No interleaving of polls, claims, lost replies, restarts and removals
\* hands an item to two teammates (claimWorkItem).
THEOREM OneRunnerCorrect == Spec => []OneRunner
<1>1. Init => OneRunner
  BY DEF Init, OneRunner
<1>2. Typed /\ OneRunner /\ [Next]_vars => OneRunner'
  BY OneRunnerStep
<1>3. Spec => []Typed
  BY TypeCorrect, PTL DEF Typed
<1> QED
  BY <1>1, <1>2, <1>3, PTL DEF Spec

-----------------------------------------------------------------------------
(* Retries wait. *)

\* BackoffRespected is not inductive: it also takes that only retries are
\* held and that nothing held was ever offered.
BackoffInv ==
    /\ BackoffRespected
    /\ \A i \in DOMAIN items : items[i].held => items[i].attempt > 1
    /\ \A a \in Agents : offer[a] # 0 => ~items[offer[a]].held

\* Offers are forgotten or made of a candidate.
LEMMA OfferShape ==
    ASSUME Typed, [Next]_vars, NEW a \in Agents
    PROVE  offer'[a] \in {0, offer[a]} \union Candidates
<1> USE DEF Typed, TypeOK
<1>1. CASE UNCHANGED vars
  BY <1>1 DEF vars, agentVars
<1>2. CASE PersonStep
  BY <1>2 DEF PersonStep, CreateDef, ActivateDef, RunDef, DeleteDef, CancelItem, ForceFail,
              Dismiss, BeginStop, SetPaused, SetExclusive, agentVars
<1>3. CASE DaemonStep
  BY <1>3 DEF DaemonStep, BackoffPasses, Reap, SetReady, Boot, agentVars
<1>4. ASSUME NEW b \in Agents, AgentStep(b)
      PROVE  offer'[a] \in {0, offer[a]} \union Candidates
  <2>1. CASE NextWork(b)
    <3>1. Matching(b) \subseteq Candidates
      BY DEF Matching, OwnDirectory, NoDirectory, OrphanDirectory
    <3> QED
      BY <2>1, <3>1 DEF NextWork
  <2>2. CASE UNCHANGED offer
    BY <2>2
  <2>3. CASE offer' = [offer EXCEPT ![b] = 0]
    BY <2>3
  <2> QED
    BY <1>4, <2>1, <2>2, <2>3
       DEF AgentStep, Start, Register, HeartbeatKnown, HeartbeatUnknown, Claim, ClaimRefused,
           Report, FailMidRun, Deregister, Exit, agentVars
<1> QED
  BY <1>1, <1>2, <1>3, <1>4 DEF Next

LEMMA BackoffStep ==
    ASSUME Typed, BackoffInv, [Next]_vars
    PROVE  BackoffInv'
<1>1. Evolves
  BY StepShape DEF Typed
<1>2. ASSUME NEW i \in DOMAIN items', items'[i].held
      PROVE  items'[i].state \in {"READY", "CANCELED"} /\ items'[i].attempt > 1
  <2>1. CASE i \notin DOMAIN items
    BY <1>1, <1>2, <2>1 DEF Evolves, NewRow
  <2>2. CASE i \in DOMAIN items
    <3>1. RowStep(i, items[i], items'[i])
      BY <1>1, <2>2 DEF Evolves
    <3>2. /\ items[i].held
          /\ items[i].attempt > 1
          /\ items[i].state \in {"READY", "CANCELED"}
      BY <1>2, <2>2, <3>1 DEF RowStep, BackoffInv, BackoffRespected
    <3>3. ~Granted(i)
      <4>1. \A a \in Agents : Claim(a) /\ offer[a] = i => offer[a] # 0
        BY DEF Claim
      <4> QED
        BY <3>2, <4>1 DEF Granted, BackoffInv
    <3> QED
      BY <3>1, <3>2, <3>3 DEF RowStep, InFlightStates
  <2> QED
    BY <2>1, <2>2
<1>3. ASSUME NEW a \in Agents, offer'[a] # 0
      PROVE  ~items'[offer'[a]].held
  <2>1. offer'[a] = offer[a] \/ offer'[a] \in Candidates
    BY <1>3, OfferShape
  <2>2. offer'[a] \in DOMAIN items
    BY <1>3, <2>1 DEF Typed, TypeOK, Candidates, InState
  <2>3. ~items[offer'[a]].held
    BY <1>3, <2>1, <2>2 DEF BackoffInv, Candidates, RetryDue
  <2> QED
    BY <1>1, <2>2, <2>3 DEF Evolves, RowStep
<1> QED
  BY <1>2, <1>3 DEF BackoffInv, BackoffRespected

\* A retry is not in flight before its backoff has passed (isRetryDue is
\* asked when the item is offered, not when it is claimed).
THEOREM BackoffRespectedCorrect == Spec => []BackoffRespected
<1>1. Init => BackoffInv
  BY DEF Init, BackoffInv, BackoffRespected
<1>2. Typed /\ BackoffInv /\ [Next]_vars => BackoffInv'
  BY BackoffStep
<1>3. BackoffInv => BackoffRespected
  BY DEF BackoffInv
<1>4. Spec => []Typed
  BY TypeCorrect, PTL DEF Typed
<1> QED
  BY <1>1, <1>2, <1>3, <1>4, PTL DEF Spec

-----------------------------------------------------------------------------
(* Automatic retries. *)

\* RetryChain is not inductive: a session error chains the retry to the row
\* that failed, so that row must be the last one of its WorkDef, and it is
\* marked read even if nothing is enqueued, so its WorkDef must be active.
LastOfDef ==
    \A i \in InState(items, ActiveStates) :
        /\ defs[items[i].def] = "active"
        /\ \A k \in DOMAIN items : items[k].def = items[i].def => k <= i

ChainInv == RetryChain /\ LastOfDef

\* An active WorkDef stays active until it is deleted.
LEMMA DefsShape ==
    ASSUME Typed, [Next]_vars, NEW d \in Defs, defs[d] = "active"
    PROVE  defs'[d] = "active" \/ DeleteDef(d)
<1> USE DEF Typed, TypeOK
<1>1. CASE UNCHANGED vars
  BY <1>1 DEF vars, daemonVars
<1>2. CASE PersonStep
  <2>1. ASSUME NEW e \in Defs, NEW p \in BOOLEAN, NEW q \in BOOLEAN, CreateDef(e, p, q)
        PROVE  defs'[d] = "active"
    BY <2>1 DEF CreateDef
  <2>2. ASSUME NEW e \in Defs, NEW q \in BOOLEAN, ActivateDef(e, q)
        PROVE  defs'[d] = "active"
    BY <2>2 DEF ActivateDef
  <2>3. ASSUME NEW e \in Defs, DeleteDef(e)
        PROVE  defs'[d] = "active" \/ DeleteDef(d)
    <3>1. CASE e = d
      BY <2>3, <3>1
    <3>2. CASE e # d
      BY <2>3, <3>2 DEF DeleteDef
    <3> QED
      BY <3>1, <3>2
  <2> QED
    BY <1>2, <2>1, <2>2, <2>3
       DEF PersonStep, RunDef, CancelItem, ForceFail, Dismiss, BeginStop, SetPaused,
           SetExclusive, daemonVars
<1>3. CASE DaemonStep
  BY <1>3 DEF DaemonStep, BackoffPasses, Reap, SetReady, Boot
<1>4. ASSUME NEW a \in Agents, AgentStep(a)
      PROVE  defs'[d] = "active"
  BY <1>4 DEF AgentStep, Start, Register, HeartbeatKnown, HeartbeatUnknown, NextWork, Claim,
              ClaimRefused, Report, FailMidRun, Deregister, Exit, daemonVars
<1> QED
  BY <1>1, <1>2, <1>3, <1>4 DEF Next

LEMMA DeleteClears ==
    ASSUME Typed, NEW i \in DOMAIN items, DeleteDef(items[i].def)
    PROVE  items'[i].state \notin ActiveStates
<1>1. items \in Seq(WorkItem) /\ items[i] \in WorkItem
  BY ElementOfSeq, LenProperties DEF Typed, TypeOK
<1>2. items'[i] = SetRow(items[i], i \in ActiveItems(items, items[i].def), "CANCELED")
  BY <1>1, SetStatesFacts DEF DeleteDef, AllStates, TerminalStates
<1> QED
  BY <1>1, <1>2 DEF SetRow, WorkItem, ActiveItems, InState, ActiveStates

LEMMA LastOfDefStep ==
    ASSUME Typed, LastOfDef, [Next]_vars
    PROVE  LastOfDef'
<1>1. Evolves
  BY StepShape DEF Typed
<1>2. /\ Len(items) \in Nat /\ DOMAIN items = 1 .. Len(items)
      /\ \A i \in DOMAIN items : items[i] \in WorkItem
  BY ElementOfSeq, LenProperties DEF Typed, TypeOK
<1>3. \A k \in DOMAIN items' : k \in DOMAIN items \/ k = Len(items) + 1
  BY <1>1 DEF Evolves, NewRow
<1> SUFFICES ASSUME NEW i \in DOMAIN items', items'[i].state \in ActiveStates
             PROVE  /\ defs'[items'[i].def] = "active"
                    /\ \A k \in DOMAIN items' : items'[k].def = items'[i].def => k <= i
  BY DEF LastOfDef, InState
<1>4. CASE i \notin DOMAIN items
  <2>1. i = Len(items) + 1 /\ defs'[items'[i].def] = "active"
    BY <1>1, <1>4 DEF Evolves, NewRow
  <2> QED
    BY <1>2, <1>3, <2>1
<1>5. CASE i \in DOMAIN items
  <2>1. RowStep(i, items[i], items'[i])
    BY <1>1, <1>5 DEF Evolves
  <2>2. items[i].state \in ActiveStates /\ items'[i].def = items[i].def
    BY <2>1 DEF RowStep, ActiveStates, InFlightStates
  <2>3. defs'[items[i].def] = "active"
    <3>1. items[i].def \in Defs /\ defs[items[i].def] = "active"
      BY <1>2, <1>5, <2>2 DEF WorkItem, LastOfDef, InState
    <3> QED
      BY <1>5, <3>1, DefsShape, DeleteClears
  <2>4. ASSUME NEW k \in DOMAIN items', items'[k].def = items'[i].def
        PROVE  k <= i
    <3>1. CASE k \in DOMAIN items
      BY <1>1, <1>5, <2>2, <2>4, <3>1 DEF Evolves, RowStep, LastOfDef, InState
    <3>2. CASE k \notin DOMAIN items
      BY <1>1, <1>5, <2>4, <3>2 DEF Evolves, AloneActive
    <3> QED
      BY <3>1, <3>2
  <2> QED
    BY <2>2, <2>3, <2>4
<1> QED
  BY <1>4, <1>5

\* What a session error writes: the row fails, and it is marked read exactly
\* when its next attempt is enqueued.
LEMMA ErroredWrites ==
    ASSUME Typed, LastOfDef, NEW i \in DOMAIN items, Errored(i)
    PROVE  /\ items'[i].state = "FAILED"
           /\ \/ DOMAIN items' = DOMAIN items /\ items'[i].read = FALSE
              \/ /\ items[i].attempt < MaxAttempts /\ items'[i].read = TRUE
                 /\ DOMAIN items' = DOMAIN items \union {Len(items) + 1}
                 /\ items'[Len(items) + 1].def = items[i].def
                 /\ items'[Len(items) + 1].attempt = items[i].attempt + 1
<1> DEFINE d == items[i].def
           again == items[i].attempt < MaxAttempts /\ defs[d] # "absent"
           failed == [items EXCEPT ![i].state = "FAILED", ![i].read = again]
<1>1. /\ items \in Seq(WorkItem) /\ \A j \in DOMAIN items : items[j] \in WorkItem
      /\ Len(items) \in Nat /\ DOMAIN items = 1 .. Len(items)
  BY ElementOfSeq, LenProperties DEF Typed, TypeOK
<1>2. /\ d \in Defs /\ defs[d] = "active"
      /\ \A k \in DOMAIN items : items[k].def = d => k <= i
  <2>1. i \in InState(items, ActiveStates)
    BY DEF Errored, InState, InFlightStates, ActiveStates
  <2> QED
    BY <1>1, <2>1 DEF LastOfDef, WorkItem
<1>3. failed[i] = [items[i] EXCEPT !.state = "FAILED", !.read = again]
  BY <1>1 DEF WorkItem
<1>4. failed[i].state = "FAILED" /\ failed[i].read = again /\ failed[i].def = d
  <2>1. items[i] \in WorkItem
    BY <1>1
  <2> HIDE DEF failed, again, d
  <2> QED
    BY <1>3, <2>1 DEF WorkItem, d
<1>5. DOMAIN failed = DOMAIN items /\ \A j \in DOMAIN items : j # i => failed[j] = items[j]
  OBVIOUS
<1>6. ~HasActive(failed, d)
  <2>1. ASSUME NEW j \in DOMAIN items, failed[j].state \in ActiveStates, failed[j].def = d
        PROVE  FALSE
    <3>1. j # i /\ failed[j] = items[j]
      BY <1>4, <1>5, <2>1 DEF ActiveStates
    <3>2. i <= j
      BY <1>1, <2>1, <3>1 DEF LastOfDef, InState
    <3>3. j <= i
      BY <1>2, <2>1, <3>1
    <3> QED
      BY <1>1, <3>1, <3>2, <3>3
  <2> QED
    BY <1>5, <2>1 DEF HasActive, ActiveItems, InState
<1>7. CASE ~again /\ items' = failed
  BY <1>4, <1>5, <1>7
<1>8. CASE again /\ items' = EnqueueFor(failed, d, WorkDir[d], items[i].attempt + 1, TRUE)
  <2>1. failed \in Seq(WorkItem) /\ Len(failed) = Len(items)
    <3>1. ASSUME NEW j \in DOMAIN items
          PROVE  failed[j] \in WorkItem
      <4>1. CASE j # i
        BY <1>1, <1>5, <4>1
      <4>2. CASE j = i
        <5>1. \A x \in WorkItem, b \in BOOLEAN :
                  [x EXCEPT !.state = "FAILED", !.read = b] \in WorkItem
          BY DEF WorkItem, AllStates, TerminalStates
        <5>2. items[i] \in WorkItem /\ again \in BOOLEAN
          BY <1>1
        <5> HIDE DEF failed, again
        <5> QED
          BY <1>3, <4>2, <5>1, <5>2, Zenon
      <4> QED
        BY <4>1, <4>2
    <3>2. failed \in [DOMAIN items -> WorkItem]
      BY <1>5, <3>1
    <3> HIDE DEF failed
    <3> QED
      BY <1>1, <3>2, TableIsSeq DEF SameRows
  <2>2. /\ items[i].attempt + 1 \in Nat \ {0}
        /\ WorkDir[d] \in Dirs \union {NoDir}
        /\ TRUE \in BOOLEAN
    BY <1>1, <1>2, WorkDirAssumption DEF WorkItem
  <2> HIDE DEF failed, d, again
  <2>3. Enqueued(failed, items', d, WorkDir[d], items[i].attempt + 1, TRUE)
    BY <1>2, <1>8, <2>1, <2>2, EnqueueFacts
  <2>4. /\ DOMAIN items' = DOMAIN items \union {Len(items) + 1}
        /\ items'[i] = failed[i]
        /\ items'[Len(items) + 1] = NewItem(d, WorkDir[d], items[i].attempt + 1, TRUE)
    BY <1>5, <2>1, <2>3 DEF Enqueued
  <2>5. /\ items'[Len(items) + 1].def = d
        /\ items'[Len(items) + 1].attempt = items[i].attempt + 1
    BY <2>4 DEF NewItem
  <2>6. items[i].attempt < MaxAttempts /\ again = TRUE
    BY <1>8 DEF again
  <2> QED
    BY <1>4, <2>4, <2>5, <2>6 DEF d
<1> QED
  BY <1>2, <1>6, <1>7, <1>8 DEF Errored, SessionErrorStep

\* Rows that are only added come after both rows of a chain's link.
LEMMA PredecessorStays ==
    ASSUME Typed, Evolves, NEW i \in DOMAIN items, NEW j \in DOMAIN items, Predecessor(i, j)
    PROVE  Predecessor(i, j)'
<1>1. Len(items) \in Nat /\ DOMAIN items = 1 .. Len(items)
  BY LenProperties DEF Typed, TypeOK
<1>2. \A k \in DOMAIN items' : k \in DOMAIN items \/ i <= k
  BY <1>1 DEF Evolves, NewRow
<1>3. \A k \in DOMAIN items : items'[k].def = items[k].def
  BY DEF Evolves, RowStep
<1> QED
  BY <1>2, <1>3 DEF Predecessor

LEMMA RetryChainStep ==
    ASSUME Typed, ChainInv, [Next]_vars
    PROVE  RetryChain'
<1>1. Evolves
  BY StepShape DEF Typed
<1>2. /\ Len(items) \in Nat /\ DOMAIN items = 1 .. Len(items)
      /\ \A i \in DOMAIN items : items[i] \in WorkItem
  BY ElementOfSeq, LenProperties DEF Typed, TypeOK
<1>3. \A k \in DOMAIN items' : k \in DOMAIN items \/ k = Len(items) + 1
  BY <1>1 DEF Evolves, NewRow
<1>4. DOMAIN items \subseteq DOMAIN items'
      /\ \A k \in DOMAIN items : RowStep(k, items[k], items'[k])
  BY <1>1 DEF Evolves
\* The link that a session error on row j adds.
<1>5. ASSUME NEW j \in DOMAIN items, Errored(j), NEW n \in DOMAIN items', n = Len(items) + 1
      PROVE  /\ Predecessor(n, j)'
             /\ items'[j].state = "FAILED" /\ items'[j].read
             /\ items'[n].attempt = items'[j].attempt + 1
             /\ items'[n].attempt <= MaxAttempts
  <2>1. /\ items'[j].state = "FAILED" /\ items'[j].read = TRUE
        /\ items[j].attempt < MaxAttempts
        /\ items'[n].def = items[j].def
        /\ items'[n].attempt = items[j].attempt + 1
    <3>1. n \notin DOMAIN items
      BY <1>2, <1>5
    <3> QED
      BY <1>5, <3>1, ErroredWrites DEF ChainInv
  <2>2. items'[j].attempt = items[j].attempt /\ items'[j].def = items[j].def
    BY <1>4 DEF RowStep
  <2>3. ASSUME NEW k \in DOMAIN items', items'[k].def = items'[n].def
        PROVE  k <= j \/ n <= k
    <3>1. j \in InState(items, ActiveStates)
      BY <1>5 DEF Errored, InState, InFlightStates, ActiveStates
    <3>2. k \in DOMAIN items => k <= j
      BY <1>4, <2>1, <2>3, <3>1 DEF RowStep, ChainInv, LastOfDef
    <3> QED
      BY <1>2, <1>3, <1>5, <3>2
  <2>4. Predecessor(n, j)'
    <3>1. j < n /\ items'[j].def = items'[n].def
      BY <1>2, <1>5, <2>1, <2>2
    <3> QED
      BY <2>3, <3>1 DEF Predecessor
  <2>5. items[j].attempt + 1 <= MaxAttempts
    BY <1>2, <2>1, BoundsAssumption DEF WorkItem
  <2> QED
    BY <2>1, <2>2, <2>4, <2>5
<1>6. ASSUME NEW i \in DOMAIN items', items'[i].attempt > 1
      PROVE  /\ items'[i].attempt <= MaxAttempts
             /\ \E j \in DOMAIN items' :
                  /\ Predecessor(i, j)'
                  /\ items'[j].state = "FAILED" /\ items'[j].read
                  /\ items'[i].attempt = items'[j].attempt + 1
  <2>1. CASE i \in DOMAIN items
    <3>1. items'[i].attempt = items[i].attempt
      BY <1>4, <2>1 DEF RowStep
    <3>2. PICK j \in DOMAIN items :
                  /\ Predecessor(i, j)
                  /\ items[j].state = "FAILED" /\ items[j].read
                  /\ items[i].attempt = items[j].attempt + 1
      BY <1>6, <2>1, <3>1 DEF ChainInv, RetryChain
    <3>3. /\ items'[j].state = "FAILED" /\ items'[j].read
          /\ items'[j].attempt = items[j].attempt
      BY <1>4, <3>2 DEF RowStep, Errored, InFlightStates
    <3>4. Predecessor(i, j)'
      BY <1>1, <2>1, <3>2, PredecessorStays
    <3>5. items[i].attempt <= MaxAttempts
      BY <1>6, <2>1, <3>1 DEF ChainInv, RetryChain
    <3> QED
      BY <1>4, <3>1, <3>2, <3>3, <3>4, <3>5
  <2>2. CASE i \notin DOMAIN items
    <3>1. i = Len(items) + 1 /\ \E j \in DOMAIN items : Errored(j)
      BY <1>1, <1>6, <2>2 DEF Evolves, NewRow
    <3> QED
      BY <1>4, <1>5, <3>1
  <2> QED
    BY <2>1, <2>2
<1>7. ASSUME NEW j \in DOMAIN items', items'[j].read
      PROVE  \E i \in DOMAIN items' :
                Predecessor(i, j)' /\ items'[i].attempt = items'[j].attempt + 1
  <2>1. j \in DOMAIN items
    BY <1>1, <1>7 DEF Evolves, NewRow
  <2>2. CASE items[j].read
    <3>1. PICK i \in DOMAIN items : Predecessor(i, j) /\ items[i].attempt = items[j].attempt + 1
      BY <2>1, <2>2 DEF ChainInv, RetryChain
    <3>2. Predecessor(i, j)'
      BY <1>1, <2>1, <3>1, PredecessorStays
    <3>3. items'[i].attempt = items[i].attempt /\ items'[j].attempt = items[j].attempt
      BY <1>4, <2>1, <3>1 DEF RowStep
    <3> QED
      BY <1>4, <3>1, <3>2, <3>3
  <2>3. CASE Errored(j)
    <3>1. PICK n \in DOMAIN items' : n = Len(items) + 1
      BY <1>7, <2>1, <2>3, ErroredWrites DEF ChainInv
    <3> QED
      BY <1>5, <2>1, <2>3, <3>1
  <2> QED
    BY <1>4, <1>7, <2>1, <2>2, <2>3 DEF RowStep
<1> QED
  BY <1>6, <1>7 DEF RetryChain

\* For any number of WorkDefs, teammates and attempts, and whatever else goes
\* wrong: every attempt after the first follows directly on a failure of its
\* WorkDef that it retries, a failure taken out of the Inbox always has its
\* retry, and no chain outgrows maxRetries (failWorkItemForSessionError).
THEOREM RetryChainCorrect == Spec => []RetryChain
<1>1. Init => ChainInv
  BY DEF Init, ChainInv, RetryChain, LastOfDef, InState
<1>2. Typed /\ ChainInv /\ [Next]_vars => ChainInv'
  BY LastOfDefStep, RetryChainStep DEF ChainInv
<1>3. ChainInv => RetryChain
  BY DEF ChainInv
<1>4. Spec => []Typed
  BY TypeCorrect, PTL DEF Typed
<1> QED
  BY <1>1, <1>2, <1>3, <1>4, PTL DEF Spec

-----------------------------------------------------------------------------
(* The queue implements the directory lock. *)

\* Only the configuration request turns enforcement on or off.
LEMMA SwitchShape ==
    ASSUME Typed, [Next]_vars
    PROVE  UNCHANGED exclusive \/ (SetExclusive /\ UNCHANGED items)
<1>1. CASE UNCHANGED vars
  BY <1>1 DEF vars, daemonVars
<1>2. CASE PersonStep
  BY <1>2 DEF PersonStep, CreateDef, ActivateDef, RunDef, DeleteDef, CancelItem, ForceFail,
              Dismiss, BeginStop, SetPaused, SetExclusive, switches, daemonVars
<1>3. CASE DaemonStep
  BY <1>3 DEF DaemonStep, BackoffPasses, Reap, SetReady, Boot, switches
<1>4. ASSUME NEW a \in Agents, AgentStep(a)
      PROVE  UNCHANGED exclusive
  BY <1>4 DEF AgentStep, Start, Register, HeartbeatKnown, HeartbeatUnknown, NextWork, Claim,
              ClaimRefused, Report, FailMidRun, Deregister, Exit, switches, daemonVars
<1> QED
  BY <1>1, <1>2, <1>3, <1>4 DEF Next

\* Without a claim, leases are only let go.
LEMMA LeasesShrink ==
    ASSUME Typed, [Next]_vars, \A a \in Agents : ~Claim(a)
    PROVE  held' \subseteq held
<1>1. Evolves
  BY StepShape DEF Typed
<1>2. ASSUME NEW i \in InFlight(items')
      PROVE  i \in InFlight(items) /\ items'[i].dir = items[i].dir
  <2>1. i \in DOMAIN items
    BY <1>1, <1>2 DEF Evolves, NewRow, InFlight, InState, InFlightStates
  <2>2. RowStep(i, items[i], items'[i])
    BY <1>1, <2>1 DEF Evolves
  <2> QED
    BY <1>2, <2>1, <2>2 DEF RowStep, Granted, InFlight, InState, InFlightStates
<1> QED
  BY <1>2 DEF held

\* A claim takes the lease on the item's directory, if it has one.
LEMMA ClaimLeases ==
    ASSUME Typed, NEW a \in Agents, Claim(a)
    PROVE  held' = IF items[offer[a]].dir = NoDir THEN held
                   ELSE held \union {<<offer[a], items[offer[a]].dir>>}
<1> DEFINE i == offer[a]
<1>1. /\ i \in DOMAIN items
      /\ items[i].state = "READY"
      /\ items'[i].state = "IN_PROGRESS"
      /\ items'[i].dir = items[i].dir
      /\ DOMAIN items' = DOMAIN items
      /\ \A j \in DOMAIN items : j # i => items'[j] = items[j]
  BY ClaimWrites
<1> HIDE DEF i
<1>2. InFlight(items') = InFlight(items) \union {i}
  BY <1>1 DEF InFlight, InState, InFlightStates
<1>3. \A j \in DOMAIN items : items'[j].dir = items[j].dir
  BY <1>1
<1>4. held' = {<<j, items[j].dir>> : j \in {k \in InFlight(items) \union {i} : items[k].dir # NoDir}}
  BY <1>1, <1>2, <1>3 DEF held, InFlight, InState
<1> QED
  BY <1>4 DEF held, i

LEMMA LockInitImplemented == Init => Lock!LockInit
  BY DEF Init, Lock!LockInit, held, InFlight, InState

LEMMA LockStepImplemented ==
    ASSUME Typed, [Next]_vars
    PROVE  [Lock!LockNext]_(Lock!lockVars)
<1>1. CASE SetExclusive /\ UNCHANGED items
  <2>1. Lock!Switch
    BY <1>1 DEF Lock!Switch, SetExclusive, held
  <2> QED
    BY <2>1 DEF Lock!LockNext
<1>2. CASE UNCHANGED exclusive /\ \A a \in Agents : ~Claim(a)
  <2>1. held' = held \ (held \ held')
    BY <1>2, LeasesShrink
  <2>2. Lock!Release(held \ held')
    BY <1>2, <2>1 DEF Lock!Release
  <2> QED
    BY <2>2 DEF Lock!LockNext
<1>3. ASSUME NEW a \in Agents, Claim(a), UNCHANGED exclusive
      PROVE  [Lock!LockNext]_(Lock!lockVars)
  <2> DEFINE l == <<offer[a], items[offer[a]].dir>>
  <2>1. CASE items[offer[a]].dir = NoDir
    BY <1>3, <2>1, ClaimLeases DEF Lock!lockVars
  <2>2. CASE items[offer[a]].dir # NoDir
    <3>0. /\ offer[a] \in DOMAIN items
          /\ items[offer[a]] \in WorkItem
          /\ items[offer[a]].state = "READY"
          /\ ~Blocked(items, offer[a], exclusive)
      BY <1>3, ClaimWrites, ElementOfSeq, LenProperties DEF Typed, TypeOK
    <3>1. l \in (1 .. MaxItems) \X Dirs
      <4>1. offer[a] \in 1 .. Len(items) /\ Len(items) \in Nat
        BY <3>0, LenProperties DEF Typed, TypeOK
      <4>2. offer[a] \in 1 .. MaxItems
        BY <4>1, BoundsAssumption DEF Typed, Bounded
      <4>3. items[offer[a]].dir \in Dirs
        BY <2>2, <3>0 DEF WorkItem
      <4> QED
        BY <4>2, <4>3
    <3>2. l \notin held
      BY <3>0 DEF held, InFlight, InState, InFlightStates
    <3>3. ASSUME exclusive, NEW m \in held
          PROVE  ~Lock!Overlap(l, m)
      <4>1. PICK j \in InFlight(items) : items[j].dir # NoDir /\ m = <<j, items[j].dir>>
        BY DEF held
      <4>2. j # offer[a]
        BY <3>0 DEF InFlight, InState, InFlightStates
      <4>3. ~Conflict(items[j], items[offer[a]])
        BY <3>0, <3>3, <4>2 DEF Blocked
      <4>4. ~DirectoriesOverlap(items[j].dir, items[offer[a]].dir)
        BY <2>2, <4>1, <4>3 DEF Conflict
      <4> QED
        BY <4>1, <4>4 DEF Lock!Overlap, Lock!DirectoriesOverlap, Lock!SX!IsPrefix,
                          DirectoriesOverlap, SX!IsPrefix
    <3>4. Lock!Acquire(l)
      BY <1>3, <2>2, <3>2, <3>3, ClaimLeases DEF Lock!Acquire
    <3> QED
      BY <3>1, <3>4 DEF Lock!LockNext
  <2> QED
    BY <2>1, <2>2
<1> QED
  BY <1>1, <1>2, <1>3, SwitchShape

\* The queue, through every failure the model has, grants and frees
\* directory leases as the lock does (claimWorkItem, getDirectoryBlocker,
\* getDirectoryLeases).
THEOREM LeaseRefinement == Spec => ImplementsLeaseLock
<1>1. Init => Lock!LockInit
  BY LockInitImplemented
<1>2. Typed /\ [Next]_vars => [Lock!LockNext]_(Lock!lockVars)
  BY LockStepImplemented
<1>3. Spec => []Typed
  BY TypeCorrect, PTL DEF Typed
<1> QED
  BY <1>1, <1>2, <1>3, PTL DEF Spec, ImplementsLeaseLock, Lock!LockSpec

\* directoriesOverlap does not depend on the order of its arguments.
LEMMA OverlapSymmetric ==
    ASSUME NEW l, NEW m
    PROVE  Lock!Overlap(l, m) <=> Lock!Overlap(m, l)
  BY DEF Lock!Overlap, Lock!DirectoriesOverlap

\* A step of the lock while it is enforced adds no overlap.
LEMMA StepNoNewOverlap ==
    ASSUME [Lock!LockNext]_(Lock!lockVars), exclusive
    PROVE  (Lock!Overlapping)' \subseteq Lock!Overlapping
<1>1. ASSUME NEW l \in (1 .. MaxItems) \X Dirs, Lock!Acquire(l)
      PROVE  (Lock!Overlapping)' \subseteq Lock!Overlapping
  <2> SUFFICES ASSUME NEW p \in held' \X held', p[1] # p[2], Lock!Overlap(p[1], p[2])
               PROVE  p \in Lock!Overlapping
    BY DEF Lock!Overlapping, Lock!Overlap
  <2>1. p[1] \in held \union {l} /\ p[2] \in held \union {l}
    BY <1>1 DEF Lock!Acquire
  <2>2. \A m \in held : ~Lock!Overlap(l, m) /\ ~Lock!Overlap(m, l)
    BY <1>1, OverlapSymmetric DEF Lock!Acquire
  <2>3. p[1] \in held /\ p[2] \in held
    BY <2>1, <2>2
  <2> QED
    BY <2>3 DEF Lock!Overlapping
<1>2. ASSUME NEW S \in SUBSET held, Lock!Release(S)
      PROVE  (Lock!Overlapping)' \subseteq Lock!Overlapping
  BY <1>2 DEF Lock!Release, Lock!Overlapping, Lock!Overlap
<1>3. CASE UNCHANGED held
  BY <1>3 DEF Lock!Overlapping, Lock!Overlap
<1> QED
  BY <1>1, <1>2, <1>3 DEF Lock!LockNext, Lock!Switch, Lock!lockVars

\* While leases are enforced, no step of the queue makes two of them overlap
\* that did not, whatever overlapped when enforcement was turned on
\* (src/daemon/store/queue.ts claimWorkItem, findLeaseBlocker).
THEOREM NoNewOverlapCorrect == Spec => Lock!NoNewOverlap
<1>1. [Lock!LockNext]_(Lock!lockVars)
        => [exclusive => (Lock!Overlapping)' \subseteq Lock!Overlapping]_(Lock!lockVars)
  BY StepNoNewOverlap
<1> QED
  BY <1>1, LeaseRefinement, PTL DEF ImplementsLeaseLock, Lock!LockSpec, Lock!NoNewOverlap

\* If they are always enforced, no two in-flight items ever hold overlapping
\* directories, whatever becomes of the teammates that claimed them.
THEOREM ExclusionCorrect == Spec /\ []exclusive => []Lock!Exclusion
<1>1. Lock!LockInit => Lock!Exclusion
  BY DEF Lock!LockInit, Lock!Exclusion, Lock!Overlapping
<1>2. Lock!Exclusion /\ exclusive /\ [Lock!LockNext]_(Lock!lockVars) => (Lock!Exclusion)'
  BY StepNoNewOverlap DEF Lock!Exclusion
<1> QED
  BY <1>1, <1>2, LeaseRefinement, PTL DEF ImplementsLeaseLock, Lock!LockSpec

-----------------------------------------------------------------------------
(* One teammate per directory, as long as nothing ends an item behind the  *)
(* back of the teammate that runs it and leases stay enforced.             *)

Undisturbed == Env \intersect {"delete", "force", "failTool", "leases"} = {}

\* The inductive invariant: what a teammate runs is still in flight, and
\* in-flight items do not overlap.
LeaseInv ==
    /\ exclusive = TRUE
    /\ \A a \in Agents : work[a] # 0 => work[a] \in InFlight(items)
    /\ \A i, j \in InFlight(items) : i # j => ~Conflict(items[i], items[j])

\* A report writes the row of its item only.
LEMMA ReportWritesOneRow ==
    ASSUME Typed, NEW a \in Agents, NEW i \in DOMAIN items,
           NEW outcome \in {"COMPLETE", "FAILED", "sessionError"},
           SetWorkItemState(a, i, outcome), NEW j \in DOMAIN items, j # i
    PROVE  items'[j] = items[j]
<1>1. items \in Seq(WorkItem) /\ \A k \in DOMAIN items : items[k] \in WorkItem
  BY ElementOfSeq, LenProperties DEF Typed, TypeOK
<1>2. CASE UNCHANGED items
  BY <1>2
<1>3. CASE outcome # "sessionError" /\ items' = SetStates(items, {i}, outcome)
  <2>1. SetStates(items, {i}, outcome)[j] = items[j]
    BY DEF SetStates
  <2> QED
    BY <1>3, <2>1
<1>4. CASE SessionErrorStep(i)
  <2> DEFINE d == items[i].def
             again == items[i].attempt < MaxAttempts /\ defs[d] # "absent"
             failed == [items EXCEPT ![i].state = "FAILED", ![i].read = again]
  <2>1. failed[j] = items[j] /\ DOMAIN failed = DOMAIN items
    OBVIOUS
  <2>2. CASE items' = failed
    BY <2>1, <2>2
  <2>3. CASE items' = EnqueueFor(failed, d, WorkDir[d], items[i].attempt + 1, TRUE)
    <3>1. DOMAIN items = 1 .. Len(items) /\ Len(items) \in Nat
      BY <1>1, LenProperties
    <3>2. failed \in [DOMAIN items -> WorkItem]
      <4>1. again \in BOOLEAN
        OBVIOUS
      <4>2. \A x \in WorkItem, b \in BOOLEAN :
                [x EXCEPT !.state = "FAILED", !.read = b] \in WorkItem
        BY DEF WorkItem, AllStates, TerminalStates
      <4>3. failed[i] = [items[i] EXCEPT !.state = "FAILED", !.read = again]
        BY <1>1 DEF WorkItem
      <4>4. items[i] \in WorkItem
        BY <1>1
      <4> HIDE DEF again, failed
      <4>5. failed[i] \in WorkItem
        BY <4>1, <4>2, <4>3, <4>4, Zenon
      <4> USE DEF failed
      <4>6. \A k \in DOMAIN items : k # i => failed[k] = items[k]
        OBVIOUS
      <4>7. failed = [k \in DOMAIN items |-> failed[k]]
        OBVIOUS
      <4> HIDE DEF failed
      <4> QED
        BY <1>1, <4>5, <4>6, <4>7
    <3>3. SameRows(items, failed)
      BY <1>1, <3>2, TableIsSeq
    <3>4. /\ d \in Defs
          /\ items[i].attempt + 1 \in Nat \ {0}
          /\ WorkDir[d] \in Dirs \union {NoDir}
          /\ TRUE \in BOOLEAN
      BY <1>1, WorkDirAssumption DEF WorkItem
    <3> HIDE DEF failed, d
    <3>5. Enqueued(failed, items', d, WorkDir[d], items[i].attempt + 1, TRUE)
      BY <2>3, <3>3, <3>4, EnqueueFacts DEF SameRows
    <3> QED
      BY <2>1, <3>5 DEF Enqueued
  <2> QED
    BY <1>4, <2>2, <2>3 DEF SessionErrorStep
<1> QED
  BY <1>2, <1>3, <1>4 DEF SetWorkItemState

\* An undisturbed item leaves flight only when its runner reports it.
LEMMA StaysInFlight ==
    ASSUME Undisturbed, Typed, [Next]_vars, NEW i \in InFlight(items),
           \A a \in Agents : work[a] = i => work'[a] # 0
    PROVE  i \in InFlight(items')
<1>1. /\ items \in Seq(WorkItem)
      /\ i \in DOMAIN items
      /\ items[i].state \in InFlightStates
      /\ items[i] \in WorkItem
  BY ElementOfSeq, LenProperties DEF Typed, TypeOK, InFlight, InState
<1>2. Evolves
  BY StepShape DEF Typed
<1> SUFFICES items'[i].state \in InFlightStates
  BY <1>1, <1>2 DEF Evolves, InFlight, InState
<1>3. ASSUME NEW d \in Defs, items' = EnqueueFor(items, d, WorkDir[d], 1, FALSE)
      PROVE  items'[i] = items[i]
  <2>1. WorkDir[d] \in Dirs \union {NoDir} /\ 1 \in Nat \ {0} /\ FALSE \in BOOLEAN
    BY WorkDirAssumption
  <2>2. Enqueued(items, items', d, WorkDir[d], 1, FALSE)
    BY <1>1, <1>3, <2>1, EnqueueFacts
  <2> QED
    BY <1>1, <2>2 DEF Enqueued
<1>4. ASSUME NEW S, NEW s \in InFlightStates, items' = SetStates(items, S, s)
      PROVE  items'[i].state \in InFlightStates
  BY <1>1, <1>4 DEF SetStates, WorkItem
<1>5. ASSUME NEW a \in Agents, items' = Forget(items, a)
      PROVE  items'[i].state \in InFlightStates
  BY <1>1, <1>5 DEF Forget, WorkItem, InFlightStates
<1>6. CASE UNCHANGED items
  BY <1>1, <1>6
<1>7. CASE PersonStep
  <2>1. ASSUME NEW j \in DOMAIN items, CancelItem(j)
        PROVE  items'[i].state \in InFlightStates
    <3>1. i # j /\ items' = SetStates(items, {j}, "CANCELED")
      BY <1>1, <2>1 DEF CancelItem, InFlightStates
    <3> QED
      BY <1>1, <3>1 DEF SetStates
  <2>2. /\ \A d \in Defs : ~DeleteDef(d)
        /\ \A j \in DOMAIN items, r \in BOOLEAN : ~ForceFail(j, r)
    BY DEF DeleteDef, ForceFail, Undisturbed
  <2> QED
    BY <1>1, <1>3, <1>5, <1>6, <1>7, <2>1, <2>2
       DEF PersonStep, CreateDef, ActivateDef, RunDef, Dismiss, RemoveMember, BeginStop,
           SetPaused, SetExclusive, daemonVars
<1>8. CASE DaemonStep
  <2>1. ASSUME NEW j \in DOMAIN items, BackoffPasses(j)
        PROVE  items'[i].state \in InFlightStates
    BY <1>1, <2>1 DEF BackoffPasses, WorkItem
  <2>2. "MORIBUND" \in InFlightStates
    BY DEF InFlightStates
  <2> QED
    BY <1>4, <1>6, <1>8, <2>1, <2>2 DEF DaemonStep, Reap, SetReady, Boot
<1>9. ASSUME NEW a \in Agents, AgentStep(a)
      PROVE  items'[i].state \in InFlightStates
  <2>1. CASE Claim(a)
    BY <1>1, <2>1, ClaimWrites DEF InFlightStates
  <2>2. ASSUME NEW outcome \in {"COMPLETE", "FAILED", "sessionError"}, Report(a, outcome)
        PROVE  items'[i].state \in InFlightStates
    <3>1. work[a] # i
      BY <2>2 DEF Report, Typed, TypeOK
    <3>2. work[a] \in DOMAIN items
      BY <2>2 DEF Report, Typed, TypeOK
    <3>3. CASE SetWorkItemState(a, work[a], outcome)
      BY <1>1, <3>1, <3>2, <3>3, ReportWritesOneRow
    <3> QED
      BY <1>6, <2>2, <3>3 DEF Report
  <2>3. ~FailMidRun(a)
    BY DEF FailMidRun, Undisturbed
  <2>4. "IN_PROGRESS" \in InFlightStates
    BY DEF InFlightStates
  <2>5. CASE HeartbeatKnown(a)
    BY <1>4, <1>6, <2>4, <2>5 DEF HeartbeatKnown
  <2>6. CASE Deregister(a)
    BY <1>5, <2>6 DEF Deregister, RemoveMember
  <2> QED
    BY <1>6, <1>9, <2>1, <2>2, <2>3, <2>5, <2>6
       DEF AgentStep, Start, Register, HeartbeatUnknown, NextWork, ClaimRefused, Exit, daemonVars
<1> QED
  BY <1>6, <1>7, <1>8, <1>9 DEF Next, vars, daemonVars

\* Two leases conflict whichever is asked first.
LEMMA ConflictSymmetric ==
    ASSUME NEW x, NEW y
    PROVE  Conflict(x, y) <=> Conflict(y, x)
  BY DEF Conflict, DirectoriesOverlap

LEMMA LeaseInvStep ==
    ASSUME Undisturbed, Typed, OneRunner, LeaseInv, [Next]_vars
    PROVE  LeaseInv'
<1>1. exclusive' = TRUE
  BY SwitchShape DEF LeaseInv, SetExclusive, Undisturbed
<1>2. Evolves
  BY StepShape DEF Typed
<1>3. ASSUME NEW a \in Agents, work'[a] # 0
      PROVE  work'[a] \in InFlight(items')
  <2>1. CASE work'[a] = work[a]
    <3>1. work[a] \in InFlight(items)
      BY <1>3, <2>1 DEF LeaseInv
    <3>2. \A b \in Agents : work[b] = work[a] => work'[b] # 0
      BY <1>3, <2>1 DEF OneRunner
    <3> QED
      BY <2>1, <3>1, <3>2, StaysInFlight
  <2>2. CASE Claim(a) /\ work'[a] = offer[a]
    BY <2>2, ClaimWrites DEF InFlight, InState, InFlightStates
  <2> QED
    BY <1>3, <2>1, <2>2, WorkShape DEF RunnersShrink, Started, Typed, TypeOK
<1>4. \A i \in DOMAIN items : items'[i].dir = items[i].dir
  BY <1>2 DEF Evolves, RowStep
<1>5. ASSUME NEW i \in InFlight(items'), NEW j \in InFlight(items'), i # j
      PROVE  ~Conflict(items'[i], items'[j])
  <2>1. i \in DOMAIN items /\ j \in DOMAIN items
    BY <1>2, <1>5 DEF Evolves, NewRow, InFlight, InState, InFlightStates
  <2>2. ~Conflict(items[i], items[j])
    <3>1. \A k \in DOMAIN items : k \in InFlight(items') => k \in InFlight(items) \/ Granted(k)
      BY <1>2 DEF Evolves, RowStep, InFlight, InState, InFlightStates
    <3>2. CASE \A a \in Agents : ~Claim(a)
      BY <1>5, <2>1, <3>1, <3>2 DEF Granted, LeaseInv
    <3>3. ASSUME NEW a \in Agents, Claim(a)
          PROVE  ~Conflict(items[i], items[j])
      <4>1. /\ offer[a] \in DOMAIN items
            /\ ~Blocked(items, offer[a], exclusive)
            /\ \A k \in DOMAIN items : k # offer[a] => items'[k] = items[k]
        BY <3>3, ClaimWrites
      <4>2. \A k \in InFlight(items) \ {offer[a]} : ~Conflict(items[k], items[offer[a]])
        BY <4>1 DEF Blocked, LeaseInv
      <4>3. \A k \in DOMAIN items \ {offer[a]} : k \in InFlight(items') => k \in InFlight(items)
        BY <4>1 DEF InFlight, InState
      <4> QED
        BY <1>5, <2>1, <4>2, <4>3, ConflictSymmetric DEF LeaseInv
    <3> QED
      BY <3>2, <3>3
  <2> QED
    BY <1>4, <2>1, <2>2 DEF Conflict
<1> QED
  BY <1>1, <1>3, <1>5 DEF LeaseInv

\* Through crashes, restarts, silence, lost messages, dismissals, daemon
\* reboots and reaping, no two teammates run items of overlapping
\* directories: what a teammate runs stays in flight, and in-flight items
\* keep their lease (getDirectoryBlocker, markInFlightMoribund).
THEOREM OneTeammatePerDirectoryCorrect ==
    ASSUME Undisturbed
    PROVE  Spec => []OneTeammatePerDirectory
<1>1. Init => LeaseInv
  BY DEF Init, LeaseInv, InFlight, InState
<1>2. Typed /\ OneRunner /\ LeaseInv /\ [Next]_vars => LeaseInv'
  BY LeaseInvStep
<1>3. OneRunner /\ LeaseInv => OneTeammatePerDirectory
  BY DEF OneRunner, LeaseInv, OneTeammatePerDirectory
<1>4. Spec => []Typed
  BY TypeCorrect, PTL DEF Typed
<1>5. Spec => []OneRunner
  BY OneRunnerCorrect
<1> QED
  BY <1>1, <1>2, <1>3, <1>4, <1>5, PTL DEF Spec

-----------------------------------------------------------------------------
(* What an online teammate runs. *)

\* Nobody makes the daemon forget a teammate that runs on: it is not
\* restarted, no one is dismissed, and no process takes the place of another.
Remembered == Env \intersect {"boot", "dismiss", "restart"} = {}

\* OnlineKeepsItem is not inductive: a heartbeat restores only what the member
\* still holds, so a teammate that is up must be known and hold what it runs.
KeepInv ==
    /\ OnlineKeepsItem
    /\ \A a \in Agents :
        /\ offer[a] # 0 => work[a] = 0
        /\ proc[a] = "joining" => members[a] = "absent" /\ offer[a] = 0 /\ work[a] = 0
        /\ proc[a] = "up" => Registered(a) /\ (work[a] # 0 => items[work[a]].member = a)

\* A row that a teammate which is up holds and runs stays its own, and is
\* MORIBUND after a step only if it was before and nobody was heard, or if
\* its holder was found silent.
LEMMA HeldRowStays ==
    ASSUME Remembered, Typed, OneRunner, KeepInv, [Next]_vars,
           NEW a \in Agents, proc[a] = "up", work[a] # 0, work'[a] = work[a]
    PROVE  /\ items'[work[a]].member = a
           /\ items'[work[a]].state = "MORIBUND"
                => \/ members'[a] = "offline"
                   \/ items[work[a]].state = "MORIBUND" /\ members'[a] = members[a]
<1> DEFINE i == work[a]
           Goal == /\ items'[i].member = a
                   /\ items'[i].state = "MORIBUND"
                        => \/ members'[a] = "offline"
                           \/ items[i].state = "MORIBUND" /\ members'[a] = members[a]
<1> SUFFICES Goal
  OBVIOUS
<1>1. /\ items \in Seq(WorkItem) /\ Len(items) \in Nat
      /\ i \in DOMAIN items /\ items[i] \in WorkItem
      /\ items[i].member = a /\ items[i].state # "READY"
      /\ members \in [Agents -> {"absent", "online", "offline"}] /\ Registered(a)
  BY ElementOfSeq, LenProperties DEF Typed, TypeOK, KeepInv, OneRunner
<1>2. \A b \in Agents : b # a => work[b] # i
  BY DEF OneRunner
<1> HIDE DEF i
<1>3. ASSUME UNCHANGED <<items, members>>
      PROVE  Goal
  BY <1>1, <1>3
<1>4. ASSUME NEW d \in Defs, items' = EnqueueFor(items, d, WorkDir[d], 1, FALSE), UNCHANGED members
      PROVE  Goal
  <2>1. WorkDir[d] \in Dirs \union {NoDir} /\ 1 \in Nat \ {0} /\ FALSE \in BOOLEAN
    BY WorkDirAssumption
  <2>2. Enqueued(items, items', d, WorkDir[d], 1, FALSE)
    BY <1>1, <1>4, <2>1, EnqueueFacts
  <2>3. items'[i] = items[i]
    BY <1>1, <2>2 DEF Enqueued
  <2> QED
    BY <1>1, <1>4, <2>3
<1>5. ASSUME NEW S, NEW s \in AllStates, s # "MORIBUND", items' = SetStates(items, S, s)
      PROVE  /\ items'[i].member = a
             /\ items'[i].state = "MORIBUND" => items[i].state = "MORIBUND" /\ i \notin S
  <2>1. items'[i] = SetRow(items[i], i \in S, s)
    BY <1>1, <1>5, SetStatesFacts
  <2> QED
    BY <1>1, <1>5, <2>1 DEF SetRow, WorkItem
<1>6. ASSUME NEW b \in Agents, b # a, items' = Forget(items, b)
      PROVE  items'[i] = items[i]
  <2>1. items'[i] = ForgetRow(items[i], b)
    BY <1>1, <1>6, ForgetFacts
  <2> QED
    BY <1>1, <1>6, <2>1 DEF ForgetRow
<1>7. {"CANCELED", "FAILED", "COMPLETE", "IN_PROGRESS"} \subseteq AllStates
  BY DEF AllStates, ActiveStates, TerminalStates
<1>8. CASE PersonStep
  <2>1. ASSUME NEW d \in Defs, DeleteDef(d)
        PROVE  Goal
    BY <1>5, <1>7, <2>1 DEF DeleteDef
  <2>2. ASSUME NEW j \in DOMAIN items, CancelItem(j)
        PROVE  Goal
    BY <1>5, <1>7, <2>2 DEF CancelItem
  <2>3. ASSUME NEW j \in DOMAIN items, NEW r \in BOOLEAN, ForceFail(j, r)
        PROVE  Goal
    <3> DEFINE failed == SetStates(items, {j}, "FAILED")
               d == items[j].def
    <3>1. /\ SameRows(items, failed)
          /\ failed[i] = SetRow(items[i], i \in {j}, "FAILED")
      BY <1>1, <1>7, SetStatesFacts
    <3>2. /\ d \in Defs /\ 1 \in Nat \ {0} /\ FALSE \in BOOLEAN
          /\ WorkDir[d] \in Dirs \union {NoDir}
      <4>1. items[j] \in WorkItem
        BY <1>1, ElementOfSeq, LenProperties
      <4>2. d \in Defs
        BY <4>1 DEF WorkItem
      <4> QED
        BY <4>2, WorkDirAssumption
    <3>3. CASE items' = failed
      BY <1>1, <2>3, <3>1, <3>3 DEF SetRow, WorkItem, ForceFail
    <3>4. CASE items' = EnqueueFor(failed, d, WorkDir[d], 1, FALSE)
      <4> HIDE DEF failed, d
      <4>1. failed \in Seq(WorkItem) /\ i \in DOMAIN failed /\ Len(failed) \in Nat
        BY <1>1, <3>1, LenProperties DEF SameRows
      <4>2. Enqueued(failed, items', d, WorkDir[d], 1, FALSE)
        BY <3>2, <3>4, <4>1, EnqueueFacts
      <4>3. items'[i] = failed[i]
        BY <4>1, <4>2 DEF Enqueued
      <4> QED
        BY <1>1, <2>3, <3>1, <4>3 DEF SetRow, WorkItem, ForceFail
    <3> QED
      BY <2>3, <3>3, <3>4 DEF ForceFail
  <2>4. \A b \in Agents : ~Dismiss(b)
    BY DEF Dismiss, Remembered
  <2> QED
    BY <1>3, <1>4, <1>8, <2>1, <2>2, <2>3, <2>4
       DEF PersonStep, CreateDef, ActivateDef, RunDef, BeginStop, SetPaused, SetExclusive,
           daemonVars
<1>9. CASE DaemonStep
  <2>1. ASSUME NEW j \in DOMAIN items, BackoffPasses(j)
        PROVE  Goal
    BY <1>1, <2>1 DEF BackoffPasses, WorkItem
  <2>2. ASSUME NEW S \in SUBSET Agents, Reap(S)
        PROVE  Goal
    <3> DEFINE M == UNION {HeldBy(items, b, {"IN_PROGRESS"}) : b \in S}
    <3>1. "MORIBUND" \in AllStates
      BY DEF AllStates, ActiveStates
    <3>2. items'[i] = SetRow(items[i], i \in M, "MORIBUND")
      BY <1>1, <2>2, <3>1, SetStatesFacts DEF Reap
    <3>3. i \in M => a \in S
      BY <1>1 DEF HeldBy
    <3> HIDE DEF M
    <3>4. members'[a] = IF a \in S THEN "offline" ELSE members[a]
      BY <2>2 DEF Reap
    <3> QED
      BY <1>1, <3>2, <3>3, <3>4 DEF SetRow, WorkItem
  <2>3. ~Boot
    BY DEF Boot, Remembered
  <2> QED
    BY <1>3, <1>9, <2>1, <2>2, <2>3 DEF DaemonStep, SetReady
<1>10. ASSUME NEW b \in Agents, AgentStep(b)
       PROVE  Goal
  <2>1. CASE UNCHANGED items /\ (UNCHANGED members \/ b # a) /\ members'[a] = members[a]
    BY <1>1, <2>1
  <2>2. CASE Register(b)
    <3>1. b # a
      BY <2>2 DEF Register
    <3> QED
      BY <1>1, <2>2, <3>1 DEF Register
  <2>3. CASE HeartbeatKnown(b)
    <3>1. CASE items' = SetStates(items, HeldBy(items, b, {"MORIBUND"}), "IN_PROGRESS")
               /\ members[b] = "offline"
      <4>1. /\ items'[i].member = a
            /\ items'[i].state = "MORIBUND" => /\ items[i].state = "MORIBUND"
                                               /\ i \notin HeldBy(items, b, {"MORIBUND"})
        BY <1>5, <1>7, <3>1
      <4>2. items'[i].state = "MORIBUND" => b # a
        BY <1>1, <4>1 DEF HeldBy, InState
      <4> QED
        BY <1>1, <2>3, <4>1, <4>2 DEF HeartbeatKnown
    <3>2. CASE UNCHANGED items /\ members[b] # "offline"
      BY <1>1, <2>3, <3>2 DEF HeartbeatKnown, Registered
    <3> QED
      BY <2>3, <3>1, <3>2 DEF HeartbeatKnown
  <2>4. CASE Claim(b)
    <3>1. offer[b] # i
      BY <1>1, <2>4, ClaimWrites
    <3>2. items'[i] = items[i]
      BY <1>1, <2>4, <3>1, ClaimWrites
    <3>3. b # a
      <4>1. work[a] = 0 \/ offer[a] = 0
        BY DEF KeepInv
      <4> QED
        BY <2>4, <4>1 DEF Claim
    <3> QED
      BY <1>1, <2>4, <3>2, <3>3 DEF Claim, Touch
  <2>5. ASSUME NEW outcome \in {"COMPLETE", "FAILED", "sessionError"}, Report(b, outcome)
        PROVE  Goal
    <3>1. b # a
      <4>1. work'[b] = 0
        BY <2>5 DEF Report, Typed, TypeOK
      <4> QED
        BY <4>1
    <3>2. work[b] # i /\ work[b] \in DOMAIN items
      BY <1>2, <2>5, <3>1 DEF Report, Typed, TypeOK
    <3>3. items'[i] = items[i]
      BY <1>1, <2>5, <3>2, ReportWritesOneRow DEF Report
    <3>4. members'[a] = members[a]
      BY <1>1, <2>5, <3>1 DEF Report, SetWorkItemState, Touch
    <3> QED
      BY <1>1, <3>3, <3>4
  <2>6. CASE FailMidRun(b)
    <3>1. "FAILED" \in {"COMPLETE", "FAILED", "sessionError"} /\ work[b] \in DOMAIN items
      BY <2>6 DEF FailMidRun, Typed, TypeOK
    <3>2. CASE b = a
      <4>1. items' = SetStates(items, {i}, "FAILED")
        BY <1>1, <2>6, <3>2 DEF FailMidRun, SetWorkItemState, MaySet, i
      <4>2. items'[i] = SetRow(items[i], i \in {i}, "FAILED")
        BY <1>1, <1>7, <4>1, SetStatesFacts
      <4> QED
        BY <1>1, <4>2 DEF SetRow, WorkItem
    <3>3. CASE b # a
      <4>1. items'[i] = items[i]
        BY <1>1, <1>2, <2>6, <3>1, <3>3, ReportWritesOneRow DEF FailMidRun
      <4>2. members'[a] = members[a]
        BY <1>1, <2>6, <3>3 DEF FailMidRun, SetWorkItemState, Touch
      <4> QED
        BY <1>1, <4>1, <4>2
    <3> QED
      BY <3>2, <3>3
  <2>7. CASE Deregister(b)
    <3>1. b # a
      BY <2>7 DEF Deregister
    <3> QED
      BY <1>1, <1>6, <2>7, <3>1 DEF Deregister, RemoveMember
  <2> QED
    BY <1>3, <1>10, <2>2, <2>3, <2>4, <2>5, <2>6, <2>7
       DEF AgentStep, Start, HeartbeatUnknown, NextWork, ClaimRefused, Exit, daemonVars
<1> QED
  BY <1>3, <1>8, <1>9, <1>10 DEF Next, vars, daemonVars

LEMMA ReapMembers ==
    ASSUME NEW S \in SUBSET Agents, Reap(S), NEW a \in Agents
    PROVE  members'[a] # members[a] => members[a] = "online" /\ members'[a] = "offline"
<1>1. members'[a] = IF a \in S THEN "offline" ELSE members[a]
  BY DEF Reap
<1>2. a \in S => members[a] = "online"
  BY DEF Reap
<1> QED
  BY <1>1, <1>2

\* Who is up was up or joined and is known; who joins has nothing yet.
LEMMA KnownStep ==
    ASSUME Remembered, Typed, KeepInv, [Next]_vars, NEW a \in Agents
    PROVE  /\ offer'[a] # 0 => work'[a] = 0
           /\ proc'[a] = "joining" => members'[a] = "absent" /\ offer'[a] = 0 /\ work'[a] = 0
           /\ proc'[a] = "up" => members'[a] # "absent"
           /\ proc'[a] = "up" /\ work'[a] # 0 => proc[a] = "up"
<1> USE DEF Typed, TypeOK, KeepInv, Registered
<1>1. CASE UNCHANGED vars
  BY <1>1 DEF vars, daemonVars, agentVars
<1>2. CASE PersonStep
  <2>1. \A b \in Agents : ~Dismiss(b)
    BY DEF Dismiss, Remembered
  <2> QED
    BY <1>2, <2>1 DEF PersonStep, CreateDef, ActivateDef, RunDef, DeleteDef, CancelItem, ForceFail,
                      BeginStop, SetPaused, SetExclusive, switches, daemonVars, agentVars
<1>3. CASE DaemonStep
  <2>1. ~Boot
    BY DEF Boot, Remembered
  <2>2. ASSUME NEW S \in SUBSET Agents, Reap(S)
        PROVE  /\ UNCHANGED <<proc, offer, work>>
               /\ members'[a] # members[a] => members[a] = "online" /\ members'[a] = "offline"
    <3>1. UNCHANGED <<proc, offer, work>>
      BY <2>2 DEF Reap, agentVars
    <3> QED
      BY <2>2, <3>1, ReapMembers
  <2>3. CASE UNCHANGED <<members, proc, offer, work>>
    BY <2>3
  <2> QED
    BY <1>3, <2>1, <2>2, <2>3 DEF DaemonStep, BackoffPasses, SetReady, agentVars, switches
<1>4. ASSUME NEW b \in Agents, AgentStep(b)
      PROVE  /\ offer'[a] # 0 => work'[a] = 0
             /\ proc'[a] = "joining" => members'[a] = "absent" /\ offer'[a] = 0 /\ work'[a] = 0
             /\ proc'[a] = "up" => members'[a] # "absent"
             /\ proc'[a] = "up" /\ work'[a] # 0 => proc[a] = "up"
  <2>1. ~Start(b) /\ ~HeartbeatUnknown(b)
    BY DEF Start, HeartbeatUnknown, Remembered
  <2>2. CASE Register(b) \/ HeartbeatKnown(b) \/ Deregister(b) \/ Exit(b)
    BY <2>2 DEF Register, HeartbeatKnown, Deregister, RemoveMember, Exit, agentVars, daemonVars
  <2>3. CASE NextWork(b) \/ ClaimRefused(b)
    BY <2>3 DEF NextWork, ClaimRefused, daemonVars
  <2>4. CASE Claim(b)
    BY <2>4 DEF Claim, Touch
  <2>5. ASSUME NEW outcome \in {"COMPLETE", "FAILED", "sessionError"}, Report(b, outcome)
        PROVE  /\ offer'[a] # 0 => work'[a] = 0
               /\ proc'[a] = "joining" => members'[a] = "absent" /\ offer'[a] = 0 /\ work'[a] = 0
               /\ proc'[a] = "up" => members'[a] # "absent"
               /\ proc'[a] = "up" /\ work'[a] # 0 => proc[a] = "up"
    BY <2>5 DEF Report, SetWorkItemState, Touch
  <2>6. CASE FailMidRun(b)
    BY <2>6 DEF FailMidRun, SetWorkItemState, Touch, agentVars
  <2> QED
    BY <1>4, <2>1, <2>2, <2>3, <2>4, <2>5, <2>6 DEF AgentStep
<1> QED
  BY <1>1, <1>2, <1>3, <1>4 DEF Next

LEMMA KeepInvStep ==
    ASSUME Remembered, Typed, OneRunner, KeepInv, [Next]_vars
    PROVE  KeepInv'
<1>1. ASSUME NEW a \in Agents, proc'[a] = "up", work'[a] # 0
      PROVE  /\ items'[work'[a]].member = a
             /\ members'[a] = "online" => items'[work'[a]].state # "MORIBUND"
  <2>1. proc[a] = "up"
    BY <1>1, KnownStep
  <2>2. CASE work'[a] = work[a]
    BY <1>1, <2>1, <2>2, HeldRowStays DEF KeepInv, OnlineKeepsItem
  <2>3. CASE Claim(a) /\ work'[a] = offer[a]
    BY <2>3, ClaimWrites
  <2> QED
    BY <1>1, <2>2, <2>3, WorkShape DEF RunnersShrink, Started, Typed, TypeOK
<1> QED
  BY <1>1, KnownStep DEF KeepInv, OnlineKeepsItem, Registered

\* However long teammates fall silent and are heard again, whatever they or
\* people do to items, and whichever requests are lost: a teammate the daemon
\* takes for online is not running an item it has given up (heartbeat's
\* restore, reapOfflineAgents).
THEOREM OnlineKeepsItemCorrect ==
    ASSUME Remembered
    PROVE  Spec => []OnlineKeepsItem
<1>1. Init => KeepInv
  BY DEF Init, KeepInv, OnlineKeepsItem, Registered
<1>2. Typed /\ OneRunner /\ KeepInv /\ [Next]_vars => KeepInv'
  BY KeepInvStep
<1>3. KeepInv => OnlineKeepsItem
  BY DEF KeepInv
<1>4. Spec => []Typed
  BY TypeCorrect, PTL DEF Typed
<1>5. Spec => []OneRunner
  BY OneRunnerCorrect
<1> QED
  BY <1>1, <1>2, <1>3, <1>4, <1>5, PTL DEF Spec
=============================================================================
