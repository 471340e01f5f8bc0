----------------------------- MODULE StoryBoard -----------------------------
(***************************************************************************)
(* The story board and its policy over the work queue: stories of ordered  *)
(* tasks, each standing at a position of its story's workflow, with CONWIP *)
(* admission (one task of a story in the active section) and a WorkItem    *)
(* for every task that stands in an agent state.                           *)
(*                                                                         *)
(* Each action is one request handler with everything it calls.  The queue *)
(* is kept per task and holds only the active rows: a row that ended       *)
(* matters to the board no more.  Which teammate holds a row, leases and   *)
(* backoffs are WorkQueue's subject; here a READY row may be offered as    *)
(* soon as the board says it is eligible.                                  *)
(*                                                                         *)
(* Code: src/daemon/store/board.ts, src/daemon/sources/story.ts,           *)
(* src/daemon/workflow-engine.ts, src/daemon/routes/stories.ts,            *)
(* src/daemon/routes/tasks.ts, and the board's side of                     *)
(* src/daemon/store/queue.ts.                                              *)
(***************************************************************************)
EXTENDS Naturals, Sequences, FiniteSets, ItemStates

SX == INSTANCE SequencesExt

CONSTANTS Stories,    \* story ids
          MaxSeq,     \* bound on the number in a task's id
          Workflows,  \* workflow names
          States,     \* each workflow's active states, in order
          Starts,     \* the workflow each story is created with
          Requires,   \* the dependencies each story is created with
          Env         \* which optional requests and events happen

Buckets == {"todo", "done"}

ASSUME MaxSeqAssumption == MaxSeq \in Nat
ASSUME StatesAssumption ==   \* validateWorkflow: no bucket's name, no duplicates
    \A w \in Workflows :
        /\ States[w] \in Seq([name: STRING, type: {"agent", "manual"}])
        /\ \A k \in DOMAIN States[w] : States[w][k].name \notin Buckets
        /\ \A j, k \in DOMAIN States[w] : States[w][j].name = States[w][k].name => j = k
ASSUME StoriesAssumption ==
    /\ Starts \in [Stories -> Workflows]
    /\ Requires \in [Stories -> SUBSET Stories]
ASSUME EnvAssumption ==
    Env \subseteq {"move", "reorder", "add", "deleteTask", "deleteStory", "archive",
                   "status", "pending", "deps", "workflow",  \* edits of a story
                   "pendingTask",                            \* tasks written as pending
                   "cancel", "force", "rerun",               \* a person's hand in the queue
                   "fail", "sessionError", "silence", "removed", "boot"}

VARIABLES story,    \* the stories
          task,     \* each task id's position, place in its story, seq and WorkDef
          items,    \* each task's active WorkItems
          assigned  \* the tasks with an assignment row

vars == <<story, task, items, assigned>>

Tasks == Stories \X (1 .. MaxSeq)   \* the id `<story>-<n>`

StoryRow ==
    [status: {"absent", "open", "done", "archived"}, pending: BOOLEAN,
     deps: SUBSET Stories, workflow: Workflows]

Positions == Buckets \union UNION {{States[w][k].name : k \in DOMAIN States[w]} : w \in Workflows}

\* `place` is the task's place in its story's order, 0 for a task that is in none.
TaskRow ==
    [pos: Positions, place: 0 .. MaxSeq, seq: 0 .. MaxSeq, def: {"absent", "pending", "active"}]

\* An active row: where its task stood when it was enqueued, whether it has
\* been offered to a teammate, and whether it still names a member.
ItemRow == [state: ActiveStates, at: Positions, offered: BOOLEAN, held: BOOLEAN]

-----------------------------------------------------------------------------
(* The board as a value: policy operators map a board to the next one.     *)

board == [story |-> story, task |-> task, items |-> items]

Becomes(b) == story' = b.story /\ task' = b.task /\ items' = b.items

Live(b, s) == b.story[s].status \in {"open", "done"}

TasksOf(b, s) == {t \in {s} \X (1 .. MaxSeq) : Live(b, s) /\ b.task[t].place > 0}

HasTask(b, t) == t \in TasksOf(b, t[1])

Flow(b, s) == States[b.story[s].workflow]

\* isActiveState, isAgentState.
IsActive(b, s, p) == \E k \in DOMAIN Flow(b, s) : Flow(b, s)[k].name = p
IsAgent(b, s, p) ==
    \E k \in DOMAIN Flow(b, s) : Flow(b, s)[k].name = p /\ Flow(b, s)[k].type = "agent"

\* nextState: the state after p; `done` after the last one or an unknown one.
NextState(b, s, p) ==
    LET ahead == {k \in DOMAIN Flow(b, s) : k > 1 /\ Flow(b, s)[k - 1].name = p}
    IN  IF ahead = {} THEN "done" ELSE Flow(b, s)[CHOOSE k \in ahead : TRUE].name

-----------------------------------------------------------------------------
(* Rows of one task.                                                       *)

FreshRow(p) == [state |-> "READY", at |-> p, offered |-> FALSE, held |-> FALSE]

\* enqueueFor: refuses a WorkDef that is pending or gone.
EnqueueFor(q, def, p) == IF def = "active" THEN Append(q, FreshRow(p)) ELSE q

\* abandonActiveWorkItem: cancels the one row it finds.
Withdraw(q) == IF q = << >> THEN q ELSE Tail(q)

Without(q, k) == SX!RemoveAt(q, k)

-----------------------------------------------------------------------------
(* Positions and admission.                                                *)

\* Mutants of Landed: the attempt left behind goes on; a second one is enqueued.
LandedKeeping(b, t, p, keep) ==
    IF IsAgent(b, t[1], p) /\ b.items[t] = << >>
    THEN EnqueueFor(b.items[t], b.task[t].def, p)
    ELSE b.items[t]
LandedTwice(b, t, p, keep) ==
    LET q == IF keep \/ b.task[t].pos = p THEN b.items[t] ELSE Withdraw(b.items[t])
    IN  IF IsAgent(b, t[1], p) THEN EnqueueFor(q, b.task[t].def, p) ELSE q

\* What setPosition does to the rows of a task it puts at p: leaving a position
\* cancels its row unless `keep`, landing in an agent state enqueues one.
Landed(b, t, p, keep) ==
    LET q == IF keep \/ b.task[t].pos = p THEN b.items[t] ELSE Withdraw(b.items[t])
    IN  IF IsAgent(b, t[1], p) /\ q = << >> THEN EnqueueFor(q, b.task[t].def, p) ELSE q

\* Each task of DOMAIN at is put at at[t].
Place(b, at, keep) ==
    [b EXCEPT
        !.task = [t \in Tasks |->
                    IF t \in DOMAIN at THEN [b.task[t] EXCEPT !.pos = at[t]] ELSE b.task[t]],
        !.items = [t \in Tasks |->
                    IF t \in DOMAIN at THEN Landed(b, t, at[t], keep) ELSE b.items[t]]]

\* isStoryReady: a dependency that is archived or gone blocks no more.
IsStoryReady(b, s) ==
    /\ b.story[s].status = "open"
    /\ \A d \in b.story[s].deps : b.story[d].status # "open"

\* Mutant of NextInLine: the first task not under way, done ones included.
NextInLineUnstarted(b, s, excluded) ==
    LET idle == {t \in TasksOf(b, s) \ excluded : ~IsActive(b, s, b.task[t].pos)}
    IN  {t \in idle : \A u \in idle : b.task[t].place <= b.task[u].place}

\* The tasks a story would admit next: the first in `todo` that is not excluded.
NextInLine(b, s, excluded) ==
    LET queue == {t \in TasksOf(b, s) \ excluded : b.task[t].pos = "todo"}
    IN  {t \in queue : \A u \in queue : b.task[t].place <= b.task[u].place}

\* Mutants of Admitted: the token is not looked at; a pending task is passed over.
AdmittedTokenless(b, s, excluded) ==
    IF IsStoryReady(b, s) /\ ~b.story[s].pending /\ Flow(b, s) # << >>
    THEN {t \in NextInLine(b, s, excluded) : b.task[t].def # "pending"}
    ELSE {}
AdmittedOvertaking(b, s, excluded) ==
    IF /\ IsStoryReady(b, s)
       /\ ~b.story[s].pending
       /\ Flow(b, s) # << >>
       /\ \A t \in TasksOf(b, s) : ~IsActive(b, s, b.task[t].pos)
    THEN NextInLine(b, s, excluded \union {t \in TasksOf(b, s) : b.task[t].def = "pending"})
    ELSE {}

\* runAdmission: the task it pulls in, if any.  A pending task holds its place.
Admitted(b, s, excluded) ==
    IF /\ IsStoryReady(b, s)
       /\ ~b.story[s].pending
       /\ Flow(b, s) # << >>
       /\ \A t \in TasksOf(b, s) : ~IsActive(b, s, b.task[t].pos)
    THEN {t \in NextInLine(b, s, excluded) : b.task[t].def # "pending"}
    ELSE {}

\* runAdmission of every story of S.  One story's admission moves its own task
\* and changes no status, so that they do not see each other.
Admit(b, S, excluded) ==
    Place(b, [t \in UNION {Admitted(b, s, excluded) : s \in S} |-> Flow(b, t[1])[1].name], FALSE)

\* Mutant of AdmitDependents: nobody is told.
AdmitNoDependents(b, s) == b

AdmitDependents(b, s) ==
    Admit(b, {d \in Stories \ {s} : Live(b, d) /\ s \in b.story[d].deps}, {})

\* updateStoryStatus.
SetStoryStatus(b, s, status) ==
    LET c == [b EXCEPT !.story[s].status = status]
    IN  IF status = "done" THEN AdmitDependents(c, s) ELSE c

\* Mutant of SetPosition: a done story is never reopened.
SetPositionNoReopen(b, t, p, keep) ==
    LET s == t[1]
        c == Place(b, [u \in {t} |-> p], keep)
    IN  IF p = "done" /\ \A u \in TasksOf(c, s) : c.task[u].pos = "done"
        THEN SetStoryStatus(c, s, "done") ELSE c

\* setPosition: a task lands at p and its story's status follows.
SetPosition(b, t, p, keep) ==
    LET s == t[1]
        c == Place(b, [u \in {t} |-> p], keep)
    IN  IF p = "done"
        THEN IF \A u \in TasksOf(c, s) : c.task[u].pos = "done"
             THEN SetStoryStatus(c, s, "done") ELSE c
        ELSE IF c.story[s].status = "done" THEN SetStoryStatus(c, s, "open") ELSE c

\* Mutant of Advance: the token it frees is not passed on.
AdvanceAlone(b, t) == SetPosition(b, t, NextState(b, t[1], b.task[t].pos), TRUE)

\* advance: COMPLETE puts the task in its next state, then admission runs.
Advance(b, t) ==
    Admit(SetPosition(b, t, NextState(b, t[1], b.task[t].pos), TRUE), {t[1]}, {})

-----------------------------------------------------------------------------
(* Requests of people (and of the leader agent).                           *)

NoTask == [pos |-> "todo", place |-> 0, seq |-> 0, def |-> "absent"]

NoStory(s) ==
    [status |-> "absent", pending |-> FALSE, deps |-> {}, workflow |-> Starts[s]]

NewTask(place, seq, pending) ==
    [pos |-> "todo", place |-> place, seq |-> seq, def |-> IF pending THEN "pending" ELSE "active"]

\* POST /api/stories: a story with n tasks, those of P pending; an archived id
\* is refused.
CreateStory(s, status, n, P, pending) ==
    /\ story[s].status = "absent"
    /\ status = "open" \/ "status" \in Env
    /\ (P # {} => "pendingTask" \in Env) /\ (pending => "pending" \in Env)
    /\ LET row == [status |-> status, pending |-> pending, deps |-> Requires[s], workflow |-> Starts[s]]
           b == [board EXCEPT
                    !.story[s] = row,
                    !.task = [t \in Tasks |-> IF t[1] = s /\ t[2] <= n
                                              THEN NewTask(t[2], t[2], t[2] \in P) ELSE task[t]]]
       IN  Becomes(Admit(b, {s}, {}))
    /\ UNCHANGED assigned

\* n is one more than the largest seq of the story's tasks.
NextSeq(s, n) ==
    /\ \A t \in TasksOf(board, s) : task[t].seq < n
    /\ n = 1 \/ \E t \in TasksOf(board, s) : task[t].seq + 1 = n

\* addTask: the new task's id is that of the next seq, taken or not; it comes
\* last, a taken id where it was.
AddTask(s, pending) ==
    /\ "add" \in Env
    /\ Live(board, s)
    /\ pending => "pendingTask" \in Env
    /\ \E n, m \in 1 .. MaxSeq :
        LET t == <<s, n>>
            others == TasksOf(board, s) \ {t}
        IN  /\ NextSeq(s, n)
            /\ IF HasTask(board, t) THEN m = task[t].place
               ELSE (\A u \in others : task[u].place < m) /\ (m = 1 \/ \E u \in others : task[u].place + 1 = m)
            /\ Becomes(Admit([board EXCEPT !.task[t] = NewTask(m, n, pending)], {s}, {}))
    /\ UNCHANGED assigned

\* moveTask: any position of the workflow; admission passes over the moved task.
MoveTask(t, p) ==
    /\ "move" \in Env
    /\ HasTask(board, t)
    /\ p \in Buckets \/ IsActive(board, t[1], p)
    /\ Becomes(Admit(SetPosition(board, t, p, FALSE), {t[1]}, {t}))
    /\ assigned' = assigned \ {t}

\* deleteTask.
DeleteTask(t) ==
    /\ "deleteTask" \in Env
    /\ HasTask(board, t)
    /\ LET b == [board EXCEPT
                    !.task = [u \in Tasks |->
                                IF u = t THEN NoTask
                                ELSE IF u[1] = t[1] /\ task[u].place > task[t].place
                                THEN [task[u] EXCEPT !.place = task[u].place - 1] ELSE task[u]],
                    !.items[t] = Withdraw(items[t])]
       IN  Becomes(Admit(b, {t[1]}, {}))
    /\ assigned' = assigned \ {t}

\* reorderTasks: places its tasks anew, and nothing else.
ReorderTasks(s, place) ==
    /\ "reorder" \in Env
    /\ TasksOf(board, s) # {}
    /\ task' = [t \in Tasks |-> IF t \in TasksOf(board, s) THEN [task[t] EXCEPT !.place = place[t]] ELSE task[t]]
    /\ UNCHANGED <<story, items, assigned>>

\* updateStoryDetails (PUT /api/stories/:id, .../pending, .../activate).
UpdateStory(s, status, pending, deps, workflow) ==
    LET old == story[s]
        b == [board EXCEPT !.story[s] = [status |-> status, pending |-> pending,
                                         deps |-> deps, workflow |-> workflow]]
        c == Admit(b, {s}, {})
    IN  /\ Live(board, s)
        /\ status # old.status => "status" \in Env
        /\ pending # old.pending => "pending" \in Env
        /\ deps # old.deps => "deps" \in Env
        /\ workflow # old.workflow => "workflow" \in Env
        /\ Becomes(IF status = "done" /\ old.status # "done" THEN AdmitDependents(c, s) ELSE c)
        /\ UNCHANGED assigned

\* removeStoryFromDb, for a story deleted (its WorkDefs with it) or archived.
RemoveStory(b, s, status) ==
    [b EXCEPT
        !.story[s] = [NoStory(s) EXCEPT !.status = status],
        !.task = [t \in Tasks |->
                    IF t \notin TasksOf(b, s) THEN b.task[t]
                    ELSE [NoTask EXCEPT !.def = IF status = "archived" THEN b.task[t].def ELSE "absent"]]]

\* deleteStory: refused while a task is assigned; the tasks' rows stay.
DeleteStory(s) ==
    /\ "deleteStory" \in Env
    /\ Live(board, s)
    /\ TasksOf(board, s) \intersect assigned = {}
    /\ Becomes(AdmitDependents(RemoveStory(board, s, "absent"), s))
    /\ UNCHANGED assigned

\* archiveStory, forced or not: tasks that are not done are put at `done`
\* first, the last of which makes the story done.
ArchiveStory(s, force) ==
    /\ "archive" \in Env
    /\ Live(board, s)
    /\ TasksOf(board, s) # {}
    /\ LET late == {t \in TasksOf(board, s) : task[t].pos # "done"}
           b == Place(board, [t \in late |-> "done"], FALSE)
           c == IF late = {} THEN b ELSE SetStoryStatus(b, s, "done")
       IN  /\ late = {} \/ force
           /\ Becomes(AdmitDependents(RemoveStory(c, s, "archived"), s))
    /\ assigned' = assigned \ TasksOf(board, s)

\* activateWorkDef with the Story source's onActivate.
ActivateTask(t) ==
    /\ task[t].def = "pending"
    /\ LET b == [board EXCEPT !.task[t].def = "active"]
       IN  Becomes(IF ~HasTask(b, t) THEN b
                   ELSE IF IsAgent(b, t[1], b.task[t].pos)
                   THEN Place(b, [u \in {t} |-> b.task[t].pos], TRUE)
                   ELSE Admit(b, {t[1]}, {}))
    /\ UNCHANGED assigned

-----------------------------------------------------------------------------
(* The queue's side: one active row of a task.                             *)

SetRow(t, k, row) == items' = [items EXCEPT ![t][k] = row]

\* isEligible: a WorkDef without a task row is a plain one.
IsEligible(t) ==
    /\ task[t].def # "absent"
    /\ HasTask(board, t) =>
        /\ ~story[t[1]].pending
        /\ IsStoryReady(board, t[1])
        /\ IsAgent(board, t[1], task[t].pos)

\* next-work hands the row to a teammate, who will claim it sooner or later.
Offer(t, k) ==
    /\ items[t][k].state = "READY"
    /\ ~items[t][k].offered
    /\ IsEligible(t)
    /\ SetRow(t, k, [items[t][k] EXCEPT !.offered = TRUE])
    /\ UNCHANGED <<story, task, assigned>>

\* claimWorkItem with onItemClaimed: eligibility is not asked again.
Claim(t, k) ==
    /\ items[t][k].state = "READY"
    /\ items[t][k].offered
    /\ SetRow(t, k, [items[t][k] EXCEPT !.state = "IN_PROGRESS", !.offered = FALSE, !.held = TRUE])
    /\ assigned' = IF HasTask(board, t) THEN assigned \union {t} ELSE assigned
    /\ UNCHANGED <<story, task>>

\* The row ends, its assignment is released, and `def` being there its source is told.
Complete(t, k) ==
    /\ items[t][k].state \in InFlightStates
    /\ LET b == [board EXCEPT !.items[t] = Without(items[t], k)]
       IN  Becomes(IF HasTask(b, t) /\ task[t].def # "absent" THEN Advance(b, t) ELSE b)
    /\ assigned' = assigned \ {t}

\* FAILED leaves the task where it is.
Fail(t, k) ==
    /\ "fail" \in Env
    /\ items[t][k].state \in InFlightStates
    /\ items' = [items EXCEPT ![t] = Without(items[t], k)]
    /\ assigned' = assigned \ {t}
    /\ UNCHANGED <<story, task>>

\* failWorkItemForSessionError; `again`: attempts are left (WorkQueue counts them).
SessionError(t, k, again) ==
    /\ "sessionError" \in Env
    /\ items[t][k].state \in InFlightStates
    /\ LET rest == Without(items[t], k)
       IN  items' = [items EXCEPT ![t] = IF again /\ rest = << >>
                                         THEN EnqueueFor(rest, task[t].def, task[t].pos) ELSE rest]
    /\ assigned' = assigned \ {t}
    /\ UNCHANGED <<story, task>>

\* The reaper finds the row's member silent.
GoesQuiet(t, k) ==
    /\ "silence" \in Env
    /\ items[t][k].state = "IN_PROGRESS"
    /\ SetRow(t, k, [items[t][k] EXCEPT !.state = "MORIBUND"])
    /\ UNCHANGED <<story, task, assigned>>

\* The member heartbeats again.
Returns(t, k) ==
    /\ "silence" \in Env
    /\ items[t][k].state = "MORIBUND"
    /\ items[t][k].held
    /\ SetRow(t, k, [items[t][k] EXCEPT !.state = "IN_PROGRESS"])
    /\ UNCHANGED <<story, task, assigned>>

\* removeMember of the member that holds the row.
MemberRemoved(t, k) ==
    /\ "removed" \in Env
    /\ items[t][k].held
    /\ SetRow(t, k, [items[t][k] EXCEPT !.state = "MORIBUND", !.held = FALSE])
    /\ assigned' = assigned \ {t}
    /\ UNCHANGED <<story, task>>

\* cancelWorkItem: READY only.
CancelItem(t, k) ==
    /\ "cancel" \in Env
    /\ items[t][k].state = "READY"
    /\ items' = [items EXCEPT ![t] = Without(items[t], k)]
    /\ assigned' = assigned \ {t}
    /\ UNCHANGED <<story, task>>

\* forceFailWorkItem: MORIBUND only.
ForceFail(t, k, reEnqueue) ==
    /\ "force" \in Env
    /\ items[t][k].state = "MORIBUND"
    /\ LET rest == Without(items[t], k)
       IN  items' = [items EXCEPT ![t] = IF reEnqueue /\ rest = << >>
                                         THEN EnqueueFor(rest, task[t].def, task[t].pos) ELSE rest]
    /\ assigned' = assigned \ {t}
    /\ UNCHANGED <<story, task>>

\* reEnqueueRef and Run: whatever the task's position.
ReEnqueue(t) ==
    /\ "rerun" \in Env
    /\ items[t] = << >>
    /\ items' = [items EXCEPT ![t] = EnqueueFor(<< >>, task[t].def, task[t].pos)]
    /\ UNCHANGED <<story, task, assigned>>

\* A restart forgets every connection: whoever ran an item is gone, and its item
\* is MORIBUND.
Orphaned(q) ==
    [k \in DOMAIN q |-> IF q[k].state = "IN_PROGRESS"
                        THEN [q[k] EXCEPT !.state = "MORIBUND"] ELSE q[k]]

\* Reading the files back, the tasks of a story are numbered by their order.
LoadFromDisk(b) ==
    [b EXCEPT !.task = [t \in Tasks |-> IF HasTask(b, t)
                                        THEN [b.task[t] EXCEPT !.seq = b.task[t].place]
                                        ELSE b.task[t]]]

\* Admission for every story, then an item for every task in an agent state that
\* has no active one.
Reconcile(b) ==
    LET c == Admit(b, {s \in Stories : Live(b, s)}, {})
        waiting == {t \in Tasks : HasTask(c, t) /\ IsAgent(c, t[1], c.task[t].pos)}
    IN  Place(c, [t \in waiting |-> c.task[t].pos], TRUE)

\* The daemon restarts.
Boot ==
    /\ "boot" \in Env
    /\ LET forgotten == [board EXCEPT !.items = [t \in Tasks |-> Orphaned(items[t])]]
       IN  Becomes(Reconcile(LoadFromDisk(forgotten)))
    /\ assigned' = {}

-----------------------------------------------------------------------------

Init ==
    /\ story = [s \in Stories |-> NoStory(s)]
    /\ task = [t \in Tasks |-> NoTask]
    /\ items = [t \in Tasks |-> << >>]
    /\ assigned = {}

\* The ways to put tasks in order.
Orders(S) ==
    {f \in [S -> 1 .. MaxSeq] :
        {f[t] : t \in S} = 1 .. Cardinality(S)}

EditStory(s) ==
    \E status \in {"open", "done"}, pending \in BOOLEAN, deps \in SUBSET Stories, w \in Workflows :
        UpdateStory(s, status, pending, deps, w)

PersonStep ==
    \/ \E s \in Stories :
        \/ \E status \in {"open", "done"}, n \in 0 .. MaxSeq, pending \in BOOLEAN :
            \E P \in SUBSET (1 .. n) : CreateStory(s, status, n, P, pending)
        \/ \E pending \in BOOLEAN : AddTask(s, pending)
        \/ \E place \in Orders(TasksOf(board, s)) : ReorderTasks(s, place)
        \/ EditStory(s)
        \/ DeleteStory(s)
        \/ \E force \in BOOLEAN : ArchiveStory(s, force)
    \/ \E t \in Tasks :
        \/ \E p \in Positions : MoveTask(t, p)
        \/ DeleteTask(t)
        \/ ActivateTask(t)
        \/ ReEnqueue(t)
        \/ \E k \in DOMAIN items[t] :
            \/ CancelItem(t, k)
            \/ \E reEnqueue \in BOOLEAN : ForceFail(t, k, reEnqueue)

AgentStep ==
    \E t \in Tasks : \E k \in DOMAIN items[t] :
        \/ Offer(t, k)
        \/ Claim(t, k)
        \/ Complete(t, k)
        \/ Fail(t, k)
        \/ \E again \in BOOLEAN : SessionError(t, k, again)
        \/ GoesQuiet(t, k)
        \/ Returns(t, k)
        \/ MemberRemoved(t, k)

Next == PersonStep \/ AgentStep \/ Boot

Spec == Init /\ [][Next]_vars

-----------------------------------------------------------------------------
(* Properties. *)

\* The types of the variables; only tasks of the board are assigned.
TypeOK ==
    /\ story \in [Stories -> StoryRow]
    /\ task \in [Tasks -> TaskRow]
    /\ items \in [Tasks -> Seq(ItemRow)]
    /\ assigned \subseteq Tasks

\* A task never has two active items, whatever moves, admissions, activations,
\* retries, re-runs and reboots did to it (everything that asks for "the"
\* active item, getActiveWorkItem, relies on it).
OneActivePerTask == \A t \in Tasks : Len(items[t]) <= 1

\* A teammate works on a task only where the board shows it, in the agent state
\* it was enqueued for, so that its COMPLETE advances the task from there and
\* from nowhere else (setPosition's queue sync, onItemTerminal).
WorkedWhereItStands ==
    \A t \in Tasks : \A k \in DOMAIN items[t] :
        HasTask(board, t) /\ items[t][k].state \in InFlightStates =>
            /\ items[t][k].at = task[t].pos
            /\ IsAgent(board, t[1], task[t].pos)

\* The tasks of a story in the active section.
InPipeline(s) == {t \in TasksOf(board, s) : IsActive(board, s, task[t].pos)}

\* CONWIP: the daemon never puts a second task of a story in the pipeline;
\* only a person's move or edit can (docs/DESIGN.md "Admission").
OneInPipeline ==
    [][\A s \in Stories :
        \/ Cardinality(InPipeline(s)') <= 1
        \/ InPipeline(s)' \subseteq InPipeline(s)
        \/ \E n \in 1 .. MaxSeq, p \in Positions : MoveTask(<<s, n>>, p)
        \/ EditStory(s)]_vars

\* The queue and the board are in order: a task leaves `todo` for the active
\* section, unless a person moves it there, only when its story is active and
\* every story it depends on is done or gone, when its definition is active,
\* and when no task before it is in `todo`, save one just shelved.
AdmittedInTurn ==
    [][\A t \in Tasks :
        (/\ HasTask(board, t) /\ task[t].pos = "todo"
         /\ HasTask(board, t)' /\ IsActive(board, t[1], task[t].pos)'
         /\ \A p \in Positions : ~MoveTask(t, p))
        => /\ story'[t[1]].status = "open" /\ ~story'[t[1]].pending
           /\ \A d \in story'[t[1]].deps : story'[d].status # "open"
           /\ task'[t].def # "pending"
           /\ \A u \in TasksOf(board, t[1])' :
                task'[u].place < task'[t].place =>
                    task'[u].pos # "todo" \/ \E p \in Positions : MoveTask(u, p)]_vars

\* Would runAdmission find something to do?
Stalled(s) == Live(board, s) /\ Admitted(board, s, {}) # {}

\* Admission is never forgotten: whatever frees a story's token or lifts what
\* it waited for also admits its next task, in this story and in those that
\* depend on it; only the task a person just shelved may be left waiting.
NoStall ==
    [][\A s \in Stories :
        Stalled(s)' => \/ Stalled(s)
                       \/ \E n \in 1 .. MaxSeq :
                            /\ Admitted(board, s, {})' = {<<s, n>>}
                            /\ MoveTask(<<s, n>>, "todo")]_vars

\* A story counts as done, for its dependents and the archive, exactly while all
\* its tasks are done ("When every task in a story reaches `done` the story is
\* marked done; moving one back out reopens it", docs/ARCHITECTURE.md:126-127).
StatusInSync ==
    \A s \in Stories : TasksOf(board, s) # {} =>
        (story[s].status = "done" <=> \A t \in TasksOf(board, s) : task[t].pos = "done")

\* `done` is terminal (docs/DESIGN.md:37): a task leaves it only by a person's move.
DoneStays ==
    [][\A t \in Tasks :
        HasTask(board, t) /\ task[t].pos = "done" /\ HasTask(board, t)'
            => task'[t].pos = "done" \/ \E p \in Positions : MoveTask(t, p)]_vars

-----------------------------------------------------------------------------
(* Liveness. *)

\* Teammates keep polling, claiming and finishing.
Fairness ==
    \A t \in Tasks : \A k \in 1 .. 1 :
        /\ WF_vars(k \in DOMAIN items[t] /\ Offer(t, k))
        /\ WF_vars(k \in DOMAIN items[t] /\ Claim(t, k))
        /\ WF_vars(k \in DOMAIN items[t] /\
                    (\/ Complete(t, k) \/ Fail(t, k)
                     \/ \E again \in BOOLEAN : SessionError(t, k, again)))

FairSpec == Spec /\ Fairness

\* What the board shows a person to act on: a pending story or head task, a
\* task in a manual state, one whose item ended badly or is MORIBUND, no
\* task left to do.
NeedsPerson(s) ==
    /\ story[s].status = "open"
    /\ \/ story[s].pending
       \/ \A t \in TasksOf(board, s) : task[t].pos = "done"
       \/ \E t \in TasksOf(board, s) :
            \/ t \in NextInLine(board, s, {}) /\ task[t].def = "pending"
            \/ t \in InPipeline(s) /\ items[t] = << >>
            \/ \E k \in DOMAIN items[t] : items[t][k].state = "MORIBUND"

\* Stories that wait for each other wait for ever.
Deadlocked ==
    \E W \in SUBSET Stories \ {{}} : \A s \in W :
        story[s].status = "open" /\ story[s].deps \intersect W # {}

\* Once people leave it alone a team finishes its stories, one task after the other and
\* dependencies first, or stops where a person can see why.
StoriesFinish ==
    <>[][AgentStep]_vars =>
        \A s \in Stories :
            story[s].status = "open" ~>
                story[s].status # "open" \/ Deadlocked \/ \E u \in Stories : NeedsPerson(u)
=============================================================================
