# My Pizza Team in TLA+

My Pizza Team runs a team of coding agents: a local daemon keeps the work (stories, tasks,
schedules, notes) and a queue of work items; teammates, each a separate process, poll the
daemon, claim an item, work on it in a directory and report. This directory models that system
from its source (`src/`), checks the models with TLC and proves theorems about them with TLAPS.

## 1. The system

| Component | State it keeps | Operations | Talks to | Modelled |
|---|---|---|---|---|
| Work queue, `daemon/store/queue.ts` | `work_items` rows: READY, IN_PROGRESS, MORIBUND, COMPLETE, FAILED, CANCELED | enqueue, next-work, claim, set state, session error, cancel, force-fail, re-enqueue, boot | work sources (hooks), members, HTTP routes | `WorkItems`, `WorkQueue` |
| Directory lease, `queue.ts` + `shared/types.ts` | none of its own: the directories of in-flight rows | blocker test at the offer and, atomically, at the claim | queue | `Directories`, `LeaseLock`, `WorkQueue` |
| Members and reaper, `daemon/store/members.ts` | `members` rows, dismissal tombstones (memory) | register, heartbeat, reap, remove, dismiss | queue rows, teammates | `WorkQueue`, `TeammatePool` |
| Teammates, `agent/supervisor.ts`, `harnesses/pi/src/teammate.ts` | process, current item, poll in flight | poll, claim, run, report, fail tool, stop | daemon over HTTP | `WorkQueue` |
| Pi teammate's session, `harnesses/pi/src/teammate.ts`, `index.ts` | polling chains, whose run is in flight, a deferred release | the loop step by step, pausing, fresh and reset sessions | Pi, daemon | `PiTeammate` |
| Pairing, `store/pairing.ts`, `runtime/pairing.ts` | a person's intent, bounded outbox (memory) | pair, send, release, poll | web UI, Pi teammate | `Pairing`, `PiTeammate` |
| Solitary WorkDefs, `daemon/store.ts`, `sources/task.ts` | `tasks/<id>/workdef.md` | create, activate, run, delete | queue | `WorkQueue` |
| Story board, `daemon/store/board.ts`, `sources/story.ts`, `workflow-engine.ts` | stories, tasks and their positions, assignments | create, add, move, reorder, delete, archive, edit, pending; advance and admission (CONWIP) | queue | `StoryBoard` |
| Pool and spawner, `members.ts`, `spawner.ts`, `terminal/` | declared size, directives, windows | reconcile, spawn, dismiss, the spawner's pass | leader, terminals, teammates | `TeammatePool` |
| Schedules, `store/schedules.ts`, `sources/schedule.ts`, `cron.ts` | schedule files with cursor, hold and pending flag | tick, edit, pause, activate, hold for readiness | queue, readiness | `Cron`, `Schedules` |
| External sources, `sources/sync.ts`, `revision.ts`, `mirror.ts`, `comments.ts` | mirrors, revision stamps, back-off, write-backs in flight | awaited pull, switch, disconnect, settings, webhook, comments both ways | external system, queue, triage | `SourceSync`, `MirroredThread` |
| Triage and thoughts, `triage.ts`, `store/triage.ts`, `sources/thought.ts` | notes, their threads, proposals by id | sweep, run, propose, accept, reject | queue, teammates | `Triage`, `TriageThread`, `ProposalLedger` |
| Assistant chat, `store/assistant-chat.ts`, `harnesses/pi/src/chat.ts` | messages and their receipts; what the mirror awaits | send, poll, hand to Pi, acknowledge, delete | leader's Pi session | `AssistantChat`, `ChatChannel` |
| Everything else | prompts, personas, transcripts, usage, templates, plugins, git sync, CLI, desktop, UI | records, views and I/O | | no |

The daemon is one single-threaded process: a request handler without an `await` after it has read
its body, and a timer tick, run to their end. So one handler or one tick is one action, with
everything it calls inside it. What is hard is between them: teammates act on answers that are
already old, requests and replies are lost, processes die, the daemon restarts and forgets what it
kept in memory, external systems answer late, and people edit, cancel and delete work that is being
done. The Pi extension is an event loop too, but its handlers do await; there an action is what runs
between two awaits.

What makes each component correct:

- Queue: at most one active item per WorkDef; an item is handed to one teammate only; ended items
  stay ended; retries are bounded and wait out their backoff; work neither starves nor hangs.
- Lease: two teammates never work in overlapping directories, through reaping and restarts.
- Members: what a silent teammate held is kept for it and given back, or surfaces as MORIBUND.
- Board: one task of a story in progress; tasks and stories in order; the queue mirrors the
  positions on the board; admission never stalls.
- Pool: it comes to its declared size; nobody is killed who was not dismissed; a dismissal ends.
- Schedules: an occurrence fires a job once; missed ones are not caught up; a held one is made up.
- Sources: mirrors converge to the external system and every revision is handed over; what is switched off stays
  off; a comment written back does not come in again.
- Triage: each version of a note is analysed once and in order; a proposal is decided once and makes
  one piece of work.
- Chat: messages reach the agent in order and are not lost; a receipt tells the truth and comes.
- Pairing: requests reach the teammate in order; a release puts it back to work; a prompted item ends.

## 2. How the models correspond to the code

An action is one HTTP handler or one timer tick with everything it calls. A teammate's request is
split only where a reply crosses the network and is acted on later: an offer is taken in one
action (`NextWork`, `Offer`) and claimed in another. Rows of SQLite tables are records, HTTP errors
are guards, and text (prompts, titles, logs) is left out. `Env` selects which optional events happen,
so that one module serves runs that ask different questions; where a module counts them, `events`
bounds how many happen (`MaxEvents`). Variables marked "history" record what the properties speak of
and decide nothing. The `map` of `PROJECT.json` names the lines each definition stands for.

`Directories`, `ItemStates`, `WorkItems` hold the data the others share: directories as
sequences of path components with containment as overlap (`shared/types.ts`), the item states, and
the row operations of `queue.ts` (`EnqueueFor`, `InState`, `Conflict`, `Blocked`).

**`WorkQueue`** is the queue, the members table, Solitary WorkDefs and the teammates' loop.

| State | Code |
|---|---|
| `items` | `work_items`: `def`, `dir`, `attempt`, `state`, `member`, `held` (retry backoff not over), `read` |
| `defs` | whether `tasks/<id>/workdef.md` is absent, pending or active |
| `members`, `dismissed` | the `members` table and the in-memory tombstones of `members.ts` |
| `paused`, `ready`, `exclusive` | the pause switch, the readiness probe's last answer, the `exclusiveDirectories` setting |
| `proc`, `offer`, `work` | a teammate's process, the answer of `next-work` it has not claimed yet, the item it runs |

`PersonStep` is the web UI and CLI, `DaemonStep` the timers and the restart, `AgentStep` the loop of
`agent/supervisor.ts` and of the Pi harness (the two differ in the errored session and the fail
tool, both modelled).

**`LeaseLock`** is the abstract specification: a lease is granted only when no overlapping one is
held and enforcement is on. `WorkQueue` implements it with `held` = the in-flight rows that have a
directory.

**`PiTeammate`** is the loop of one Pi teammate between any two awaits, with its web pairing and the
session both live in; **`Pairing`** is what the daemon keeps of the pairing.

| State | Code |
|---|---|
| `item` | the work items, as READY, held (IN_PROGRESS or MORIBUND) or ended |
| `intent` | `PairState`: paired, the release not yet picked up, the outbox |
| `loop` | `TeammateLoop`'s fields (`autonomous`, `current`, `awaiting`, `deferred`, `gaveUp`), its polling chains and settlements between two awaits, what Pi was sent and has not started, whether a fresh session is queued |
| `run`, `ends` | `agentRunning`; `agent_end` handlers that still await the usage report |
| `paired`, `answer` | `WebPairing.paired`; the answer of its poll, on its way |

Pi is external: it starts a run for each message it was sent when it has none, and ends it. Requests
are numbered in the order people make them, which is all that their texts are needed for.

**`StoryBoard`** is the board (`store/board.ts`), the Story source (`sources/story.ts`), the workflow
engine and their routes.

| State | Code |
|---|---|
| `story` | a story's status, `pending`, `dependsOn`, workflow |
| `task` | a task's position, its place in the story's order (0: on no board), `seq`, and its WorkDef |
| `items` | the active rows of the task, in order of enqueueing; ended rows matter to the board no more |
| `assigned` | the tasks with a row in `assignments` |

Policy functions that the code writes as a series of SQL statements are operators from a board to a
board: `SetPosition`, `Admit`, `AdmitDependents`, `SetStoryStatus`, `Advance` are `setPosition`,
`runAdmission`, `admitDependents`, `updateStoryStatus`, `advance`; a handler composes them in the
code's order. A restart is `Orphaned`, `LoadFromDisk` and `Reconcile`, in the order `createApp` runs
them. `StoryBoard` keeps its own, smaller queue instead of composing with `WorkQueue`: what
the two share is the life of one row (offer, claim, report, MORIBUND, retry), and which teammate
holds it, leases and backoffs do not decide anything on the board. The stale offer is kept.

**`TeammatePool`** is the team as the pool sees it.

| State | Code |
|---|---|
| `declared`, `capable` | `minTeammates`; `getSpawnCapability().canSpawn` |
| `leader`, `member` | rows of `members` |
| `tombstone` | `dismissedIds` and `dismissals`: how far a dismissal has come |
| `directives` | pending `leader_directives`, oldest first, with the interrupt and the deadline of a dismissal |
| `windows`, `proc` | the session's windows, by name, and what runs in each |

`DaemonStep` is the 30 s timer (`FullTick`: reaping, reconciling) and the spawner's 2 s pass over its
work list; `AgentStep` the teammates' registration, heartbeats and exit. A name drawn at random
(`generateSpawnName`) is any free one.

**`Cron`** is `cron.ts`: fields as sets, parsed from items with ranges and steps, and matching. **`Schedules`**
is the rest.

| State | Code |
|---|---|
| `now` | the minute; `Calendar` gives its local date |
| `sched` | the schedule file: cron, `lastEnqueuedAt`, `resumedAt`, hold, pending |
| `jobs`, `draft`, `archived` | the Scheduled WorkDefs and whether each is pending or archived |
| `inflight` | jobs with an active work item |
| `ready`, `online` | `isTeamReady`'s two conditions |

**`SourceSync`** is one source's sync runner with its mirrors; **`MirroredThread`** the mirrors' comments.

| State | Code |
|---|---|
| `remote`, `comments` | the external system |
| `mirror` | status, revision, `handed` and `mirrored` stamps in the source's kv, tombstone |
| `work` | the mirror's active work item |
| `on`, `pull`, `backoff` | the feature switch; the pull being awaited and its answer; `notBefore` |
| `gate`, `triage` | what holds enqueues back; the items reported in triage mode |
| `pulled`, `writeBack` | external comments in the thread; the hook that posts ours, which nobody awaits |

**`Triage`** is a note with its sweep and runs; **`TriageThread`** the thread and the decisions, in the order
of their writes; **`ProposalLedger`** the abstract specification of the decisions.

| State | Code |
|---|---|
| `note`, `fresh` | the note's version, status and stamp; within the quiet period |
| `def`, `item` | its triage WorkDef and that one's active work item |
| `doing` | each teammate's run: the version it read, and whether the item is still its own |
| `thread`, `made` | analyses and decisions, in order; the work created for a proposal |

**`AssistantChat`** is the inbox with the mirror in the leader's session; **`ChatChannel`** the abstract
channel: messages are handed over in order, and receipts only go forward and only for what was handed.

| State | Code |
|---|---|
| `messages`, `leaderKnown` | `assistant_messages` with their receipts; the leader is registered |
| `poll`, `start` | what `pollForWork` and `handleAgentStart` await |
| `delivered` | the mirror's list of messages to mark read |
| `running`, `waiting`, `seen` | Pi |

Abstractions that matter when reading the results:

- A WorkDef's directory is fixed (`WorkDir`), although a pending definition's can be edited before
  it is activated; a deleted id may be created again.
- `next-work` is FIFO within a tier. `WorkQueue` keeps that order; the other modules let any eligible row
  be offered, which allows more.
- A daemon restart is one step. Writes of one handler are atomic: nothing else runs meanwhile, and
  a crash of the daemon between two writes of a handler is modelled only where they create work
  (`TriageThread`, accepting a proposal).
- `reorderTasks` accepts an order that names a task twice, and `addTask` on a taken id lists it
  twice in `story.json`; both are modelled without the second listing.
- A workflow's own states do not change; a story may change its workflow.
- Time in `Schedules` is the minute, which is what `isCronDue` compares; the tick runs any number of
  times in it. Elsewhere a timeout is an event that may come at any time.
- One item's texts, one note's edits and one message's contents are versions or numbers.
- A person's choices are nondeterministic: any request at any time its `Env` word is on.

## 3. The runs

All bounds are constants of the `.cfg` files; the `MC` modules give values to the others.
`CHECK_DEADLOCK FALSE` throughout: every item may have ended and every teammate be gone, a bounded
table may be full, the events of an instance may be used up; then the system stops and is right to.

| Run | Instance | Distinct states | What it shows |
|---|---|---|---|
| `wq_failures` | 2 teammates in nested directories, 2 defs, 2 rows; crash, restart, stop, silence, loss, dismissal | 453,975 | `OneRunner`, `OneTeammatePerDirectory`, `ItemLifecycle`; `ImplementsLeaseLock`: `WorkQueue` implements the abstract lock |
| `wq_people` | 1 teammate, 2 defs, 3 rows, 2 attempts; every request of a person, the three switches, a restart | 622,784 | `OneActive` per WorkDef; `RetryChain`: bounded chains that lose no failure |
| `wq_liveness` | 2 teammates, 2 rows; crashes, silences | 14,180 | `ReadyIsClaimed`, `InProgressEnds` (or surfaces as MORIBUND), `OnlineKeepsItem` |
| `board_moves` | 1 story, 3 tasks, a workflow with a manual state; moves, pending tasks, all of the queue's failures, restarts | 20,389 | `WorkedWhereItStands`, `StatusInSync`, `OneInPipeline`, `AdmittedInTurn`, `NoStall` |
| `board_edits` | 1 story, 2 tasks, 2 workflows; add, delete, reorder, archive, delete and recreate, edits | 11,250 | `OneActivePerTask`; `DoneStays` |
| `board_stories` | 2 stories, 2 tasks, dependencies, pending, archive | 9,582 | `StoriesFinish`: left alone, every story finishes or shows a person why not |
| `pool` | 2 names, drawn at random or chosen by a person, cap of 2; every failure, 2 events, 2 directives | 10,560 | `KillsOnlyDismissed`, `DismissalEnds`, `PoolFilled` |
| `schedules` | 1 schedule, 2 jobs, 3 crons, 4 minutes (three around a Sunday's midnight, one of a Monday), 5 events | 273,090 | `OncePerOccurrence`, `NoCatchUp`, `StampsStandardMinutes`, `HoldsAreMadeUp` |
| `sync` | 1 item, 2 revisions, reported in either mode, 5 events | 519,952 | `OffIsEmpty`, `OwnPostsOnce`, `MirrorsConverge` |
| `triage` | 1 note, 2 versions, 2 teammates, 1 proposal id used by 2 analyses, 1 crash between two writes, 3 events | 262,922 | `AnalysesInOrder`, `ImplementsLedger`, `OncePerVersion`, `EditsSurvive` |
| `chat` | 2 messages, steered or queued, 3 events | 232,499 | `ImplementsChannel`, `ReceiptsHonest`, `NothingLost`, `ReadInTheEnd` |
| `pairing` | 1 item, 2 polling chains, 3 requests of people, an outbox of 1, 1 restart, reset or lost answer | 205,745 | `HandedInOrder`, `ReleaseTaken`, `PromptedEnds` |

Bounds. Two teammates are enough for every property of exclusion, which are about pairs; two
overlapping directories and a third apart exercise the three tiers. Two rows per directory suffice
for a conflict; three rows and two attempts for a retry, a person's re-run after it and another
WorkDef's item between them. Three tasks are a head, a next and a last; two stories are one
dependency. `MaxSeq` bounds the numbers in task ids: with it reached nothing more is added, and
deleting the last task frees its number again. A pool of two has one teammate to lose and one to keep,
under names that are used again. Two jobs of one schedule are what a stamp or a hold that is
shared can get wrong; the minutes run over a midnight, so that weekday and day of the month change.
One item of a source has two revisions, back and forth; what it goes through with five events
includes a disconnect and a reconnect around a pull with a failure besides. Two versions
of a note are an edit after or during its analysis, one id used twice is the case the fold by id can
get wrong. Two messages can overtake each other. Three requests are a pairing with one message more
than the outbox holds, or a release, a pairing that supersedes it and another release. No property
counts beyond these bounds; what the small tables do cut off is a longer history, and the theorems of
section 4 have no such bound. Symmetry is not used: it is not sound with liveness, and most sets here
have one or two members that differ by their directories or names.

Every property of a run has a mutant in `PROJECT.json`: a definition changed as a plausible
bug would change it (a forgotten admission, a missing reset, an unchecked flag), under which TLC
finds the property violated. The mutants are defined beside the operator they replace.
`TypeOK` says what shape the variables have in each module, and is proved for every one.

**Fairness.**

- `WorkQueue`: weak fairness of the timers and of a live teammate's loop. Registration, heartbeats,
  polling, claiming and ending runs are `setInterval`s and `while` loops that the code restarts
  after every error; reaping is fair only for a teammate whose process is gone; backoffs pass with
  the clock. Nothing a person does is fair, and neither is a restart of a teammate. `wq_liveness` has no
  lost messages: with a lost claim reply an item stays IN_PROGRESS under a live, idle member
  (the hazard is listed), so `InProgressEnds` is false there.
- `StoryBoard`: teammates keep polling, claiming and ending what they claimed. Session errors are
  left out of `board_stories`: with attempts uncounted there they could repeat for ever; `RetryChain`
  shows that they do not.
- `TeammatePool`: the daemon's tick and the spawner's pass go on, teammates' loops and deadlines too. Strong
  fairness for each name says that a name drawn at random again and again is drawn in the end.
- `Schedules`: the 30 s timer keeps ticking. The clock itself need not go on.
- `SourceSync`: pulls are answered or time out, backoffs pass, write-backs come back. The timer's tick has
  strong fairness: it finds the source idle, out of its back-off and switched on again and again,
  not necessarily for good, and ticks far more often than that changes.
- `Triage`: the sweep's timer ticks, quiet periods pass, teammates take work and end it.
- `AssistantChat`: the leader's polls, heartbeats and requests go on; Pi takes in what it is handed and
  comes to the end of a run.
- `PiTeammate`: timers fire, requests are answered, Pi starts and ends its runs, and a fresh session that was
  queued is started or cancelled.

**Where the code does less than its documents say.** The properties state what holds; these cases are
excused in them by name or left out of their instance, and seen by putting the event back.

- Queue. After a daemon restart a teammate registers as idle and its item stays MORIBUND, though
  docs/DESIGN.md:1152-1155 says reconnecting restores it (`OnlineKeepsItem` with "boot"). So it does when a
  restarted teammate claims under the row of its predecessor, is reaped before it has registered, and
  then registers (with "restart"). A teammate
  dismissed since its offer still claims (`InProgressEnds` with "dismiss"). Deleting a WorkDef frees the
  lease of a run that goes on (`OneTeammatePerDirectory` with "delete"). Pause and readiness are asked at
  the offer, not at the claim. The prompt names the directory as it is at the claim; the lease was
  fixed when the item was enqueued.
- Board. After a deletion and a restart `addTask` reuses the id of a task that may be `done`, and
  throws it back to `todo`, though docs/DESIGN.md:36-37 calls `done` terminal and board.ts:662 the ids
  stable (`DoneStays` with `Env <- EnvRenumber`,
  `OnlyBuild` and `MaxSeq = 3`). A task added to a done story
  leaves it done and is never admitted (`StatusInSync` with "move" and "add"). Reordering admits nothing, so `NoStall` is checked without it.
  A drop on the column a card is already in releases the assignment of an item that goes on, after
  which its story can be deleted. A story that goes pending between an offer and its claim does not
  stop the claim. Two stories that depend on each other are never ready. `PATCH` on a
  triage container may archive or restore it (routes/work-defs.ts:216).
- Pool. A restart of the daemon forgets the members, so the pool is spawned anew before the survivors
  have registered again (docs/DESIGN.md:1192-1194 calls the floor idempotent). A teammate that is
  starting counts neither as online nor as pending, so the pool may overshoot. A dismissed teammate that outlives a restart of the
  daemon registers again as if nothing had happened.
- Sources. A mirror that sync archived, and a person restored and archived again, is restored by the
  next pull, as its `vanished` key is still there (docs/DESIGN.md:417-418 has it stay; `byPerson`). Re-enabling a source while its old pull is in flight skips
  the immediate sync. The retry of a run in flight is enqueued though its source was switched off
  meanwhile. Settings saved while a pull is awaited are applied after its answer. A comment whose
  hook takes over two minutes, or is cut off by a restart, or rejects after the external system took the
  post (`PostFails`), comes back as somebody else's. docs/DESIGN.md:409-412 has
  an unchanged revision never re-run, however often it syncs: but sync compares with its own stamp, and
  running a work-mode item by hand stamps nothing (`RunSolitary`), so a revision that was held for
  readiness and run by hand meanwhile is run again by the next sync. That a revision runs once is
  therefore not a property here; of sync's own hand-overs it is the guard of `HandsOver`.
- Triage. Archiving a note through `PATCH` does not withdraw its queued analysis. A clock that steps
  back makes an edit look like one already analysed. An undecided older proposal whose id was used
  again keeps the badge lit when all of the latest analysis is decided, and can never be decided
  (`FindProposal`), though docs/DESIGN.md:985-986 and triage.ts:218-221 have the badge show nothing then.
- Chat. A lost read acknowledgement is not retried, so what it named is marked read by a later one
  or not at all (`missed`). `NothingLost` ends where a message is handed to Pi: one that still waits there when the
  session is replaced is gone, for it was acknowledged. A queued message handed over while a run's start is being acknowledged is
  marked read before its own run (`early`). `rollingSession` stays set when
  the queued command fails later. Replies land
  in the session that is active when they arrive.
- Pairing. The poll drains, so what a lost answer carried is gone (routes/pairing.ts:10-11 says exactly
  once), and `ReleaseTaken` excuses it. A release that waits for a run's end is not superseded by
  pairing again: the teammate is then autonomous while paired, and a chat reply may complete the item.
  `/ppt-worker-resume`, after the held item's run ended during the pause, nudges nothing and leaves the
  item held: `PromptedEnds` asks for a prompt or a nudge.
- Pi loop. A release or `/ppt-worker-resume` while idle starts a second polling chain, and `pollForWork`
  asks whether it may claim only before its first request: so a teammate can claim while paired or in
  the middle of a run, and with two free items can claim both, after which the first is forgotten
  (harnesses/pi/docs/DESIGN.md:203-206 has it claim only between runs). Two items and two chains reach it:
  `item[i] = "HELD"` for an `i` that neither `loop.current` nor a chain names, with "pane" alone. A claim or a poll in flight
  when the session is replaced is lost with it.

## 4. The proofs

TLC covers the instances above; the theorems hold for every value of the constants that meets the
named assumptions of the modules (`MaxAttempts` positive, directories and requests of the right
types, workflow states without duplicates or bucket names as `validateWorkflow` demands, crons and
dates whose fields are sets and numbers of the right kind, finitely many names, names for "nothing"
that are nothing else). Each safety invariant and action property of a run is stated by one, and each
refinement. Where a theorem has a hypothesis of its own, it is a set of events of `Env` that must not
happen, because the property is false with them: section 3 describes the case.

- `WorkQueue_proofs`. First the row operators (what enqueueing appends, what a write to a row keeps, that
  blocking is overlap). Every action changes rows in a few shapes only. `Evolves` says how any step may
  change a row, `StepShape` that all do; the invariants then follow from the shape and not from
  thirty actions each. `Typed` is `TypeOK` together with the bound on the table. `OneActive` and
  `OneRunner` are inductive with it. `BackoffRespected` (no retry is in flight before its backoff is over;
  it is proved only, no run checks it) is not: a claim acts on an old offer, so `BackoffInv` adds that
  whatever is on offer has served its backoff. `RetryChain` is not: a session error chains the retry to the
  row that failed and marks it read whether or not a retry can be enqueued, so that row must be the
  newest of its WorkDef and the WorkDef active (`LastOfDef`). `OnlineKeepsItem` is not: a heartbeat
  restores what the member holds, so `KeepInv` adds that a teammate that is up is known and holds what
  it runs; it needs `Remembered` (no restart of the daemon or of a teammate, no dismissal).
  `LeaseRefinement` maps each step to `Acquire`, `Release`,
  `Switch` or a stutter; of the lock itself, that it never creates an overlap while enforced
  (`NoNewOverlapCorrect`) and never has one when always enforced (`ExclusionCorrect`).
  `OneTeammatePerDirectory` needs `LeaseInv`: what a teammate runs is in flight, and
  leases in flight are disjoint. It is proved under `Undisturbed` (nothing withdraws an item from under
  its run: no deletion, force-fail or fail tool, and the lease is not switched).
- `StoryBoard_proofs`. `Boards` is the set of well-formed boards with at most one row per task. Each
  policy operator maps it into itself, each action is a composition of them, and so
  `TypeCorrect` and `OneActivePerTaskCorrect` follow. `WorkedWhereItStands` is not inductive: a row that
  is only offered must already stand in an agent state, as a claim asks nothing; a task that enters
  the board must have no rows, so tasks off the board must have none; and the id `addTask` chooses
  must be free, so ids must agree with `seq`. `Steady` is that strengthening, again proved operator
  by operator. Its `Undisturbed` excludes the three ways out of it: a workflow edited under a task, a
  story deleted with its items left behind and then recreated, and a task added after a restart
  renumbered its neighbours.

  The properties of admission rest on `EveryStep`: any step of the system is an edit of the board by a
  handler (`Edit`: tasks keep their place or go one state on, but those a person moved) followed by
  the admissions it led to (`Pulled`: each took the head of a story's queue whose turn it was), and no
  story that the edit gave something to admit is left unasked (`Settled`). That needs one invariant,
  `Ordered`: the tasks of a story stand at places of their own. From it `OneInPipeline` and
  `AdmittedInTurn` follow for every `Env`; `NoStall` unless tasks are reordered; `DoneStays` unless tasks
  are added after a restart has renumbered (`Numbered`: until then ids and `seq` agree); `StatusInSync`
  as the invariant `InSync`, while no task is added or deleted and no status is set by hand (`Unedited`).
- `TeammatePool_proofs`. A dismissal of a name that a living process has must be one of that process
  (`Marks`), and the dismissals of a queue must come due, and of one name be interrupted, in
  their order (`InTurn`); otherwise a pass could keep an older dismissal, close the window by a newer one, and
  a later spawn would be killed by the older. The pass itself is a loop over the queue: `LoopInv`
  says what it left, closed and marked after `k` directives, and holds after all of them by induction
  on `k`. The prover has no induction rule that takes a formula, so `Induction` states it for a set of numbers, by its
  least counterexample; `PassIs` gives the recursive function its equation. `KillsOnlyDismissed` follows:
  a window that a pass closes has a dismissal in the queue, so what ran in it was marked. The attempt
  showed the history variable `marked` wrong for a window that is closed and opened again in
  one pass, an instance larger than the run's; `DismissedAfter` is the correction.
- `Schedules_proofs`. `OncePerOccurrence` compares two histories: the last minute in which the timer met
  the schedule's occurrence, as crontab(5) names them, and that minute as it was when the job was last run.
  A job fires in two ways. In a minute that is due, which must be later than any occurrence met:
  `CursorPassed` says that the cursor is at least as late as each of them, and that activating a schedule
  moved it past the pause; the stamp is what keeps this, and `CronIsStandard` that the matcher's minutes are
  crontab's. Or to make up for a hold: `HeldApart` says that none of the schedule's jobs has run since the
  occurrence held, which came after the last pause, and that the schedule is not pending. So nothing is
  caught up either. `CronIsStandard`: for every valid expression and every date the matcher
  agrees with crontab(5) as the reference definition `Standard` has it (a loop by steps visits the numbers
  congruent to its start; 7 is Sunday; the two day fields); so schedules are stamped in the
  right minutes whatever the crons and the calendar.
- `SourceSync_proofs`. `Queued`: what was never mirrored has no work and no stamp, and a source that is off
  no mirror in use; `Asking`:
  an answer reports our comment only when the external system has it; `Threaded`: it has it only when
  a write-back has got that far. `OffIsEmpty` is a part of the first and
  `OwnPostsOnce` of the last: whatever the order of post, id and pulls, our comment is in the thread as
  somebody else's only when the write-back was cut off, hung or rejected.
- `Triage_proofs`. `Stamped`: the stamp is the version handed over, `Turns`: runs read versions in the
  order of their claims unless cut off. For the thread, `Booked` and the lemmas on its fold by id say
  that the latest line of an id decides; with them every line is a step of `ProposalLedger`.
- `AssistantChat_proofs`. `Polling` and `Reading` say what each of the two awaiting handlers may hold of the
  messages while the other goes on; the receipts' honesty and the refinement of `ChatChannel` follow.
  `HandedOncePerLoss` (a message is handed over once, and once more for each lost acknowledgement) is
  proved only.
- `PiTeammate_proofs`. `HandedInOrder` speaks of an answer that is on its way; what makes it inductive is
  that the last request heard, the answer, the outbox and the release kept by the daemon are one
  sequence that rises, and a paired intent keeps no release (`OrderInv`): so superseding, dropping the
  oldest of a full outbox and forgetting everything in a restart all leave it rising.

The argument for each refinement: the mapping of the initial state, then for every action the
abstract step it is, or that the mapped variables stay.

Only model-checked: liveness, which is out of the prover's reach with fairness (`ReadyIsClaimed`,
`InProgressEnds`, `StoriesFinish`, `DismissalEnds`, `PoolFilled`, `HoldsAreMadeUp`, `MirrorsConverge`,
`EditsSurvive`, `NothingLost`, `ReadInTheEnd`, `ReleaseTaken`, `PromptedEnds`).

## 5. What is not modelled

The table of section 1 and `PROJECT.json` "components" list every part. Left out for good: text
assembly (prompts, personas), append-only records (transcripts, usage), plugins and
installation, the commands of the terminal backends, git sync, HTTP and authentication, CLI, desktop
apps and web UI. They keep no state that decides what the team does, and are most of the
repository's lines. Of the modelled parts these operations are left out: edits of pending
definitions, archiving single WorkDefs, marking items read by hand, the queue of Reset directives,
the ACP session inside a run, hand-edited files, switching the Story source off, a source's invalid items,
several sources at once, groups and positions of notes, the triage badge and the list of pending proposals (views), the daemon's chat sessions and replies,
starting the leader.

## 6. Plan

Done, in this order: the queue with its teammates and the lease; the board; the pool; schedules;
external sources; triage; the chat; pairing with the Pi loop. Next:

1. Proofs: what the liveness properties rest on, as lemmas without fairness: that
   a pass of the spawner brings every dismissal closer to its end, and a tick of the pool its size.
2. A composition of `StoryBoard`'s claims with `WorkQueue`'s teammates, if it shows something neither does.
3. Several sources with one queue; the chat's replies.

## 7. Running

    tlasany StoryBoard.tla
    tlc -workers 4 -config StoryBoard_moves.cfg MCStoryBoard
    tlc -workers 4 -config WorkQueue_failures.cfg MCWorkQueue
    tlapm StoryBoard_proofs.tla
