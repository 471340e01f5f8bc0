----------------------------- MODULE WorkQueue -----------------------------
(***************************************************************************)
(* The daemon's work queue and the teammates that poll it: Solitary        *)
(* WorkDefs, their WorkItems, the members table with its reaper, and each  *)
(* teammate's poll -> claim -> run -> report loop.                         *)
(*                                                                         *)
(* The daemon is one single-threaded process, so an action is one request  *)
(* handler or one timer tick, run to its end.  Requests interleave freely, *)
(* and either half of a request may be lost: a teammate's step with        *)
(* "lost" \in Env says what is left when it is.                            *)
(*                                                                         *)
(* Code: src/daemon/store/queue.ts, src/daemon/store/members.ts,           *)
(* src/daemon/routes/agents.ts, src/daemon/routes/work.ts,                 *)
(* src/daemon/store.ts, src/daemon/sources/task.ts, and, for the teammate, *)
(* src/agent/supervisor.ts and src/harnesses/pi/src/teammate.ts.           *)
(***************************************************************************)
EXTENDS WorkItems

CONSTANTS WorkDir,      \* the directory each WorkDef names, locked once it is active
          AgentDir,     \* each teammate's working directory
          MaxAttempts,  \* maxRetries + 1
          Env,          \* which optional events of the environment happen
          MaxItems      \* bound on the rows of work_items

ASSUME WorkDirAssumption == WorkDir \in [Defs -> Dirs \union {NoDir}]
ASSUME AgentDirAssumption == AgentDir \in [Agents -> Dirs]
ASSUME BoundsAssumption == MaxAttempts \in Nat \ {0} /\ MaxItems \in Nat
ASSUME EnvAssumption ==
    Env \subseteq {"crash",      \* a teammate's process dies
                   "restart",    \* ... and is started again under its name
                   "stop",       \* a teammate shuts down and deregisters
                   "silence",    \* a live teammate's heartbeats stop for a while
                   "lost",       \* a request or its reply is lost
                   "boot",       \* the daemon restarts
                   "dismiss",    \* a person dismisses a member
                   "failTool",   \* an agent gives up in the middle of its run
                   "force",      \* a person force-fails a MORIBUND item
                   "cancel",     \* a person cancels a READY item
                   "delete",     \* a person deletes a WorkDef
                   "pause", "readiness", "leases"}  \* the three switches toggle

VARIABLES items,      \* the work_items table
          defs,       \* each WorkDef: absent, pending or active
          members,    \* the members table: absent, online (idle or working), offline
          dismissed,  \* the in-memory dismissal tombstones
          paused,     \* distribution is paused (in memory)
          ready,      \* the readiness probe's last answer (in memory)
          exclusive,  \* config.exclusiveDirectories
          proc,       \* each teammate's process: down, joining, up, leaving
          offer,      \* the item a teammate was offered and is about to claim, or 0
          work        \* the item a teammate is running, or 0

daemonVars == <<items, defs, members, dismissed, paused, ready, exclusive>>
agentVars  == <<proc, offer, work>>
switches   == <<paused, ready, exclusive>>
vars       == <<daemonVars, agentVars>>

Room == Len(items) < MaxItems

Registered(a) == members[a] # "absent"

-----------------------------------------------------------------------------
(* Matching: getNextWorkItem. *)

\* isRetryDue: a retry waits out its backoff, then for the readiness probe.
RetryDue(i) == items[i].attempt > 1 => ~items[i].held /\ ready

\* isWorkItemEligible for a Solitary def: it still exists.
Eligible(i) == defs[items[i].def] # "absent"

Candidates ==
    {i \in InState(items, {"READY"}) :
        Eligible(i) /\ RetryDue(i) /\ ~Blocked(items, i, exclusive)}

\* Mutant of OnlineDirs: members the reaper found silent still count.
OnlineDirsWithOffline == {AgentDir[a] : a \in {b \in Agents : members[b] # "absent"}}

OnlineDirs == {AgentDir[a] : a \in {b \in Agents : members[b] = "online"}}

OwnDirectory(a)  == {i \in Candidates : items[i].dir = AgentDir[a]}
NoDirectory      == {i \in Candidates : items[i].dir = NoDir}
OrphanDirectory(a) ==
    {i \in Candidates : items[i].dir \notin {NoDir, AgentDir[a]} \union OnlineDirs}

\* The tier the teammate a chooses from: its own directory's work, then
\* anyone's, then work in a directory no online member has.
Matching(a) ==
    IF OwnDirectory(a) # {} THEN OwnDirectory(a)
    ELSE IF NoDirectory # {} THEN NoDirectory
    ELSE OrphanDirectory(a)

-----------------------------------------------------------------------------
(* People: WorkDefs, queue recovery, switches. *)

\* createWorkDef: an active def is enqueued at once unless `enqueue` is false.
CreateDef(d, pending, enqueue) ==
    /\ defs[d] = "absent"
    /\ defs' = [defs EXCEPT ![d] = IF pending THEN "pending" ELSE "active"]
    /\ IF enqueue /\ ~pending /\ ~HasActive(items, d)
       THEN Room /\ items' = EnqueueFor(items, d, WorkDir[d], 1, FALSE)
       ELSE UNCHANGED items
    /\ UNCHANGED <<members, dismissed, switches, agentVars>>

\* activateWorkDef with the Solitary source's onActivate.
ActivateDef(d, enqueue) ==
    /\ defs[d] = "pending"
    /\ defs' = [defs EXCEPT ![d] = "active"]
    /\ IF enqueue /\ ~HasActive(items, d)
       THEN Room /\ items' = EnqueueFor(items, d, WorkDir[d], 1, FALSE)
       ELSE UNCHANGED items
    /\ UNCHANGED <<members, dismissed, switches, agentVars>>

\* runWorkDef with runSolitary; also reEnqueueRef, whose rule is the same for
\* a Solitary def: refused when pending, unknown or already in the queue.
RunDef(d) ==
    /\ defs[d] = "active"
    /\ ~HasActive(items, d)
    /\ Room
    /\ items' = EnqueueFor(items, d, WorkDir[d], 1, FALSE)
    /\ UNCHANGED <<defs, members, dismissed, switches, agentVars>>

\* deleteWorkDef: the active item is cancelled in whatever state it is.
DeleteDef(d) ==
    /\ "delete" \in Env
    /\ defs[d] # "absent"
    /\ items' = SetStates(items, ActiveItems(items, d), "CANCELED")
    /\ defs' = [defs EXCEPT ![d] = "absent"]
    /\ UNCHANGED <<members, dismissed, switches, agentVars>>

\* cancelWorkItem: READY only.
CancelItem(i) ==
    /\ "cancel" \in Env
    /\ items[i].state = "READY"
    /\ items' = SetStates(items, {i}, "CANCELED")
    /\ UNCHANGED <<defs, members, dismissed, switches, agentVars>>

\* forceFailWorkItem: MORIBUND only, optionally enqueuing a fresh first attempt.
ForceFail(i, reEnqueue) ==
    /\ "force" \in Env
    /\ items[i].state = "MORIBUND"
    /\ LET d      == items[i].def
           failed == SetStates(items, {i}, "FAILED")
       IN  IF reEnqueue /\ defs[d] = "active" /\ ~HasActive(failed, d)
           THEN Room /\ items' = EnqueueFor(failed, d, WorkDir[d], 1, FALSE)
           ELSE items' = failed
    /\ UNCHANGED <<defs, members, dismissed, switches, agentVars>>

\* POST /api/control/pause and /resume.
SetPaused ==
    /\ "pause" \in Env
    /\ paused' = ~paused
    /\ UNCHANGED <<items, defs, members, dismissed, ready, exclusive, agentVars>>

\* The readiness probe's answer changes.
SetReady ==
    /\ "readiness" \in Env
    /\ ready' = ~ready
    /\ UNCHANGED <<items, defs, members, dismissed, paused, exclusive, agentVars>>

\* PUT /api/config { exclusiveDirectories }.
SetExclusive ==
    /\ "leases" \in Env
    /\ exclusive' = ~exclusive
    /\ UNCHANGED <<items, defs, members, dismissed, paused, ready, agentVars>>

\* The clock passes a retry's retry_at.
BackoffPasses(i) ==
    /\ items[i].held
    /\ items' = [items EXCEPT ![i].held = FALSE]
    /\ UNCHANGED <<defs, members, dismissed, switches, agentVars>>

-----------------------------------------------------------------------------
(* Members. *)

\* updateMemberStatus: an UPDATE, so nothing for an unknown member.
Touch(a) == members' = IF Registered(a) THEN [members EXCEPT ![a] = "online"] ELSE members

\* POST /api/agents/register by a starting or forgotten teammate.
Register(a) ==
    /\ proc[a] = "joining"
    /\ proc' = [proc EXCEPT ![a] = "up"]
    /\ members' = [members EXCEPT ![a] = "online"]
    /\ dismissed' = dismissed \ {a}
    /\ UNCHANGED <<items, defs, switches, offer, work>>

\* Mutants of HeartbeatKnown: nothing is restored; failed items are restored too.
HeartbeatKnownForgetful(a) ==
    /\ proc[a] = "up"
    /\ Registered(a)
    /\ members' = [members EXCEPT ![a] = "online"]
    /\ UNCHANGED <<items, defs, dismissed, switches, agentVars>>
HeartbeatKnownReviving(a) ==
    /\ proc[a] = "up"
    /\ Registered(a)
    /\ members' = [members EXCEPT ![a] = "online"]
    /\ items' = IF members[a] = "offline"
                THEN SetStates(items, HeldBy(items, a, {"MORIBUND", "FAILED"}), "IN_PROGRESS")
                ELSE items
    /\ UNCHANGED <<defs, dismissed, switches, agentVars>>

\* POST /api/agents/heartbeat of a known member: one that was offline gets its
\* MORIBUND items back.
HeartbeatKnown(a) ==
    /\ proc[a] = "up"
    /\ Registered(a)
    /\ members' = [members EXCEPT ![a] = "online"]
    /\ items' = IF members[a] = "offline"
                THEN SetStates(items, HeldBy(items, a, {"MORIBUND"}), "IN_PROGRESS")
                ELSE items
    /\ UNCHANGED <<defs, dismissed, switches, agentVars>>

\* The heartbeat of an unknown member is answered `dismissed` or `reregister`.
HeartbeatUnknown(a) ==
    /\ proc[a] = "up"
    /\ ~Registered(a)
    /\ proc' = [proc EXCEPT ![a] = IF a \in dismissed THEN "leaving" ELSE "joining"]
    /\ UNCHANGED <<daemonVars, offer, work>>

\* Mutant of Reap: members go offline, their items stay IN_PROGRESS.
ReapMembersOnly(S) ==
    /\ S # {}
    /\ \A a \in S : members[a] = "online" /\ (proc[a] = "down" \/ "silence" \in Env)
    /\ members' = [a \in Agents |-> IF a \in S THEN "offline" ELSE members[a]]
    /\ UNCHANGED <<items, defs, dismissed, switches, agentVars>>

\* reapOfflineAgents: one pass of the reaper over the members S it finds silent.
Reap(S) ==
    /\ S # {}
    /\ \A a \in S : members[a] = "online" /\ (proc[a] = "down" \/ "silence" \in Env)
    /\ items' = SetStates(items, UNION {HeldBy(items, a, {"IN_PROGRESS"}) : a \in S}, "MORIBUND")
    /\ members' = [a \in Agents |-> IF a \in S THEN "offline" ELSE members[a]]
    /\ UNCHANGED <<defs, dismissed, switches, agentVars>>

\* removeMember.
RemoveMember(a) ==
    /\ items' = Forget(items, a)
    /\ members' = [members EXCEPT ![a] = "absent"]

\* DELETE /api/agents/:id?dismiss=true by a person: dismissMember.
Dismiss(a) ==
    /\ "dismiss" \in Env
    /\ Registered(a)
    /\ dismissed' = dismissed \union {a}
    /\ RemoveMember(a)
    /\ UNCHANGED <<defs, switches, agentVars>>

\* The daemon stops and starts again: resetConnectionsForBoot, and everything
\* held in memory is gone.
Boot ==
    /\ "boot" \in Env
    /\ items' = SetStates(items, InState(items, {"IN_PROGRESS"}), "MORIBUND")
    /\ members' = [a \in Agents |-> "absent"]
    /\ dismissed' = {}
    /\ paused' = FALSE
    /\ ready' = TRUE
    /\ UNCHANGED <<defs, exclusive, agentVars>>

-----------------------------------------------------------------------------
(* A teammate's loop. *)

\* GET /api/agents/next-work by an idle teammate.
NextWork(a) ==
    /\ proc[a] \in {"joining", "up"}
    /\ work[a] = 0
    /\ offer[a] = 0
    /\ ~paused
    /\ Registered(a)
    /\ \E i \in Matching(a) :
        /\ \A j \in Matching(a) : i <= j   \* the oldest
        /\ offer' = [offer EXCEPT ![a] = i]
    /\ UNCHANGED <<daemonVars, proc, work>>

\* Mutant of Claimable: the item is taken in whatever state it now is.
ClaimableAnyState(i) == ~Blocked(items, i, exclusive)

\* What claimWorkItem re-checks, atomically, of an item offered earlier.
Claimable(i) == items[i].state = "READY" /\ ~Blocked(items, i, exclusive)

\* POST /api/agents/claim/:id is granted.  When the reply is lost the teammate
\* never learns of it.
Claim(a) ==
    /\ proc[a] # "down"
    /\ offer[a] # 0
    /\ Claimable(offer[a])
    /\ items' = Lease(items, offer[a], a)
    /\ Touch(a)
    /\ \/ work' = [work EXCEPT ![a] = offer[a]]
       \/ "lost" \in Env /\ UNCHANGED work
    /\ offer' = [offer EXCEPT ![a] = 0]
    /\ UNCHANGED <<defs, dismissed, switches, proc>>

\* The claim is refused with a 409, or never reaches the daemon.
ClaimRefused(a) ==
    /\ offer[a] # 0
    /\ ~Claimable(offer[a]) \/ "lost" \in Env
    /\ offer' = [offer EXCEPT ![a] = 0]
    /\ UNCHANGED <<daemonVars, proc, work>>

\* The state setter's authorisation: the holder, or anyone once no one holds it.
MaySet(a, i) == items[i].member \in {a, NoMember}

\* Mutant of SessionErrorStep: one attempt too many.
SessionErrorStepOffByOne(i) ==
    LET d      == items[i].def
        again  == items[i].attempt <= MaxAttempts /\ defs[d] # "absent"
        failed == [items EXCEPT ![i].state = "FAILED", ![i].read = again]
    IN  IF again /\ defs[d] = "active" /\ ~HasActive(failed, d)
        THEN Room /\ items' = EnqueueFor(failed, d, WorkDir[d], items[i].attempt + 1, TRUE)
        ELSE items' = failed

\* failWorkItemForSessionError on an in-flight item: while attempts are left
\* it fails read, and the next attempt is enqueued held.
SessionErrorStep(i) ==
    LET d      == items[i].def
        again  == items[i].attempt < MaxAttempts /\ defs[d] # "absent"
        failed == [items EXCEPT ![i].state = "FAILED", ![i].read = again]
    IN  IF again /\ defs[d] = "active" /\ ~HasActive(failed, d)
        THEN Room /\ items' = EnqueueFor(failed, d, WorkDir[d], items[i].attempt + 1, TRUE)
        ELSE items' = failed

\* POST /api/agents/work-items/:id/state by the teammate a.
SetWorkItemState(a, i, outcome) ==
    IF ~MaySet(a, i) THEN UNCHANGED <<items, members>>
    ELSE /\ Touch(a)
         /\ IF items[i].state \notin InFlightStates THEN UNCHANGED items
            ELSE IF outcome = "sessionError" THEN SessionErrorStep(i)
            ELSE items' = SetStates(items, {i}, outcome)

\* The run ends and the teammate reports it, once: a report that is lost is
\* not repeated, and one whose item it sees has ended is not made.
Report(a, outcome) ==
    /\ proc[a] # "down"
    /\ work[a] # 0
    /\ \/ SetWorkItemState(a, work[a], outcome)
       \/ /\ "lost" \in Env \/ items[work[a]].state \notin InFlightStates
          /\ UNCHANGED <<items, members>>
    /\ work' = [work EXCEPT ![a] = 0]
    /\ UNCHANGED <<defs, dismissed, switches, proc, offer>>

\* The agent gives up with the `fail` tool: its item ends, its run goes on
\* until the model stops.
FailMidRun(a) ==
    /\ "failTool" \in Env
    /\ proc[a] # "down"
    /\ work[a] # 0
    /\ items[work[a]].state \in InFlightStates
    /\ SetWorkItemState(a, work[a], "FAILED")
    /\ UNCHANGED <<defs, dismissed, switches, agentVars>>

\* A person stops the teammate: it polls no more, then deregisters.
BeginStop(a) ==
    /\ "stop" \in Env
    /\ proc[a] = "up"
    /\ proc' = [proc EXCEPT ![a] = "leaving"]
    /\ UNCHANGED <<daemonVars, offer, work>>

\* DELETE /api/agents/:id by a leaving teammate (a tombstoned one is unknown).
Deregister(a) ==
    /\ proc[a] = "leaving"
    /\ Registered(a)
    /\ RemoveMember(a)
    /\ UNCHANGED <<defs, dismissed, switches, agentVars>>

\* The process ends, with or without having deregistered, and forgets.
Exit(a) ==
    /\ proc[a] = "leaving" \/ (proc[a] # "down" /\ "crash" \in Env)
    /\ proc' = [proc EXCEPT ![a] = "down"]
    /\ offer' = [offer EXCEPT ![a] = 0]
    /\ work' = [work EXCEPT ![a] = 0]
    /\ UNCHANGED daemonVars

Start(a) ==
    /\ "restart" \in Env
    /\ proc[a] = "down"
    /\ proc' = [proc EXCEPT ![a] = "joining"]
    /\ UNCHANGED <<daemonVars, offer, work>>

-----------------------------------------------------------------------------

Init ==
    /\ items = << >>
    /\ defs = [d \in Defs |-> "absent"]
    /\ members = [a \in Agents |-> "absent"]
    /\ dismissed = {}
    /\ paused = FALSE
    /\ ready = TRUE
    /\ exclusive = TRUE
    /\ proc = [a \in Agents |-> "joining"]
    /\ offer = [a \in Agents |-> 0]
    /\ work = [a \in Agents |-> 0]

PersonStep ==
    \/ \E d \in Defs :
        \/ \E pending, enqueue \in BOOLEAN : CreateDef(d, pending, enqueue)
        \/ \E enqueue \in BOOLEAN : ActivateDef(d, enqueue)
        \/ RunDef(d)
        \/ DeleteDef(d)
    \/ \E i \in DOMAIN items :
        \/ CancelItem(i)
        \/ \E reEnqueue \in BOOLEAN : ForceFail(i, reEnqueue)
    \/ \E a \in Agents : Dismiss(a) \/ BeginStop(a)
    \/ SetPaused
    \/ SetExclusive

DaemonStep ==
    \/ \E i \in DOMAIN items : BackoffPasses(i)
    \/ \E S \in SUBSET Agents : Reap(S)
    \/ SetReady
    \/ Boot

AgentStep(a) ==
    \/ Start(a)
    \/ Register(a)
    \/ HeartbeatKnown(a)
    \/ HeartbeatUnknown(a)
    \/ NextWork(a)
    \/ Claim(a)
    \/ ClaimRefused(a)
    \/ \E outcome \in {"COMPLETE", "FAILED", "sessionError"} : Report(a, outcome)
    \/ FailMidRun(a)
    \/ Deregister(a)
    \/ Exit(a)

Next == PersonStep \/ DaemonStep \/ \E a \in Agents : AgentStep(a)

Spec == Init /\ [][Next]_vars

-----------------------------------------------------------------------------
(* Properties. *)

\* The types of the variables.
TypeOK ==
    /\ items \in Seq(WorkItem)
    /\ defs \in [Defs -> {"absent", "pending", "active"}]
    /\ members \in [Agents -> {"absent", "online", "offline"}]
    /\ dismissed \subseteq Agents
    /\ <<paused, ready, exclusive>> \in BOOLEAN \X BOOLEAN \X BOOLEAN
    /\ proc \in [Agents -> {"down", "joining", "up", "leaving"}]
    /\ offer \in [Agents -> DOMAIN items \union {0}]
    /\ work \in [Agents -> DOMAIN items \union {0}]

\* A WorkDef never has two active items, whichever of Create, Activate, Run,
\* automatic retry, force-fail with re-enqueue and re-enqueue races which:
\* getActiveWorkItem (LIMIT 1) and every caller of enqueueFor rely on it.
OneActive == \A i, j \in InState(items, ActiveStates) : items[i].def = items[j].def => i = j

\* An item is run by at most one teammate, and by no one but its holder (or
\* by the member that was removed while it ran it): no interleaving of polls,
\* claims, lost replies, restarts and removals hands an item out twice.
OneRunner ==
    \A a \in Agents : work[a] # 0 =>
        /\ items[work[a]].state # "READY"
        /\ items[work[a]].member \in {a, NoMember}
        /\ \A b \in Agents : work[b] = work[a] => b = a

\* The lease keeps two running teammates out of one directory tree through
\* crashes, reaping, removals, reboots and lost messages, because MORIBUND
\* items keep theirs (docs/DESIGN.md "Reaping").
OneTeammatePerDirectory ==
    \A a, b \in Agents :
        a # b /\ work[a] # 0 /\ work[b] # 0 => ~Conflict(items[work[a]], items[work[b]])

\* The item of the same WorkDef enqueued just before i.
Predecessor(i, j) ==
    /\ j < i
    /\ items[j].def = items[i].def
    /\ \A k \in DOMAIN items : items[k].def = items[i].def => k <= j \/ i <= k

\* Automatic retries form chains: attempt n+1 follows directly on an attempt n
\* that failed and was marked read, an attempt marked read always got its
\* retry (nothing drops out of the Inbox unretried), and no chain is longer
\* than maxRetries + 1 (failWorkItemForSessionError).
RetryChain ==
    /\ \A i \in DOMAIN items : items[i].attempt > 1 =>
        /\ items[i].attempt <= MaxAttempts
        /\ \E j \in DOMAIN items :
            /\ Predecessor(i, j)
            /\ items[j].state = "FAILED" /\ items[j].read
            /\ items[i].attempt = items[j].attempt + 1
    /\ \A j \in DOMAIN items : items[j].read =>
        \E i \in DOMAIN items : Predecessor(i, j) /\ items[i].attempt = items[j].attempt + 1

\* A retry is never in flight before its backoff has passed, even when the
\* offer was made long before the claim (isRetryDue is checked at the offer,
\* not at the claim).
BackoffRespected == \A i \in DOMAIN items : items[i].held => items[i].state \in {"READY", "CANCELED"}

\* A row's life: rows are only added, what an item is never changes, a
\* terminal item stays as it ended, and nothing that was claimed is READY again.
ItemLifecycle ==
    [][/\ DOMAIN items \subseteq DOMAIN items'
       /\ \A i \in DOMAIN items :
            /\ items'[i].def = items[i].def
            /\ items'[i].dir = items[i].dir
            /\ items'[i].attempt = items[i].attempt
            /\ items[i].state \in TerminalStates => items'[i].state = items[i].state
            /\ items[i].state \in InFlightStates => items'[i].state # "READY"]_vars

\* A teammate that is online has its item: what it was running when the reaper
\* found it silent is not MORIBUND any more once it is heard again ("the agent
\* reconnecting restores them", docs/DESIGN.md:1152-1153).
OnlineKeepsItem ==
    \A a \in Agents :
        work[a] # 0 /\ proc[a] = "up" /\ members[a] = "online" => items[work[a]].state # "MORIBUND"

\* The queue implements the directory lock: an in-flight item with a
\* directory holds the lease on it.
held == {<<i, items[i].dir>> : i \in {j \in InFlight(items) : items[j].dir # NoDir}}

Lock == INSTANCE LeaseLock WITH Ids <- 1 .. MaxItems, enforced <- exclusive

ImplementsLeaseLock == Lock!LockSpec

-----------------------------------------------------------------------------
(* Liveness. *)

\* Timers keep firing and live teammates keep working: a teammate registers,
\* heartbeats, polls, claims what it was offered and ends its runs; the reaper
\* finds members whose process is gone; clocks advance.
Fairness ==
    /\ \A a \in Agents :
        /\ WF_vars(Register(a))
        /\ WF_vars(HeartbeatKnown(a))
        /\ WF_vars(HeartbeatUnknown(a))
        /\ WF_vars(NextWork(a))
        /\ WF_vars(Claim(a))
        /\ WF_vars(ClaimRefused(a))
        /\ WF_vars(\E outcome \in {"COMPLETE", "FAILED", "sessionError"} : Report(a, outcome))
        /\ WF_vars(proc[a] = "down" /\ Reap({a}))
    /\ \A i \in 1 .. MaxItems : WF_vars(i \in DOMAIN items /\ BackoffPasses(i))

FairSpec == Spec /\ Fairness

ItemIs(i, S) == i \in DOMAIN items /\ items[i].state \in S

\* Work does not starve: a READY item is claimed (or withdrawn) unless what
\* blocks it is MORIBUND, which only a person resolves, or no teammate is left.
ReadyIsClaimed ==
    \A i \in 1 .. MaxItems :
        ItemIs(i, {"READY"})
            ~> \/ ~ItemIs(i, {"READY"})
               \/ \E j \in InState(items, {"MORIBUND"}) : Conflict(items[i], items[j])
               \/ \A a \in Agents : proc[a] = "down"

\* A dead teammate's work surfaces: an item does not stay IN_PROGRESS for
\* ever, it ends or the reaper makes it MORIBUND for a person to resolve.
InProgressEnds ==
    \A i \in 1 .. MaxItems : ItemIs(i, {"IN_PROGRESS"}) ~> ~ItemIs(i, {"IN_PROGRESS"})
=============================================================================
