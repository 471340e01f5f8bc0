--------------------------- MODULE TeammatePool ---------------------------
(***************************************************************************)
(* The declared size of the team and what keeps it: the pool reconciler,   *)
(* the queue of spawn and dismiss directives, the spawner that turns them  *)
(* into terminal windows every two seconds, the dismissal tombstones, and  *)
(* the teammates' processes inside the windows.                            *)
(*                                                                         *)
(* A spawned teammate's id, name and window are one name.  Directives are  *)
(* in state.db; tombstones and the spawner's interrupts are in memory, so  *)
(* a restart of the daemon forgets them and the members, while windows and *)
(* processes live on.                                                      *)
(*                                                                         *)
(* Code: src/daemon/store/members.ts, src/daemon/spawner.ts,               *)
(* src/daemon/terminal/tmux.ts, src/daemon/routes/agents.ts.               *)
(***************************************************************************)
EXTENDS Naturals, FiniteSets, SequencesExt

CONSTANTS Names,          \* the names generateTeammateName may draw
          MaxTeammates,   \* config.maxTeammates, 0 for no cap
          FirstDeclared,  \* config.minTeammates when the daemon is first started
          Sizes,          \* the sizes a person may declare
          Unset,          \* minTeammates is not declared
          Env,            \* which optional events of the environment happen
          MaxEvents,      \* bound on what people, failures and restarts do
          MaxDirectives   \* bound on pending directives

ASSUME PoolAssumption ==
    /\ MaxTeammates \in Nat /\ MaxEvents \in Nat /\ MaxDirectives \in Nat
    /\ Unset \notin Nat /\ FirstDeclared \in Nat \union {Unset}
    /\ Sizes \subseteq Nat \union {Unset}
    /\ IsFiniteSet(Names)
ASSUME PoolEnvAssumption ==
    Env \subseteq {"crash",     \* a teammate's process dies, also while it starts
                   "silence",   \* a live teammate is reaped and heard again
                   "quit",      \* a teammate deregisters and ends by itself
                   "dismiss",   \* a person dismisses a member
                   "spawn",     \* a person asks for a spawn, or cancels one
                   "named",     \* ... under a name of their own choice
                   "size",      \* a person declares another size
                   "close",     \* a person closes a window
                   "leader",    \* the leader is lost
                   "terminal",  \* the terminal or the harness stops being usable
                   "boot"}      \* the daemon restarts

VARIABLES declared,    \* config.minTeammates
          leader,      \* the leader's row: absent, online, offline
          member,      \* the teammates' rows: absent, online, offline
          tombstone,   \* dismissedIds and dismissals: none, waiting, told, gone
          directives,  \* pending leader_directives, oldest first
          windows,     \* the windows of the team's terminal session
          proc,        \* what runs in a window: none, starting, up, leaving
          capable,     \* getSpawnCapability().canSpawn
          marked,      \* history: processes dismissed since their spawn was asked for
          events       \* how many of the bounded events have happened

memory   == <<leader, member, tombstone>>
terminal == <<windows, proc, marked>>
config   == <<declared, capable>>
vars     == <<memory, directives, terminal, config, events>>

Spawn(n)   == [action |-> "spawn", name |-> n, due |-> FALSE, interrupted |-> FALSE]
Dismiss(n) == [action |-> "dismiss", name |-> n, due |-> FALSE, interrupted |-> FALSE]

Directive == [action : {"spawn", "dismiss"}, name : Names, due : BOOLEAN, interrupted : BOOLEAN]

Pending(action) == SelectSeq(directives, LAMBDA d : d.action = action)
PendingNames(action) == {d.name : d \in ToSet(Pending(action))}

OnlineIn(m) == {n \in Names : m[n] = "online"}

---------------------------------------------------------------------------
(* The reconciler.                                                         *)

\* resolveMinTeammates: half of the cap while no size is declared, never above the cap.
TargetOf(size) ==
    LET min == IF size = Unset THEN MaxTeammates \div 2 ELSE size
    IN  IF MaxTeammates > 0 /\ min > MaxTeammates THEN MaxTeammates ELSE min

Minus(a, b) == IF a > b THEN a - b ELSE 0

\* Mutant: teammates that are offline count too.
DeficitCountsOffline(size, mem) ==
    Minus(TargetOf(size), Cardinality({n \in Names : mem[n] # "absent"}) + Len(Pending("spawn")))

\* What is missing: the target less the teammates online and the spawns pending.
Deficit(size, mem) ==
    Minus(TargetOf(size), Cardinality(OnlineIn(mem)) + Len(Pending("spawn")))

\* What generateSpawnName avoids is members, offline ones too, and pending spawns.
FreeNames(mem) == {n \in Names : mem[n] = "absent" /\ n \notin PendingNames("spawn")}

\* createLeaderDirective's generated names.  Names are never short in the code; here
\* the bound Names leaves a spawn out when none is free.
GeneratedNames(mem, k) ==
    LET free == FreeNames(mem)
    IN  {S \in SUBSET free : Cardinality(S) = IF k <= Cardinality(free) THEN k ELSE Cardinality(free)}

\* reconcileTeammatePool: queues the missing spawns when a leader is online and the
\* daemon can realize them.  fresh is the set of names it draws.
Reconcile(size, lead, mem, fresh) ==
    LET k == IF lead = "online" /\ capable THEN Deficit(size, mem) ELSE 0
    IN  /\ fresh \in GeneratedNames(mem, k)
        /\ directives' = directives \o [i \in 1..Cardinality(fresh) |-> Spawn(SetToSeq(fresh)[i])]

---------------------------------------------------------------------------
(* Members and the reaper.                                                 *)

Live(n) == proc[n] # "none"
Heard(n) == proc[n] = "up"

\* The 30 s timer: reapOfflineAgents, then reconcileTeammatePool.  A process that no
\* longer heartbeats is reaped; with "silence" a live one may be.
Tick(gone, leaderGone, fresh) ==
    LET mem  == [n \in Names |-> IF n \in gone THEN "offline" ELSE member[n]]
        lead == IF leaderGone THEN "offline" ELSE leader
    IN  /\ gone \subseteq {n \in OnlineIn(member) : ~Heard(n) \/ "silence" \in Env}
        /\ leaderGone => leader = "online" /\ "leader" \in Env
        /\ member' = mem /\ leader' = lead
        /\ Reconcile(declared, lead, mem, fresh)
        /\ UNCHANGED <<tombstone, terminal, config>>

\* A tick that reaps whoever is gone and nobody else.
FullTick(fresh) == Tick({n \in OnlineIn(member) : ~Heard(n)}, FALSE, fresh)

\* registerMember of the leader: its arrival reconciles the pool.
LeaderRegisters(fresh) ==
    /\ leader # "online"
    /\ leader' = "online"
    /\ Reconcile(declared, "online", member, fresh)
    /\ UNCHANGED <<member, tombstone, terminal, config>>

\* setMinTeammates clamps to the cap, saves and reconciles.
SetMinTeammates(size, fresh) ==
    /\ "size" \in Env
    /\ declared' = IF size = Unset THEN Unset ELSE TargetOf(size)
    /\ Reconcile(declared', leader, member, fresh)
    /\ UNCHANGED <<memory, terminal, capable>>

\* registerMember: the row is replaced and any dismissal of that id is forgotten.
RegisterMember(n) ==
    /\ member' = [member EXCEPT ![n] = "online"]
    /\ tombstone' = [tombstone EXCEPT ![n] = "none"]

\* A started process connects for the first time.
Register(n) ==
    /\ proc[n] = "starting"
    /\ proc' = [proc EXCEPT ![n] = "up"]
    /\ RegisterMember(n)
    /\ UNCHANGED <<leader, directives, windows, marked, config>>

\* The heartbeat of a teammate the reaper had given up.
HeartbeatReturns(n) ==
    /\ Heard(n) /\ member[n] = "offline"
    /\ member' = [member EXCEPT ![n] = "online"]
    /\ UNCHANGED <<leader, tombstone, directives, terminal, config>>

\* An unknown id that was not dismissed is answered `reregister`, and registers.
HeartbeatReregisters(n) ==
    /\ Heard(n) /\ member[n] = "absent" /\ tombstone[n] = "none"
    /\ RegisterMember(n)
    /\ UNCHANGED <<leader, directives, terminal, config>>

\* A dismissed id is answered `dismissed`: noted, and the process begins to leave.
HeartbeatDismissed(n) ==
    /\ Heard(n) /\ member[n] = "absent" /\ tombstone[n] # "none"
    /\ tombstone' = [tombstone EXCEPT ![n] = IF @ = "waiting" THEN "told" ELSE @]
    /\ proc' = [proc EXCEPT ![n] = "leaving"]
    /\ UNCHANGED <<leader, member, directives, windows, marked, config>>

\* dismissedAgentExited: enough time has passed since it was told.
GracePasses(n) ==
    /\ tombstone[n] = "told"
    /\ tombstone' = [tombstone EXCEPT ![n] = "gone"]
    /\ UNCHANGED <<leader, member, directives, terminal, config>>

EndProcess(n) ==
    /\ proc' = [proc EXCEPT ![n] = "none"]
    /\ marked' = marked \ {n}
    /\ UNCHANGED windows

\* DELETE /api/agents/:id without dismiss: a member is removed, and a dismissed agent
\* that is not a member any more has exited.
Deregister(n) ==
    /\ member' = [member EXCEPT ![n] = "absent"]
    /\ tombstone' = [tombstone EXCEPT ![n] = IF member[n] = "absent" /\ @ # "none" THEN "gone" ELSE @]

\* A teammate told to go ends; an `mpt agent` deregisters on its way out, Pi does not.
Leave(n) ==
    /\ proc[n] = "leaving"
    /\ EndProcess(n)
    /\ \/ Deregister(n)
       \/ UNCHANGED <<member, tombstone>>
    /\ UNCHANGED <<leader, directives, config>>

\* A teammate ends by itself: it quits, or stops on the C-c of a dismissal.
Quit(n) ==
    /\ proc[n] = "up"
    /\ "quit" \in Env \/ \E d \in ToSet(directives) : d.name = n /\ d.interrupted
    /\ EndProcess(n)
    /\ Deregister(n)
    /\ UNCHANGED <<leader, directives, config>>

\* A process dies, or never comes up, and tells nobody.
Crash(n) ==
    /\ "crash" \in Env /\ Live(n)
    /\ EndProcess(n)
    /\ UNCHANGED <<memory, directives, config>>

---------------------------------------------------------------------------
(* Directives and the spawner.                                             *)

\* DELETE /api/agents/:id?dismiss=true: dismissMember leaves a tombstone, a member
\* that is offline counts as exited, and a dismiss directive is queued.
DismissMember(n) ==
    /\ "dismiss" \in Env /\ member[n] # "absent" /\ Len(directives) < MaxDirectives
    /\ tombstone' = [tombstone EXCEPT ![n] = IF member[n] = "offline" THEN "gone" ELSE "waiting"]
    /\ member' = [member EXCEPT ![n] = "absent"]
    /\ directives' = Append(directives, Dismiss(n))
    /\ marked' = marked \union {m \in {n} : Live(m)}
    /\ UNCHANGED <<leader, windows, proc, config>>

\* POST /api/leader/directives: one spawn, under a generated name or the one asked for;
\* it fails at once when the daemon cannot spawn.
RequestSpawn(n) ==
    /\ "spawn" \in Env
    /\ n \in FreeNames(member) \/ "named" \in Env
    /\ capable /\ Len(directives) < MaxDirectives
    /\ directives' = Append(directives, Spawn(n))
    /\ UNCHANGED <<memory, terminal, config>>

\* DELETE /api/spawn-requests/:id.
CancelSpawn(i) ==
    /\ "spawn" \in Env /\ directives[i].action = "spawn"
    /\ directives' = RemoveAt(directives, i)
    /\ UNCHANGED <<memory, terminal, config>>

\* The deadline of a dismissal passes, DISMISS_WAIT_MS after it was asked for: older
\* dismissals come first.
DeadlinePasses(i) ==
    /\ directives[i].action = "dismiss" /\ ~directives[i].due
    /\ \A j \in 1..(i - 1) : directives[j].action = "dismiss" => directives[j].due
    /\ directives' = [directives EXCEPT ![i].due = TRUE]
    /\ UNCHANGED <<memory, terminal, config>>

\* History: a dismissal of that name was asked for after directive k.
DismissedAfter(k) ==
    \E j \in DOMAIN directives :
        k < j /\ directives[j].action = "dismiss" /\ directives[j].name = directives[k].name

\* spawnWindow: idempotent by window name, so an existing window is left as it is.
OpenWindow(pass, n, dismissed) ==
    IF n \in pass.windows THEN pass
    ELSE [pass EXCEPT !.windows = @ \union {n}, !.proc[n] = "starting",
                      !.marked = IF dismissed THEN @ \union {n} ELSE @ \ {n}]

\* killWindow: the window goes with whatever runs in it.
CloseWindow(pass, n) ==
    [pass EXCEPT !.windows = @ \ {n}, !.proc[n] = "none", !.marked = @ \ {n}]

\* realizeSpawn: nothing to do when an online member has the name.
RealizeSpawn(pass, k) ==
    LET n == directives[k].name
    IN  IF ~capable \/ member[n] = "online" THEN pass ELSE OpenWindow(pass, n, DismissedAfter(k))

\* Mutant: wait for the agent's own exit however long it takes.
DismissReadyOnExit(d) == tombstone[d.name] = "gone"

\* dismissReady: the agent has exited or the deadline has passed.
DismissReady(d) == d.due \/ tombstone[d.name] = "gone"

\* realizeDismiss: wait, interrupt, and on a later pass close.
RealizeDismiss(pass, d) ==
    IF ~capable \/ d.name \notin pass.windows THEN pass
    ELSE IF d.interrupted THEN CloseWindow(pass, d.name)
    ELSE [pass EXCEPT !.left = Append(@, [d EXCEPT !.interrupted = DismissReady(d)])]

RealizeOne(pass, k) ==
    IF directives[k].action = "spawn" THEN RealizeSpawn(pass, k) ELSE RealizeDismiss(pass, directives[k])

\* Mutant: the newest directive first.
WorkListNewestFirst == [k \in DOMAIN directives |-> Len(directives) + 1 - k]

\* getLeaderDirectives, as places in the queue: oldest first.
WorkList == [k \in DOMAIN directives |-> k]

\* The loop of realizePending, after its first k directives.
PassAfter[k \in Nat] ==
    IF k = 0 THEN [windows |-> windows, proc |-> proc, marked |-> marked, left |-> << >>]
    ELSE RealizeOne(PassAfter[k - 1], WorkList[k])

\* realizePending: every pending directive in turn; those done or failed are not
\* pending any more.
Realize ==
    LET pass == PassAfter[Len(directives)]
    IN  /\ directives # << >>
        /\ windows' = pass.windows /\ proc' = pass.proc
        /\ marked' = pass.marked
        /\ directives' = pass.left
        /\ UNCHANGED <<memory, config>>

\* A person closes a window by hand.
CloseByHand(n) ==
    /\ "close" \in Env /\ n \in windows
    /\ windows' = windows \ {n}
    /\ proc' = [proc EXCEPT ![n] = "none"] /\ marked' = marked \ {n}
    /\ UNCHANGED <<memory, directives, config>>

\* The terminal or the default harness becomes usable or stops being so.
SetCapable ==
    /\ "terminal" \in Env
    /\ capable' = ~capable
    /\ UNCHANGED <<memory, directives, terminal, declared>>

\* A restart of the daemon: resetConnectionsForBoot, and all that was in memory.
Boot ==
    /\ "boot" \in Env
    /\ leader' = "absent"
    /\ member' = [n \in Names |-> "absent"]
    /\ tombstone' = [n \in Names |-> "none"]
    /\ directives' = [i \in DOMAIN directives |-> [directives[i] EXCEPT !.interrupted = FALSE]]
    /\ UNCHANGED <<terminal, config>>

---------------------------------------------------------------------------
Init ==
    /\ declared = FirstDeclared /\ capable = TRUE /\ events = 0
    /\ leader = "absent"
    /\ member = [n \in Names |-> "absent"]
    /\ tombstone = [n \in Names |-> "none"]
    /\ directives = << >> /\ windows = {} /\ marked = {}
    /\ proc = [n \in Names |-> "none"]

\* What people do.
PersonStep ==
    \/ \E n \in Names : DismissMember(n) \/ RequestSpawn(n) \/ CloseByHand(n)
    \/ \E i \in DOMAIN directives : CancelSpawn(i)
    \/ \E size \in Sizes, fresh \in SUBSET Names : SetMinTeammates(size, fresh)

\* What fails, or happens from outside.
Failure ==
    \/ \E n \in Names : Crash(n) \/ Quit(n)
    \/ \E gone \in SUBSET Names, fresh \in SUBSET Names, leaderGone \in BOOLEAN :
          Tick(gone, leaderGone, fresh) /\ (leaderGone \/ \E n \in gone : Heard(n))
    \/ SetCapable
    \/ Boot

\* The daemon's timers.
DaemonStep ==
    \/ \E fresh \in SUBSET Names : FullTick(fresh)
    \/ \E i \in DOMAIN directives : DeadlinePasses(i)
    \/ \E n \in Names : GracePasses(n)
    \/ Realize

\* The heartbeat loops of the leader and the teammates.
AgentStep ==
    \/ \E fresh \in SUBSET Names : LeaderRegisters(fresh)
    \/ \E n \in Names : \/ Register(n) \/ HeartbeatReturns(n) \/ HeartbeatReregisters(n)
                        \/ HeartbeatDismissed(n) \/ Leave(n)

Next ==
    \/ PersonStep /\ events < MaxEvents /\ events' = events + 1
    \/ Failure /\ events < MaxEvents /\ events' = events + 1
    \/ DaemonStep /\ UNCHANGED events
    \/ AgentStep /\ UNCHANGED events

Spec == Init /\ [][Next]_vars

\* The timers and the processes' own loops keep running.  A name is drawn at random,
\* so a name that is free again and again is drawn sometime.
AgentLoop == \E n \in Names : Register(n) \/ HeartbeatReturns(n) \/ HeartbeatReregisters(n)
Clock == (\E i \in DOMAIN directives : DeadlinePasses(i)) \/ (\E n \in Names : GracePasses(n))
PoolTick(chosen) == \E fresh \in SUBSET Names : chosen \subseteq fresh /\ FullTick(fresh)

Fairness ==
    /\ WF_vars(UNCHANGED <<memory, config, events>> /\ Realize)
    /\ WF_vars(/\ AgentLoop \/ Clock \/ \E fresh \in SUBSET Names : LeaderRegisters(fresh)
               /\ UNCHANGED <<windows, config, events>>)
    /\ \A n \in Names :
          SF_vars(UNCHANGED <<leader, tombstone, terminal, config, events>> /\ PoolTick({n}))
    /\ WF_vars(UNCHANGED <<leader, tombstone, terminal, config, events>> /\ PoolTick({}))

FairSpec == Spec /\ Fairness

---------------------------------------------------------------------------
\* The variables keep their types; a process runs in a window, and a directive
\* under way is a dismissal (store/members.ts, spawner.ts).
TypeOK ==
    /\ declared \in Nat \union {Unset}
    /\ events \in 0..MaxEvents /\ capable \in BOOLEAN
    /\ leader \in {"absent", "online", "offline"}
    /\ member \in [Names -> {"absent", "online", "offline"}]
    /\ tombstone \in [Names -> {"none", "waiting", "told", "gone"}]
    /\ directives \in Seq(Directive)
    /\ windows \subseteq Names /\ marked \subseteq Names
    /\ proc \in [Names -> {"none", "starting", "up", "leaving"}]
    /\ \A n \in Names : Live(n) => n \in windows
    /\ \A d \in ToSet(directives) : d.interrupted => d.action = "dismiss"

\* The spawner never kills a teammate that nobody dismissed since it was asked for,
\* although a dismissal outlives its agent, its tombstone and restarts, and names come
\* back into use (realizePending, realizeDismiss).
KillsOnlyDismissed ==
    [][Realize => \A n \in Names : Live(n) /\ n \notin windows' => n \in marked]_vars

\* A dismissed teammate is gone in the end, even when it never hears of it or the
\* restart of the daemon lost the tombstone and it registered again (dismissReady's
\* deadline; the persisted directive), unless the terminal cannot be used meanwhile.
DismissalEnds ==
    \A n \in Names : n \in marked /\ n \in PendingNames("dismiss") ~> n \notin marked \/ ~capable

\* When people, failures and restarts have come to an end (MaxEvents) and the terminal is
\* usable, the pool comes to its declared size and stays there, unless the bound Names
\* has run out (reconcileTeammatePool, on the timer and when the leader registers).
Filled ==
    \/ Cardinality(OnlineIn(member)) >= TargetOf(declared)
    \/ ~capable
    \/ \A n \in Names : member[n] # "absent" \/ n \in windows
PoolFilled == <>[]Filled
===========================================================================
