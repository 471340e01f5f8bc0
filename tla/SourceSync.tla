---------------------------- MODULE SourceSync ----------------------------
(***************************************************************************)
(* One external work source: the sync loop that pulls it, the mirrors the  *)
(* pulled items become, the runs their revisions are handed to, and the    *)
(* mirrors' threads (MirroredThread).                                      *)
(*                                                                         *)
(* A pull is awaited: the external system answers at some time in between, *)
(* and the switch, the settings and the mirrors may change meanwhile.      *)
(* Mirrors and stamps are files, the runner's state is memory.  An item's  *)
(* content is its revision.                                                *)
(*                                                                         *)
(* Code: src/daemon/sources/sync.ts, revision.ts, mirror.ts,               *)
(* external-triage.ts, src/daemon/store.ts, src/daemon/features.ts.        *)
(***************************************************************************)
EXTENDS MirroredThread

CONSTANTS Revisions,    \* the items' revisions
          SourceMode,   \* the source's own mode: work or triage
          Env,          \* which optional events of the environment happen
          MaxEvents     \* bound on what people, the external system and failures do

None == "none"

ASSUME SyncAssumption ==
    /\ None \notin Revisions
    /\ SourceMode \in {"work", "triage"}
    /\ MaxEvents \in Nat
ASSUME SyncEnvAssumption ==
    Env \subseteq {"fail",       \* a pull fails
                   "boot",       \* the daemon restarts
                   "gate",       \* readiness and the triage persona come and go
                   "switch",     \* a person disconnects the source and switches it on again
                   "archive",    \* a person archives and restores mirrors
                   "run",        \* a person runs or cancels, saves settings, or syncs
                   "hook",       \* a webhook of the source mirrors an item
                   "comment",    \* comments are made, here and there
                   "retry"}      \* a run fails and is retried

VARIABLES remote,     \* the revision of each item now, None when it is not there
          mirror,     \* the mirror of each item, with its keys in the source's kv
          work,       \* the mirror's active WorkItem: None, READY or RUNNING
          on,         \* the source's feature is not switched off
          pull,       \* the pull in flight: idle, asked, or the answer
          backoff,    \* now < notBefore
          gate,       \* what holds back enqueues: open, unready, nopersona
          triage,     \* the items that are reported in triage mode
          byPerson,   \* history: the mirrors a person archived when active, and has not restored since
          events      \* how many of the bounded events have happened

queue   == <<mirror, work>>
runner  == <<pull, backoff>>
outside == <<remote, gate, triage>>
local   == <<on, byPerson>>
vars    == <<queue, runner, outside, local, threads, events>>

\* status None: no WorkDef.  gone: the key `vanished` or `disconnected` is set.
Mirror == [status : {None, "active", "archived"}, mirrored : Revisions \union {None},
           handed : Revisions \union {None}, gone : BOOLEAN]

Idle  == [phase |-> "idle"]
Asked == [phase |-> "asked"]
Answer(defs, theirs) == [phase |-> "answered", defs |-> defs, comments |-> theirs]

Reported(defs) == {i \in Items : defs[i] # None}

---------------------------------------------------------------------------
(* Mirrors.                                                                *)

\* Mutant: an unchanged revision is a no-op, whoever archived the mirror.
UpsertUnlessUnchanged(m, revision) ==
    IF m.status # None /\ m.mirrored = revision THEN m
    ELSE [m EXCEPT !.status = IF m.status = "archived" /\ ~m.gone THEN "archived" ELSE "active",
                   !.mirrored = revision, !.gone = FALSE]

\* upsertMirror: an unchanged revision is a no-op unless sync or a disconnect archived
\* the mirror; what a person archived stays archived.
UpsertMirror(m, revision) ==
    LET restore == m.status = "archived" /\ m.gone
    IN  IF m.status # None /\ ~restore /\ m.mirrored = revision THEN m
        ELSE [m EXCEPT !.status = IF m.status = "archived" /\ ~restore THEN "archived" ELSE "active",
                       !.mirrored = revision, !.gone = FALSE]

\* Archived by sync or by a disconnect, never deleted; a READY item is withdrawn.
Archive(m) == [m EXCEPT !.status = "archived", !.gone = TRUE]
Withdraw(item) == IF item = "READY" THEN None ELSE item

\* Readiness holds every item; a missing triage persona those in triage mode.
Held(i) == gate = "unready" \/ (gate = "nopersona" /\ i \in triage)

\* ingestExternalDefs, for one reported item: is the revision handed to a run?  Refused
\* while an item is in flight, and when it was handed over already (enqueueRevision).
HandsOver(i, m, revision) ==
    /\ m.status = "active" /\ m.handed # revision
    /\ work[i] = None /\ ~Held(i)

\* ingestExternalDefs: mirror what is reported with its comments, hand over new revisions,
\* archive the rest.
Ingest(defs, reported) ==
    LET upserted == [i \in Reported(defs) |-> UpsertMirror(mirror[i], defs[i])]
        run  == {i \in Reported(defs) : HandsOver(i, upserted[i], defs[i])}
        gone == {i \in Items \ Reported(defs) : mirror[i].status = "active"}
    IN  /\ mirror' = [i \in Items |->
              IF i \in run THEN [upserted[i] EXCEPT !.handed = defs[i]]
              ELSE IF i \in Reported(defs) THEN upserted[i]
              ELSE IF i \in gone THEN Archive(mirror[i]) ELSE mirror[i]]
        /\ work' = [i \in Items |-> IF i \in run THEN "READY"
                                    ELSE IF i \in gone THEN Withdraw(work[i]) ELSE work[i]]
        /\ pulled' = [i \in Items |-> IF i \in Reported(defs) THEN Merged(i, reported[i]) ELSE pulled[i]]
        /\ UNCHANGED <<comments, writeBack>>

---------------------------------------------------------------------------
(* The sync loop.                                                          *)

\* A triage source without a triage persona is not synced.
Blocked == SourceMode = "triage" /\ gate = "nopersona"

MaySync(force) == on /\ ~Blocked /\ pull = Idle /\ (force \/ ~backoff)

\* run, up to the await: the timer's, unless backing off.
SyncTick ==
    /\ MaySync(FALSE)
    /\ pull' = Asked
    /\ UNCHANGED <<queue, backoff, outside, local, threads>>

\* The external system looks at what it has.
SourceAnswers ==
    /\ pull = Asked
    /\ pull' = Answer(remote, comments)
    /\ UNCHANGED <<queue, backoff, outside, local, threads>>

\* Mutant: the switch is not looked at again after the await.
PullArrivesAnyhow ==
    /\ pull.phase = "answered"
    /\ pull' = Idle
    /\ Ingest(pull.defs, pull.comments) /\ backoff' = FALSE
    /\ UNCHANGED <<outside, local>>

\* run, after the await: dropped when the source was switched off, else ingested.
PullArrives ==
    /\ pull.phase = "answered"
    /\ pull' = Idle
    /\ IF on THEN Ingest(pull.defs, pull.comments) /\ backoff' = FALSE
       ELSE UNCHANGED <<queue, backoff, threads>>
    /\ UNCHANGED <<outside, local>>

\* A throw, a timeout or garbage: backed off; a late answer loses the race.
PullFails ==
    /\ "fail" \in Env /\ pull # Idle
    /\ pull' = Idle /\ backoff' = TRUE
    /\ UNCHANGED <<queue, outside, local, threads>>

BackoffPasses ==
    /\ backoff
    /\ backoff' = FALSE
    /\ UNCHANGED <<queue, pull, outside, local, threads>>

\* Sync now: forced.
SyncNow ==
    /\ "run" \in Env /\ MaySync(TRUE)
    /\ pull' = Asked
    /\ UNCHANGED <<queue, backoff, outside, local, threads>>

\* reinitWorkSource after a Save of settings, which may change what is pulled: failures
\* are forgotten, a pull in flight is not, and a source switched on is synced.
SaveSettings ==
    /\ "run" \in Env
    /\ remote' \in [Items -> Revisions \union {None}]
    /\ backoff' = FALSE
    /\ pull' = IF on /\ ~Blocked /\ pull = Idle THEN Asked ELSE pull
    /\ UNCHANGED <<queue, gate, triage, local, threads>>

\* A restart: the runner's memory is gone, a pull in flight with it (SyncRunner.stop), and
\* so is what is known of write-backs in flight.
Boot ==
    /\ "boot" \in Env
    /\ pull' = Idle /\ backoff' = FALSE
    /\ ForgetWriteBacks
    /\ UNCHANGED <<queue, outside, local>>

---------------------------------------------------------------------------
(* The switch.                                                             *)

\* disconnectSource: off first, then every mirror left is archived (archiveExternalMirrors).
Disconnect ==
    /\ "switch" \in Env
    /\ on' = FALSE
    /\ LET left == {i \in Items : mirror[i].status = "active"}
       IN  /\ mirror' = [i \in Items |-> IF i \in left THEN Archive(mirror[i]) ELSE mirror[i]]
           /\ work' = [i \in Items |-> IF i \in left THEN Withdraw(work[i]) ELSE work[i]]
    /\ UNCHANGED <<runner, outside, byPerson, threads>>

\* Switching off is refused while there are mirrors left (resolveFeaturesUpdate).
SwitchOff ==
    /\ "switch" \in Env /\ on
    /\ \A i \in Items : mirror[i].status # "active"
    /\ on' = FALSE
    /\ UNCHANGED <<queue, runner, outside, byPerson, threads>>

\* Switching on also syncs at once, unless a pull is still in flight.
SwitchOn ==
    /\ "switch" \in Env /\ ~on
    /\ on' = TRUE
    /\ pull' = IF ~Blocked /\ pull = Idle THEN Asked ELSE pull
    /\ UNCHANGED <<queue, backoff, outside, byPerson, threads>>

---------------------------------------------------------------------------
(* What else changes mirrors and their runs.  While the source is off, its *)
(* mirrors' routes are refused.                                            *)

\* ctx.upsertDef, from a webhook or a write-back hook of the source.
UpsertDef(i) ==
    /\ "hook" \in Env /\ on /\ remote[i] # None
    /\ mirror' = [mirror EXCEPT ![i] = UpsertMirror(@, remote[i])]
    /\ UNCHANGED <<work, runner, outside, local, threads>>

ArchiveByHand(i) ==
    /\ "archive" \in Env /\ on /\ mirror[i].status # None
    /\ mirror' = [mirror EXCEPT ![i].status = "archived"]
    /\ byPerson' = IF mirror[i].status = "active" THEN byPerson \union {i} ELSE byPerson
    /\ UNCHANGED <<work, runner, outside, on, threads>>

RestoreByHand(i) ==
    /\ "archive" \in Env /\ on /\ mirror[i].status # None
    /\ mirror' = [mirror EXCEPT ![i].status = "active"]
    /\ byPerson' = byPerson \ {i}
    /\ UNCHANGED <<work, runner, outside, on, threads>>

\* Run by hand, which stamps nothing (runSolitary) ...
RunSolitary(i) ==
    /\ i \notin triage /\ mirror[i].status # None
    /\ UNCHANGED mirror

\* ... or Triage now of the mirrored revision, which stamps it (ExternalTriage.run).
TriageNow(i) ==
    /\ i \in triage /\ mirror[i].status = "active" /\ gate # "nopersona"
    /\ mirror' = [mirror EXCEPT ![i].handed = mirror[i].mirrored]

\* Either way the mirrored revision is run, when nothing is in flight.
RunByHand(i) ==
    /\ "run" \in Env /\ on /\ work[i] = None
    /\ RunSolitary(i) \/ TriageNow(i)
    /\ work' = [work EXCEPT ![i] = "READY"]
    /\ UNCHANGED <<runner, outside, local, threads>>

\* A person cancels; a teammate claims, ends, or fails for a session error and is retried.
SetWork(i, from, to) ==
    /\ work[i] = from
    /\ work' = [work EXCEPT ![i] = to]
    /\ UNCHANGED <<mirror, runner, outside, local, threads>>

Cancel(i) == "run" \in Env /\ SetWork(i, "READY", None)
Claim(i)  == SetWork(i, "READY", "RUNNING")
End(i)    == SetWork(i, "RUNNING", None)
Retry(i)  == "retry" \in Env /\ SetWork(i, "RUNNING", "READY")

\* The external system's items change.
RemoteChanges(i) ==
    /\ \E revision \in Revisions \union {None} : remote' = [remote EXCEPT ![i] = revision]
    /\ UNCHANGED <<queue, runner, gate, triage, local, threads>>

\* A person or a teammate comments on a mirror of the source.
Comment(i) ==
    /\ "comment" \in Env /\ on /\ mirror[i].status # None
    /\ AddComment(i)
    /\ UNCHANGED <<queue, runner, outside, local>>

TheirComment(i) ==
    /\ "comment" \in Env /\ remote[i] # None
    /\ TheyComment(i)
    /\ UNCHANGED <<queue, runner, outside, local>>

WriteBackFails(i) ==
    /\ PostFails(i)
    /\ UNCHANGED <<queue, runner, outside, local>>

\* The write-back goes on by itself.
WritesBack(i) ==
    /\ PostReaches(i) \/ PostResolves(i) \/ DeferPasses(i)
    /\ UNCHANGED <<queue, runner, outside, local>>

\* Readiness or the triage persona comes or goes.
GateChanges ==
    /\ "gate" \in Env
    /\ gate' \in {"open", "unready", "nopersona"}
    /\ UNCHANGED <<queue, runner, remote, triage, local, threads>>

---------------------------------------------------------------------------
Init ==
    /\ remote \in [Items -> Revisions \union {None}] /\ triage \in SUBSET Items
    /\ mirror = [i \in Items |-> [status |-> None, mirrored |-> None, handed |-> None, gone |-> FALSE]]
    /\ work = [i \in Items |-> None]
    /\ on = TRUE /\ pull = Idle /\ backoff = FALSE /\ gate = "open"
    /\ byPerson = {} /\ events = 0
    /\ ThreadInit

Event ==
    \/ PullFails \/ Boot \/ GateChanges
    \/ SyncNow \/ SaveSettings
    \/ Disconnect \/ SwitchOff \/ SwitchOn
    \/ \E i \in Items : \/ RemoteChanges(i) \/ UpsertDef(i)
                        \/ Comment(i) \/ TheirComment(i) \/ WriteBackFails(i)
                        \/ ArchiveByHand(i) \/ RestoreByHand(i)
                        \/ RunByHand(i) \/ Cancel(i) \/ Retry(i)

Loop == SyncTick \/ SourceAnswers \/ PullArrives \/ BackoffPasses

Next ==
    \/ Event /\ events < MaxEvents /\ events' = events + 1
    \/ (Loop \/ \E i \in Items : Claim(i) \/ End(i) \/ WritesBack(i)) /\ UNCHANGED events

Spec == Init /\ [][Next]_vars

\* The timer keeps ticking, a pull is answered or times out, and backoffs pass.
Fairness == /\ \A i \in Items : WF_vars(WritesBack(i) /\ UNCHANGED events)
            /\ WF_vars((SourceAnswers \/ PullArrives) /\ UNCHANGED events)
            /\ WF_vars(BackoffPasses /\ UNCHANGED events)
            /\ SF_vars(SyncTick /\ UNCHANGED events)
FairSpec == Spec /\ Fairness

---------------------------------------------------------------------------
\* Types; what was never mirrored has no work and was never handed over.
TypeOK ==
    /\ remote \in [Items -> Revisions \union {None}]
    /\ mirror \in [Items -> Mirror]
    /\ work \in [Items -> {None, "READY", "RUNNING"}]
    /\ on \in BOOLEAN /\ backoff \in BOOLEAN
    /\ \/ pull \in {Idle, Asked}
       \/ /\ pull.defs \in [Items -> Revisions \union {None}]
          /\ pull.comments \in [Items -> SUBSET Comments]
          /\ pull = Answer(pull.defs, pull.comments)
    /\ ThreadTypeOK
    /\ gate \in {"open", "unready", "nopersona"}
    /\ triage \subseteq Items /\ byPerson \subseteq Items /\ events \in 0..MaxEvents
    /\ \A i \in Items : mirror[i].status = None =>
          work[i] = None /\ mirror[i].handed = None /\ mirror[i].mirrored = None /\ ~mirror[i].gone

\* A source that is switched off has no mirror left in use: a disconnect is not undone by
\* a pull in flight, a webhook or a person (disconnectSource, SyncRunner.run, upsertDef).
OffIsEmpty == ~on => \A i \in Items : mirror[i].status # "active"

\* A comment written back does not come back as somebody else's: whatever the order of its
\* post, its id and the pulls, unless a restart, a hung hook or a hook that rejected after
\* the post was taken kept the daemon from learning the id (mergeExternalComments,
\* writeBackInFlight).
OwnPostsOnce ==
    \A i \in Items : "ours" \in pulled[i] => writeBack[i].phase \in {"cut", "failed"} \/ writeBack[i].late

\* When the external system, people and failures have come to an end, a source that is on
\* is mirrored as it is, comments included, and each revision has been handed over, or waits for the run in
\* flight to end; only what a person archived is left out (ingestExternalDefs).
Settled(i) ==
    IF remote[i] = None THEN mirror[i].status # "active"
    ELSE /\ mirror[i].mirrored = remote[i]
         /\ comments[i] \ {"ours"} \subseteq pulled[i]
         /\ \/ mirror[i].status = "active"
            \/ i \in byPerson
         /\ \/ mirror[i].status = "archived"
            \/ mirror[i].handed = remote[i]
            \/ work[i] # None
            \/ Held(i)
MirrorsConverge == <>[](on /\ ~Blocked => \A i \in Items : Settled(i))

===========================================================================
