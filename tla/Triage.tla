------------------------------ MODULE Triage ------------------------------
(***************************************************************************)
(* A note's auto-triage: the sweep hands each new version of its text to a *)
(* run once, one run at a time, and the run's teammate reads the text as   *)
(* it is when the run is claimed and posts an analysis to the thread.  The *)
(* author edits, archives, restores and deletes the note at any time, and  *)
(* decides on what is proposed.                                            *)
(*                                                                         *)
(* One note.  Of its text only a version is kept (the `updatedAt` of the   *)
(* last edit, as numbers that grow) and whether it is empty; of the queue  *)
(* only the WorkItems of its triage WorkDef (WorkQueue has the rest).      *)
(* Triage is switched on throughout.                                       *)
(*                                                                         *)
(* Code: src/daemon/sources/thought.ts, src/daemon/store/thoughts.ts,      *)
(* src/daemon/triage.ts, src/daemon/sources/revision.ts.                   *)
(***************************************************************************)
EXTENDS TriageThread

CONSTANTS Teammates, None, Env,
          MaxVersions,  \* bound: edits of the note
          MaxEvents     \* bound: what people and failures do besides

ASSUME TriageAssumption ==
    /\ MaxVersions \in Nat \ {0} /\ MaxEvents \in Nat /\ MaxCrashes \in Nat
    /\ None \notin {"READY", "IN_PROGRESS", "MORIBUND", "active", "archived"}
    /\ Env \subseteq {"archive", "patch", "delete", "cancel", "fail", "crash", "silence", "decide", "generic"}

VARIABLES note,      \* status, version of the text, emptiness, and the version last handed over
          fresh,     \* edited within the quiet period
          def,       \* its triage WorkDef: None, active, archived
          item,      \* that WorkDef's active WorkItem: None, READY, IN_PROGRESS, MORIBUND
          doing,     \* each teammate's run: the version it read, and whether the item is still its
          swept,     \* history: the versions the sweep handed over
          seen,      \* history: the versions runs have read
          unread,    \* history: the versions whose item was withdrawn before a run read them
          cutOff,    \* history: an item was taken from a run that went on
          events     \* how many of the bounded events have happened

history == <<swept, seen, unread, cutOff>>
vars == <<note, fresh, def, item, doing, history, threadVars, events>>

Note == [status : {"active", "archived", "deleted"}, version : 1..MaxVersions,
         empty : BOOLEAN, triaged : 0..MaxVersions]
Free == [read |-> 0, owns |-> FALSE]

---------------------------------------------------------------------------
(* The turn rule.                                                          *)

\* Mutant: a MORIBUND run is over.
HasActiveConnected == item \in {"READY", "IN_PROGRESS"}

HasActiveItem == item # None

\* triageSkipReason, but for the quiet period and the version: what Triage now respects.
Triageable == note.status = "active" /\ ~note.empty /\ ~HasActiveItem

\* Mutant: only a note never triaged is due.
NeverTriaged == note.triaged = 0

Unread == note.triaged < note.version

\* isTriageDue
Due == Triageable /\ Unread /\ ~fresh

\* ensureWorkDef: created on first use, or brought back.
EnsureWorkDef == def' = "active"

\* Mutant: the version is not stamped.
EnqueueUnstamped ==
    /\ EnsureWorkDef
    /\ item' = "READY"
    /\ UNCHANGED note

\* enqueue: stamped when enqueued.
Enqueue ==
    /\ EnsureWorkDef
    /\ item' = "READY"
    /\ note' = [note EXCEPT !.triaged = note.version]

Sweep ==
    /\ Due
    /\ Enqueue
    /\ swept' = swept \union {note.version}
    /\ UNCHANGED <<fresh, doing, seen, unread, cutOff, threadVars>>

TriageNow ==
    /\ "fail" \in Env /\ Triageable
    /\ Enqueue
    /\ UNCHANGED <<fresh, doing, history, threadVars>>

QuietPasses ==
    /\ fresh
    /\ fresh' = FALSE
    /\ UNCHANGED <<note, def, item, doing, history, threadVars>>

---------------------------------------------------------------------------
(* Runs.                                                                   *)

IsEligible == note.status = "active"

\* The prompt is built at the claim, from the text as it reads then (buildPrompt).
Claim(m) ==
    /\ item = "READY" /\ IsEligible /\ doing[m] = Free
    /\ item' = "IN_PROGRESS"
    /\ doing' = [doing EXCEPT ![m] = [read |-> note.version, owns |-> TRUE]]
    /\ seen' = seen \union {note.version}
    /\ UNCHANGED <<note, fresh, def, swept, unread, cutOff, threadVars>>

\* propose_work: from whoever held the item, whatever became of it, while the note's
\* container is there.
ProposeWork(m) ==
    /\ doing[m] # Free /\ def # None
    /\ \E outcome \in Outcomes, S \in SUBSET Ids : \E proposals \in [S -> Kinds] :
          AddAnalysis(doing[m].read, outcome, proposals)
    /\ UNCHANGED <<note, fresh, def, item, doing, history>>

\* The run ends, and its report with it: complete or failed is all the same here.
EndRun(m, next) ==
    /\ doing[m] # Free
    /\ doing' = [doing EXCEPT ![m] = Free]
    /\ item' = IF doing[m].owns THEN next ELSE item
    /\ UNCHANGED <<note, fresh, def, history, threadVars>>

End(m)          == EndRun(m, None)
SessionError(m) == "fail" \in Env /\ EndRun(m, "READY")
Crash(m)        == "crash" \in Env /\ EndRun(m, "MORIBUND")

\* The reaper misses its heartbeats; the teammate is heard again.
SetState(m, from, to) ==
    /\ doing[m].owns /\ item = from
    /\ item' = to
    /\ UNCHANGED <<note, fresh, def, doing, history, threadVars>>

Reap(m)  == "silence" \in Env /\ SetState(m, "IN_PROGRESS", "MORIBUND")
Heard(m) == SetState(m, "MORIBUND", "IN_PROGRESS")

\* The item leaves the queue in whatever state it is; a run it belonged to goes on.
Withdraw ==
    /\ item' = None
    /\ doing' = [m \in Teammates |-> [doing[m] EXCEPT !.owns = FALSE]]
    /\ unread' = IF item = "READY" THEN unread \union {note.triaged} ELSE unread
    /\ cutOff' = (cutOff \/ \E m \in Teammates : doing[m].owns)

---------------------------------------------------------------------------
(* The author.                                                             *)

\* updateThought with other content: only that moves the version.
Edit ==
    /\ note.status # "deleted" /\ note.version < MaxVersions
    /\ \E empty \in BOOLEAN : note' = [note EXCEPT !.version = @ + 1, !.empty = empty]
    /\ fresh' = TRUE
    /\ UNCHANGED <<def, item, doing, history, threadVars>>

\* PATCH with a status: the note alone.
PatchStatus(status) ==
    /\ "patch" \in Env /\ note.status # "deleted"
    /\ note' = [note EXCEPT !.status = status]
    /\ UNCHANGED <<fresh, def, item, doing, history, threadVars>>

\* archiveThought: the container follows, its item is canceled.
ArchiveThought ==
    /\ "archive" \in Env /\ note.status # "deleted"
    /\ note' = [note EXCEPT !.status = "archived"]
    /\ def' = IF def = None THEN None ELSE "archived"
    /\ Withdraw
    /\ UNCHANGED <<fresh, swept, seen, threadVars>>

RestoreThought ==
    /\ "archive" \in Env /\ note.status # "deleted"
    /\ note' = [note EXCEPT !.status = "active"]
    /\ def' = IF def = None THEN None ELSE "active"
    /\ UNCHANGED <<fresh, item, doing, history, threadVars>>

\* deleteThought: item, container, thread and note.
DeleteThought ==
    /\ "delete" \in Env /\ note.status # "deleted"
    /\ note' = [note EXCEPT !.status = "deleted"]
    /\ def' = None
    /\ Withdraw /\ DropThread
    /\ UNCHANGED <<fresh, swept, seen>>

\* The generic Archive and Restore of the container, which (unlike its PUT and DELETE)
\* are not refused.
ArchiveContainer(status) ==
    /\ "generic" \in Env /\ def # None
    /\ def' = status
    /\ UNCHANGED <<note, fresh, item, doing, history, threadVars>>

\* A person takes the item from the queue: READY ones are cancelled, MORIBUND ones failed.
TakeFromQueue ==
    /\ "cancel" \in Env /\ item \in {"READY", "MORIBUND"}
    /\ Withdraw
    /\ UNCHANGED <<note, fresh, def, swept, seen, threadVars>>

Decides ==
    /\ "decide" \in Env /\ def # None
    /\ \/ \E id \in Ids : \/ AcceptProposal(id) \/ AcceptExisting(id)
                          \/ RejectProposal(id) \/ AcceptCut(id)
       \/ StoryChanges
    /\ UNCHANGED <<note, fresh, def, item, doing, history>>

---------------------------------------------------------------------------
Init ==
    /\ note = [status |-> "active", version |-> 1, empty |-> FALSE, triaged |-> 0]
    /\ fresh = TRUE /\ def = None /\ item = None
    /\ doing = [m \in Teammates |-> Free]
    /\ swept = {} /\ seen = {} /\ unread = {} /\ cutOff = FALSE /\ events = 0
    /\ ThreadInit

Event ==
    \/ TriageNow \/ Decides \/ TakeFromQueue
    \/ ArchiveThought \/ RestoreThought \/ DeleteThought
    \/ \E status \in {"active", "archived"} : PatchStatus(status) \/ ArchiveContainer(status)
    \/ \E m \in Teammates : SessionError(m) \/ Crash(m) \/ Reap(m)

Next ==
    \/ Event /\ events < MaxEvents /\ events' = events + 1
    \/ (Edit \/ Sweep \/ QuietPasses) /\ UNCHANGED events
    \/ \E m \in Teammates :
          (Claim(m) \/ ProposeWork(m) \/ End(m) \/ Heard(m)) /\ UNCHANGED events

Spec == Init /\ [][Next]_vars

\* The sweep's timer ticks, quiet periods pass, teammates take work and end it.
Fairness == /\ WF_vars(Sweep /\ UNCHANGED events)
            /\ WF_vars(QuietPasses /\ UNCHANGED events)
            /\ WF_vars(\E m \in Teammates : Claim(m) /\ UNCHANGED events)
            /\ \A m \in Teammates : WF_vars(End(m) /\ UNCHANGED events)
FairSpec == Spec /\ Fairness

---------------------------------------------------------------------------
\* Types; who owns the item is the one in whose hands it is, and what is in flight has a
\* container, of a note that is there (deleteThought).
NoteTypeOK ==
    /\ note \in Note /\ def \in {None, "active", "archived"}
    /\ fresh \in BOOLEAN /\ cutOff \in BOOLEAN
    /\ item \in {None, "READY", "IN_PROGRESS", "MORIBUND"}
    /\ doing \in [Teammates -> [read : 0..MaxVersions, owns : BOOLEAN]]
    /\ swept \subseteq 1..MaxVersions /\ seen \subseteq 1..MaxVersions /\ unread \subseteq 1..MaxVersions
    /\ \A m \in Teammates : doing[m].owns => item \in {"IN_PROGRESS", "MORIBUND"}
    /\ item # None \/ def # None => note.status # "deleted" /\ def # None
    /\ events \in 0..MaxEvents

TypeOK == NoteTypeOK /\ ThreadTypeOK

\* An analysis of a newer version is never followed by one of an older, so the latest
\* analysis is the one to read, unless a person took the item from a run that went on
\* (one run at a time, through MORIBUND: hasActiveItem in triageSkipReason).
AnalysesInOrder ==
    cutOff \/ \A j, k \in Analyses(thread) : j < k => thread[j].read <= thread[k].read

\* The sweep hands a version over once, whatever becomes of its run (the stamp at enqueue).
OncePerVersion == [][Sweep => note.version \notin swept]_vars

\* An edit survives the run it falls into: when the author stops, the note as it is has
\* been read by a run, if it may be triaged, or its run is one a person must deal with
\* or has withdrawn.
EditsSurvive ==
    <>[](note.status = "active" /\ ~note.empty =>
            \/ note.version \in seen \union unread
            \/ item = "MORIBUND")

===========================================================================
