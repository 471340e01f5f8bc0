----------------------------- MODULE PiTeammate -----------------------------
(***************************************************************************)
(* One Pi teammate: its work loop (src/harnesses/pi/src/teammate.ts), its  *)
(* web pairing (src/harnesses/pi/src/runtime/pairing.ts) and the session   *)
(* they live in (src/harnesses/pi/src/index.ts, setupTeammate), with the   *)
(* daemon's side of both: the items it is offered and the intent it polls. *)
(*                                                                         *)
(* All of it is one event loop: an action is what runs between two awaits. *)
(* What is awaited is a request to the daemon (taken and answered at once, *)
(* the answer arriving later) or Pi.  Pi is external: what it is sent      *)
(* waits until its run ends and then starts a run of its own ("delivered   *)
(* as a `followUp`, which Pi only hands over once the agent stops").       *)
(*                                                                         *)
(* Left to WorkQueue: directories and leases, the members table and        *)
(* heartbeats, retries, requests lost on the way to a claim or a report.   *)
(* An item is READY, HELD (IN_PROGRESS, or MORIBUND once the member has    *)
(* deregistered) or ENDED, however it ended.                               *)
(***************************************************************************)
EXTENDS Pairing, FiniteSets

CONSTANTS Items,       \* the work items in the queue when the teammate starts
          None,        \* no item, no answer on its way
          MaxChains,   \* bound on polling chains at a time
          MaxMishaps,  \* bound on restarts, resets and lost answers
          Env          \* which optional events happen

ASSUME PiAssumption == MaxChains \in Nat \ {0} /\ MaxMishaps \in Nat /\ None \notin Items
ASSUME EnvAssumption ==
    Env \subseteq {"pane",     \* a person types in the teammate's own window
                   "failTool", \* the agent gives up in the middle of its run
                   "boot",     \* the daemon restarts
                   "reset",    \* a person resets the session
                   "lost"}     \* a poll's answer is lost

VARIABLES item,     \* the daemon: the state of each work item
          intent,   \* the daemon: the pairing's PairState
          requests, \* how many requests people have made
          mishaps,  \* how many restarts, resets and lost answers there were
          loop,     \* the session's TeammateLoop and what waits in Pi
          run,      \* is a run of Pi in flight (agentRunning)?
          ends,     \* how many runs ended whose usage is still being reported
          paired,   \* the session's WebPairing.paired
          answer,   \* what a poll of the pairing was answered, on its way, or None
          heard     \* history: the last request a session was handed

vars == <<item, intent, requests, mishaps, loop, run, ends, paired, answer, heard>>
pairingVars == <<paired, answer, heard>>
daemonVars == <<item, intent, requests, mishaps>>

Chains == 1 .. MaxChains
At(where, i) == [at |-> where, item |-> i]
Off    == At("off", None)
Waits  == At("timer", None)

(* A loop.  current, awaiting, deferred and gaveUp are currentWorkItemId,  *)
(* awaitingWorkRun, pendingRelease and failedWorkItemId.  chains: each     *)
(* polling chain waits for its timer, was offered an item and claims it,   *)
(* was granted it, or posts its status comment.  queue: how many messages  *)
(* Pi was sent and has not started a run for.  wraps: settlements of items *)
(* on their way, `told` once the daemon has been told, `byTick` when the   *)
(* pairing poll awaits them.  fresh: a fresh session was asked for.        *)
NewLoop ==
    [autonomous |-> TRUE, current |-> None, awaiting |-> FALSE, deferred |-> NoRelease,
     gaveUp |-> None, chains |-> [c \in Chains |-> IF c = 1 THEN Waits ELSE Off],
     queue |-> 0, wraps |-> << >>, fresh |-> FALSE]

\* The daemon takes a report: an item that ended stays as it ended.
Settled(its, i) == [its EXCEPT ![i] = IF @ = "HELD" THEN "ENDED" ELSE @]

-----------------------------------------------------------------------------
(* The loop's methods, on a loop. *)

\* schedulePoll, or pollForWork called anew: one polling chain more.
MoreChain(l) ==
    LET unused == {c \in Chains : l.chains[c] = Off}
    IN  IF unused = {} THEN l
        ELSE [l EXCEPT !.chains[CHOOSE c \in unused : TRUE] = Waits]

SendToPi(l) == [l EXCEPT !.queue = @ + 1]

\* The item is let go of, and finishWorkItem.
LetGo(l) == MoreChain([l EXCEPT !.current = None, !.awaiting = FALSE, !.fresh = TRUE])

Wrap(l, byTick) ==
    [l EXCEPT !.wraps = Append(@, [item |-> l.current, byTick |-> byTick, told |-> FALSE])]

\* handleAgentComplete, up to the comment it posts.
AgentComplete(l, byTick) ==
    IF l.current = None \/ l.awaiting THEN l
    ELSE IF l.gaveUp = l.current THEN LetGo([l EXCEPT !.gaveUp = None])
    ELSE Wrap(l, byTick)

\* Mutant of ReleasePairing: a resumed item's run is not nudged.
ReleaseWithoutNudge(l, r, byTick) ==
    IF run THEN [l EXCEPT !.deferred = r]
    ELSE LET back == [l EXCEPT !.deferred = NoRelease, !.autonomous = TRUE]
         IN  IF l.current = None THEN MoreChain(back)
             ELSE CASE r.action = "complete" -> AgentComplete([back EXCEPT !.awaiting = FALSE], byTick)
                    [] r.action = "fail" -> Wrap(back, byTick)
                    [] r.action = "resume" -> [back EXCEPT !.awaiting = TRUE]

\* Mutant of ReleasePairing: what arrives in the middle of a run is dropped.
ReleaseBetweenRuns(l, r, byTick) ==
    IF run THEN l
    ELSE LET back == [l EXCEPT !.deferred = NoRelease, !.autonomous = TRUE]
         IN  IF l.current = None THEN MoreChain(back)
             ELSE CASE r.action = "complete" -> AgentComplete([back EXCEPT !.awaiting = FALSE], byTick)
                    [] r.action = "fail" -> Wrap(back, byTick)
                    [] r.action = "resume" -> SendToPi([back EXCEPT !.awaiting = TRUE])

\* releasePairing: in the middle of a run it waits for the run's end.
ReleasePairing(l, r, byTick) ==
    IF run THEN [l EXCEPT !.deferred = r]
    ELSE LET back == [l EXCEPT !.deferred = NoRelease, !.autonomous = TRUE]
         IN  IF l.current = None THEN MoreChain(back)
             ELSE CASE r.action = "complete" -> AgentComplete([back EXCEPT !.awaiting = FALSE], byTick)
                    [] r.action = "fail" -> Wrap(back, byTick)
                    [] r.action = "resume" -> SendToPi([back EXCEPT !.awaiting = TRUE])

-----------------------------------------------------------------------------
(* People. *)

Request == requests < MaxRequests /\ requests' = requests + 1

\* POST /api/agents/:id/pair.
PersonPairs ==
    /\ Request
    /\ intent' = Pair(intent)
    /\ UNCHANGED <<item, mishaps, loop, run, ends, pairingVars>>

\* POST /api/agents/:id/messages: refused with a 409 when not paired.
PersonSends ==
    /\ Request
    /\ intent.paired
    /\ intent' = Send(intent, requests')
    /\ UNCHANGED <<item, mishaps, loop, run, ends, pairingVars>>

\* POST /api/agents/:id/release.
PersonReleases(action) ==
    /\ Request
    /\ intent' = Release(intent, [at |-> requests', action |-> action])
    /\ UNCHANGED <<item, mishaps, loop, run, ends, pairingVars>>

\* Input typed in the pane pauses an autonomous loop (registerPermissionBypass);
\* Pi takes it into the run in flight or starts one.
PersonTypes ==
    /\ "pane" \in Env
    /\ Request
    /\ LET l == [loop EXCEPT !.autonomous = FALSE]
       IN  loop' = IF run THEN l ELSE SendToPi(l)
    /\ UNCHANGED <<item, intent, mishaps, run, ends, pairingVars>>

\* /ppt-worker-resume.
PersonResumes ==
    /\ "pane" \in Env
    /\ Request
    /\ loop' = MoreChain([loop EXCEPT !.autonomous = TRUE])
    /\ UNCHANGED <<item, intent, mishaps, run, ends, pairingVars>>

-----------------------------------------------------------------------------
(* Polling, claiming and running (pollForWork, executeTask). *)

\* The chain's timer fires, and GET next-work offers an item.
AskForWork(c) ==
    /\ loop.chains[c] = Waits
    /\ loop.autonomous /\ loop.current = None /\ ~run
    /\ \E i \in Items :
        /\ item[i] = "READY"
        /\ loop' = [loop EXCEPT !.chains[c] = At("offered", i)]
    /\ UNCHANGED <<daemonVars, run, ends, pairingVars>>

\* The offer arrives; POST claim is granted, or refused and the chain waits again.
Claim(c) ==
    /\ loop.chains[c].at = "offered"
    /\ LET i == loop.chains[c].item
           granted == item[i] = "READY"
       IN  /\ item' = IF granted THEN [item EXCEPT ![i] = "HELD"] ELSE item
           /\ loop' = [loop EXCEPT !.chains[c] = IF granted THEN At("granted", i) ELSE Waits]
    /\ UNCHANGED <<intent, requests, mishaps, run, ends, pairingVars>>

\* The claim's answer arrives: the item is the current one, whatever was.
TakeOn(c) ==
    /\ loop.chains[c].at = "granted"
    /\ loop' = [loop EXCEPT !.current = loop.chains[c].item, !.chains[c].at = "posting"]
    /\ UNCHANGED <<daemonVars, run, ends, pairingVars>>

\* The status comment is posted, and the prompt is sent to Pi; the chain ends here.
SendPrompt(c) ==
    /\ loop.chains[c].at = "posting"
    /\ loop' = SendToPi([loop EXCEPT !.awaiting = TRUE, !.chains[c] = Off])
    /\ UNCHANGED <<daemonVars, run, ends, pairingVars>>

\* agent_start (handleAgentStart).
StartRun ==
    /\ ~run
    /\ loop.queue > 0
    /\ run' = TRUE
    /\ loop' = [loop EXCEPT !.queue = @ - 1, !.awaiting = FALSE]
    /\ UNCHANGED <<daemonVars, ends, pairingVars>>

\* The `fail` tool, which fails the current item; markReturned.
GiveUp ==
    /\ "failTool" \in Env
    /\ run
    /\ loop.current # None
    /\ item[loop.current] = "HELD"
    /\ item' = Settled(item, loop.current)
    /\ loop' = [loop EXCEPT !.gaveUp = loop.current]
    /\ UNCHANGED <<intent, requests, mishaps, run, ends, pairingVars>>

\* agent_end: handleAgentEnd, and the usage is reported.
EndRun ==
    /\ run
    /\ run' = FALSE
    /\ ends' = ends + 1
    /\ UNCHANGED <<daemonVars, loop, pairingVars>>

\* The rest of the agent_end handler: a release that waited for the run, or
\* the item's completion, or nothing.
HandleEnd ==
    /\ ends > 0
    /\ ends' = ends - 1
    /\ loop' = IF loop.deferred # NoRelease THEN ReleasePairing(loop, loop.deferred, FALSE)
               ELSE IF ~loop.autonomous THEN loop
               ELSE AgentComplete(loop, FALSE)
    /\ UNCHANGED <<daemonVars, run, pairingVars>>

\* The summary is posted, and POST .../state reaches the daemon.
TellDaemon ==
    \E k \in DOMAIN loop.wraps :
        /\ ~loop.wraps[k].told
        /\ item' = Settled(item, loop.wraps[k].item)
        /\ loop' = [loop EXCEPT !.wraps[k].told = TRUE]
        /\ UNCHANGED <<intent, requests, mishaps, run, ends, pairingVars>>

\* Its answer arrives, and the item is let go of.
FinishItem ==
    \E k \in DOMAIN loop.wraps :
        /\ loop.wraps[k].told
        /\ loop' = LetGo([loop EXCEPT !.wraps = RemoveAt(@, k)])
        /\ UNCHANGED <<daemonVars, run, ends, pairingVars>>

-----------------------------------------------------------------------------
(* The pairing poll (WebPairing.tick). *)

\* It awaits the release it was handed.
Releasing == \E k \in DOMAIN loop.wraps : loop.wraps[k].byTick

\* The requests of an answer, as they are handed on.
Handed(a) == a.outbox \o IF a.release = NoRelease THEN << >> ELSE << a.release.at >>

\* GET /api/agents/:id/pairing, when there is something the session has not heard.
Poll ==
    /\ answer = None /\ ~Releasing
    /\ (intent.paired /\ ~paired) \/ Handed(intent) # << >>
    /\ answer' = intent
    /\ intent' = Drained(intent)
    /\ UNCHANGED <<item, requests, mishaps, loop, run, ends, paired, heard>>

\* Its answer arrives: pair, then messages, then release.  A message steers the
\* run in flight or waits for its end, as its sender chose.
PollAnswered ==
    /\ answer # None
    /\ \E n \in IF run THEN 0 .. Len(answer.outbox) ELSE {Len(answer.outbox)} :
        LET l == [loop EXCEPT
                    !.autonomous = @ /\ ~(answer.paired /\ ~paired),
                    !.queue = @ + n]
        IN  loop' = IF answer.release = NoRelease THEN l ELSE ReleasePairing(l, answer.release, TRUE)
    /\ paired' = (answer.release = NoRelease /\ (paired \/ answer.paired))
    /\ answer' = None
    /\ heard' = IF Handed(answer) = << >> THEN heard ELSE Last(Handed(answer))
    /\ UNCHANGED <<daemonVars, run, ends>>

Mishap == mishaps < MaxMishaps /\ mishaps' = mishaps + 1

\* The answer is lost, and what was drained with it.
PollLost ==
    /\ "lost" \in Env
    /\ Mishap
    /\ answer # None
    /\ answer' = None
    /\ UNCHANGED <<item, intent, requests, loop, run, ends, paired, heard>>

-----------------------------------------------------------------------------
(* Sessions, and the daemon's restarts. *)

\* The session is replaced: a new loop and a new pairing poll.  What the old one
\* awaited goes on without it: items offered are claimed, settlements are told.
NewSession ==
    /\ loop' = NewLoop
    /\ run' = FALSE
    /\ ends' = 0
    /\ paired' = FALSE
    /\ answer' = None
    /\ UNCHANGED heard

Late(its) ==
    [i \in Items |->
        IF its[i] = "READY" /\ At("offered", i) \in ToSet(loop.chains) THEN "HELD"
        ELSE IF its[i] = "HELD" /\ \E k \in DOMAIN loop.wraps : loop.wraps[k].item = i THEN "ENDED"
        ELSE its[i]]

\* /ppt-fresh-session: the member stays registered.
FreshSession ==
    /\ loop.fresh
    /\ NewSession
    /\ item' = Late(item)
    /\ UNCHANGED <<intent, requests, mishaps>>

\* ... which another extension may cancel.
FreshCancelled ==
    /\ loop.fresh
    /\ loop' = [loop EXCEPT !.fresh = FALSE]
    /\ UNCHANGED <<daemonVars, run, ends, pairingVars>>

\* /ppt-reset-session: the run is abandoned and the member deregisters, which
\* makes its items MORIBUND and forgets the pairing (forgetLiveState).
ResetSession ==
    /\ "reset" \in Env
    /\ Mishap
    /\ NewSession
    /\ item' = Late(item)
    /\ intent' = Unpaired
    /\ UNCHANGED requests

\* The daemon restarts (resetConnectionsForBoot).
Boot ==
    /\ "boot" \in Env
    /\ Mishap
    /\ intent' = Unpaired
    /\ UNCHANGED <<item, requests, loop, run, ends, pairingVars>>

-----------------------------------------------------------------------------

Init ==
    /\ item = [i \in Items |-> "READY"]
    /\ intent = Unpaired
    /\ requests = 0
    /\ mishaps = 0
    /\ loop = NewLoop
    /\ run = FALSE
    /\ ends = 0
    /\ paired = FALSE
    /\ answer = None
    /\ heard = 0

PersonStep ==
    \/ PersonPairs
    \/ PersonSends
    \/ \E action \in ReleaseActions : PersonReleases(action)
    \/ PersonTypes
    \/ PersonResumes

LoopStep ==
    \/ \E c \in Chains : AskForWork(c) \/ Claim(c) \/ TakeOn(c) \/ SendPrompt(c)
    \/ StartRun
    \/ GiveUp
    \/ EndRun
    \/ HandleEnd
    \/ TellDaemon
    \/ FinishItem

Next ==
    \/ PersonStep
    \/ LoopStep
    \/ Poll \/ PollAnswered \/ PollLost
    \/ FreshSession \/ FreshCancelled \/ ResetSession
    \/ Boot

Spec == Init /\ [][Next]_vars

\* Timers fire, requests are answered, and runs end.
Fairness ==
    /\ \A c \in Chains :
        /\ WF_vars(AskForWork(c))
        /\ WF_vars(Claim(c))
        /\ WF_vars(TakeOn(c))
        /\ WF_vars(SendPrompt(c))
    /\ WF_vars(StartRun)
    /\ WF_vars(EndRun)
    /\ WF_vars(HandleEnd)
    /\ WF_vars(TellDaemon)
    /\ WF_vars(FinishItem)
    /\ WF_vars(Poll)
    /\ WF_vars(PollAnswered)
    /\ WF_vars(FreshSession \/ FreshCancelled)

FairSpec == Spec /\ Fairness

-----------------------------------------------------------------------------
(* Properties. *)

\* The shapes of the variables.
TypeOK ==
    /\ item \in [Items -> {"READY", "HELD", "ENDED"}]
    /\ intent \in PairState
    /\ requests \in 0 .. MaxRequests /\ mishaps \in 0 .. MaxMishaps
    /\ run \in BOOLEAN /\ ends \in Nat
    /\ loop.current \in Items \union {None} /\ loop.gaveUp \in Items \union {None}
    /\ loop.autonomous \in BOOLEAN /\ loop.awaiting \in BOOLEAN /\ loop.fresh \in BOOLEAN
    /\ loop.deferred \in Releases
    /\ \A c \in Chains : loop.chains[c] \in {Off, Waits} \union
          [at : {"offered", "granted", "posting"}, item : Items]
    /\ loop.queue \in Nat
    /\ loop.wraps \in Seq([item : Items, byTick : BOOLEAN, told : BOOLEAN])
    /\ paired \in BOOLEAN
    /\ answer \in {None} \union PairState
    /\ heard \in 0 .. MaxRequests

\* A person's messages and releases reach a teammate in the order they were
\* made and at most once, whatever is superseded, dropped, lost or forgotten.
HandedInOrder ==
    answer # None =>
        LET h == <<heard>> \o Handed(answer) IN \A j, k \in DOMAIN h : j < k => h[j] < h[k]

\* A release reaches the teammate and puts it back to work, unless the person
\* pairs again first, or the answer or the daemon that had it is lost ("so a
\* paused teammate can always be released", docs/DESIGN.md).
ReleaseTaken ==
    \A n \in 0 .. MaxMishaps :
        intent.release # NoRelease /\ mishaps = n ~> loop.autonomous \/ intent.paired \/ mishaps # n

\* An item whose prompt or nudge is with Pi ends, or is given up for another,
\* unless the teammate is paused.
PromptedEnds ==
    \A i \in Items :
        loop.current = i /\ loop.awaiting /\ loop.autonomous ~> loop.current # i \/ ~loop.autonomous
=============================================================================
