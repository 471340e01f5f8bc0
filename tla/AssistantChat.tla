--------------------------- MODULE AssistantChat ---------------------------
(***************************************************************************)
(* The inbox of the assistant's chat: the daemon keeps the user's messages *)
(* with their receipts; the mirror in the leader's Pi session polls for    *)
(* the queued ones, hands them to Pi and acknowledges them; when a run     *)
(* starts it acknowledges as read what was handed over by then.  All of    *)
(* these requests are awaited, and the two kinds run beside each other.    *)
(*                                                                         *)
(* A message is known by its place in the table, and has the mode it is    *)
(* handed with.  Replies, thoughts, the daemon's chat sessions and what is *)
(* typed in the leader's terminal are left out, but that such input starts *)
(* runs.                                                                   *)
(*                                                                         *)
(* Code: src/daemon/store/assistant-chat.ts, src/daemon/routes/assistant.ts,*)
(* src/harnesses/pi/src/chat.ts, src/harnesses/pi/src/leader.ts.           *)
(***************************************************************************)
EXTENDS Naturals, FiniteSets, SequencesExt

CONSTANTS Modes,         \* how a message is handed to a run in flight: steer, queue
          MaxMessages,   \* bound
          MaxEvents,     \* bound: deletions, losses, restarts, runs nobody's message started
          Env

ASSUME ChatAssumption ==
    /\ Modes \subseteq {"steer", "queue"} /\ MaxMessages \in Nat /\ MaxEvents \in Nat
    /\ Env \subseteq {"delete", "lost", "roll", "boot", "terminal"}

VARIABLES messages,    \* the daemon's: each message's mode and receipt
          leaderKnown, \* the daemon has the leader registered
          poll,        \* the mirror's poll: idle, or the messages pulled or handed and not acked
          start,       \* the mirror's handler of agent_start: what it awaits
          delivered,   \* the mirror's: handed to Pi and not yet marked read
          running,     \* a run is in flight
          waiting,     \* Pi's: handed to it, in no run yet
          seen,        \* history: the messages in a run
          out,         \* history: the messages handed to Pi, in order
          due,         \* history: the messages handed before a run that started
          missed,      \* history: the messages the mirror forgot before they were marked read
          early,       \* history: messages for a later run, handed as one is being acknowledged
          again,       \* history: how often an acknowledgement of handed messages got lost
          events       \* how many of the bounded events have happened

daemon == <<messages, leaderKnown>>
mirror == <<poll, start, delivered>>
pi     == <<running, waiting, seen>>
history == <<out, due, missed, early, again>>
vars   == <<daemon, mirror, pi, history, events>>

Message == [mode : Modes, receipt : {"queued", "delivered", "read", "deleted"}]
Rank    == [queued |-> 0, delivered |-> 1, read |-> 2, deleted |-> 3]

Idle  == [phase |-> "idle", list |-> <<>>]
Awake == [phase |-> "none", ids |-> {}]

---------------------------------------------------------------------------
(* The daemon.                                                             *)

\* appendUserMessage: always accepted.
AppendUserMessage ==
    /\ Len(messages) < MaxMessages
    /\ \E mode \in Modes : messages' = Append(messages, [mode |-> mode, receipt |-> "queued"])
    /\ UNCHANGED <<leaderKnown, mirror, pi, history>>

DeleteMessage ==
    /\ "delete" \in Env
    /\ \E m \in DOMAIN messages : messages' = [messages EXCEPT ![m].receipt = "deleted"]
    /\ UNCHANGED <<leaderKnown, mirror, pi, history>>

\* GET /inbox and getInbox: the queued messages, for the leader alone ...
Inbox == {m \in DOMAIN messages : leaderKnown /\ messages[m].receipt = "queued"}

\* ... oldest first.
OldestFirst(S) ==
    {list \in [1..Cardinality(S) -> S] :
        ToSet(list) = S /\ \A j, k \in DOMAIN list : j < k => list[j] < list[k]}

\* Mutant: the receipt is what was acknowledged last.
AckInboxAnyhow(ids, receipt) ==
    messages' = [m \in DOMAIN messages |->
                    IF m \in ids /\ messages[m].receipt # "deleted"
                    THEN [messages[m] EXCEPT !.receipt = receipt] ELSE messages[m]]

\* Mutant: a receipt that was given is left alone.
AckInboxOnce(ids, receipt) ==
    messages' = [m \in DOMAIN messages |->
                    IF m \in ids /\ messages[m].receipt = "queued"
                    THEN [messages[m] EXCEPT !.receipt = receipt] ELSE messages[m]]

\* ackInbox: forward only; a deleted message has no row.
AckInbox(ids, receipt) ==
    messages' = [m \in DOMAIN messages |->
                    IF m \in ids /\ Rank[messages[m].receipt] < Rank[receipt]
                    THEN [messages[m] EXCEPT !.receipt = receipt] ELSE messages[m]]

\* A restart forgets the leader, which registers again with its next heartbeat.
Boot ==
    /\ "boot" \in Env
    /\ leaderKnown' = FALSE
    /\ UNCHANGED <<messages, mirror, pi, history>>

Heartbeat ==
    /\ ~leaderKnown
    /\ leaderKnown' = TRUE
    /\ UNCHANGED <<messages, mirror, pi, history>>

---------------------------------------------------------------------------
(* The mirror's poll.                                                      *)

\* Mutant: acknowledged as it is pulled.
PullAndAck ==
    /\ poll = Idle /\ Inbox # {}
    /\ \E list \in OldestFirst(Inbox) : poll' = [phase |-> "pulled", list |-> list]
    /\ AckInbox(Inbox, "delivered")
    /\ UNCHANGED <<leaderKnown, start, delivered, pi, history>>

\* pollForWork, up to the answer.
Pull ==
    /\ poll = Idle /\ Inbox # {}
    /\ \E list \in OldestFirst(Inbox) : poll' = [phase |-> "pulled", list |-> list]
    /\ UNCHANGED <<daemon, start, delivered, pi, history>>

\* Each is handed to Pi (deliverWebMessage), which takes it in when it can, and remembered.
Hand ==
    /\ poll.phase = "pulled"
    /\ poll' = [poll EXCEPT !.phase = "handed"]
    /\ waiting' = waiting \union ToSet(poll.list)
    /\ delivered' = delivered \union ToSet(poll.list)
    /\ out' = out \o poll.list
    /\ early' = IF start.phase = "thought"
                THEN early \union {m \in ToSet(poll.list) : messages[m].mode = "queue"} ELSE early
    /\ UNCHANGED <<daemon, start, running, seen, due, missed, again>>

AckDelivered ==
    /\ poll.phase = "handed"
    /\ AckInbox(ToSet(poll.list), "delivered")
    /\ poll' = Idle
    /\ UNCHANGED <<leaderKnown, start, delivered, pi, history>>

\* The acknowledgement is lost, and the messages will be pulled again.
AckLost ==
    /\ "lost" \in Env /\ poll.phase = "handed"
    /\ poll' = Idle /\ again' = again + 1
    /\ UNCHANGED <<daemon, start, delivered, pi, out, due, missed, early>>

---------------------------------------------------------------------------
(* Runs, and the mirror's handler of agent_start.                          *)

\* A run starts, for what waits; handleAgentStart goes up to its first await.
StartRun ==
    /\ ~running /\ start = Awake
    /\ running' = TRUE
    /\ seen' = seen \union waiting /\ waiting' = {}
    /\ start' = [phase |-> "thought", ids |-> {}]
    /\ due' = due \union delivered
    /\ UNCHANGED <<daemon, poll, delivered, out, missed, early, again>>

StartsForMessages == waiting # {} /\ StartRun
StartsForOthers   == "terminal" \in Env /\ StartRun

\* Pi takes in what is to steer the run.
Steer ==
    /\ running
    /\ LET steering == {m \in waiting : messages[m].mode = "steer"}
       IN  /\ steering # {}
           /\ seen' = seen \union steering /\ waiting' = waiting \ steering
    /\ UNCHANGED <<daemon, mirror, running, history>>

Settle ==
    /\ running /\ start = Awake
    /\ running' = FALSE
    /\ UNCHANGED <<daemon, mirror, waiting, seen, history>>

\* The thoughts are cleared; what was delivered by now is to be marked read.
ThoughtsCleared ==
    /\ start.phase = "thought"
    /\ start' = IF delivered = {} THEN Awake ELSE [phase |-> "ack", ids |-> delivered]
    /\ UNCHANGED <<daemon, poll, delivered, pi, history>>

\* Mutant: everything handed over by then (markDeliveredAsRead).
ReadReachesAll ==
    /\ start.phase = "ack"
    /\ AckInbox(delivered, "read")
    /\ start' = [start EXCEPT !.phase = "sent"]
    /\ UNCHANGED <<leaderKnown, poll, delivered, pi, history>>

ReadReaches ==
    /\ start.phase = "ack"
    /\ AckInbox(start.ids, "read")
    /\ start' = [start EXCEPT !.phase = "sent"]
    /\ UNCHANGED <<leaderKnown, poll, delivered, pi, history>>

ReadLost ==
    /\ "lost" \in Env /\ start.phase = "ack"
    /\ start' = [start EXCEPT !.phase = "sent"]
    /\ missed' = missed \union start.ids
    /\ UNCHANGED <<daemon, poll, delivered, pi, out, due, early, again>>

\* Answered or not, all is forgotten, what was handed since with it.
ReadReturns ==
    /\ start.phase = "sent"
    /\ start' = Awake
    /\ delivered' = {}
    /\ missed' = missed \union (delivered \ start.ids)
    /\ UNCHANGED <<daemon, poll, pi, out, due, early, again>>

\* The session is replaced, or the leader restarts: a new mirror; what the old one pulled
\* or had waiting is nowhere.  A request of the old one that is on its way counts as come
\* before or never.
Roll ==
    /\ "roll" \in Env
    /\ poll' = Idle /\ start' = Awake /\ delivered' = {}
    /\ running' = FALSE /\ waiting' = {}
    /\ missed' = missed \union delivered
    /\ again' = IF poll.phase = "handed" THEN again + 1 ELSE again
    /\ UNCHANGED <<daemon, seen, out, due, early>>

---------------------------------------------------------------------------
Init ==
    /\ messages = <<>> /\ leaderKnown = TRUE
    /\ poll = Idle /\ start = Awake /\ delivered = {}
    /\ running = FALSE /\ waiting = {} /\ seen = {}
    /\ out = <<>> /\ due = {} /\ missed = {} /\ early = {} /\ again = 0 /\ events = 0

Event == DeleteMessage \/ Boot \/ AckLost \/ ReadLost \/ Roll \/ StartsForOthers

Poll   == Pull \/ Hand \/ AckDelivered
Starts == ThoughtsCleared \/ ReadReaches \/ ReadReturns

Next ==
    \/ Event /\ events < MaxEvents /\ events' = events + 1
    \/ (AppendUserMessage \/ Heartbeat) /\ UNCHANGED events
    \/ (Poll \/ Starts \/ StartsForMessages \/ Steer \/ Settle) /\ UNCHANGED events

Spec == Init /\ [][Next]_vars

\* The polls, heartbeats and requests of the leader go on, and Pi takes in what it is
\* handed and comes to the end of a run.
Fairness == /\ WF_vars(Poll /\ UNCHANGED events) /\ WF_vars(Starts /\ UNCHANGED events)
            /\ WF_vars(Heartbeat /\ UNCHANGED events)
            /\ WF_vars(StartsForMessages /\ UNCHANGED events)
            /\ WF_vars(Settle /\ UNCHANGED events)
FairSpec == Spec /\ Fairness

---------------------------------------------------------------------------
\* Types; the mirror deals with nothing it was not handed, and with a run's start only
\* while that run goes on.
TypeOK ==
    /\ messages \in Seq(Message) /\ Len(messages) <= MaxMessages /\ leaderKnown \in BOOLEAN
    /\ poll \in [phase : {"idle", "pulled", "handed"}, list : Seq(DOMAIN messages)]
    /\ start \in [phase : {"none", "thought", "ack", "sent"}, ids : SUBSET ToSet(out)]
    /\ running \in BOOLEAN /\ (start # Awake => running)
    /\ out \in Seq(DOMAIN messages)
    /\ \A set \in {delivered, waiting, seen, due, missed, early} : set \subseteq ToSet(out)
    /\ again \in 0..MaxEvents /\ events \in 0..MaxEvents

\* The chat keeps the channel's promises, though receipts and polls overtake each other
\* (ackInbox, getInbox, pollForWork).
Channel == INSTANCE ChatChannel WITH receipt <- [m \in DOMAIN messages |-> messages[m].receipt]
ImplementsChannel == Channel!Spec

\* A message is handed over again only when an acknowledgement got lost.
HandedOnce == \A m \in DOMAIN messages : Cardinality({k \in DOMAIN out : out[k] = m}) <= 1 + again

\* A message becomes read when a run has it, or when it is about to steer the one in
\* flight; but for one that was to wait for the next run and was handed over as the
\* receipts of this one were being sent (handleAgentStart).
ReceiptsHonest ==
    [][\A m \in DOMAIN messages : messages[m].receipt # "read" /\ messages'[m].receipt = "read" =>
          \/ m \in seen \union early
          \/ m \in waiting /\ messages[m].mode = "steer" /\ running]_vars

HasReceipt(m, set) == m \in DOMAIN messages /\ messages[m].receipt \in set

\* No message is lost on its way to the agent, whatever is lost besides (acknowledged only
\* when handed over).  The way ends at Pi: what waits there when the session is replaced is
\* not followed.
NothingLost ==
    \A m \in 1..MaxMessages :
        m \in DOMAIN messages ~> m \in ToSet(out) \/ HasReceipt(m, {"deleted"})

\* A message that was there when a run started is marked read, unless the mirror forgot it:
\* its receipt was lost, or it was handed over while others' were sent, or the mirror went.
ReadInTheEnd ==
    \A m \in 1..MaxMessages :
        m \in due ~> m \in missed \/ HasReceipt(m, {"read", "deleted"})

===========================================================================
