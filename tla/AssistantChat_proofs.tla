------------------------ MODULE AssistantChat_proofs ------------------------
(***************************************************************************)
(* Theorems about AssistantChat for any number of messages and events, and *)
(* every environment: the types, how often a message is handed to Pi, what *)
(* a receipt says, and that AssistantChat implements ChatChannel.          *)
(*                                                                         *)
(* The invariant has two parts that share nothing but the types.  Polling  *)
(* relates the receipts, the poll in flight and what was handed: the list  *)
(* of a poll misses no earlier message that was not handed or deleted, and *)
(* what was acknowledged was handed.  Reading relates the mirror's memory  *)
(* and what Pi has: what is about to be marked read is in a run, or comes  *)
(* into the one in flight, or was handed too early for the next.           *)
(***************************************************************************)
EXTENDS AssistantChat, FiniteSetTheorems, SequenceTheorems, TLAPS

Count(m) == Cardinality({k \in DOMAIN out : out[k] = m})

\* The poll in flight has not handed m over, or none has since m was acknowledged last.
Fresh(m) ==
    \/ messages[m].receipt = "queued" /\ ~(poll.phase = "handed" /\ m \in ToSet(poll.list))
    \/ poll.phase = "pulled" /\ m \in ToSet(poll.list)

Acked == \A m \in DOMAIN messages : messages[m].receipt \in {"delivered", "read"} => m \in ToSet(out)

\* A pulled list is in order and complete: nothing before its messages waits.
Complete ==
    poll.phase = "pulled" =>
        /\ poll.list # <<>>
        /\ \A j, k \in DOMAIN poll.list : j < k => poll.list[j] < poll.list[k]
        /\ \A n \in ToSet(poll.list), m \in DOMAIN messages :
              m < n => m \in ToSet(poll.list) \/ m \in ToSet(out) \/ messages[m].receipt = "deleted"

Counted ==
    \A m \in DOMAIN messages : Count(m) <= 1 + again /\ (Fresh(m) => Count(m) <= again)

Polling ==
    /\ Acked /\ Complete /\ Counted
    /\ poll.phase = "handed" => ToSet(poll.list) \subseteq ToSet(out)
    /\ again <= events

\* m is in a run, about to steer the one in flight, or was handed too early.
Aware(m) == m \in seen \union early \/ (m \in waiting /\ messages[m].mode = "steer")

Reading ==
    /\ delivered \subseteq seen \union waiting
    /\ start.phase = "thought" => \A m \in delivered : Aware(m)
    /\ start.phase = "ack" => \A m \in start.ids : Aware(m)

Inv == TypeOK /\ Polling /\ Reading

-----------------------------------------------------------------------------
(* What the daemon does to messages. *)

LEMMA Positions ==
    ASSUME TypeOK
    PROVE  DOMAIN messages = 1..Len(messages) /\ Len(messages) \in Nat
  BY DEF TypeOK

\* An acknowledgement moves receipts forward, to what is acknowledged.
LEMMA AckedInbox ==
    ASSUME TypeOK, NEW ids, NEW receipt \in {"delivered", "read"}, AckInbox(ids, receipt)
    PROVE  /\ messages' \in Seq(Message) /\ Len(messages') = Len(messages)
           /\ DOMAIN messages' = DOMAIN messages
           /\ \A m \in DOMAIN messages :
                 /\ messages'[m].mode = messages[m].mode
                 /\ messages'[m].receipt = IF m \in ids /\ Rank[messages[m].receipt] < Rank[receipt]
                                           THEN receipt ELSE messages[m].receipt
  <1>1. ASSUME NEW m \in DOMAIN messages
        PROVE  /\ messages'[m] \in Message
               /\ messages'[m].mode = messages[m].mode
               /\ messages'[m].receipt = IF m \in ids /\ Rank[messages[m].receipt] < Rank[receipt]
                                         THEN receipt ELSE messages[m].receipt
    <2>1. messages[m] \in Message
      BY DEF TypeOK
    <2>2. CASE m \in ids /\ Rank[messages[m].receipt] < Rank[receipt]
      <3>1. messages'[m] = [messages[m] EXCEPT !.receipt = receipt]
        BY <2>2 DEF AckInbox
      <3> QED  BY <2>1, <2>2, <3>1 DEF Message
    <2>3. CASE ~(m \in ids /\ Rank[messages[m].receipt] < Rank[receipt])
      BY <2>1, <2>3 DEF AckInbox
    <2> QED  BY <2>2, <2>3
  <1>2. messages' = [m \in DOMAIN messages |-> messages'[m]]
    BY DEF AckInbox
  <1>3. messages' \in [1..Len(messages) -> Message]
    BY <1>1, <1>2, Positions
  <1>4. messages' \in Seq(Message) /\ Len(messages') = Len(messages)
    BY <1>3, Positions
  <1> QED  BY <1>1, <1>2, <1>4

\* A deletion.
LEMMA Deleted ==
    ASSUME TypeOK, DeleteMessage
    PROVE  /\ messages' \in Seq(Message) /\ Len(messages') = Len(messages)
           /\ DOMAIN messages' = DOMAIN messages
           /\ \A m \in DOMAIN messages :
                 /\ messages'[m].mode = messages[m].mode
                 /\ messages'[m].receipt \in {"deleted", messages[m].receipt}
  <1>1. PICK d \in DOMAIN messages : messages' = [messages EXCEPT ![d].receipt = "deleted"]
    BY DEF DeleteMessage
  <1>2. \A m \in DOMAIN messages : messages[m] \in Message
    BY DEF TypeOK
  <1>3. \A m \in DOMAIN messages :
           /\ messages'[m] \in Message /\ messages'[m].mode = messages[m].mode
           /\ messages'[m].receipt \in {"deleted", messages[m].receipt}
    <2> SUFFICES ASSUME NEW m \in DOMAIN messages
                 PROVE  /\ messages'[m] \in Message /\ messages'[m].mode = messages[m].mode
                        /\ messages'[m].receipt \in {"deleted", messages[m].receipt}
      OBVIOUS
    <2>1. messages'[m] = IF m = d THEN [messages[m] EXCEPT !.receipt = "deleted"] ELSE messages[m]
      BY <1>1
    <2> QED  BY <1>2, <2>1 DEF Message
  <1>4. messages' \in [1..Len(messages) -> Message]
    BY <1>1, <1>3, Positions
  <1>5. messages' \in Seq(Message) /\ Len(messages') = Len(messages)
    BY <1>4, Positions
  <1>6. DOMAIN messages' = DOMAIN messages
    BY <1>1
  <1> QED  BY <1>3, <1>5, <1>6

\* A message that is sent comes last, and is queued.
LEMMA Appended ==
    ASSUME TypeOK, AppendUserMessage
    PROVE  /\ messages' \in Seq(Message) /\ Len(messages') = Len(messages) + 1
           /\ Len(messages') <= MaxMessages
           /\ DOMAIN messages' = DOMAIN messages \union {Len(messages) + 1}
           /\ Len(messages) + 1 \notin DOMAIN messages
           /\ \A m \in DOMAIN messages : messages'[m] = messages[m]
           /\ messages'[Len(messages) + 1].receipt = "queued"
  <1>1. PICK mode \in Modes : messages' = Append(messages, [mode |-> mode, receipt |-> "queued"])
    BY DEF AppendUserMessage
  <1>2. [mode |-> mode, receipt |-> "queued"] \in Message
    BY DEF Message
  <1>3. messages \in Seq(Message) /\ Len(messages) < MaxMessages
    BY DEF TypeOK, AppendUserMessage
  <1> QED  BY <1>1, <1>2, <1>3, ChatAssumption

-----------------------------------------------------------------------------
(* What the mirror pulls. *)

LEMMA InboxList ==
    ASSUME TypeOK, NEW list \in OldestFirst(Inbox)
    PROVE  /\ list \in Seq(DOMAIN messages) /\ ToSet(list) = Inbox
           /\ \A j, k \in DOMAIN list : j < k => list[j] < list[k]
  <1>1. Inbox \subseteq 1..Len(messages)
    BY Positions DEF Inbox
  <1>2. IsFiniteSet(1..Len(messages))
    BY Positions, FS_Interval
  <1>3. IsFiniteSet(Inbox) /\ Cardinality(Inbox) \in Nat
    BY <1>1, <1>2, FS_Subset, FS_CardinalityType
  <1>4. list \in [1..Cardinality(Inbox) -> DOMAIN messages]
    BY DEF OldestFirst, Inbox
  <1>5. list \in Seq(DOMAIN messages)
    BY <1>3, <1>4
  <1> QED  BY <1>5 DEF OldestFirst

-----------------------------------------------------------------------------
(* The messages handed to Pi. *)

LEMMA JoinedSet ==
    ASSUME NEW S, NEW s \in Seq(S), NEW t \in Seq(S)
    PROVE  ToSet(s \o t) = ToSet(s) \union ToSet(t)
  <1>1. ASSUME NEW k \in DOMAIN s PROVE (s \o t)[k] = s[k] /\ k \in DOMAIN (s \o t)
    OBVIOUS
  <1>2. ASSUME NEW k \in DOMAIN t PROVE (s \o t)[Len(s) + k] = t[k] /\ Len(s) + k \in DOMAIN (s \o t)
    OBVIOUS
  <1>3. ASSUME NEW k \in DOMAIN (s \o t)
        PROVE  (s \o t)[k] \in ToSet(s) \union ToSet(t)
    <2>1. CASE k <= Len(s)
      BY <2>1, <1>3 DEF ToSet
    <2>2. CASE k > Len(s)
      <3>1. k - Len(s) \in DOMAIN t /\ (s \o t)[k] = t[k - Len(s)]
        BY <2>2, <1>3
      <3> QED  BY <3>1 DEF ToSet
    <2> QED  BY <2>1, <2>2, <1>3
  <1>4. ToSet(s) \subseteq ToSet(s \o t)
    BY <1>1 DEF ToSet
  <1>5. ToSet(t) \subseteq ToSet(s \o t)
    BY <1>2 DEF ToSet
  <1>6. ToSet(s \o t) \subseteq ToSet(s) \union ToSet(t)
    BY <1>3 DEF ToSet
  <1> QED  BY <1>4, <1>5, <1>6

\* How often m is in the list, at most, if the list is in order.
LEMMA CountJoined ==
    ASSUME NEW s \in Seq(Nat), NEW t \in Seq(Nat), NEW m \in Nat,
           \A j, k \in DOMAIN t : j < k => t[j] < t[k]
    PROVE  LET old == Cardinality({k \in DOMAIN s : s[k] = m})
               new == Cardinality({k \in DOMAIN (s \o t) : (s \o t)[k] = m})
           IN  /\ old \in Nat /\ new \in Nat
               /\ new <= old + 1
               /\ m \notin ToSet(t) => new = old
  <1> DEFINE A == {k \in DOMAIN s : s[k] = m}
             B == {k \in DOMAIN (s \o t) : (s \o t)[k] = m}
  <1> SUFFICES /\ Cardinality(A) \in Nat /\ Cardinality(B) \in Nat
               /\ Cardinality(B) <= Cardinality(A) + 1
               /\ m \notin ToSet(t) => Cardinality(B) = Cardinality(A)
    OBVIOUS
  <1>1. IsFiniteSet(A) /\ Cardinality(A) \in Nat
    <2>1. IsFiniteSet(1..Len(s))
      BY FS_Interval
    <2>2. A \subseteq 1..Len(s)
      OBVIOUS
    <2> QED  BY <2>1, <2>2, FS_Subset, FS_CardinalityType
  <1>2. ASSUME NEW k \in B PROVE k \in A \/ (k - Len(s) \in DOMAIN t /\ t[k - Len(s)] = m)
    <2>1. CASE k <= Len(s)
      BY <2>1
    <2>2. CASE k > Len(s)
      BY <2>2
    <2> QED  BY <2>1, <2>2
  <1>3. A \subseteq B
    <2>1. ASSUME NEW k \in A PROVE k \in B
      <3>1. k \in 1..Len(s) /\ s[k] = m  OBVIOUS
      <3>2. k \in DOMAIN (s \o t) /\ (s \o t)[k] = s[k]  BY <3>1
      <3> QED  BY <3>1, <3>2
    <2> QED  BY <2>1
  <1>4. CASE m \notin ToSet(t)
    <2>1. B = A
      BY <1>2, <1>3, <1>4 DEF ToSet
    <2> HIDE DEF A, B
    <2> QED  BY <1>1, <2>1
  <1>5. CASE m \in ToSet(t)
    <2>1. PICK j \in DOMAIN t : t[j] = m
      BY <1>5 DEF ToSet
    <2>2. \A k \in DOMAIN t : t[k] = m => k = j
      <3> SUFFICES ASSUME NEW k \in DOMAIN t, t[k] = m PROVE k = j
        OBVIOUS
      <3>1. ~(k < j) /\ ~(j < k)
        BY <2>1
      <3> QED  BY <3>1
    <2>3. B \subseteq A \union {Len(s) + j}
      <3>1. ASSUME NEW k \in B, k \notin A PROVE k = Len(s) + j
        <4>1. k - Len(s) \in DOMAIN t /\ t[k - Len(s)] = m
          BY <1>2, <3>1
        <4>2. k - Len(s) = j
          BY <2>2, <4>1
        <4>3. k \in Nat /\ Len(s) \in Nat /\ j \in Nat
          OBVIOUS
        <4> QED  BY <4>2, <4>3
      <3> QED  BY <3>1
    <2>4. IsFiniteSet(A \union {Len(s) + j}) /\ Cardinality(A \union {Len(s) + j}) <= Cardinality(A) + 1
      <3> DEFINE x == Len(s) + j
      <3> HIDE DEF A, x
      <3>1. /\ IsFiniteSet(A \union {x})
            /\ Cardinality(A \union {x}) = IF x \in A THEN Cardinality(A) ELSE Cardinality(A) + 1
        BY <1>1, FS_AddElement
      <3>2. Cardinality(A \union {x}) <= Cardinality(A) + 1
        BY <1>1, <3>1
      <3> QED  BY <3>1, <3>2 DEF x
    <2>5. Cardinality(B) \in Nat /\ Cardinality(B) <= Cardinality(A \union {Len(s) + j})
      BY <2>3, <2>4, FS_Subset, FS_CardinalityType
    <2>6. Cardinality(A \union {Len(s) + j}) \in Nat
      BY <2>4, FS_CardinalityType
    <2> HIDE DEF A, B
    <2> QED  BY <1>1, <1>5, <2>4, <2>5, <2>6
  <1> QED  BY <1>4, <1>5

-----------------------------------------------------------------------------
(* Type correctness. *)

LEMMA TypeInit == Init => TypeOK
  <1> SUFFICES ASSUME Init PROVE TypeOK
    OBVIOUS
  <1>1. messages = <<>> /\ out = <<>> /\ ToSet(out) = {}
    BY DEF Init, ToSet
  <1>2. poll \in [phase : {"idle", "pulled", "handed"}, list : Seq(DOMAIN messages)]
    BY DEF Init, Idle
  <1>3. start \in [phase : {"none", "thought", "ack", "sent"}, ids : SUBSET ToSet(out)]
    BY DEF Init, Awake
  <1>4. messages \in Seq(Message) /\ Len(messages) <= MaxMessages /\ out \in Seq(DOMAIN messages)
    BY <1>1, ChatAssumption
  <1>5. \A set \in {delivered, waiting, seen, due, missed, early} : set \subseteq ToSet(out)
    BY DEF Init
  <1>6. again \in 0..MaxEvents /\ events \in 0..MaxEvents
    BY ChatAssumption DEF Init
  <1>7. leaderKnown \in BOOLEAN /\ running \in BOOLEAN /\ start = Awake
    BY DEF Init
  <1> QED  BY <1>2, <1>3, <1>4, <1>5, <1>6, <1>7 DEF TypeOK

\* More messages change no type.
LEMMA GrownTyped ==
    ASSUME TypeOK, messages' \in Seq(Message), Len(messages') <= MaxMessages,
           DOMAIN messages \subseteq DOMAIN messages',
           UNCHANGED <<poll, start, delivered, running, waiting, seen, out, due, missed, early>>,
           leaderKnown' \in BOOLEAN, again' \in 0..MaxEvents, events' \in 0..MaxEvents
    PROVE  TypeOK'
  <1>1. poll' \in [phase : {"idle", "pulled", "handed"}, list : Seq(DOMAIN messages')]
    BY DEF TypeOK
  <1>2. out' \in Seq(DOMAIN messages')
    BY DEF TypeOK
  <1> QED  BY <1>1, <1>2 DEF TypeOK

\* The mirror and Pi deal with what was handed over.
LEMMA HandedTyped ==
    ASSUME TypeOK, UNCHANGED <<messages, leaderKnown, out>>,
           poll' \in [phase : {"idle", "pulled", "handed"}, list : Seq(DOMAIN messages)],
           start' \in [phase : {"none", "thought", "ack", "sent"}, ids : SUBSET ToSet(out)],
           running' \in BOOLEAN, start' # Awake => running',
           \A set \in {delivered', waiting', seen', due', missed', early'} : set \subseteq ToSet(out),
           again' \in 0..MaxEvents, events' \in 0..MaxEvents
    PROVE  TypeOK'
  BY DEF TypeOK

LEMMA EventTyped ==
    ASSUME TypeOK, again <= events, [Next]_vars
    PROVE  /\ again' \in 0..MaxEvents /\ events' \in 0..MaxEvents
           /\ again' <= events'
  <1>0. again \in Nat /\ events \in Nat /\ events <= MaxEvents /\ MaxEvents \in Nat
    BY ChatAssumption DEF TypeOK
  <1>1. CASE Event /\ events < MaxEvents /\ events' = events + 1
    <2>1. again' \in {again, again + 1}
      BY <1>1 DEF Event, DeleteMessage, Boot, AckLost, ReadLost, Roll, StartsForOthers, StartRun, history
    <2> QED  BY <1>0, <1>1, <2>1
  <1>3. CASE UNCHANGED <<again, events>>
    BY <1>0, <1>3
  <1>4. ~(Event /\ events < MaxEvents /\ events' = events + 1) => UNCHANGED <<again, events>>
    BY DEF Next, AppendUserMessage, Heartbeat, Poll, Pull, Hand, AckDelivered, Starts,
           ThoughtsCleared, ReadReaches, ReadReturns, StartsForMessages, StartRun, Steer, Settle,
           history, vars
  <1> QED  BY <1>1, <1>3, <1>4

LEMMA TypeStep ==
    ASSUME TypeOK, again <= events, [Next]_vars
    PROVE  TypeOK'
  <1>e. again' \in 0..MaxEvents /\ events' \in 0..MaxEvents
    BY EventTyped
  <1>1. CASE AppendUserMessage
    BY <1>e, <1>1, Appended, GrownTyped DEF AppendUserMessage, mirror, pi, history, TypeOK
  <1>2. CASE DeleteMessage
    BY <1>e, <1>2, Deleted, GrownTyped DEF DeleteMessage, mirror, pi, history, TypeOK
  <1>3. CASE Boot \/ Heartbeat
    BY <1>e, <1>3, GrownTyped DEF Boot, Heartbeat, mirror, pi, history, TypeOK
  <1>4. CASE Pull
    <2>1. PICK list \in OldestFirst(Inbox) : poll' = [phase |-> "pulled", list |-> list]
      BY <1>4 DEF Pull
    <2>2. list \in Seq(DOMAIN messages)
      BY InboxList
    <2> QED  BY <1>e, <1>4, <2>1, <2>2, HandedTyped DEF Pull, daemon, pi, history, TypeOK
  <1>5. CASE Hand
    <2>1. poll.list \in Seq(DOMAIN messages) /\ poll' = [poll EXCEPT !.phase = "handed"] /\ out' = out \o poll.list
      BY <1>5 DEF Hand, TypeOK
    <2>2. out' \in Seq(DOMAIN messages)
      BY <2>1 DEF TypeOK
    <2>3. ToSet(out') = ToSet(out) \union ToSet(poll.list)
      BY <2>1, JoinedSet DEF TypeOK
    <2>4. poll' \in [phase : {"idle", "pulled", "handed"}, list : Seq(DOMAIN messages)]
      BY <2>1 DEF TypeOK
    <2>5. start' = start /\ start' \in [phase : {"none", "thought", "ack", "sent"}, ids : SUBSET ToSet(out')]
      BY <1>5, <2>3 DEF Hand, TypeOK
    <2>6. \A set \in {delivered', waiting', seen', due', missed', early'} : set \subseteq ToSet(out')
      BY <1>5, <2>3 DEF Hand, TypeOK
    <2> QED  BY <1>e, <1>5, <2>2, <2>4, <2>5, <2>6 DEF Hand, daemon, TypeOK
  <1>6. CASE AckDelivered
    <2>1. messages' \in Seq(Message) /\ Len(messages') = Len(messages) /\ DOMAIN messages' = DOMAIN messages
      BY <1>6, AckedInbox DEF AckDelivered
    <2>2. poll' \in [phase : {"idle", "pulled", "handed"}, list : Seq(DOMAIN messages')]
      BY <1>6 DEF AckDelivered, Idle
    <2> QED  BY <1>e, <1>6, <2>1, <2>2 DEF AckDelivered, pi, history, TypeOK
  <1>7. CASE AckLost
    <2>1. poll' \in [phase : {"idle", "pulled", "handed"}, list : Seq(DOMAIN messages)]
      BY <1>7 DEF AckLost, Idle
    <2> QED  BY <1>e, <1>7, <2>1, HandedTyped DEF AckLost, daemon, pi, TypeOK
  <1>8. CASE StartRun
    <2>1. start' \in [phase : {"none", "thought", "ack", "sent"}, ids : SUBSET ToSet(out)]
      BY <1>8 DEF StartRun
    <2> QED  BY <1>e, <1>8, <2>1, HandedTyped DEF StartRun, daemon, TypeOK
  <1>9. CASE Steer
    BY <1>e, <1>9, HandedTyped DEF Steer, daemon, mirror, history, TypeOK
  <1>10. CASE Settle
    BY <1>e, <1>10, HandedTyped DEF Settle, daemon, mirror, history, TypeOK
  <1>11. CASE ThoughtsCleared
    <2>1. start' \in [phase : {"none", "thought", "ack", "sent"}, ids : SUBSET ToSet(out)]
      BY <1>11 DEF ThoughtsCleared, Awake, TypeOK
    <2>2. running
      BY <1>11 DEF ThoughtsCleared, Awake, TypeOK
    <2> QED  BY <1>e, <1>11, <2>1, <2>2, HandedTyped DEF ThoughtsCleared, daemon, pi, history, TypeOK
  <1>12. CASE ReadReaches \/ ReadLost
    <2>1. start' = [start EXCEPT !.phase = "sent"] /\ running
      BY <1>12 DEF ReadReaches, ReadLost, Awake, TypeOK
    <2>2. start' \in [phase : {"none", "thought", "ack", "sent"}, ids : SUBSET ToSet(out)]
      BY <2>1 DEF TypeOK
    <2>3. messages' \in Seq(Message) /\ Len(messages') = Len(messages) /\ DOMAIN messages' = DOMAIN messages
      BY <1>12, AckedInbox DEF ReadReaches, ReadLost, daemon, TypeOK
    <2>4. missed' \subseteq ToSet(out)
      BY <1>12 DEF ReadReaches, ReadLost, history, TypeOK
    <2> QED  BY <1>e, <1>12, <2>1, <2>2, <2>3, <2>4 DEF ReadReaches, ReadLost, daemon, pi, history, TypeOK
  <1>13. CASE ReadReturns
    <2>1. start' \in [phase : {"none", "thought", "ack", "sent"}, ids : SUBSET ToSet(out)]
      BY <1>13 DEF ReadReturns, Awake
    <2> QED  BY <1>e, <1>13, <2>1, HandedTyped DEF ReadReturns, daemon, pi, TypeOK
  <1>14. CASE Roll
    <2>1. /\ poll' \in [phase : {"idle", "pulled", "handed"}, list : Seq(DOMAIN messages)]
          /\ start' \in [phase : {"none", "thought", "ack", "sent"}, ids : SUBSET ToSet(out)]
      BY <1>14 DEF Roll, Idle, Awake
    <2>2. \A set \in {delivered', waiting', seen', due', missed', early'} : set \subseteq ToSet(out)
      BY <1>14 DEF Roll, TypeOK
    <2>3. running' \in BOOLEAN /\ (start' # Awake => running')
      BY <1>14 DEF Roll
    <2>4. UNCHANGED <<messages, leaderKnown, out>>
      BY <1>14 DEF Roll, daemon
    <2> QED  BY <1>e, <2>1, <2>2, <2>3, <2>4, HandedTyped
  <1>15. CASE UNCHANGED vars
    BY <1>15, HandedTyped DEF vars, daemon, mirror, pi, history, TypeOK
  <1> QED  BY <1>1, <1>2, <1>3, <1>4, <1>5, <1>6, <1>7, <1>8, <1>9, <1>10, <1>11, <1>12, <1>13, <1>14, <1>15
           DEF Next, Event, Poll, Starts, StartsForMessages, StartsForOthers

-----------------------------------------------------------------------------
(* What was acknowledged was handed over, and handed over once, or twice if an *)
(* acknowledgement was lost. *)

LEMMA CountFinite ==
    ASSUME TypeOK, NEW m
    PROVE  Count(m) \in Nat
  <1>1. IsFiniteSet(1..Len(out))
    BY FS_Interval DEF TypeOK
  <1>2. {k \in DOMAIN out : out[k] = m} \subseteq 1..Len(out)
    BY DEF TypeOK
  <1> QED  BY <1>1, <1>2, FS_Subset, FS_CardinalityType DEF Count

LEMMA NeverHanded ==
    ASSUME TypeOK, NEW m, m \notin ToSet(out)
    PROVE  Count(m) = 0
  <1>1. {k \in DOMAIN out : out[k] = m} = {}
    BY DEF ToSet
  <1> QED  BY <1>1, FS_EmptySet DEF Count

\* Nothing is handed over and no poll begins or ends; receipts go forward.
LEMMA PollingKept ==
    ASSUME TypeOK, Polling, UNCHANGED <<poll, out, again>>,
           DOMAIN messages' = DOMAIN messages, events' \in Nat, events <= events',
           \A m \in DOMAIN messages :
              \/ messages'[m].receipt = messages[m].receipt
              \/ messages'[m].receipt = "deleted"
              \/ m \in ToSet(out) /\ messages'[m].receipt = "read" /\ messages[m].receipt # "deleted"
    PROVE  Polling'
  <1>1. Acked'
    BY DEF Polling, Acked
  <1>2. Complete'
    BY DEF Polling, Complete
  <1>3. Counted'
    <2> SUFFICES ASSUME NEW m \in DOMAIN messages
                 PROVE  Count(m)' <= 1 + again /\ (Fresh(m)' => Count(m)' <= again)
      BY DEF Counted
    <2>1. Count(m)' = Count(m)
      BY DEF Count
    <2>2. Fresh(m)' => Fresh(m)
      BY DEF Fresh
    <2> QED  BY <2>1, <2>2 DEF Polling, Counted
  <1>4. (poll.phase = "handed" => ToSet(poll.list) \subseteq ToSet(out))'
    BY DEF Polling
  <1>5. again' <= events'
    BY DEF Polling, TypeOK
  <1> QED  BY <1>1, <1>2, <1>3, <1>4, <1>5 DEF Polling

LEMMA PollingAppend ==
    ASSUME TypeOK, Polling, AppendUserMessage, UNCHANGED events
    PROVE  Polling'
  <1> DEFINE new == Len(messages) + 1
  <1>1. UNCHANGED <<poll, out, again>>
    BY DEF AppendUserMessage, mirror, history
  <1>2. /\ DOMAIN messages' = DOMAIN messages \union {new} /\ new \notin DOMAIN messages
        /\ \A m \in DOMAIN messages : messages'[m] = messages[m] /\ m < new
        /\ messages'[new].receipt = "queued"
    BY Appended, Positions
  <1>3. ToSet(poll.list) \subseteq DOMAIN messages /\ ToSet(out) \subseteq DOMAIN messages
    BY DEF TypeOK, ToSet
  <1> HIDE DEF new
  <1>4. Acked'
    BY <1>1, <1>2 DEF Polling, Acked
  <1>5. Complete'
    <2> SUFFICES ASSUME poll.phase = "pulled"
                 PROVE  \A n \in ToSet(poll.list), m \in DOMAIN messages' :
                           m < n => m \in ToSet(poll.list) \/ m \in ToSet(out)
                                    \/ messages'[m].receipt = "deleted"
      BY <1>1 DEF Polling, Complete
    <2> SUFFICES ASSUME NEW n \in ToSet(poll.list), NEW m \in DOMAIN messages', m < n
                 PROVE  m \in ToSet(poll.list) \/ m \in ToSet(out) \/ messages'[m].receipt = "deleted"
      OBVIOUS
    <2>1. n \in DOMAIN messages /\ n < new /\ n \in Nat /\ new \in Nat
      BY <1>2, <1>3, Positions DEF new
    <2>2. m \in DOMAIN messages
      BY <1>2, <2>1
    <2> QED  BY <1>2, <2>2 DEF Polling, Complete
  <1>6. Counted'
    <2> SUFFICES ASSUME NEW m \in DOMAIN messages'
                 PROVE  Count(m)' <= 1 + again /\ (Fresh(m)' => Count(m)' <= again)
      BY <1>1 DEF Counted
    <2>1. Count(m)' = Count(m)
      BY <1>1 DEF Count
    <2>2. CASE m \in DOMAIN messages
      BY <1>1, <1>2, <2>1, <2>2 DEF Polling, Counted, Fresh
    <2>3. CASE m = new
      BY <1>2, <1>3, <2>1, <2>3, NeverHanded DEF TypeOK
    <2> QED  BY <1>2, <2>2, <2>3
  <1>7. (poll.phase = "handed" => ToSet(poll.list) \subseteq ToSet(out))' /\ again' <= events'
    BY <1>1 DEF Polling
  <1> QED  BY <1>4, <1>5, <1>6, <1>7 DEF Polling

LEMMA PollingPull ==
    ASSUME TypeOK, Polling, Pull, UNCHANGED events
    PROVE  Polling'
  <1>1. PICK list \in OldestFirst(Inbox) : poll' = [phase |-> "pulled", list |-> list]
    BY DEF Pull
  <1>2. /\ list \in Seq(DOMAIN messages) /\ ToSet(list) = Inbox
        /\ \A j, k \in DOMAIN list : j < k => list[j] < list[k]
    BY InboxList
  <1>3. UNCHANGED <<messages, leaderKnown, out, again>> /\ Inbox # {} /\ poll = Idle
    BY DEF Pull, daemon, history
  <1>4. Acked'
    BY <1>3 DEF Polling, Acked
  <1>5. Complete'
    <2>1. list # <<>>
      BY <1>2, <1>3 DEF ToSet
    <2>2. ASSUME NEW n \in ToSet(list), NEW m \in DOMAIN messages
          PROVE  m \in ToSet(list) \/ m \in ToSet(out) \/ messages[m].receipt = "deleted"
      <3>1. leaderKnown
        BY <1>2 DEF Inbox
      <3>2. messages[m].receipt \in {"queued", "delivered", "read", "deleted"}
        <4>1. messages[m] \in Message
          BY DEF TypeOK
        <4> QED  BY <4>1 DEF Message
      <3> QED  BY <1>2, <3>1, <3>2 DEF Inbox, Polling, Acked
    <2>3. poll'.phase = "pulled" /\ poll'.list = list
      BY <1>1
    <2> QED  BY <1>2, <1>3, <2>1, <2>2, <2>3 DEF Complete
  <1>6. Counted'
    <2> SUFFICES ASSUME NEW m \in DOMAIN messages
                 PROVE  Count(m)' <= 1 + again /\ (Fresh(m)' => Count(m)' <= again)
      BY <1>3 DEF Counted
    <2>1. Count(m)' = Count(m)
      BY <1>3 DEF Count
    <2>2. Fresh(m)' => Fresh(m)
      BY <1>1, <1>2, <1>3 DEF Fresh, Inbox, Idle
    <2> QED  BY <2>1, <2>2 DEF Polling, Counted
  <1>7. (poll.phase = "handed" => ToSet(poll.list) \subseteq ToSet(out))' /\ again' <= events'
    BY <1>1, <1>3 DEF Polling
  <1> QED  BY <1>4, <1>5, <1>6, <1>7 DEF Polling

LEMMA PollingHand ==
    ASSUME TypeOK, Polling, Hand, UNCHANGED events
    PROVE  Polling'
  <1>1. /\ poll.phase = "pulled" /\ poll' = [poll EXCEPT !.phase = "handed"]
        /\ out' = out \o poll.list /\ UNCHANGED <<messages, again>>
    BY DEF Hand, daemon
  <1>2. poll'.phase = "handed" /\ poll'.list = poll.list
    BY <1>1 DEF TypeOK
  <1>3. poll.list \in Seq(DOMAIN messages) /\ out \in Seq(DOMAIN messages)
    BY DEF TypeOK
  <1>4. ToSet(out') = ToSet(out) \union ToSet(poll.list)
    BY <1>1, <1>3, JoinedSet
  <1>5. Acked'
    BY <1>1, <1>4 DEF Polling, Acked
  <1>6. Counted'
    <2> SUFFICES ASSUME NEW m \in DOMAIN messages
                 PROVE  Count(m)' <= 1 + again /\ (Fresh(m)' => Count(m)' <= again)
      BY <1>1 DEF Counted
    <2>1. out \in Seq(Nat) /\ poll.list \in Seq(Nat) /\ m \in Nat
      BY <1>3, Positions
    <2>2. \A j, k \in DOMAIN poll.list : j < k => poll.list[j] < poll.list[k]
      BY <1>1 DEF Polling, Complete
    <2>3. /\ Count(m) \in Nat /\ Count(m)' \in Nat
          /\ Count(m)' <= Count(m) + 1
          /\ m \notin ToSet(poll.list) => Count(m)' = Count(m)
      <3> DEFINE joined == out \o poll.list
      <3>1. /\ Cardinality({k \in DOMAIN out : out[k] = m}) \in Nat
            /\ Cardinality({k \in DOMAIN joined : joined[k] = m}) \in Nat
            /\ Cardinality({k \in DOMAIN joined : joined[k] = m})
                  <= Cardinality({k \in DOMAIN out : out[k] = m}) + 1
            /\ m \notin ToSet(poll.list) =>
                  Cardinality({k \in DOMAIN joined : joined[k] = m})
                    = Cardinality({k \in DOMAIN out : out[k] = m})
        BY <2>1, <2>2, CountJoined
      <3>2. Count(m)' = Cardinality({k \in DOMAIN joined : joined[k] = m})
        BY <1>1 DEF Count
      <3> HIDE DEF joined
      <3> QED  BY <3>1, <3>2 DEF Count
    <2>4. again \in Nat
      BY DEF TypeOK
    <2>5. Count(m) <= 1 + again /\ (Fresh(m) => Count(m) <= again)
      BY DEF Polling, Counted
    <2>6. CASE m \in ToSet(poll.list)
      <3>1. Fresh(m) /\ ~Fresh(m)'
        BY <1>1, <1>2, <2>6 DEF Fresh
      <3> QED  BY <2>3, <2>4, <2>5, <3>1
    <2>7. CASE m \notin ToSet(poll.list)
      <3>1. Fresh(m)' => Fresh(m)
        BY <1>1, <1>2, <2>7 DEF Fresh
      <3> QED  BY <2>3, <2>4, <2>5, <2>7, <3>1
    <2> QED  BY <2>6, <2>7
  <1>7. Complete' /\ (poll.phase = "handed" => ToSet(poll.list) \subseteq ToSet(out))' /\ again' <= events'
    BY <1>1, <1>2, <1>4 DEF Polling, Complete
  <1> QED  BY <1>5, <1>6, <1>7 DEF Polling

LEMMA PollingAckDelivered ==
    ASSUME TypeOK, Polling, AckDelivered, UNCHANGED events
    PROVE  Polling'
  <1>1. poll.phase = "handed" /\ poll' = Idle /\ UNCHANGED <<out, again>>
    BY DEF AckDelivered, history
  <1>2. /\ DOMAIN messages' = DOMAIN messages
        /\ \A m \in DOMAIN messages :
              messages'[m].receipt = IF m \in ToSet(poll.list) /\ Rank[messages[m].receipt] < Rank["delivered"]
                                     THEN "delivered" ELSE messages[m].receipt
    BY AckedInbox DEF AckDelivered
  <1>3. Acked'
    BY <1>1, <1>2 DEF Polling, Acked
  <1>4. Counted'
    <2> SUFFICES ASSUME NEW m \in DOMAIN messages
                 PROVE  Count(m)' <= 1 + again /\ (Fresh(m)' => Count(m)' <= again)
      BY <1>1, <1>2 DEF Counted
    <2>1. Count(m)' = Count(m)
      BY <1>1 DEF Count
    <2>2. Rank["queued"] < Rank["delivered"]
      BY DEF Rank
    <2>3. Fresh(m)' => messages'[m].receipt = "queued"
      BY <1>1 DEF Fresh, Idle
    <2>4. Fresh(m)' => Fresh(m)
      BY <1>1, <1>2, <2>2, <2>3 DEF Fresh
    <2> QED  BY <2>1, <2>4 DEF Polling, Counted
  <1>5. Complete' /\ (poll.phase = "handed" => ToSet(poll.list) \subseteq ToSet(out))' /\ again' <= events'
    BY <1>1 DEF Polling, Complete, Idle
  <1> QED  BY <1>3, <1>4, <1>5 DEF Polling

\* The poll is given up; had it handed messages over, they may be handed over again.
LEMMA PollingGivenUp ==
    ASSUME TypeOK, Polling, poll' = Idle, UNCHANGED <<messages, out>>,
           again' \in Nat, again <= again', poll.phase = "handed" => again' = again + 1,
           again' <= events'
    PROVE  Polling'
  <1>1. Acked'
    BY DEF Polling, Acked
  <1>2. Counted'
    <2> SUFFICES ASSUME NEW m \in DOMAIN messages
                 PROVE  Count(m)' <= 1 + again' /\ (Fresh(m)' => Count(m)' <= again')
      BY DEF Counted
    <2>1. Count(m)' = Count(m) /\ Count(m) \in Nat /\ again \in Nat
      <3>1. Count(m)' = Count(m)
        BY DEF Count
      <3>2. again \in Nat
        BY DEF TypeOK
      <3> QED  BY <3>1, <3>2, CountFinite
    <2>2. Count(m) <= 1 + again /\ (Fresh(m) => Count(m) <= again)
      BY DEF Polling, Counted
    <2>3. CASE poll.phase = "handed"
      BY <2>1, <2>2, <2>3
    <2>4. CASE poll.phase # "handed"
      <3>1. Fresh(m)' => Fresh(m)
        BY <2>4 DEF Fresh, Idle
      <3> QED  BY <2>1, <2>2, <3>1
    <2> QED  BY <2>3, <2>4
  <1>3. Complete' /\ (poll.phase = "handed" => ToSet(poll.list) \subseteq ToSet(out))'
    BY DEF Polling, Complete, Idle
  <1> QED  BY <1>1, <1>2, <1>3 DEF Polling

LEMMA PollingStep ==
    ASSUME TypeOK, Polling, [Next]_vars
    PROVE  Polling'
  <1>e. again' \in 0..MaxEvents /\ events' \in 0..MaxEvents /\ again' <= events'
    BY EventTyped DEF Polling
  <1>n. again \in Nat /\ events \in Nat /\ again' \in Nat /\ events' \in Nat
    BY <1>e, ChatAssumption DEF TypeOK
  <1>v. events <= events'
    BY <1>n DEF Next, vars
  <1>1. CASE AppendUserMessage /\ UNCHANGED events
    BY <1>1, PollingAppend
  <1>2. CASE Pull /\ UNCHANGED events
    BY <1>2, PollingPull
  <1>3. CASE Hand /\ UNCHANGED events
    BY <1>3, PollingHand
  <1>4. CASE AckDelivered /\ UNCHANGED events
    BY <1>4, PollingAckDelivered
  <1>5. CASE AckLost \/ Roll
    BY <1>5, <1>e, <1>n, PollingGivenUp DEF AckLost, Roll, daemon
  <1>6. CASE DeleteMessage
    <2>1. UNCHANGED <<poll, out, again>>
      BY <1>6 DEF DeleteMessage, mirror, history
    <2> QED  BY <1>6, <1>n, <1>v, <2>1, Deleted, PollingKept
  <1>7. CASE ReadReaches
    <2>1. UNCHANGED <<poll, out, again>> /\ start.ids \subseteq ToSet(out)
      BY <1>7 DEF ReadReaches, history, TypeOK
    <2>2. /\ DOMAIN messages' = DOMAIN messages
          /\ \A m \in DOMAIN messages :
                messages'[m].receipt = IF m \in start.ids /\ Rank[messages[m].receipt] < Rank["read"]
                                       THEN "read" ELSE messages[m].receipt
      BY <1>7, AckedInbox DEF ReadReaches
    <2>3. ~(Rank["deleted"] < Rank["read"])
      BY DEF Rank
    <2> QED  BY <1>n, <1>v, <2>1, <2>2, <2>3, PollingKept
  <1>8. CASE \/ Boot \/ Heartbeat \/ ReadLost \/ StartRun \/ Steer \/ Settle
             \/ ThoughtsCleared \/ ReadReturns \/ UNCHANGED vars
    <2>1. UNCHANGED <<messages, poll, out, again>>
      BY <1>8 DEF Boot, Heartbeat, ReadLost, StartRun, Steer, Settle, ThoughtsCleared, ReadReturns,
                  vars, daemon, mirror, history
    <2> QED  BY <1>n, <1>v, <2>1, PollingKept
  <1> QED  BY <1>1, <1>2, <1>3, <1>4, <1>5, <1>6, <1>7, <1>8
           DEF Next, Event, Poll, Starts, StartsForMessages, StartsForOthers

-----------------------------------------------------------------------------
(* What is about to be marked read. *)

\* What Pi has only moves from waiting into runs, and what was handed is remembered.
LEMMA AwareKept ==
    ASSUME TypeOK, NEW m \in DOMAIN messages, Aware(m),
           seen \subseteq seen', early \subseteq early', waiting \subseteq seen' \union waiting',
           messages'[m].mode = messages[m].mode
    PROVE  Aware(m)'
  BY DEF Aware

LEMMA HandedMessages ==
    ASSUME TypeOK
    PROVE  /\ ToSet(out) \subseteq DOMAIN messages
           /\ delivered \subseteq DOMAIN messages /\ start.ids \subseteq DOMAIN messages
  <1>1. ToSet(out) \subseteq DOMAIN messages
    BY DEF TypeOK, ToSet
  <1>2. delivered \subseteq ToSet(out) /\ start.ids \subseteq ToSet(out)
    BY DEF TypeOK
  <1> QED  BY <1>1, <1>2

\* The steps that hand nothing over and start no run.
LEMMA ReadingKept ==
    ASSUME TypeOK, Reading,
           \A m \in DOMAIN messages : messages'[m].mode = messages[m].mode,
           seen \subseteq seen', early \subseteq early', waiting \subseteq seen' \union waiting',
           delivered' \subseteq delivered, start'.phase \in {"thought", "ack"} => start' = start
    PROVE  Reading'
  <1>1. (delivered \subseteq seen \union waiting)'
    BY DEF Reading
  <1>2. \A m \in DOMAIN messages : Aware(m) => Aware(m)'
    BY AwareKept
  <1>3. (start.phase = "thought" => \A m \in delivered : Aware(m))'
    BY <1>2, HandedMessages DEF Reading
  <1>4. (start.phase = "ack" => \A m \in start.ids : Aware(m))'
    BY <1>2, HandedMessages DEF Reading
  <1> QED  BY <1>1, <1>3, <1>4 DEF Reading

LEMMA ReadingHand ==
    ASSUME TypeOK, Reading, Hand
    PROVE  Reading'
  <1>1. /\ waiting' = waiting \union ToSet(poll.list)
        /\ delivered' = delivered \union ToSet(poll.list)
        /\ UNCHANGED <<messages, start, seen>>
        /\ early' = IF start.phase = "thought"
                    THEN early \union {m \in ToSet(poll.list) : messages[m].mode = "queue"} ELSE early
    BY DEF Hand, daemon
  <1>2. \A m \in DOMAIN messages : Aware(m) => Aware(m)'
    BY <1>1, AwareKept
  <1>3. ASSUME start.phase = "thought", NEW m \in ToSet(poll.list)
        PROVE  Aware(m)'
    <2>1. m \in DOMAIN messages
      BY DEF TypeOK, ToSet
    <2>2. messages[m] \in Message
      BY <2>1 DEF TypeOK
    <2>3. messages[m].mode \in {"steer", "queue"}
      BY <2>2, ChatAssumption DEF Message
    <2>4. CASE messages[m].mode = "queue"
      BY <1>1, <1>3, <2>4 DEF Aware
    <2>5. CASE messages[m].mode = "steer"
      BY <1>1, <2>5 DEF Aware
    <2> QED  BY <2>3, <2>4, <2>5
  <1>4. (delivered \subseteq seen \union waiting)'
    BY <1>1 DEF Reading
  <1>5. (start.phase = "thought" => \A m \in delivered : Aware(m))'
    BY <1>1, <1>2, <1>3, HandedMessages DEF Reading
  <1>6. (start.phase = "ack" => \A m \in start.ids : Aware(m))'
    BY <1>1, <1>2, HandedMessages DEF Reading
  <1> QED  BY <1>4, <1>5, <1>6 DEF Reading

LEMMA ReadingStep ==
    ASSUME TypeOK, Reading, [Next]_vars
    PROVE  Reading'
  <1>1. CASE AppendUserMessage
    <2>1. UNCHANGED <<start, delivered, waiting, seen, early>>
      BY <1>1 DEF AppendUserMessage, mirror, pi, history
    <2> QED  BY <1>1, <2>1, Appended, ReadingKept
  <1>2. CASE DeleteMessage
    <2>1. UNCHANGED <<start, delivered, waiting, seen, early>>
      BY <1>2 DEF DeleteMessage, mirror, pi, history
    <2> QED  BY <1>2, <2>1, Deleted, ReadingKept
  <1>3. CASE Hand
    BY <1>3, ReadingHand
  <1>4. CASE AckDelivered
    <2>1. UNCHANGED <<start, delivered, waiting, seen, early>>
      BY <1>4 DEF AckDelivered, pi, history
    <2>2. \A m \in DOMAIN messages : messages'[m].mode = messages[m].mode
      BY <1>4, AckedInbox DEF AckDelivered
    <2> QED  BY <2>1, <2>2, ReadingKept
  <1>5. CASE ReadReaches
    <2>1. UNCHANGED <<delivered, waiting, seen, early>> /\ start'.phase = "sent"
      BY <1>5 DEF ReadReaches, pi, history, TypeOK
    <2>2. \A m \in DOMAIN messages : messages'[m].mode = messages[m].mode
      BY <1>5, AckedInbox DEF ReadReaches
    <2> QED  BY <2>1, <2>2, ReadingKept
  <1>6. CASE StartRun
    <2>1. /\ seen' = seen \union waiting /\ waiting' = {}
          /\ start' = [phase |-> "thought", ids |-> {}]
          /\ UNCHANGED <<messages, delivered, early>>
      BY <1>6 DEF StartRun, daemon
    <2>2. delivered \subseteq seen'
      BY <2>1 DEF Reading
    <2> QED  BY <2>1, <2>2 DEF Reading, Aware
  <1>7. CASE ThoughtsCleared
    <2>1. /\ start.phase = "thought"
          /\ start' = IF delivered = {} THEN Awake ELSE [phase |-> "ack", ids |-> delivered]
          /\ UNCHANGED <<messages, delivered, waiting, seen, early>>
      BY <1>7 DEF ThoughtsCleared, daemon, pi, history
    <2> QED  BY <2>1 DEF Reading, Aware, Awake
  <1>8. CASE Steer
    <2>1. UNCHANGED <<messages, start, delivered, early>> /\ seen \subseteq seen'
          /\ waiting \subseteq seen' \union waiting'
      BY <1>8 DEF Steer, daemon, mirror, history
    <2> QED  BY <2>1, ReadingKept
  <1>9. CASE Roll
    BY <1>9 DEF Roll, Reading, Awake
  <1>10. CASE ReadReturns \/ ReadLost
    <2>1. UNCHANGED <<messages, waiting, seen, early>> /\ delivered' \subseteq delivered
          /\ start'.phase \notin {"thought", "ack"}
      BY <1>10 DEF ReadReturns, ReadLost, Awake, daemon, pi, TypeOK
    <2> QED  BY <2>1, ReadingKept
  <1>11. CASE Boot \/ Heartbeat \/ Pull \/ AckLost \/ Settle \/ UNCHANGED vars
    <2>1. UNCHANGED <<messages, start, delivered, waiting, seen, early>>
      BY <1>11 DEF Boot, Heartbeat, Pull, AckLost, Settle, vars, daemon, mirror, pi, history
    <2> QED  BY <2>1, ReadingKept
  <1> QED  BY <1>1, <1>2, <1>3, <1>4, <1>5, <1>6, <1>7, <1>8, <1>9, <1>10, <1>11
           DEF Next, Event, Poll, Starts, StartsForMessages, StartsForOthers

-----------------------------------------------------------------------------
(* The theorems. *)

LEMMA InvInit == Init => Inv
  <1> SUFFICES ASSUME Init PROVE Inv
    OBVIOUS
  <1>1. TypeOK
    BY TypeInit
  <1>2. messages = <<>> /\ poll = Idle /\ start = Awake /\ delivered = {} /\ again = 0 /\ events = 0
    BY DEF Init
  <1>3. Polling
    BY <1>2 DEF Polling, Acked, Complete, Counted, Idle
  <1>4. Reading
    BY <1>2 DEF Reading, Awake
  <1> QED  BY <1>1, <1>3, <1>4 DEF Inv

LEMMA InvStep == Inv /\ [Next]_vars => Inv'
  <1> SUFFICES ASSUME Inv, [Next]_vars PROVE Inv'
    OBVIOUS
  <1>1. TypeOK /\ Polling /\ Reading /\ again <= events
    BY DEF Inv, Polling
  <1>2. TypeOK'
    BY <1>1, TypeStep
  <1>3. Polling'
    BY <1>1, PollingStep
  <1>4. Reading'
    BY <1>1, ReadingStep
  <1> QED  BY <1>2, <1>3, <1>4 DEF Inv

LEMMA InvHolds == Spec => []Inv
  <1>1. Init => Inv
    BY InvInit
  <1>2. Inv /\ [Next]_vars => Inv'
    BY InvStep
  <1> QED  BY <1>1, <1>2, PTL DEF Spec

\* Types; the mirror deals with nothing it was not handed, and with a run's start only
\* while that run goes on.
THEOREM TypeCorrect == Spec => []TypeOK
  <1>1. Inv => TypeOK
    BY DEF Inv
  <1> QED  BY <1>1, InvHolds, PTL

\* A message is handed to Pi again only when an acknowledgement got lost: once more for
\* each (pollForWork, ackInbox).
THEOREM HandedOncePerLoss == Spec => []HandedOnce
  <1>1. Inv => HandedOnce
    BY DEF Inv, Polling, Counted, HandedOnce, Count
  <1> QED  BY <1>1, InvHolds, PTL

\* A read receipt is honest: the message is in a run or about to steer the one in flight,
\* or was handed too early for the next (handleAgentStart).
THEOREM ReceiptsAreHonest == Spec => ReceiptsHonest
  <1> DEFINE Honest ==
        \A m \in DOMAIN messages : messages[m].receipt # "read" /\ messages'[m].receipt = "read" =>
           \/ m \in seen \union early
           \/ m \in waiting /\ messages[m].mode = "steer" /\ running
  <1>1. Inv /\ [Next]_vars => [Honest]_vars
    <2> SUFFICES ASSUME Inv, Next, NEW m \in DOMAIN messages,
                        messages[m].receipt # "read", messages'[m].receipt = "read"
                 PROVE  \/ m \in seen \union early
                        \/ m \in waiting /\ messages[m].mode = "steer" /\ running
      OBVIOUS
    <2>t. TypeOK /\ Reading
      BY DEF Inv
    <2>1. CASE ReadReaches
      <3>1. start.phase = "ack" /\ AckInbox(start.ids, "read")
        BY <2>1 DEF ReadReaches
      <3>2. m \in start.ids
        BY <2>t, <3>1, AckedInbox
      <3>3. Aware(m) /\ running
        BY <2>t, <3>1, <3>2 DEF Reading, TypeOK, Awake
      <3> QED  BY <3>3 DEF Aware
    <2>2. ~AckDelivered
      BY <2>t, AckedInbox DEF AckDelivered
    <2>3. ~AppendUserMessage /\ ~DeleteMessage
      BY <2>t, Appended, Deleted
    <2>4. ~(Boot \/ Heartbeat \/ ReadLost \/ StartRun \/ Steer \/ Settle \/ ThoughtsCleared
             \/ ReadReturns \/ Pull \/ Hand \/ AckLost \/ Roll)
      BY DEF Boot, Heartbeat, ReadLost, StartRun, Steer, Settle, ThoughtsCleared, ReadReturns,
             Pull, Hand, AckLost, Roll, daemon
    <2> QED  BY <2>1, <2>2, <2>3, <2>4
             DEF Next, Event, Poll, Starts, StartsForMessages, StartsForOthers
  <1>2. Spec => [][Honest]_vars
    BY <1>1, InvHolds, PTL DEF Spec
  <1> QED  BY <1>2 DEF ReceiptsHonest

-----------------------------------------------------------------------------
(* AssistantChat implements ChatChannel: every step sends a message, hands some over in *)
(* their order, moves receipts forward, or leaves receipts and what was handed alone. *)

Receipt == [m \in DOMAIN messages |-> messages[m].receipt]

LEMMA ChannelUnfolded ==
    /\ Channel!Init <=> Receipt = <<>> /\ out = <<>>
    /\ Channel!Send <=> Receipt' = Append(Receipt, "queued") /\ UNCHANGED out
    /\ Channel!Hand <=>
          /\ Receipt' = Receipt
          /\ Len(out') > Len(out) /\ SubSeq(out', 1, Len(out)) = out
          /\ \A k \in DOMAIN out' : out'[k] \in DOMAIN Receipt
          /\ \A k \in Len(out) + 1 .. Len(out') : \A m \in 1..(out'[k] - 1) :
                Receipt[m] = "deleted" \/ \E j \in 1..(k - 1) : out'[j] = m
    /\ Channel!Advance <=>
          /\ DOMAIN Receipt' = DOMAIN Receipt
          /\ \A m \in DOMAIN Receipt :
                \/ Receipt'[m] = Receipt[m]
                \/ /\ Rank[Receipt'[m]] > Rank[Receipt[m]]
                   /\ (\E k \in DOMAIN out : out[k] = m) \/ Receipt'[m] = "deleted"
          /\ UNCHANGED out
  BY DEF Channel!Init, Channel!Send, Channel!Hand, Channel!Advance, Channel!Handed, Channel!Rank,
         Receipt, Rank

LEMMA ReceiptOf ==
    /\ DOMAIN Receipt = DOMAIN messages
    /\ \A m \in DOMAIN messages : Receipt[m] = messages[m].receipt
    /\ messages' = messages => Receipt' = Receipt
  BY DEF Receipt

LEMMA ReceiptAfter ==
    /\ DOMAIN Receipt' = DOMAIN messages'
    /\ \A m \in DOMAIN messages' : Receipt'[m] = messages'[m].receipt
  BY DEF Receipt

LEMMA Appending ==
    ASSUME NEW S, NEW s \in Seq(S), NEW x \in S
    PROVE  Append(s, x) = [k \in 1..(Len(s) + 1) |-> IF k = Len(s) + 1 THEN x ELSE s[k]]
  <1> DEFINE t == Append(s, x)
             u == [k \in 1..(Len(s) + 1) |-> IF k = Len(s) + 1 THEN x ELSE s[k]]
  <1>1. t \in Seq(S) /\ Len(t) = Len(s) + 1 /\ \A k \in 1..Len(t) : t[k] = u[k]
    OBVIOUS
  <1>2. u \in Seq(S) /\ Len(u) = Len(s) + 1
    OBVIOUS
  <1> HIDE DEF t, u
  <1>3. t = u
    BY <1>1, <1>2, SeqEqual
  <1> QED  BY <1>3 DEF t, u

LEMMA SendStep ==
    ASSUME TypeOK, AppendUserMessage
    PROVE  Channel!Send
  <1>1. Receipt' = Append(Receipt, "queued")
    <2>1. /\ DOMAIN messages' = DOMAIN messages \union {Len(messages) + 1}
          /\ \A m \in DOMAIN messages : messages'[m] = messages[m]
          /\ messages'[Len(messages) + 1].receipt = "queued"
          /\ Len(messages') = Len(messages) + 1 /\ messages' \in Seq(Message)
      BY Appended
    <2>2. Receipt \in [1..Len(messages) -> {"queued", "delivered", "read", "deleted"}]
      <3>1. \A m \in DOMAIN messages : messages[m] \in Message
        BY DEF TypeOK
      <3> QED  BY <3>1, Positions DEF Message, Receipt
    <2>3. Receipt \in Seq({"queued", "delivered", "read", "deleted"}) /\ Len(Receipt) = Len(messages)
      BY <2>2, Positions
    <2>4. DOMAIN Receipt' = 1..(Len(Receipt) + 1)
      BY <2>1, <2>3, ReceiptAfter
    <2>5. \A m \in 1..Len(Receipt) : Receipt'[m] = Receipt[m]
      BY <2>1, <2>3, ReceiptOf, ReceiptAfter, Positions
    <2>6. Receipt'[Len(Receipt) + 1] = "queued"
      BY <2>1, <2>3, ReceiptAfter
    <2>7. Receipt' = [k \in 1..(Len(Receipt) + 1) |-> Receipt'[k]]
      BY <2>4 DEF Receipt
    <2>8. Append(Receipt, "queued") = [k \in 1..(Len(Receipt) + 1) |->
                                          IF k = Len(Receipt) + 1 THEN "queued" ELSE Receipt[k]]
      BY <2>3, Appending
    <2>9. Len(Receipt) \in Nat
      BY <2>3, Positions
    <2>10. \A k \in 1..(Len(Receipt) + 1) :
              Receipt'[k] = IF k = Len(Receipt) + 1 THEN "queued" ELSE Receipt[k]
      BY <2>5, <2>6, <2>9
    <2> HIDE DEF Receipt
    <2> QED  BY <2>7, <2>8, <2>10
  <1>2. UNCHANGED out
    BY DEF AppendUserMessage, history
  <1> QED  BY <1>1, <1>2, ChannelUnfolded

\* What is handed follows everything sent before it that was not deleted.
LEMMA HandStep ==
    ASSUME TypeOK, Polling, Hand
    PROVE  Channel!Hand
  <1>1. poll.phase = "pulled" /\ out' = out \o poll.list /\ UNCHANGED messages
    BY DEF Hand, daemon
  <1>2. out \in Seq(DOMAIN messages) /\ poll.list \in Seq(DOMAIN messages)
    BY DEF TypeOK
  <1>3. /\ poll.list # <<>>
        /\ \A j, k \in DOMAIN poll.list : j < k => poll.list[j] < poll.list[k]
        /\ \A n \in ToSet(poll.list), m \in DOMAIN messages :
              m < n => m \in ToSet(poll.list) \/ m \in ToSet(out) \/ messages[m].receipt = "deleted"
    BY <1>1 DEF Polling, Complete
  <1>4. /\ Len(out') = Len(out) + Len(poll.list) /\ Len(poll.list) \in Nat \ {0}
        /\ Len(out) \in Nat /\ out' \in Seq(DOMAIN messages)
    BY <1>1, <1>2, <1>3
  <1>5. SubSeq(out', 1, Len(out)) = out
    BY <1>1, <1>2
  <1>6. \A k \in DOMAIN out' : out'[k] \in DOMAIN Receipt
    BY <1>4, ReceiptOf
  <1>7. ASSUME NEW k \in Len(out) + 1 .. Len(out'), NEW m \in 1..(out'[k] - 1)
        PROVE  Receipt[m] = "deleted" \/ \E j \in 1..(k - 1) : out'[j] = m
    <2> DEFINE p == k - Len(out)
               n == poll.list[p]
    <2>1. p \in DOMAIN poll.list /\ out'[k] = n /\ k \in Nat
      BY <1>1, <1>2, <1>4
    <2>2. n \in ToSet(poll.list) /\ n \in DOMAIN messages
      BY <1>2, <2>1 DEF ToSet
    <2>3. m \in DOMAIN messages /\ m \in Nat /\ n \in Nat /\ m < n
      BY <2>1, <2>2, Positions
    <2>4. CASE m \in ToSet(poll.list)
      <3>1. PICK q \in DOMAIN poll.list : poll.list[q] = m
        BY <2>4 DEF ToSet
      <3>2. q < p
        <4>1. p \in Nat /\ q \in Nat
          BY <1>2, <2>1
        <4>2. ~(p < q) /\ p # q
          BY <1>3, <2>1, <2>3, <3>1
        <4> HIDE DEF p
        <4> QED  BY <4>1, <4>2
      <3>3. Len(out) + q \in 1..(k - 1) /\ out'[Len(out) + q] = m
        BY <1>1, <1>2, <1>4, <2>1, <3>1, <3>2
      <3> QED  BY <3>3
    <2>5. CASE m \in ToSet(out)
      <3>1. PICK q \in DOMAIN out : out[q] = m
        BY <2>5 DEF ToSet
      <3>2. q \in 1..(k - 1) /\ out'[q] = m
        BY <1>1, <1>2, <1>4, <3>1
      <3> QED  BY <3>2
    <2>6. CASE messages[m].receipt = "deleted"
      BY <2>3, <2>6, ReceiptOf
    <2> HIDE DEF p, n
    <2> QED  BY <1>3, <2>2, <2>3, <2>4, <2>5, <2>6
  <1>8. Len(out') > Len(out)
    BY <1>4
  <1>9. Receipt' = Receipt
    BY <1>1, ReceiptOf
  <1> QED  BY <1>5, <1>6, <1>7, <1>8, <1>9, ChannelUnfolded

\* Acknowledging messages that were handed moves their receipts forward.
LEMMA AckStep ==
    ASSUME TypeOK, NEW ids, ids \subseteq ToSet(out), NEW receipt \in {"delivered", "read"},
           AckInbox(ids, receipt), UNCHANGED out
    PROVE  Channel!Advance
  <1>1. /\ DOMAIN messages' = DOMAIN messages
        /\ \A m \in DOMAIN messages :
              messages'[m].receipt = IF m \in ids /\ Rank[messages[m].receipt] < Rank[receipt]
                                     THEN receipt ELSE messages[m].receipt
    BY AckedInbox
  <1>2. \A m \in ids : \E k \in DOMAIN out : out[k] = m
    BY DEF ToSet
  <1>3. ASSUME NEW m \in DOMAIN Receipt
        PROVE  \/ Receipt'[m] = Receipt[m]
               \/ /\ Rank[Receipt'[m]] > Rank[Receipt[m]]
                  /\ \E k \in DOMAIN out : out[k] = m
    <2>1. m \in DOMAIN messages /\ Receipt[m] = messages[m].receipt /\ Receipt'[m] = messages'[m].receipt
      BY <1>1, ReceiptOf, ReceiptAfter
    <2>2. CASE m \in ids /\ Rank[messages[m].receipt] < Rank[receipt]
      <3>1. Receipt'[m] = receipt /\ Rank[Receipt[m]] < Rank[Receipt'[m]]
        BY <1>1, <2>1, <2>2
      <3>2. messages[m] \in Message
        BY <2>1 DEF TypeOK
      <3>3. Rank[Receipt[m]] \in Nat /\ Rank[Receipt'[m]] \in Nat
        BY <2>1, <3>1, <3>2 DEF Rank, Message
      <3> QED  BY <1>2, <2>2, <3>1, <3>3
    <2>3. CASE ~(m \in ids /\ Rank[messages[m].receipt] < Rank[receipt])
      BY <1>1, <2>1, <2>3
    <2> QED  BY <2>2, <2>3
  <1> QED  BY <1>1, <1>3, ChannelUnfolded, ReceiptOf, ReceiptAfter

LEMMA DeleteStep ==
    ASSUME TypeOK, DeleteMessage
    PROVE  Channel!Advance
  <1>1. /\ DOMAIN messages' = DOMAIN messages
        /\ \A m \in DOMAIN messages : messages'[m].receipt \in {"deleted", messages[m].receipt}
    BY Deleted
  <1>2. UNCHANGED out
    BY DEF DeleteMessage, history
  <1>3. ASSUME NEW m \in DOMAIN Receipt
        PROVE  \/ Receipt'[m] = Receipt[m]
               \/ Rank[Receipt'[m]] > Rank[Receipt[m]] /\ Receipt'[m] = "deleted"
    <2>1. m \in DOMAIN messages /\ Receipt[m] = messages[m].receipt /\ Receipt'[m] = messages'[m].receipt
      BY <1>1, ReceiptOf, ReceiptAfter
    <2>2. messages[m] \in Message
      BY <2>1 DEF TypeOK
    <2> QED  BY <1>1, <2>1, <2>2 DEF Rank, Message
  <1> QED  BY <1>1, <1>2, <1>3, ChannelUnfolded, ReceiptOf, ReceiptAfter

LEMMA ChannelStep ==
    ASSUME Inv, [Next]_vars
    PROVE  Channel!Next \/ UNCHANGED <<Receipt, out>>
  <1>t. TypeOK /\ Polling
    BY DEF Inv
  <1>1. CASE AppendUserMessage
    BY <1>t, <1>1, SendStep DEF Channel!Next
  <1>2. CASE Hand
    BY <1>t, <1>2, HandStep DEF Channel!Next
  <1>3. CASE DeleteMessage
    BY <1>t, <1>3, DeleteStep DEF Channel!Next
  <1>4. CASE AckDelivered
    <2>1. ToSet(poll.list) \subseteq ToSet(out) /\ AckInbox(ToSet(poll.list), "delivered") /\ UNCHANGED out
      BY <1>t, <1>4 DEF AckDelivered, Polling, history
    <2> QED  BY <1>t, <2>1, AckStep DEF Channel!Next
  <1>5. CASE ReadReaches
    <2>1. start.ids \subseteq ToSet(out) /\ AckInbox(start.ids, "read") /\ UNCHANGED out
      BY <1>t, <1>5 DEF ReadReaches, TypeOK, history
    <2> QED  BY <1>t, <2>1, AckStep DEF Channel!Next
  <1>6. CASE \/ Boot \/ Heartbeat \/ ReadLost \/ StartRun \/ Steer \/ Settle \/ Pull \/ AckLost
             \/ Roll \/ ThoughtsCleared \/ ReadReturns \/ UNCHANGED vars
    <2>1. UNCHANGED <<messages, out>>
      BY <1>6 DEF Boot, Heartbeat, ReadLost, StartRun, Steer, Settle, Pull, AckLost, Roll,
                  ThoughtsCleared, ReadReturns, vars, daemon, history
    <2> QED  BY <2>1, ReceiptOf
  <1> QED  BY <1>1, <1>2, <1>3, <1>4, <1>5, <1>6
           DEF Next, Event, Poll, Starts, StartsForMessages, StartsForOthers

\* The chat keeps the channel's promises: messages reach the agent for the first time in
\* the order they were sent, a receipt says no more than what happened and goes only
\* forward (pollForWork, getInbox, ackInbox).
THEOREM ChatImplementsChannel == Spec => ImplementsChannel
  <1>1. Init => Channel!Init
    <2> SUFFICES ASSUME Init PROVE Channel!Init
      OBVIOUS
    <2>1. messages = <<>> /\ out = <<>>
      BY DEF Init
    <2>2. Receipt = <<>>
      BY <2>1 DEF Receipt
    <2> QED  BY <2>1, <2>2, ChannelUnfolded
  <1>2. Inv /\ [Next]_vars => [Channel!Next]_<<Receipt, out>>
    BY ChannelStep
  <1>3. Spec => Channel!Init /\ [][Channel!Next]_<<Receipt, out>>
    BY <1>1, <1>2, InvHolds, PTL DEF Spec
  <1> QED  BY <1>3, PTL DEF ImplementsChannel, Channel!Spec, Receipt

=============================================================================
