-------------------------- MODULE PiTeammate_proofs --------------------------
(***************************************************************************)
(* Theorems about PiTeammate for any items, polling chains, outbox and     *)
(* optional events: that a person's messages and releases reach the        *)
(* teammate in the order they were made and at most once, and the types.   *)
(*                                                                         *)
(* Three places hold requests: what was handed over (heard), the poll's    *)
(* answer on its way, and the daemon's intent.  The invariant is that they *)
(* are apart: some number divides what is in the answer from what is in    *)
(* the intent, each rises by itself, and nothing is newer than the newest  *)
(* request.  A paired intent holds no release, or a message sent after it  *)
(* would be handed over before it.                                         *)
(***************************************************************************)
EXTENDS PiTeammate, SequenceTheorems, TLAPS

\* A sequence of requests rises from above low to at most high.
Rising(s, low, high) ==
    /\ \A j \in DOMAIN s : s[j] \in Nat /\ low < s[j] /\ s[j] <= high
    /\ \A j, k \in DOMAIN s : j < k => s[j] < s[k]

\* What two places hold is apart: mid divides them.
Apart(a, s, mid) ==
    /\ mid \in Nat /\ heard <= mid /\ mid <= requests
    /\ a # None => Rising(Handed(a), heard, mid)
    /\ Rising(Handed(s), mid, requests)

PlacesOK ==
    /\ intent \in PairState
    /\ answer # None => answer \in PairState
    /\ requests \in Nat /\ heard \in Nat /\ requests <= MaxRequests

OrderInv ==
    /\ PlacesOK
    /\ intent.paired => intent.release = NoRelease
    /\ \E mid \in Nat : Apart(answer, intent, mid)

-----------------------------------------------------------------------------
(* What is handed over. *)

LEMMA HandedIs ==
    ASSUME NEW s \in PairState
    PROVE  /\ s.outbox \in Seq(Nat) /\ s.release.at \in Nat /\ Handed(s) \in Seq(Nat)
           /\ s.release = NoRelease => Handed(s) = s.outbox
           /\ s.release # NoRelease => Handed(s) = s.outbox \o << s.release.at >>
  <1>1. s.outbox \in Seq(Requests) /\ s.release \in Releases
    BY DEF PairState
  <1>2. s.outbox \in Seq(Nat)
    <2>1. Requests \subseteq Nat
      BY PairingAssumption DEF Requests
    <2> QED  BY <1>1, <2>1, SeqMonotonic
  <1>3. s.release.at \in Nat
    BY <1>1 DEF Releases, NoRelease, Requests
  <1>4. << s.release.at >> \in Seq(Nat) /\ << >> \in Seq(Nat)
    BY <1>3
  <1>5. s.release = NoRelease => Handed(s) = s.outbox
    BY <1>2, ConcatEmptySeq DEF Handed
  <1>6. s.release # NoRelease => Handed(s) = s.outbox \o << s.release.at >>
    BY DEF Handed
  <1>7. Handed(s) \in Seq(Nat)
    BY <1>2, <1>4, <1>5, <1>6, ConcatProperties
  <1> QED  BY <1>2, <1>3, <1>5, <1>6, <1>7

\* Nothing rises, whatever the bounds.
LEMMA NothingRises ==
    ASSUME NEW low, NEW high
    PROVE  Rising(<< >>, low, high)
  BY DEF Rising

\* What rises does so up to any point.
LEMMA PrefixRises ==
    ASSUME NEW s \in Seq(Nat), NEW t \in Seq(Nat), NEW low \in Nat, NEW high \in Nat,
           Rising(s \o t, low, high)
    PROVE  Rising(s, low, high)
  <1> DEFINE st == s \o t
  <1>1. /\ Len(st) = Len(s) + Len(t) /\ st \in Seq(Nat)
        /\ \A i \in 1..(Len(s) + Len(t)) : st[i] = IF i <= Len(s) THEN s[i] ELSE t[i - Len(s)]
    BY ConcatProperties
  <1>2. DOMAIN s = 1..Len(s) /\ Len(s) \in Nat /\ DOMAIN st = 1..(Len(s) + Len(t)) /\ Len(t) \in Nat
    BY <1>1
  <1>3. \A i \in DOMAIN s : i \in DOMAIN st /\ st[i] = s[i]
    BY <1>1, <1>2
  <1>4. Rising(st, low, high)
    OBVIOUS
  <1> HIDE DEF st
  <1> QED  BY <1>3, <1>4 DEF Rising

\* The messages alone rise as well.
LEMMA OutboxRises ==
    ASSUME NEW s \in PairState, NEW low \in Nat, NEW high \in Nat, Rising(Handed(s), low, high)
    PROVE  Rising(s.outbox, low, high)
  <1>1. CASE s.release = NoRelease
    BY <1>1, HandedIs
  <1>2. CASE s.release # NoRelease
    <2>1. /\ s.outbox \in Seq(Nat) /\ << s.release.at >> \in Seq(Nat)
          /\ Handed(s) = s.outbox \o << s.release.at >>
      BY <1>2, HandedIs
    <2> QED  BY <2>1, PrefixRises
  <1> QED  BY <1>1, <1>2

\* A newer request at the end still rises.
LEMMA RisesFurther ==
    ASSUME NEW s \in Seq(Nat), NEW low \in Nat, NEW high \in Nat, NEW n \in Nat,
           low <= high, high < n, Rising(s, low, high)
    PROVE  Append(s, n) \in Seq(Nat) /\ Rising(Append(s, n), low, n)
  <1>1. /\ Append(s, n) \in Seq(Nat) /\ Len(Append(s, n)) = Len(s) + 1 /\ Len(s) \in Nat
        /\ \A i \in 1..Len(s) : Append(s, n)[i] = s[i]
        /\ Append(s, n)[Len(s) + 1] = n
    BY AppendProperties
  <1>2. DOMAIN s = 1..Len(s) /\ DOMAIN Append(s, n) = 1..(Len(s) + 1)
    BY <1>1
  <1> QED  BY <1>1, <1>2 DEF Rising

\* The newest n of a sequence, from its end.
LEMMA NewestIs ==
    ASSUME NEW S, NEW s \in Seq(S), NEW n \in Nat
    PROVE  /\ Newest(n, s) \in Seq(S)
           /\ \E m \in Nat : \A i \in DOMAIN Newest(n, s) : /\ i \in Nat /\ m + i \in DOMAIN s
                                                            /\ Newest(n, s)[i] = s[m + i]
  <1> DEFINE m == IF Len(s) > n THEN Len(s) - n ELSE 0
             a == m + 1
             b == Len(s)
  <1>1. Len(s) \in Nat /\ m \in Nat /\ m <= Len(s) /\ DOMAIN s = 1..Len(s)
    OBVIOUS
  <1>2. Newest(n, s) = SubSeq(s, a, b)
    BY DEF Newest
  <1> HIDE DEF m
  <1>3. a \in Int /\ b \in Int /\ \A i \in a..b : s[i] \in S
    BY <1>1
  <1>4. a <= b + 1 /\ b - a + 1 = Len(s) - m /\ \A i \in 1..(Len(s) - m) : a + i - 1 = m + i
    BY <1>1
  <1> HIDE DEF a, b
  <1>5. /\ SubSeq(s, a, b) \in Seq(S)
        /\ Len(SubSeq(s, a, b)) = IF a <= b THEN b - a + 1 ELSE 0
        /\ \A i \in 1 .. b - a + 1 : SubSeq(s, a, b)[i] = s[a + i - 1]
    BY <1>3, SubSeqProperties
  <1>6. (IF a <= b THEN b - a + 1 ELSE 0) = b - a + 1
    BY <1>3, <1>4
  <1>7. DOMAIN Newest(n, s) = 1..(Len(s) - m)
    BY <1>1, <1>2, <1>4, <1>5, <1>6
  <1>8. \A i \in 1..(Len(s) - m) : i \in Nat /\ m + i \in 1..Len(s)
    BY <1>1
  <1>9. \A i \in DOMAIN Newest(n, s) : i \in Nat /\ m + i \in DOMAIN s /\ Newest(n, s)[i] = s[m + i]
    BY <1>1, <1>2, <1>4, <1>5, <1>7, <1>8
  <1> QED  BY <1>1, <1>2, <1>5, <1>9

\* Dropping the oldest leaves it rising.
LEMMA NewestRises ==
    ASSUME NEW s \in Seq(Nat), NEW n \in Nat, NEW low \in Nat, NEW high \in Nat, Rising(s, low, high)
    PROVE  Rising(Newest(n, s), low, high)
  <1>1. PICK m \in Nat : \A i \in DOMAIN Newest(n, s) : /\ i \in Nat /\ m + i \in DOMAIN s
                                                        /\ Newest(n, s)[i] = s[m + i]
    BY NewestIs
  <1>2. \A i, j \in DOMAIN Newest(n, s) : i < j => m + i < m + j
    BY <1>1
  <1> QED  BY <1>1, <1>2 DEF Rising

-----------------------------------------------------------------------------
(* The daemon's side: pair, send, release and poll. *)

LEMMA PairIs ==
    ASSUME NEW s \in PairState
    PROVE  /\ Pair(s) \in PairState
           /\ Pair(s).release = NoRelease /\ Pair(s).outbox = s.outbox
  BY DEF Pair, PairState, Releases

LEMMA SendIs ==
    ASSUME NEW s \in PairState, NEW m \in Requests
    PROVE  /\ Send(s, m) \in PairState
           /\ Send(s, m).release = s.release /\ Send(s, m).paired = s.paired
           /\ Send(s, m).outbox = Newest(MaxOutbox, Append(s.outbox, m))
  <1>1. s.outbox \in Seq(Requests)
    BY DEF PairState
  <1>2. Append(s.outbox, m) \in Seq(Requests)
    BY <1>1, AppendProperties
  <1>3. MaxOutbox \in Nat
    BY PairingAssumption
  <1>4. Newest(MaxOutbox, Append(s.outbox, m)) \in Seq(Requests)
    BY <1>2, <1>3, NewestIs
  <1> DEFINE outbox == Newest(MaxOutbox, Append(s.outbox, m))
  <1>5. outbox \in Seq(Requests) /\ Send(s, m) = [s EXCEPT !.outbox = outbox]
    BY <1>4 DEF Send
  <1>6. Send(s, m).outbox = outbox
    BY <1>5 DEF PairState
  <1> HIDE DEF outbox
  <1>7. /\ Send(s, m) \in PairState
        /\ Send(s, m).release = s.release /\ Send(s, m).paired = s.paired
    BY <1>5 DEF PairState
  <1> QED  BY <1>6, <1>7 DEF outbox

LEMMA ReleaseIs ==
    ASSUME NEW s, NEW n \in Requests, NEW a \in ReleaseActions
    PROVE  LET new == Release(s, [at |-> n, action |-> a])
           IN  /\ new \in PairState /\ ~new.paired /\ new.outbox = << >>
               /\ new.release # NoRelease /\ new.release.at = n
  <1>1. n # 0
    BY PairingAssumption DEF Requests
  <1> QED  BY <1>1 DEF Release, PairState, Releases, NoRelease

LEMMA DrainedIs ==
    ASSUME NEW s \in PairState
    PROVE  Drained(s) \in PairState /\ Drained(s).release = NoRelease /\ Drained(s).outbox = << >>
  <1>1. << >> \in Seq(Requests)
    OBVIOUS
  <1> QED  BY <1>1 DEF Drained, PairState, Releases

LEMMA UnpairedIs ==
    Unpaired \in PairState /\ Unpaired.release = NoRelease /\ Unpaired.outbox = << >> /\ ~Unpaired.paired
  BY DEF Unpaired, PairState, Releases, NoRelease

-----------------------------------------------------------------------------
(* The order of what is handed over. *)

LEMMA OrderInit == Init => OrderInv
  <1> SUFFICES ASSUME Init PROVE OrderInv
    OBVIOUS
  <1>1. /\ intent = Unpaired /\ answer = None /\ heard = 0 /\ requests = 0
    BY DEF Init
  <1>2. PlacesOK /\ ~intent.paired
    BY <1>1, UnpairedIs, PairingAssumption DEF PlacesOK
  <1>3. Handed(intent) = << >>
    BY <1>1, UnpairedIs, HandedIs
  <1>4. Apart(answer, intent, 0)
    BY <1>1, <1>3, NothingRises DEF Apart
  <1> QED  BY <1>2, <1>4 DEF OrderInv

\* Whoever asks for something new at the daemon.
LEMMA AskStep ==
    ASSUME OrderInv, requests' = requests + 1, requests < MaxRequests, UNCHANGED <<answer, heard>>,
           intent' \in PairState, intent'.paired => intent'.release = NoRelease,
           \A mid \in Nat : mid <= requests /\ Rising(Handed(intent), mid, requests)
                                => Rising(Handed(intent'), mid, requests + 1)
    PROVE  OrderInv'
  <1>1. PICK mid \in Nat : Apart(answer, intent, mid)
    BY DEF OrderInv
  <1>2. mid <= requests /\ Rising(Handed(intent), mid, requests)
    BY <1>1 DEF Apart
  <1>3. requests \in Nat /\ MaxRequests \in Nat
    BY PairingAssumption DEF OrderInv, PlacesOK
  <1>4. Apart(answer, intent, mid)'
    BY <1>1, <1>2, <1>3 DEF Apart
  <1>5. PlacesOK'
    BY <1>3 DEF OrderInv, PlacesOK
  <1> QED  BY <1>4, <1>5 DEF OrderInv

\* A bound further away holds as well.
LEMMA RisesBelow ==
    ASSUME NEW s, NEW low \in Nat, NEW high \in Nat, NEW higher \in Nat, high <= higher,
           Rising(s, low, high)
    PROVE  Rising(s, low, higher)
  BY DEF Rising

LEMMA PairsStep == OrderInv /\ PersonPairs => OrderInv'
  <1> SUFFICES ASSUME OrderInv, PersonPairs PROVE OrderInv'
    OBVIOUS
  <1>1. /\ intent \in PairState /\ requests \in Nat
        /\ intent' = Pair(intent) /\ requests' = requests + 1 /\ requests < MaxRequests
        /\ UNCHANGED <<answer, heard>>
    BY DEF OrderInv, PlacesOK, PersonPairs, Request, pairingVars
  <1>2. intent' \in PairState /\ intent'.release = NoRelease /\ Handed(intent') = intent.outbox
    BY <1>1, PairIs, HandedIs
  <1>3. ASSUME NEW mid \in Nat, Rising(Handed(intent), mid, requests)
        PROVE  Rising(Handed(intent'), mid, requests + 1)
    <2>1. Rising(intent.outbox, mid, requests)
      BY <1>1, <1>3, OutboxRises
    <2> QED  BY <1>1, <1>2, <2>1, RisesBelow
  <1> QED  BY <1>1, <1>2, <1>3, AskStep

LEMMA SendsStep == OrderInv /\ PersonSends => OrderInv'
  <1> SUFFICES ASSUME OrderInv, PersonSends PROVE OrderInv'
    OBVIOUS
  <1> DEFINE n == requests + 1
  <1>1. /\ intent \in PairState /\ requests \in Nat /\ intent.release = NoRelease
        /\ intent' = Send(intent, n) /\ requests' = n /\ requests < MaxRequests
        /\ UNCHANGED <<answer, heard>>
    BY DEF OrderInv, PlacesOK, PersonSends, Request, pairingVars
  <1>2. n \in Requests /\ n \in Nat /\ requests < n
    BY <1>1, PairingAssumption DEF Requests
  <1>3. /\ intent' \in PairState /\ intent'.release = NoRelease
        /\ Handed(intent') = Newest(MaxOutbox, Append(intent.outbox, n))
    BY <1>1, <1>2, SendIs, HandedIs
  <1>4. ASSUME NEW mid \in Nat, mid <= requests, Rising(Handed(intent), mid, requests)
        PROVE  Rising(Handed(intent'), mid, n)
    <2>1. Rising(intent.outbox, mid, requests) /\ intent.outbox \in Seq(Nat)
      BY <1>1, <1>4, HandedIs
    <2>2. Append(intent.outbox, n) \in Seq(Nat) /\ Rising(Append(intent.outbox, n), mid, n)
      BY <1>1, <1>2, <1>4, <2>1, RisesFurther
    <2> QED  BY <1>2, <1>3, <2>2, NewestRises, PairingAssumption
  <1> QED  BY <1>1, <1>3, <1>4, AskStep

LEMMA ReleasesStep ==
    ASSUME NEW action \in ReleaseActions, OrderInv, PersonReleases(action)
    PROVE  OrderInv'
  <1> DEFINE n == requests + 1
  <1>1. /\ requests \in Nat /\ intent' = Release(intent, [at |-> n, action |-> action])
        /\ requests' = n /\ requests < MaxRequests
        /\ UNCHANGED <<answer, heard>>
    BY DEF OrderInv, PlacesOK, PersonReleases, Request, pairingVars
  <1>2. n \in Requests /\ n \in Nat /\ requests < n
    BY <1>1, PairingAssumption DEF Requests
  <1>3. /\ intent' \in PairState /\ ~intent'.paired /\ intent'.outbox = << >>
        /\ intent'.release # NoRelease /\ intent'.release.at = n
    BY <1>1, <1>2, ReleaseIs
  <1>4. Handed(intent') = << n >>
    <2>1. Handed(intent') = << >> \o << n >>
      BY <1>3, HandedIs
    <2>2. << n >> \in Seq(Nat)
      BY <1>2
    <2> QED  BY <2>1, <2>2, ConcatEmptySeq
  <1>5. ASSUME NEW mid \in Nat, mid <= requests PROVE Rising(Handed(intent'), mid, n)
    BY <1>1, <1>2, <1>4, <1>5 DEF Rising
  <1> QED  BY <1>1, <1>3, <1>5, AskStep

\* What is typed in the pane is the session's own.
LEMMA TypesStep == OrderInv /\ (PersonTypes \/ PersonResumes) => OrderInv'
  <1> SUFFICES ASSUME OrderInv, PersonTypes \/ PersonResumes PROVE OrderInv'
    OBVIOUS
  <1>1. /\ intent \in PairState /\ requests \in Nat
        /\ intent.paired => intent.release = NoRelease
        /\ requests' = requests + 1 /\ requests < MaxRequests
        /\ intent' = intent /\ UNCHANGED <<answer, heard>>
    BY DEF OrderInv, PlacesOK, PersonTypes, PersonResumes, Request, pairingVars
  <1>2. ASSUME NEW mid \in Nat, Rising(Handed(intent), mid, requests)
        PROVE  Rising(Handed(intent'), mid, requests + 1)
    <2>1. requests + 1 \in Nat /\ requests <= requests + 1 /\ Handed(intent') = Handed(intent)
      BY <1>1
    <2>2. Rising(Handed(intent), mid, requests + 1)
      BY <1>1, <1>2, <2>1, RisesBelow
    <2> QED  BY <2>1, <2>2
  <1>3. /\ intent' \in PairState
        /\ intent'.paired => intent'.release = NoRelease
    BY <1>1
  <1> QED  BY <1>1, <1>2, <1>3, AskStep

LEMMA PollStep == OrderInv /\ Poll => OrderInv'
  <1> SUFFICES ASSUME OrderInv, Poll PROVE OrderInv'
    OBVIOUS
  <1>1. /\ intent \in PairState /\ requests \in Nat /\ heard \in Nat
        /\ answer = None /\ answer' = intent /\ intent' = Drained(intent)
        /\ UNCHANGED <<requests, heard>>
    BY DEF OrderInv, PlacesOK, Poll
  <1>2. PICK mid \in Nat : Apart(answer, intent, mid)
    BY DEF OrderInv
  <1>3. heard <= mid /\ mid <= requests /\ Rising(Handed(intent), mid, requests)
    BY <1>2 DEF Apart
  <1>4. Rising(Handed(intent), heard, requests)
    BY <1>1, <1>3, HandedIs DEF Rising
  <1>5. intent' \in PairState /\ intent'.release = NoRelease /\ Handed(intent') = << >>
    BY <1>1, DrainedIs, HandedIs
  <1>6. Apart(answer, intent, requests)'
    BY <1>1, <1>3, <1>4, <1>5, NothingRises DEF Apart
  <1>7. PlacesOK'
    BY <1>1, <1>5 DEF OrderInv, PlacesOK
  <1> QED  BY <1>1, <1>5, <1>6, <1>7 DEF OrderInv

LEMMA AnsweredStep == OrderInv /\ PollAnswered => OrderInv'
  <1> SUFFICES ASSUME OrderInv, PollAnswered PROVE OrderInv'
    OBVIOUS
  <1> DEFINE h == Handed(answer)
  <1>1. /\ answer # None /\ answer \in PairState /\ requests \in Nat /\ heard \in Nat
        /\ answer' = None /\ heard' = IF h = << >> THEN heard ELSE Last(h)
        /\ UNCHANGED <<requests, intent>>
    BY DEF OrderInv, PlacesOK, PollAnswered, daemonVars
  <1>2. PICK mid \in Nat : Apart(answer, intent, mid)
    BY DEF OrderInv
  <1>3. /\ heard <= mid /\ mid <= requests /\ Rising(Handed(intent), mid, requests)
        /\ Rising(h, heard, mid)
    BY <1>1, <1>2 DEF Apart
  <1>4. h \in Seq(Nat)
    BY <1>1, HandedIs
  <1> HIDE DEF h
  <1>5. heard' \in Nat /\ heard' <= mid
    <2>1. CASE h = << >>
      BY <2>1, <1>1, <1>3
    <2>2. CASE h # << >>
      <3>1. Len(h) \in DOMAIN h
        BY <1>4, <2>2
      <3>2. heard' = h[Len(h)]
        BY <1>1, <2>2 DEF Last
      <3> QED  BY <1>3, <3>1, <3>2 DEF Rising
    <2> QED  BY <2>1, <2>2
  <1>6. Apart(answer, intent, mid)'
    BY <1>1, <1>3, <1>5 DEF Apart
  <1>7. PlacesOK'
    BY <1>1, <1>5 DEF OrderInv, PlacesOK
  <1> QED  BY <1>1, <1>6, <1>7 DEF OrderInv

\* Losing an answer, forgetting the intent or both leaves the rest in order.
LEMMA ForgetStep ==
    ASSUME OrderInv, UNCHANGED <<requests, heard>>,
           answer' = answer \/ answer' = None,
           intent' = intent \/ intent' = Unpaired
    PROVE  OrderInv'
  <1>1. PICK mid \in Nat : Apart(answer, intent, mid)
    BY DEF OrderInv
  <1>2. PlacesOK' /\ (intent'.paired => intent'.release = NoRelease)
    BY UnpairedIs DEF OrderInv, PlacesOK
  <1>3. Rising(Handed(intent), mid, requests)'
    <2>1. CASE intent' = intent
      BY <1>1, <2>1 DEF Apart
    <2>2. CASE intent' = Unpaired
      <3>1. Handed(intent') = << >>
        BY <2>2, UnpairedIs, HandedIs
      <3> QED  BY <3>1, NothingRises
    <2> QED  BY <2>1, <2>2
  <1>4. Apart(answer, intent, mid)'
    BY <1>1, <1>3 DEF Apart
  <1> QED  BY <1>2, <1>4 DEF OrderInv

LEMMA OrderStep == OrderInv /\ [Next]_vars => OrderInv'
  <1> SUFFICES ASSUME OrderInv, [Next]_vars PROVE OrderInv'
    OBVIOUS
  <1>1. CASE PersonStep
    BY <1>1, PairsStep, SendsStep, ReleasesStep, TypesStep DEF PersonStep
  <1>2. CASE LoopStep \/ FreshCancelled
    <2>1. UNCHANGED <<requests, intent, answer, heard>>
      BY <1>2
      DEF LoopStep, FreshCancelled, AskForWork, Claim, TakeOn, SendPrompt, StartRun, GiveUp, EndRun,
          HandleEnd, TellDaemon, FinishItem, daemonVars, pairingVars
    <2> QED  BY <2>1, ForgetStep
  <1>3. CASE Poll
    BY <1>3, PollStep
  <1>4. CASE PollAnswered
    BY <1>4, AnsweredStep
  <1>5. CASE PollLost \/ FreshSession \/ ResetSession \/ Boot
    <2>1. /\ UNCHANGED <<requests, heard>>
          /\ answer' = answer \/ answer' = None
          /\ intent' = intent \/ intent' = Unpaired
      BY <1>5 DEF PollLost, FreshSession, ResetSession, Boot, NewSession, pairingVars
    <2> QED  BY <2>1, ForgetStep
  <1>6. CASE UNCHANGED vars
    BY <1>6, ForgetStep DEF vars
  <1> QED  BY <1>1, <1>2, <1>3, <1>4, <1>5, <1>6 DEF Next

\* A person's messages and releases reach a teammate in the order they were made and at most
\* once, whatever is superseded, dropped, lost or forgotten (daemon/store/pairing.ts,
\* WebPairing.tick).
THEOREM HandedInOrderCorrect == Spec => []HandedInOrder
  <1>1. Spec => []OrderInv
    BY OrderInit, OrderStep, PTL DEF Spec
  <1>2. OrderInv => HandedInOrder
    <2> SUFFICES ASSUME OrderInv, answer # None
                 PROVE  LET h == <<heard>> \o Handed(answer)
                        IN  \A j, k \in DOMAIN h : j < k => h[j] < h[k]
      BY DEF HandedInOrder
    <2> DEFINE a == Handed(answer)
               h == <<heard>> \o a
    <2>1. PICK mid \in Nat : Apart(answer, intent, mid)
      BY DEF OrderInv
    <2>2. Rising(a, heard, mid)
      BY <2>1 DEF Apart
    <2>3. /\ a \in Seq(Nat) /\ heard \in Nat
          /\ <<heard>> \in Seq(Nat) /\ Len(<<heard>>) = 1 /\ <<heard>>[1] = heard
      <3>1. heard \in Nat /\ answer \in PairState
        BY DEF OrderInv, PlacesOK
      <3>2. a \in Seq(Nat)
        BY <3>1, HandedIs
      <3> QED  BY <3>1, <3>2
    <2> HIDE DEF a
    <2>4. /\ h \in Seq(Nat) /\ Len(h) = 1 + Len(a)
          /\ \A i \in 1..(1 + Len(a)) : h[i] = IF i <= 1 THEN heard ELSE a[i - 1]
      <3>1. /\ h \in Seq(Nat) /\ Len(h) = Len(<<heard>>) + Len(a)
            /\ \A i \in 1..(Len(<<heard>>) + Len(a)) :
                  h[i] = IF i <= Len(<<heard>>) THEN <<heard>>[i] ELSE a[i - Len(<<heard>>)]
        BY <2>3, ConcatProperties
      <3> HIDE DEF h
      <3> QED  BY <2>3, <3>1
    <2> HIDE DEF h
    <2>5. /\ DOMAIN h = 1..(1 + Len(a)) /\ DOMAIN a = 1..Len(a) /\ Len(a) \in Nat
      BY <2>3, <2>4
    <2>6. /\ h[1] = heard
          /\ \A i \in DOMAIN h \ {1} : i - 1 \in DOMAIN a /\ h[i] = a[i - 1]
      BY <2>4, <2>5
    <2>7. \A j, k \in DOMAIN h : j < k => h[j] < h[k]
      BY <2>2, <2>5, <2>6 DEF Rising
    <2> QED  BY <2>7 DEF h, a
  <1> QED  BY <1>1, <1>2, PTL

-----------------------------------------------------------------------------
(* Types. *)

Chain   == {Off, Waits} \union [at : {"offered", "granted", "posting"}, item : Items]
Wrapped == [item : Items, byTick : BOOLEAN, told : BOOLEAN]
Loop ==
    [autonomous : BOOLEAN, current : Items \union {None}, awaiting : BOOLEAN, deferred : Releases,
     gaveUp : Items \union {None}, chains : [Chains -> Chain],
     queue : Nat, wraps : Seq(Wrapped), fresh : BOOLEAN]

ItemStates == {"READY", "HELD", "ENDED"}

TypeInv ==
    /\ item \in [Items -> ItemStates] /\ loop \in Loop
    /\ mishaps \in 0 .. MaxMishaps
    /\ run \in BOOLEAN /\ ends \in Nat /\ paired \in BOOLEAN

LEMMA FieldsOf ==
    ASSUME NEW l \in Loop
    PROVE  /\ l.autonomous \in BOOLEAN /\ l.current \in Items \union {None} /\ l.awaiting \in BOOLEAN
           /\ l.deferred \in Releases /\ l.gaveUp \in Items \union {None}
           /\ l.chains \in [Chains -> Chain] /\ l.queue \in Nat /\ l.wraps \in Seq(Wrapped)
           /\ l.fresh \in BOOLEAN
  BY DEF Loop

\* One chain of a loop changes.
LEMMA ChainTyped ==
    ASSUME NEW l \in Loop, NEW c \in Chains, NEW to \in Chain
    PROVE  [l EXCEPT !.chains[c] = to] \in Loop
  <1>1. [l.chains EXCEPT ![c] = to] \in [Chains -> Chain]
    BY FieldsOf
  <1> DEFINE chains == [l.chains EXCEPT ![c] = to]
  <1>2. chains \in [Chains -> Chain] /\ [l EXCEPT !.chains[c] = to] = [l EXCEPT !.chains = chains]
    BY <1>1
  <1> HIDE DEF chains
  <1> QED  BY <1>2 DEF Loop

LEMMA MoreChainTyped ==
    ASSUME NEW l \in Loop
    PROVE  MoreChain(l) \in Loop
  <1> DEFINE unused == {c \in Chains : l.chains[c] = Off}
  <1>1. CASE unused = {}
    BY <1>1 DEF MoreChain
  <1>2. CASE unused # {}
    <2> DEFINE c == CHOOSE c \in unused : TRUE
    <2>1. c \in Chains
      BY <1>2
    <2>2. MoreChain(l) = [l EXCEPT !.chains[c] = Waits]
      BY <1>2 DEF MoreChain
    <2> HIDE DEF c
    <2> QED  BY <2>1, <2>2, ChainTyped DEF Chain
  <1> QED  BY <1>1, <1>2

LEMMA SendToPiTyped ==
    ASSUME NEW l \in Loop
    PROVE  SendToPi(l) \in Loop
  BY DEF SendToPi, Loop

LEMMA LetGoTyped ==
    ASSUME NEW l \in Loop
    PROVE  LetGo(l) \in Loop
  <1>1. [l EXCEPT !.current = None, !.awaiting = FALSE, !.fresh = TRUE] \in Loop
    BY DEF Loop
  <1> QED  BY <1>1, MoreChainTyped DEF LetGo

LEMMA WrapTyped ==
    ASSUME NEW l \in Loop, l.current # None, NEW byTick \in BOOLEAN
    PROVE  Wrap(l, byTick) \in Loop
  <1> DEFINE wraps == Append(l.wraps, [item |-> l.current, byTick |-> byTick, told |-> FALSE])
  <1>1. l.current \in Items /\ l.wraps \in Seq(Wrapped)
    BY FieldsOf
  <1>2. [item |-> l.current, byTick |-> byTick, told |-> FALSE] \in Wrapped
    BY <1>1 DEF Wrapped
  <1>3. wraps \in Seq(Wrapped) /\ Wrap(l, byTick) = [l EXCEPT !.wraps = wraps]
    BY <1>1, <1>2, AppendProperties DEF Wrap
  <1> HIDE DEF wraps
  <1> QED  BY <1>3 DEF Loop

LEMMA CompleteTyped ==
    ASSUME NEW l \in Loop, NEW byTick \in BOOLEAN
    PROVE  AgentComplete(l, byTick) \in Loop
  <1>1. [l EXCEPT !.gaveUp = None] \in Loop
    BY DEF Loop
  <1>2. LetGo([l EXCEPT !.gaveUp = None]) \in Loop
    BY <1>1, LetGoTyped
  <1>3. l.current # None => Wrap(l, byTick) \in Loop
    BY WrapTyped
  <1> QED  BY <1>2, <1>3 DEF AgentComplete

LEMMA ReleaseTyped ==
    ASSUME NEW l \in Loop, NEW r \in Releases, NEW byTick \in BOOLEAN
    PROVE  ReleasePairing(l, r, byTick) \in Loop
  <1> DEFINE back == [l EXCEPT !.deferred = NoRelease, !.autonomous = TRUE]
             done == [back EXCEPT !.awaiting = FALSE]
             on == [back EXCEPT !.awaiting = TRUE]
  <1>1. [l EXCEPT !.deferred = r] \in Loop
    BY DEF Loop
  <1>2. back \in Loop /\ back.current = l.current
    BY DEF Loop, Releases
  <1>3. done \in Loop /\ on \in Loop
    BY <1>2 DEF Loop
  <1>4. r.action \in {"complete", "fail", "resume"}
    BY DEF Releases, NoRelease, ReleaseActions
  <1>5. ReleasePairing(l, r, byTick) =
            IF run THEN [l EXCEPT !.deferred = r]
            ELSE IF l.current = None THEN MoreChain(back)
            ELSE CASE r.action = "complete" -> AgentComplete(done, byTick)
                   [] r.action = "fail" -> Wrap(back, byTick)
                   [] r.action = "resume" -> SendToPi(on)
    BY DEF ReleasePairing
  <1> HIDE DEF back, done, on
  <1>6. /\ MoreChain(back) \in Loop /\ AgentComplete(done, byTick) \in Loop /\ SendToPi(on) \in Loop
        /\ l.current # None => Wrap(back, byTick) \in Loop
    BY <1>2, <1>3, MoreChainTyped, CompleteTyped, WrapTyped, SendToPiTyped
  <1>7. CASE run
    BY <1>1, <1>5, <1>7
  <1>8. CASE ~run /\ l.current = None
    BY <1>5, <1>6, <1>8
  <1>9. CASE ~run /\ l.current # None
    <2>1. CASE r.action = "complete"
      BY <1>5, <1>6, <1>9, <2>1
    <2>2. CASE r.action = "fail"
      BY <1>5, <1>6, <1>9, <2>2
    <2>3. CASE r.action = "resume"
      BY <1>5, <1>6, <1>9, <2>3
    <2> QED  BY <1>4, <2>1, <2>2, <2>3
  <1> QED  BY <1>7, <1>8, <1>9

LEMMA NewLoopTyped == NewLoop \in Loop
  <1>1. [c \in Chains |-> IF c = 1 THEN Waits ELSE Off] \in [Chains -> Chain]
    BY DEF Chain
  <1>2. << >> \in Seq(Wrapped) /\ NoRelease \in Releases
    BY DEF Releases
  <1> QED  BY <1>1, <1>2 DEF NewLoop, Loop

LEMMA SettledTyped ==
    ASSUME NEW its \in [Items -> ItemStates], NEW i
    PROVE  Settled(its, i) \in [Items -> ItemStates]
  BY DEF Settled, ItemStates

LEMMA LateTyped ==
    ASSUME NEW its \in [Items -> ItemStates]
    PROVE  Late(its) \in [Items -> ItemStates]
  BY DEF Late, ItemStates

LEMMA TypeInit == Init => TypeInv
  <1> SUFFICES ASSUME Init PROVE TypeInv
    OBVIOUS
  <1>1. item \in [Items -> ItemStates] /\ loop \in Loop
    BY NewLoopTyped DEF Init, ItemStates
  <1>2. mishaps \in 0 .. MaxMishaps
    BY PiAssumption DEF Init
  <1> QED  BY <1>1, <1>2 DEF Init, TypeInv

\* A chain polls, claims, takes on and prompts.
LEMMA ChainStep ==
    ASSUME TypeInv, NEW c \in Chains, AskForWork(c) \/ Claim(c) \/ TakeOn(c) \/ SendPrompt(c)
    PROVE  TypeInv'
  <1>1. /\ item \in [Items -> ItemStates] /\ loop \in Loop /\ loop.chains[c] \in Chain
    BY FieldsOf DEF TypeInv
  <1>2. UNCHANGED <<mishaps, run, ends, paired>>
    BY DEF AskForWork, Claim, TakeOn, SendPrompt, daemonVars, pairingVars
  <1>3. CASE AskForWork(c)
    <2>1. PICK i \in Items : loop' = [loop EXCEPT !.chains[c] = At("offered", i)]
      BY <1>3 DEF AskForWork
    <2>2. At("offered", i) \in Chain
      BY DEF At, Chain
    <2>3. loop' \in Loop
      BY <1>1, <2>1, <2>2, ChainTyped
    <2> QED  BY <1>1, <1>2, <1>3, <2>3 DEF TypeInv, AskForWork, daemonVars
  <1>4. ASSUME loop.chains[c].at \in {"offered", "granted", "posting"} PROVE loop.chains[c].item \in Items
    BY <1>1, <1>4 DEF Chain, Off, Waits, At
  <1>5. CASE Claim(c)
    <2> DEFINE i == loop.chains[c].item
               to == IF item[i] = "READY" THEN At("granted", i) ELSE Waits
    <2>1. i \in Items
      BY <1>4, <1>5 DEF Claim
    <2>2. to \in Chain
      BY <2>1 DEF At, Chain
    <2>3. loop' = [loop EXCEPT !.chains[c] = to]
      BY <1>5 DEF Claim
    <2>4. item' \in [Items -> ItemStates]
      BY <1>1, <1>5 DEF Claim, ItemStates
    <2> HIDE DEF to
    <2>5. loop' \in Loop
      BY <1>1, <2>2, <2>3, ChainTyped
    <2> QED  BY <1>2, <2>4, <2>5 DEF TypeInv
  <1>6. CASE TakeOn(c)
    <2> DEFINE i == loop.chains[c].item
               to == At("posting", i)
               l == [loop EXCEPT !.chains[c] = to]
    <2>1. i \in Items
      BY <1>4, <1>6 DEF TakeOn
    <2>2. to \in Chain
      BY <2>1 DEF At, Chain
    <2>3. l \in Loop
      BY <1>1, <2>2, ChainTyped
    <2>4. [l EXCEPT !.current = i] \in Loop
      BY <2>1, <2>3 DEF Loop
    <2>5. loop' = [l EXCEPT !.current = i]
      <3>1. loop.chains[c] = At("granted", i)
        BY <1>1, <1>6 DEF TakeOn, Chain, Off, Waits, At
      <3>2. [loop.chains EXCEPT ![c].at = "posting"] = [loop.chains EXCEPT ![c] = to]
        BY <3>1 DEF At
      <3>3. loop' = [loop EXCEPT !.current = i, !.chains = [loop.chains EXCEPT ![c].at = "posting"]]
        BY <1>1, <1>6 DEF TakeOn, Loop
      <3> QED  BY <1>1, <3>2, <3>3 DEF Loop
    <2> QED  BY <1>1, <1>2, <1>6, <2>4, <2>5 DEF TypeInv, TakeOn, daemonVars
  <1>7. CASE SendPrompt(c)
    <2> DEFINE l == [loop EXCEPT !.chains[c] = Off]
    <2>1. l \in Loop
      BY <1>1, ChainTyped DEF Chain
    <2>2. [l EXCEPT !.awaiting = TRUE] \in Loop
      BY <2>1 DEF Loop
    <2>3. loop' = SendToPi([l EXCEPT !.awaiting = TRUE])
      BY <1>1, <1>7 DEF SendPrompt, Loop
    <2>4. loop' \in Loop
      BY <2>2, <2>3, SendToPiTyped
    <2> QED  BY <1>1, <1>2, <1>7, <2>4 DEF TypeInv, SendPrompt, daemonVars
  <1> QED  BY <1>3, <1>5, <1>6, <1>7

LEMMA RemovedTyped ==
    ASSUME NEW S, NEW s \in Seq(S), NEW k \in DOMAIN s
    PROVE  RemoveAt(s, k) \in Seq(S)
  <1>1. DOMAIN s = 1..Len(s) /\ Len(s) \in Nat /\ k \in Int
    OBVIOUS
  <1>2. SubSeq(s, 1, k - 1) \in Seq(S)
    <2>1. 1 \in Int /\ k - 1 \in Int /\ \A i \in 1..(k - 1) : s[i] \in S
      BY <1>1
    <2> QED  BY <2>1, SubSeqProperties
  <1>3. SubSeq(s, k + 1, Len(s)) \in Seq(S)
    <2>1. k + 1 \in Int /\ Len(s) \in Int /\ \A i \in (k + 1)..Len(s) : s[i] \in S
      BY <1>1
    <2> QED  BY <2>1, SubSeqProperties
  <1> QED  BY <1>2, <1>3, ConcatProperties DEF RemoveAt

\* A run starts, ends and settles its item.
LEMMA RunStep ==
    ASSUME TypeInv, StartRun \/ GiveUp \/ EndRun \/ HandleEnd \/ TellDaemon \/ FinishItem
    PROVE  TypeInv'
  <1>1. /\ item \in [Items -> ItemStates] /\ loop \in Loop
        /\ loop.queue \in Nat /\ loop.wraps \in Seq(Wrapped) /\ loop.deferred \in Releases
        /\ loop.current \in Items \union {None} /\ ends \in Nat
    BY FieldsOf DEF TypeInv
  <1>2. mishaps' = mishaps /\ paired' = paired
    BY DEF StartRun, GiveUp, EndRun, HandleEnd, TellDaemon, FinishItem, daemonVars, pairingVars
  <1>3. CASE StartRun
    <2>1. loop.queue - 1 \in Nat
      BY <1>1, <1>3 DEF StartRun
    <2>2. loop' \in Loop
      BY <1>1, <1>3, <2>1 DEF StartRun, Loop
    <2> QED  BY <1>2, <1>3, <2>2 DEF TypeInv, StartRun, daemonVars
  <1>4. CASE GiveUp
    <2>1. loop' \in Loop
      BY <1>1, <1>4 DEF GiveUp, Loop
    <2>2. item' \in [Items -> ItemStates]
      BY <1>1, <1>4, SettledTyped DEF GiveUp
    <2>3. run' = run /\ ends' = ends
      BY <1>4 DEF GiveUp
    <2> QED  BY <1>2, <2>1, <2>2, <2>3 DEF TypeInv
  <1>5. CASE EndRun
    <2>1. run' = FALSE /\ ends' \in Nat /\ UNCHANGED <<item, loop>>
      BY <1>1, <1>5 DEF EndRun, daemonVars
    <2> QED  BY <1>2, <2>1 DEF TypeInv
  <1>6. CASE HandleEnd
    <2>1. loop' \in Loop
      BY <1>1, <1>6, ReleaseTyped, CompleteTyped DEF HandleEnd
    <2>2. ends - 1 \in Nat
      BY <1>1, <1>6 DEF HandleEnd
    <2> QED  BY <1>2, <1>6, <2>1, <2>2 DEF TypeInv, HandleEnd, daemonVars
  <1>7. CASE TellDaemon
    <2>1. PICK k \in DOMAIN loop.wraps :
              /\ item' = Settled(item, loop.wraps[k].item)
              /\ loop' = [loop EXCEPT !.wraps[k].told = TRUE]
              /\ run' = run /\ ends' = ends
      BY <1>7 DEF TellDaemon
    <2> DEFINE wrap == [loop.wraps[k] EXCEPT !.told = TRUE]
               wraps == [loop.wraps EXCEPT ![k] = wrap]
    <2>2. wrap \in Wrapped
      <3>1. loop.wraps[k] \in Wrapped
        BY <1>1
      <3> QED  BY <3>1 DEF Wrapped
    <2>3. wraps \in Seq(Wrapped)
      <3> HIDE DEF wrap
      <3>1. k \in 1..Len(loop.wraps)
        BY <1>1
      <3> QED  BY <1>1, <2>2, <3>1, ExceptSeq
    <2>4. loop' = [loop EXCEPT !.wraps = wraps]
      BY <1>1, <2>1 DEF Loop
    <2> HIDE DEF wraps
    <2>5. loop' \in Loop
      BY <1>1, <2>3, <2>4 DEF Loop
    <2> QED  BY <1>1, <1>2, <2>1, <2>5, SettledTyped DEF TypeInv
  <1>8. CASE FinishItem
    <2>1. PICK k \in DOMAIN loop.wraps : loop' = LetGo([loop EXCEPT !.wraps = RemoveAt(@, k)])
      BY <1>8 DEF FinishItem
    <2> DEFINE wraps == RemoveAt(loop.wraps, k)
    <2>2. wraps \in Seq(Wrapped)
      BY <1>1, RemovedTyped
    <2>3. loop' = LetGo([loop EXCEPT !.wraps = wraps])
      BY <1>1, <2>1 DEF Loop
    <2> HIDE DEF wraps
    <2>4. [loop EXCEPT !.wraps = wraps] \in Loop
      BY <1>1, <2>2 DEF Loop
    <2>5. loop' \in Loop
      BY <2>3, <2>4, LetGoTyped
    <2> QED  BY <1>2, <1>8, <2>5 DEF TypeInv, FinishItem, daemonVars
  <1> QED  BY <1>3, <1>4, <1>5, <1>6, <1>7, <1>8

\* The pairing poll's answer.
LEMMA AnswerTyped ==
    ASSUME TypeInv, OrderInv, PollAnswered
    PROVE  TypeInv'
  <1>1. loop \in Loop /\ answer \in PairState /\ paired \in BOOLEAN /\ run \in BOOLEAN
    BY DEF TypeInv, OrderInv, PlacesOK, PollAnswered
  <1>2. answer.outbox \in Seq(Requests) /\ answer.release \in Releases /\ answer.paired \in BOOLEAN
    BY <1>1 DEF PairState
  <1>3. PICK n \in IF run THEN 0 .. Len(answer.outbox) ELSE {Len(answer.outbox)} :
            LET l == [loop EXCEPT
                        !.autonomous = @ /\ ~(answer.paired /\ ~paired),
                        !.queue = @ + n]
            IN  loop' = IF answer.release = NoRelease THEN l ELSE ReleasePairing(l, answer.release, TRUE)
    BY DEF PollAnswered
  <1>4. n \in Nat
    BY <1>2, <1>3
  <1> DEFINE l == [loop EXCEPT !.autonomous = @ /\ ~(answer.paired /\ ~paired), !.queue = @ + n]
  <1>5. l \in Loop
    <2> DEFINE on == loop.autonomous /\ ~(answer.paired /\ ~paired)
               queue == loop.queue + n
    <2>1. on \in BOOLEAN
      BY <1>1, <1>2, FieldsOf
    <2>2. queue \in Nat
      BY <1>1, <1>4, FieldsOf
    <2>3. l = [loop EXCEPT !.autonomous = on, !.queue = queue]
      BY <1>1 DEF Loop
    <2> HIDE DEF on, queue, l
    <2> QED  BY <1>1, <2>1, <2>2, <2>3 DEF Loop
  <1>6. loop' = IF answer.release = NoRelease THEN l ELSE ReleasePairing(l, answer.release, TRUE)
    BY <1>3
  <1> HIDE DEF l
  <1>7. loop' \in Loop
    BY <1>2, <1>5, <1>6, ReleaseTyped
  <1>8. paired' \in BOOLEAN /\ UNCHANGED <<item, mishaps, run, ends>>
    BY <1>1, <1>2 DEF PollAnswered, daemonVars
  <1> QED  BY <1>7, <1>8 DEF TypeInv

LEMMA TypeStep == TypeInv /\ OrderInv /\ [Next]_vars => TypeInv'
  <1> SUFFICES ASSUME TypeInv, OrderInv, [Next]_vars PROVE TypeInv'
    OBVIOUS
  <1>1. /\ item \in [Items -> ItemStates] /\ loop \in Loop
        /\ mishaps \in Nat /\ MaxMishaps \in Nat /\ mishaps <= MaxMishaps
    BY PiAssumption DEF TypeInv
  <1>2. CASE PersonStep
    <2>1. loop' \in Loop
      <3>1. CASE PersonTypes
        <4>1. [loop EXCEPT !.autonomous = FALSE] \in Loop
          BY <1>1 DEF Loop
        <4> QED  BY <3>1, <4>1, SendToPiTyped DEF PersonTypes
      <3>2. CASE PersonResumes
        <4>1. [loop EXCEPT !.autonomous = TRUE] \in Loop
          BY <1>1 DEF Loop
        <4> QED  BY <3>2, <4>1, MoreChainTyped DEF PersonResumes
      <3> QED  BY <1>1, <1>2, <3>1, <3>2 DEF PersonStep, PersonPairs, PersonSends, PersonReleases
    <2>2. UNCHANGED <<item, mishaps, run, ends, paired>>
      BY <1>2 DEF PersonStep, PersonPairs, PersonSends, PersonReleases, PersonTypes, PersonResumes, pairingVars
    <2> QED  BY <2>1, <2>2 DEF TypeInv
  <1>3. CASE LoopStep
    BY <1>3, ChainStep, RunStep DEF LoopStep
  <1>4. CASE Poll
    BY <1>4 DEF TypeInv, Poll
  <1>5. CASE PollAnswered
    BY <1>5, AnswerTyped
  <1>6. CASE PollLost \/ Boot
    BY <1>1, <1>6 DEF TypeInv, PollLost, Boot, Mishap, pairingVars
  <1>7. CASE FreshSession \/ ResetSession
    <2>1. item' \in [Items -> ItemStates] /\ loop' \in Loop
      BY <1>1, <1>7, LateTyped, NewLoopTyped DEF FreshSession, ResetSession, NewSession
    <2>2. mishaps' \in 0 .. MaxMishaps
      BY <1>1, <1>7 DEF FreshSession, ResetSession, Mishap
    <2>3. run' = FALSE /\ ends' = 0 /\ paired' = FALSE
      BY <1>7 DEF FreshSession, ResetSession, NewSession
    <2> QED  BY <2>1, <2>2, <2>3 DEF TypeInv
  <1>8. CASE FreshCancelled
    <2>1. loop' \in Loop
      BY <1>1, <1>8 DEF FreshCancelled, Loop
    <2> QED  BY <1>8, <2>1 DEF TypeInv, FreshCancelled, daemonVars, pairingVars
  <1>9. CASE UNCHANGED vars
    BY <1>9 DEF TypeInv, vars
  <1> QED  BY <1>2, <1>3, <1>4, <1>5, <1>6, <1>7, <1>8, <1>9 DEF Next

\* Types, for any items, chains, requests and mishaps (TeammateLoop, WebPairing, PairState).
THEOREM TypeCorrect == Spec => []TypeOK
  <1>1. Init => TypeInv /\ OrderInv
    BY TypeInit, OrderInit
  <1>2. TypeInv /\ OrderInv /\ [Next]_vars => (TypeInv /\ OrderInv)'
    BY TypeStep, OrderStep
  <1>3. TypeInv /\ OrderInv => TypeOK
    <2> SUFFICES ASSUME TypeInv, OrderInv PROVE TypeOK
      OBVIOUS
    <2>1. heard \in 0 .. MaxRequests /\ requests \in 0 .. MaxRequests
      BY PairingAssumption DEF OrderInv, PlacesOK, Apart
    <2>2. \A c \in Chains : loop.chains[c] \in Chain
      BY FieldsOf DEF TypeInv
    <2>3. /\ intent \in PairState
          /\ answer \in {None} \union PairState
      BY DEF OrderInv, PlacesOK
    <2> QED  BY <2>1, <2>2, <2>3, FieldsOf DEF TypeInv, TypeOK, ItemStates, Chain, Wrapped
  <1> QED  BY <1>1, <1>2, <1>3, PTL DEF Spec

=============================================================================
