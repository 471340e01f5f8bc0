------------------------- MODULE SourceSync_proofs -------------------------
(***************************************************************************)
(* Theorems about SourceSync for every set of items and revisions, every   *)
(* environment and every number of events.                                 *)
(*                                                                         *)
(* The invariant has a part for each thing that is written by itself: the  *)
(* queue of mirrors and their runs (Queued), the pull in flight (Asking),  *)
(* the threads (Threaded) and the rest.  Two facts carry the theorem about *)
(* our own posts: what a pull reports of our comments the external system  *)
(* has; and what it has was posted, so that a write-back is past asking.   *)
(***************************************************************************)
EXTENDS SourceSync, TLAPS

Queued ==
    /\ mirror \in [Items -> Mirror]
    /\ work \in [Items -> {None, "READY", "RUNNING"}]
    /\ on \in BOOLEAN
    /\ \A i \in Items : mirror[i].status = None =>
          work[i] = None /\ mirror[i].handed = None /\ mirror[i].mirrored = None /\ ~mirror[i].gone
    /\ OffIsEmpty

PullOK ==
    \/ pull \in {Idle, Asked}
    \/ /\ pull.defs \in [Items -> Revisions \union {None}]
       /\ pull.comments \in [Items -> SUBSET Comments]
       /\ pull = Answer(pull.defs, pull.comments)

Asking ==
    /\ PullOK
    /\ pull.phase = "answered" =>
          \A i \in Items : "ours" \in pull.comments[i] => "ours" \in comments[i]

Threaded ==
    /\ ThreadTypeOK
    /\ \A i \in Items : "ours" \in comments[i] => writeBack[i].phase \in {"posted", "recorded", "failed", "cut"}
    /\ OwnPostsOnce

Rest ==
    /\ remote \in [Items -> Revisions \union {None}]
    /\ backoff \in BOOLEAN /\ gate \in {"open", "unready", "nopersona"}
    /\ triage \subseteq Items /\ byPerson \subseteq Items /\ events \in 0..MaxEvents

Inv == Queued /\ Asking /\ Threaded /\ Rest

LEMMA InvTyped == Inv => TypeOK
  BY DEF Inv, Queued, Asking, PullOK, Threaded, Rest, TypeOK

LEMMA InvInit == Init => Inv
  <1> SUFFICES ASSUME Init PROVE Inv
    OBVIOUS
  <1>1. Queued
    BY DEF Init, Queued, OffIsEmpty, Mirror
  <1>2. Asking
    BY DEF Init, Asking, PullOK, Idle
  <1>3. Threaded
    BY DEF Init, Threaded, ThreadInit, ThreadTypeOK, OwnPostsOnce, NoWriteBack, WriteBack, Phases
  <1>4. Rest
    <2>1. events \in 0..MaxEvents
      BY SyncAssumption DEF Init
    <2> QED  BY <2>1 DEF Init, Rest
  <1> QED  BY <1>1, <1>2, <1>3, <1>4 DEF Inv

\* An answered pull is an answer.
LEMMA Answered ==
    ASSUME Asking, pull.phase = "answered"
    PROVE  /\ pull.defs \in [Items -> Revisions \union {None}]
           /\ pull.comments \in [Items -> SUBSET Comments]
  BY DEF Asking, PullOK, Idle, Asked

-----------------------------------------------------------------------------
(* Mirrors and runs. *)

\* Mirroring a revision makes a mirror of it, and leaves the stamp alone.
LEMMA Upserted ==
    ASSUME NEW m \in Mirror, NEW r \in Revisions
    PROVE  /\ UpsertMirror(m, r) \in Mirror
           /\ UpsertMirror(m, r).handed = m.handed
           /\ UpsertMirror(m, r).status # None
  <1> DEFINE restore == m.status = "archived" /\ m.gone
             unchanged == m.status # None /\ ~restore /\ m.mirrored = r
             n == [m EXCEPT !.status = IF m.status = "archived" /\ ~restore THEN "archived" ELSE "active",
                            !.mirrored = r, !.gone = FALSE]
  <1>1. n \in Mirror /\ n.handed = m.handed /\ n.status # None
    BY DEF Mirror, None
  <1>2. CASE unchanged
    BY <1>2 DEF UpsertMirror
  <1>3. CASE ~unchanged
    BY <1>1, <1>3 DEF UpsertMirror
  <1> QED  BY <1>2, <1>3

LEMMA Archived ==
    ASSUME NEW m \in Mirror
    PROVE  Archive(m) \in Mirror /\ Archive(m).handed = m.handed /\ Archive(m).status = "archived"
  BY DEF Archive, Mirror

\* What a pull makes of one item: a mirror still, and no work for what was never mirrored.
LEMMA IngestedItem ==
    ASSUME Queued, NEW defs \in [Items -> Revisions \union {None}], NEW theirs,
           Ingest(defs, theirs), NEW i \in Items
    PROVE  /\ mirror'[i] \in Mirror
           /\ work'[i] \in {None, "READY", "RUNNING"}
           /\ mirror'[i].status = None => mirror'[i] = mirror[i] /\ work'[i] = work[i]
  <1> DEFINE upserted == [k \in Reported(defs) |-> UpsertMirror(mirror[k], defs[k])]
             run  == {k \in Reported(defs) : HandsOver(k, upserted[k], defs[k])}
             gone == {k \in Items \ Reported(defs) : mirror[k].status = "active"}
  <1>0. /\ mirror' = [k \in Items |->
              IF k \in run THEN [upserted[k] EXCEPT !.handed = defs[k]]
              ELSE IF k \in Reported(defs) THEN upserted[k]
              ELSE IF k \in gone THEN Archive(mirror[k]) ELSE mirror[k]]
        /\ work' = [k \in Items |-> IF k \in run THEN "READY"
                                    ELSE IF k \in gone THEN Withdraw(work[k]) ELSE work[k]]
    BY DEF Ingest
  <1>m. mirror[i] \in Mirror /\ work[i] \in {None, "READY", "RUNNING"}
    BY DEF Queued
  <1>1. CASE i \in run
    <2>1. i \in Reported(defs) /\ defs[i] \in Revisions /\ HandsOver(i, upserted[i], defs[i])
      BY <1>1 DEF Reported
    <2>2. upserted[i] = UpsertMirror(mirror[i], defs[i])
      BY <2>1
    <2>3. upserted[i] \in Mirror /\ upserted[i].status # None
      BY <1>m, <2>1, <2>2, Upserted
    <2>4. mirror'[i] = [upserted[i] EXCEPT !.handed = defs[i]] /\ work'[i] = "READY"
      BY <1>0, <1>1
    <2>5. mirror'[i] \in Mirror /\ mirror'[i].status # None
      BY <2>1, <2>3, <2>4 DEF Mirror
    <2> QED  BY <2>1, <2>4, <2>5
  <1>2. CASE i \in Reported(defs) \ run
    <2>1. defs[i] \in Revisions
      BY <1>2 DEF Reported
    <2>2. mirror'[i] = UpsertMirror(mirror[i], defs[i]) /\ work'[i] = work[i]
      BY <1>0, <1>2
    <2> QED  BY <1>m, <2>1, <2>2, Upserted
  <1>3. CASE i \in gone
    <2>1. mirror'[i] = Archive(mirror[i]) /\ work'[i] = Withdraw(work[i])
      BY <1>0, <1>3
    <2>2. work'[i] \in {None, work[i]}
      BY <2>1 DEF Withdraw
    <2>3. mirror'[i] \in Mirror /\ mirror'[i].status # None
      BY <1>m, <2>1, Archived DEF None
    <2> QED  BY <1>m, <2>1, <2>2, <2>3
  <1>4. CASE i \notin Reported(defs) /\ i \notin gone
    <2>1. mirror'[i] = mirror[i] /\ work'[i] = work[i]
      BY <1>0, <1>4
    <2> QED  BY <1>m, <2>1
  <1> QED  BY <1>1, <1>2, <1>3, <1>4

LEMMA PullArrivesQueued ==
    ASSUME Queued, Asking, PullArrives
    PROVE  Queued'
  <1>1. CASE ~on
    BY <1>1 DEF PullArrives, queue, local, Queued, OffIsEmpty
  <1>2. CASE on
    <2>1. pull.phase = "answered" /\ pull.defs \in [Items -> Revisions \union {None}]
      BY Answered DEF PullArrives
    <2>2. Ingest(pull.defs, pull.comments) /\ on' = on
      BY <1>2 DEF PullArrives, local
    <2>3. /\ mirror' = [i \in Items |-> mirror'[i]] /\ work' = [i \in Items |-> work'[i]]
      BY <2>2 DEF Ingest
    <2>4. ASSUME NEW i \in Items
          PROVE  /\ mirror'[i] \in Mirror /\ work'[i] \in {None, "READY", "RUNNING"}
                 /\ mirror'[i].status = None => mirror'[i] = mirror[i] /\ work'[i] = work[i]
      BY <2>1, <2>2, IngestedItem
    <2>5. mirror' \in [Items -> Mirror] /\ work' \in [Items -> {None, "READY", "RUNNING"}]
      BY <2>3, <2>4
    <2>6. OffIsEmpty'
      BY <1>2, <2>2 DEF OffIsEmpty
    <2> QED  BY <2>2, <2>4, <2>5, <2>6 DEF Queued
  <1> QED  BY <1>1, <1>2

LEMMA DisconnectQueued ==
    ASSUME Queued, Disconnect
    PROVE  Queued'
  <1>1. ASSUME NEW i \in Items
        PROVE  /\ mirror'[i] \in Mirror /\ work'[i] \in {None, "READY", "RUNNING"}
               /\ mirror'[i].status # "active"
               /\ mirror'[i].status = None => mirror'[i] = mirror[i] /\ work'[i] = work[i]
    <2>m. mirror[i] \in Mirror /\ work[i] \in {None, "READY", "RUNNING"}
      BY DEF Queued
    <2>1. CASE mirror[i].status = "active"
      <3>1. mirror'[i] = Archive(mirror[i]) /\ work'[i] = Withdraw(work[i])
        BY <2>1 DEF Disconnect
      <3>2. mirror'[i] \in Mirror /\ mirror'[i].status = "archived"
        BY <2>m, <3>1, Archived
      <3>3. work'[i] \in {None, work[i]}
        BY <3>1 DEF Withdraw
      <3> QED  BY <2>m, <3>1, <3>2, <3>3 DEF None
    <2>2. CASE mirror[i].status # "active"
      <3>1. mirror'[i] = mirror[i] /\ work'[i] = work[i]
        BY <2>2 DEF Disconnect
      <3> QED  BY <2>m, <2>2, <3>1
    <2> QED  BY <2>1, <2>2
  <1>2. mirror' = [i \in Items |-> mirror'[i]] /\ work' = [i \in Items |-> work'[i]]
    BY DEF Disconnect
  <1>3. mirror' \in [Items -> Mirror] /\ work' \in [Items -> {None, "READY", "RUNNING"}]
    BY <1>1, <1>2
  <1>4. on' = FALSE
    BY DEF Disconnect
  <1>5. OffIsEmpty'
    BY <1>1 DEF OffIsEmpty
  <1> QED  BY <1>1, <1>3, <1>4, <1>5 DEF Queued

\* One mirror changes and is a mirror still.
LEMMA MirrorQueued ==
    ASSUME Queued, NEW i \in Items, NEW m \in Mirror, mirror' = [mirror EXCEPT ![i] = m],
           m.status # None, on, UNCHANGED <<work, on>>
    PROVE  Queued'
  <1>1. mirror' \in [Items -> Mirror]
    BY DEF Queued
  <1>2. \A k \in Items : mirror'[k] = IF k = i THEN m ELSE mirror[k]
    BY DEF Queued
  <1>3. \A k \in Items : mirror'[k].status = None => mirror'[k] = mirror[k]
    BY <1>2
  <1>4. OffIsEmpty'
    BY DEF OffIsEmpty
  <1> QED  BY <1>1, <1>3, <1>4 DEF Queued

LEMMA RunByHandQueued ==
    ASSUME Queued, NEW i \in Items, RunByHand(i)
    PROVE  Queued'
  <1>0. mirror[i] \in Mirror /\ mirror[i].status # None /\ on /\ on' = on
    BY DEF Queued, RunByHand, RunSolitary, TriageNow, local, None
  <1>1. work' = [work EXCEPT ![i] = "READY"] /\ work' \in [Items -> {None, "READY", "RUNNING"}]
    BY DEF Queued, RunByHand
  <1>2. mirror[i].mirrored \in Revisions \union {None}
    BY <1>0 DEF Mirror
  <1>3. PICK m \in Mirror : m.status = mirror[i].status /\ mirror' = [mirror EXCEPT ![i] = m]
    <2>1. CASE i \in triage
      <3> DEFINE m == [mirror[i] EXCEPT !.handed = mirror[i].mirrored]
      <3>1. m \in Mirror /\ m.status = mirror[i].status
        BY <1>0, <1>2 DEF Mirror
      <3>2. mirror' = [mirror EXCEPT ![i] = m]
        BY <2>1 DEF RunByHand, RunSolitary, TriageNow
      <3> QED  BY <3>1, <3>2
    <2>2. CASE i \notin triage
      <3>1. mirror' = [mirror EXCEPT ![i] = mirror[i]]
        BY <2>2 DEF RunByHand, RunSolitary, TriageNow, Queued
      <3> QED  BY <1>0, <3>1
    <2> QED  BY <2>1, <2>2
  <1>4. mirror' \in [Items -> Mirror]
    BY <1>3 DEF Queued
  <1>5. \A k \in Items : /\ mirror'[k] = IF k = i THEN m ELSE mirror[k]
                         /\ k # i => work'[k] = work[k]
    BY <1>1, <1>3 DEF Queued
  <1>6. OffIsEmpty'
    BY <1>0 DEF OffIsEmpty
  <1>7. \A k \in Items : mirror'[k].status = None => k # i /\ mirror'[k] = mirror[k] /\ work'[k] = work[k]
    BY <1>0, <1>3, <1>5
  <1> QED  BY <1>0, <1>1, <1>4, <1>6, <1>7 DEF Queued

LEMMA SetWorkQueued ==
    ASSUME Queued, NEW i \in Items, NEW from \in {"READY", "RUNNING"}, NEW to \in {None, "READY", "RUNNING"},
           SetWork(i, from, to)
    PROVE  Queued'
  <1>1. mirror' = mirror /\ on' = on /\ work[i] = from
        /\ work' = [work EXCEPT ![i] = to]
    BY DEF SetWork, local
  <1>2. work' \in [Items -> {None, "READY", "RUNNING"}] /\ \A k \in Items : k # i => work'[k] = work[k]
    BY <1>1 DEF Queued
  <1>3. mirror[i].status # None
    BY <1>1 DEF Queued, None
  <1> QED  BY <1>1, <1>2, <1>3 DEF Queued, OffIsEmpty

LEMMA QueuedStep ==
    ASSUME Queued, Asking, Rest, [Next]_vars
    PROVE  Queued'
  <1>1. CASE PullArrives
    BY <1>1, PullArrivesQueued
  <1>2. CASE Disconnect
    BY <1>2, DisconnectQueued
  <1>3. CASE SwitchOff \/ SwitchOn
    BY <1>3 DEF SwitchOff, SwitchOn, queue, Queued, OffIsEmpty
  <1>4. ASSUME NEW i \in Items, UpsertDef(i)
        PROVE  Queued'
    <2>1. mirror[i] \in Mirror /\ remote[i] \in Revisions
      BY <1>4 DEF Queued, Rest, UpsertDef
    <2>2. mirror' = [mirror EXCEPT ![i] = UpsertMirror(mirror[i], remote[i])] /\ on /\ UNCHANGED <<work, on>>
      BY <1>4 DEF UpsertDef, local
    <2> QED  BY <2>1, <2>2, Upserted, MirrorQueued
  <1>5. ASSUME NEW i \in Items, ArchiveByHand(i)
        PROVE  Queued'
    <2> DEFINE m == [mirror[i] EXCEPT !.status = "archived"]
    <2>1. m \in Mirror /\ m.status # None
      BY DEF Queued, Mirror, None
    <2>2. mirror' = [mirror EXCEPT ![i] = m] /\ on /\ UNCHANGED <<work, on>>
      BY <1>5 DEF ArchiveByHand
    <2> QED  BY <2>1, <2>2, MirrorQueued
  <1>6. ASSUME NEW i \in Items, RestoreByHand(i)
        PROVE  Queued'
    <2> DEFINE m == [mirror[i] EXCEPT !.status = "active"]
    <2>1. m \in Mirror /\ m.status # None
      BY DEF Queued, Mirror, None
    <2>2. mirror' = [mirror EXCEPT ![i] = m] /\ on /\ UNCHANGED <<work, on>>
      BY <1>6 DEF RestoreByHand
    <2> QED  BY <2>1, <2>2, MirrorQueued
  <1>7. ASSUME NEW i \in Items, RunByHand(i)
        PROVE  Queued'
    BY <1>7, RunByHandQueued
  <1>8. ASSUME NEW i \in Items, Cancel(i) \/ Claim(i) \/ End(i) \/ Retry(i)
        PROVE  Queued'
    <2>1. CASE Cancel(i)
      BY <2>1, SetWorkQueued DEF Cancel
    <2>2. CASE Claim(i)
      BY <2>2, SetWorkQueued DEF Claim
    <2>3. CASE End(i)
      BY <2>3, SetWorkQueued DEF End
    <2>4. CASE Retry(i)
      BY <2>4, SetWorkQueued DEF Retry
    <2> QED  BY <1>8, <2>1, <2>2, <2>3, <2>4
  <1>9. CASE UNCHANGED <<mirror, work, on>>
    BY <1>9 DEF Queued, OffIsEmpty
  <1>10. PullFails \/ Boot \/ GateChanges \/ SyncNow \/ SaveSettings \/ SyncTick \/ SourceAnswers
         \/ BackoffPasses \/ UNCHANGED vars
         \/ (\E i \in Items : RemoteChanges(i) \/ Comment(i) \/ TheirComment(i) \/ WriteBackFails(i) \/ WritesBack(i))
         => UNCHANGED <<mirror, work, on>>
    BY DEF PullFails, Boot, GateChanges, SyncNow, SaveSettings, SyncTick, SourceAnswers, BackoffPasses,
           RemoteChanges, Comment, TheirComment, WriteBackFails, WritesBack, queue, local, vars
  <1> QED  BY <1>1, <1>2, <1>3, <1>4, <1>5, <1>6, <1>7, <1>8, <1>9, <1>10 DEF Next, Event, Loop

-----------------------------------------------------------------------------
(* The threads. *)

\* What an answered pull adds to a thread: nothing of ours, but after its write-back was
\* rejected or cut off or had deferred pulls for two minutes.
LEMMA MergedItem ==
    ASSUME Threaded, NEW i \in Items, NEW reported \in SUBSET Comments,
           "ours" \in reported => "ours" \in comments[i]
    PROVE  /\ Merged(i, reported) \in SUBSET Comments
           /\ "ours" \in Merged(i, reported) => writeBack[i].phase \in {"cut", "failed"} \/ writeBack[i].late
  <1>1. pulled[i] \in SUBSET Comments /\ writeBack[i] \in WriteBack
    BY DEF Threaded, ThreadTypeOK
  <1>2. Merged(i, reported) \in SUBSET Comments
    BY <1>1 DEF Merged, New
  <1>3. ASSUME "ours" \in Merged(i, reported), "ours" \notin pulled[i]
        PROVE  writeBack[i].phase \in {"cut", "failed"} \/ writeBack[i].late
    <2>1. ~InFlight(i) /\ "ours" \in reported /\ writeBack[i].phase # "recorded"
      BY <1>3 DEF Merged, New
    <2>2. writeBack[i].phase \in {"posted", "recorded", "failed", "cut"}
      BY <2>1 DEF Threaded
    <2> QED  BY <1>1, <2>1, <2>2 DEF InFlight
  <1>4. "ours" \in pulled[i] => writeBack[i].phase \in {"cut", "failed"} \/ writeBack[i].late
    BY DEF Threaded, OwnPostsOnce
  <1> QED  BY <1>2, <1>3, <1>4

LEMMA PullArrivesThreaded ==
    ASSUME Threaded, Asking, PullArrives
    PROVE  Threaded' /\ comments' = comments
  <1>1. CASE ~on
    BY <1>1 DEF PullArrives, threads, Threaded, ThreadTypeOK, OwnPostsOnce
  <1>2. CASE on
    <2>1. pull.phase = "answered" /\ pull.comments \in [Items -> SUBSET Comments]
      BY Answered DEF PullArrives
    <2>2. /\ pulled' = [i \in Items |-> IF i \in Reported(pull.defs) THEN Merged(i, pull.comments[i]) ELSE pulled[i]]
          /\ comments' = comments /\ writeBack' = writeBack
      BY <1>2 DEF PullArrives, Ingest
    <2>3. ASSUME NEW i \in Items
          PROVE  /\ pulled'[i] \in SUBSET Comments
                 /\ "ours" \in pulled'[i] => writeBack[i].phase \in {"cut", "failed"} \/ writeBack[i].late
      <3>1. "ours" \in pull.comments[i] => "ours" \in comments[i]
        BY <2>1 DEF Asking
      <3>2. CASE i \in Reported(pull.defs)
        BY <2>1, <2>2, <3>1, <3>2, MergedItem
      <3>3. CASE i \notin Reported(pull.defs)
        BY <2>2, <3>3 DEF Threaded, ThreadTypeOK, OwnPostsOnce
      <3> QED  BY <3>2, <3>3
    <2>4. pulled' \in [Items -> SUBSET Comments]
      BY <2>2, <2>3
    <2> QED  BY <2>2, <2>3, <2>4 DEF Threaded, ThreadTypeOK, OwnPostsOnce
  <1> QED  BY <1>1, <1>2

\* A write-back goes from one phase to a later one, and is not forgotten to be late.
LEMMA WriteBackThreaded ==
    ASSUME Threaded, NEW i \in Items, NEW w \in WriteBack,
           writeBack' = [writeBack EXCEPT ![i] = w], pulled' = pulled,
           comments' \in [Items -> SUBSET Comments],
           \A k \in Items : comments[k] \subseteq comments'[k] /\ (k # i => comments'[k] = comments[k]),
           "ours" \in comments'[i] => w.phase \in {"posted", "recorded", "failed", "cut"},
           "ours" \in pulled[i] => w.phase \in {"cut", "failed"} \/ w.late
    PROVE  Threaded'
  <1>1. writeBack' \in [Items -> WriteBack] /\ \A k \in Items : writeBack'[k] = IF k = i THEN w ELSE writeBack[k]
    BY DEF Threaded, ThreadTypeOK
  <1>2. ThreadTypeOK'
    BY <1>1 DEF Threaded, ThreadTypeOK
  <1>3. \A k \in Items : "ours" \in comments'[k] => writeBack'[k].phase \in {"posted", "recorded", "failed", "cut"}
    BY <1>1 DEF Threaded
  <1>4. OwnPostsOnce'
    BY <1>1 DEF Threaded, OwnPostsOnce
  <1> QED  BY <1>2, <1>3, <1>4 DEF Threaded

\* A step of the write-back of our comment on i.
LEMMA PostThreaded ==
    ASSUME Threaded, NEW i \in Items,
           AddComment(i) \/ PostReaches(i) \/ PostResolves(i) \/ PostFails(i) \/ DeferPasses(i)
    PROVE  Threaded' /\ \A k \in Items : comments[k] \subseteq comments'[k]
  <1>w. /\ writeBack[i] \in WriteBack /\ writeBack \in [Items -> WriteBack]
        /\ comments \in [Items -> SUBSET Comments]
        /\ "ours" \in comments[i] => writeBack[i].phase \in {"posted", "recorded", "failed", "cut"}
        /\ "ours" \in pulled[i] => writeBack[i].phase \in {"cut", "failed"} \/ writeBack[i].late
    BY DEF Threaded, ThreadTypeOK, OwnPostsOnce
  <1>1. ASSUME NEW phase \in Phases
        PROVE  /\ [writeBack[i] EXCEPT !.phase = phase] \in WriteBack
               /\ [writeBack[i] EXCEPT !.phase = phase].phase = phase
               /\ [writeBack[i] EXCEPT !.phase = phase].late = writeBack[i].late
    BY <1>w DEF WriteBack
  <1>2. CASE AddComment(i)
    <2> DEFINE w == [writeBack[i] EXCEPT !.phase = "asked"]
    <2>1. w \in WriteBack /\ writeBack' = [writeBack EXCEPT ![i] = w] /\ comments' = comments /\ pulled' = pulled
      BY <1>1, <1>2 DEF AddComment, SetPhase, Phases
    <2>2. "ours" \notin comments[i] /\ "ours" \notin pulled[i]
      BY <1>w, <1>2 DEF AddComment, NoWriteBack
    <2> QED  BY <1>w, <2>1, <2>2, WriteBackThreaded
  <1>3. CASE PostReaches(i)
    <2> DEFINE w == [writeBack[i] EXCEPT !.phase = "posted"]
    <2>1. w \in WriteBack /\ w.phase = "posted" /\ w.late = writeBack[i].late
      BY <1>1 DEF Phases
    <2>2. /\ writeBack' = [writeBack EXCEPT ![i] = w] /\ pulled' = pulled
          /\ comments' = [comments EXCEPT ![i] = @ \union {"ours"}]
      BY <1>3 DEF PostReaches, SetPhase
    <2>3. /\ comments' \in [Items -> SUBSET Comments]
          /\ \A k \in Items : comments[k] \subseteq comments'[k] /\ (k # i => comments'[k] = comments[k])
      BY <1>w, <2>2 DEF Comments
    <2>4. "ours" \in pulled[i] => w.late
      BY <1>w, <1>3, <2>1 DEF PostReaches
    <2> QED  BY <2>1, <2>2, <2>3, <2>4, WriteBackThreaded
  <1>4. CASE PostResolves(i)
    <2> DEFINE w == [writeBack[i] EXCEPT !.phase = "recorded"]
    <2>1. w \in WriteBack /\ w.phase = "recorded" /\ w.late = writeBack[i].late
      BY <1>1 DEF Phases
    <2>2. writeBack' = [writeBack EXCEPT ![i] = w] /\ pulled' = pulled /\ comments' = comments
      BY <1>4 DEF PostResolves, SetPhase
    <2>3. "ours" \in pulled[i] => w.late
      BY <1>w, <1>4, <2>1 DEF PostResolves
    <2> QED  BY <1>w, <2>1, <2>2, <2>3, WriteBackThreaded
  <1>5. CASE PostFails(i)
    <2> DEFINE w == [writeBack[i] EXCEPT !.phase = "failed"]
    <2>1. w \in WriteBack /\ w.phase = "failed" /\ w.late = writeBack[i].late
      BY <1>1 DEF Phases
    <2>2. writeBack' = [writeBack EXCEPT ![i] = w] /\ pulled' = pulled /\ comments' = comments
      BY <1>5 DEF PostFails, SetPhase
    <2> QED  BY <1>w, <2>1, <2>2, WriteBackThreaded
  <1>6. CASE DeferPasses(i)
    <2> DEFINE w == [writeBack[i] EXCEPT !.late = TRUE]
    <2>1. w \in WriteBack /\ w.phase = writeBack[i].phase /\ w.late
      BY <1>w DEF WriteBack
    <2>2. writeBack' = [writeBack EXCEPT ![i] = w] /\ pulled' = pulled /\ comments' = comments
      BY <1>6 DEF DeferPasses
    <2> QED  BY <1>w, <2>1, <2>2, WriteBackThreaded
  <1> QED  BY <1>2, <1>3, <1>4, <1>5, <1>6

LEMMA ForgetThreaded ==
    ASSUME Threaded, ForgetWriteBacks
    PROVE  Threaded' /\ \A k \in Items : comments[k] \subseteq comments'[k]
  <1>1. PICK taken \in SUBSET {i \in Items : writeBack[i].phase = "asked"} :
           comments' = [i \in Items |-> IF i \in taken THEN comments[i] \union {"ours"} ELSE comments[i]]
    BY DEF ForgetWriteBacks
  <1>2. /\ writeBack' = [i \in Items |-> IF writeBack[i].phase \in {"asked", "posted"}
                                         THEN [writeBack[i] EXCEPT !.phase = "cut"] ELSE writeBack[i]]
        /\ pulled' = pulled
    BY DEF ForgetWriteBacks
  <1>3. ASSUME NEW k \in Items
        PROVE  /\ comments'[k] \in SUBSET Comments /\ comments[k] \subseteq comments'[k]
               /\ writeBack'[k] \in WriteBack
               /\ "ours" \in comments'[k] => writeBack'[k].phase \in {"posted", "recorded", "failed", "cut"}
               /\ "ours" \in pulled'[k] => writeBack'[k].phase \in {"cut", "failed"} \/ writeBack'[k].late
    <2>w. /\ writeBack[k] \in WriteBack /\ comments[k] \in SUBSET Comments
          /\ "ours" \in comments[k] => writeBack[k].phase \in {"posted", "recorded", "failed", "cut"}
          /\ "ours" \in pulled[k] => writeBack[k].phase \in {"cut", "failed"} \/ writeBack[k].late
      BY DEF Threaded, ThreadTypeOK, OwnPostsOnce
    <2>1. comments'[k] \in SUBSET Comments /\ comments[k] \subseteq comments'[k]
      BY <1>1, <2>w DEF Comments
    <2>2. CASE writeBack[k].phase \in {"asked", "posted"}
      <3>1. writeBack'[k] = [writeBack[k] EXCEPT !.phase = "cut"]
        BY <1>2, <2>2
      <3>2. writeBack'[k] \in WriteBack /\ writeBack'[k].phase = "cut"
        BY <2>w, <3>1 DEF WriteBack, Phases
      <3> QED  BY <2>1, <3>2
    <2>3. CASE writeBack[k].phase \notin {"asked", "posted"}
      BY <1>1, <1>2, <2>w, <2>1, <2>3
    <2> QED  BY <2>2, <2>3
  <1>4. comments' \in [Items -> SUBSET Comments] /\ writeBack' \in [Items -> WriteBack]
    BY <1>1, <1>2, <1>3
  <1> QED  BY <1>2, <1>3, <1>4 DEF Threaded, ThreadTypeOK, OwnPostsOnce

LEMMA ThreadedStep ==
    ASSUME Threaded, Asking, [Next]_vars
    PROVE  Threaded' /\ \A k \in Items : comments[k] \subseteq comments'[k]
  <1>1. CASE PullArrives
    BY <1>1, PullArrivesThreaded
  <1>2. CASE Boot
    BY <1>2, ForgetThreaded DEF Boot
  <1>3. ASSUME NEW i \in Items, Comment(i) \/ WriteBackFails(i) \/ WritesBack(i)
        PROVE  Threaded' /\ \A k \in Items : comments[k] \subseteq comments'[k]
    BY <1>3, PostThreaded DEF Comment, WriteBackFails, WritesBack
  <1>4. ASSUME NEW i \in Items, TheirComment(i)
        PROVE  Threaded' /\ \A k \in Items : comments[k] \subseteq comments'[k]
    <2>1. comments' = [comments EXCEPT ![i] = @ \union {"theirs"}] /\ pulled' = pulled /\ writeBack' = writeBack
      BY <1>4 DEF TheirComment, TheyComment
    <2>2. /\ comments' \in [Items -> SUBSET Comments]
          /\ \A k \in Items : comments[k] \subseteq comments'[k] /\ ("ours" \in comments'[k] <=> "ours" \in comments[k])
      BY <2>1 DEF Threaded, ThreadTypeOK, Comments
    <2> QED  BY <2>1, <2>2 DEF Threaded, ThreadTypeOK, OwnPostsOnce
  <1>5. CASE UNCHANGED threads
    BY <1>5 DEF threads, Threaded, ThreadTypeOK, OwnPostsOnce
  <1>6. PullFails \/ GateChanges \/ SyncNow \/ SaveSettings \/ SyncTick \/ SourceAnswers
        \/ BackoffPasses \/ Disconnect \/ SwitchOff \/ SwitchOn \/ UNCHANGED vars
        \/ (\E i \in Items : \/ RemoteChanges(i) \/ UpsertDef(i) \/ ArchiveByHand(i) \/ RestoreByHand(i)
                             \/ RunByHand(i) \/ Cancel(i) \/ Retry(i) \/ Claim(i) \/ End(i))
        => UNCHANGED threads
    BY DEF PullFails, GateChanges, SyncNow, SaveSettings, SyncTick, SourceAnswers, BackoffPasses,
           Disconnect, SwitchOff, SwitchOn, RemoteChanges, UpsertDef, ArchiveByHand, RestoreByHand,
           RunByHand, RunSolitary, TriageNow, Cancel, Retry, Claim, End, SetWork, vars
  <1> QED  BY <1>1, <1>2, <1>3, <1>4, <1>5, <1>6 DEF Next, Event, Loop

-----------------------------------------------------------------------------
(* The pull in flight, and the rest. *)

LEMMA AskingStep ==
    ASSUME Asking, Threaded, Rest, [Next]_vars
    PROVE  Asking'
  <1>1. \A k \in Items : comments[k] \subseteq comments'[k]
    BY ThreadedStep
  <1>2. CASE pull' = pull
    BY <1>1, <1>2 DEF Asking, PullOK
  <1>3. CASE pull' \in {Idle, Asked}
    BY <1>3 DEF Asking, PullOK, Idle, Asked
  <1>4. CASE SourceAnswers
    <2>1. pull' = Answer(remote, comments) /\ comments' = comments
      BY <1>4 DEF SourceAnswers, threads
    <2>2. pull'.defs = remote /\ pull'.comments = comments
      BY <2>1 DEF Answer
    <2> QED  BY <2>1, <2>2 DEF Asking, PullOK, Rest, Threaded, ThreadTypeOK
  <1>5. SourceAnswers \/ pull' = pull \/ pull' \in {Idle, Asked}
    BY DEF Next, Event, Loop, PullFails, Boot, GateChanges, SyncNow, SaveSettings, SyncTick, PullArrives,
           BackoffPasses, Disconnect, SwitchOff, SwitchOn, RemoteChanges, UpsertDef, ArchiveByHand,
           RestoreByHand, RunByHand, RunSolitary, TriageNow, Cancel, Retry, Claim, End, SetWork, Comment, TheirComment,
           WriteBackFails, WritesBack, vars, runner
  <1> QED  BY <1>2, <1>3, <1>4, <1>5

LEMMA RestStep ==
    ASSUME Rest, Queued, [Next]_vars
    PROVE  Rest'
  <1> USE DEF Rest
  <1>e. events' \in 0..MaxEvents
    BY SyncAssumption DEF Next, vars
  <1>1. CASE \/ PullFails \/ Boot \/ SyncTick \/ SourceAnswers \/ PullArrives \/ BackoffPasses
             \/ SyncNow \/ Disconnect \/ SwitchOff \/ SwitchOn \/ UNCHANGED vars
    <2>1. UNCHANGED <<outside, byPerson>> /\ backoff' \in BOOLEAN
      BY <1>1 DEF PullFails, Boot, SyncTick, SourceAnswers, PullArrives, BackoffPasses, SyncNow, Disconnect,
                  SwitchOff, SwitchOn, local, runner, vars
    <2> QED  BY <2>1, <1>e DEF outside
  <1>2. CASE GateChanges \/ SaveSettings
    BY <1>2, <1>e DEF GateChanges, SaveSettings, runner, local
  <1>3. ASSUME NEW i \in Items, RemoteChanges(i)
        PROVE  Rest'
    BY <1>3, <1>e DEF RemoteChanges, runner, local
  <1>4. ASSUME NEW i \in Items, ArchiveByHand(i) \/ RestoreByHand(i)
        PROVE  Rest'
    BY <1>4, <1>e DEF ArchiveByHand, RestoreByHand, runner, outside
  <1>5. ASSUME NEW i \in Items, \/ UpsertDef(i) \/ RunByHand(i) \/ Cancel(i) \/ Retry(i) \/ Claim(i) \/ End(i)
                                \/ Comment(i) \/ TheirComment(i) \/ WriteBackFails(i) \/ WritesBack(i)
        PROVE  Rest'
    <2>1. UNCHANGED <<runner, outside, local>>
      BY <1>5 DEF UpsertDef, RunByHand, RunSolitary, TriageNow, Cancel, Retry, Claim, End, SetWork, Comment, TheirComment,
                  WriteBackFails, WritesBack
    <2> QED  BY <2>1, <1>e DEF runner, outside, local
  <1> QED  BY <1>1, <1>2, <1>3, <1>4, <1>5 DEF Next, Event, Loop

-----------------------------------------------------------------------------
LEMMA InvStep == Inv /\ [Next]_vars => Inv'
  BY QueuedStep, ThreadedStep, AskingStep, RestStep DEF Inv

\* The types, and that what was never mirrored has neither run nor stamp.
THEOREM TypeCorrect == Spec => []TypeOK
  <1> QED  BY InvInit, InvStep, InvTyped, PTL DEF Spec

\* No pull in flight, webhook or person brings a mirror of a switched-off source back
\* (disconnectSource, SyncRunner.run, upsertDef).
THEOREM OffStaysEmpty == Spec => []OffIsEmpty
  <1>1. Inv => OffIsEmpty
    BY DEF Inv, Queued
  <1> QED  BY <1>1, InvInit, InvStep, PTL DEF Spec

\* No write-back's comment comes back as somebody else's, whatever order the post, its id and
\* the pulls come in, unless the id is never learnt or only after the two minutes
\* (mergeExternalComments, writeBackInFlight).
THEOREM OwnPostsStayOurs == Spec => []OwnPostsOnce
  <1>1. Inv => OwnPostsOnce
    BY DEF Inv, Threaded
  <1> QED  BY <1>1, InvInit, InvStep, PTL DEF Spec

=============================================================================
