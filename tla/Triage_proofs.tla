--------------------------- MODULE Triage_proofs ---------------------------
(***************************************************************************)
(* Theorems about Triage for any teammates, proposals, versions and        *)
(* failures: the types, that the sweep hands a version over once, that the *)
(* analyses come in the order of the text, and that the thread implements  *)
(* ProposalLedger.                                                         *)
(*                                                                         *)
(* Three parts make the invariant.  Turns says who may be about to post:   *)
(* as long as no item was taken from a run that went on, a teammate that   *)
(* has read the note owns its item, there is one owner, and what it read   *)
(* is as new as anything posted.  Stamped relates the sweep's history to   *)
(* the stamp.  Booked is about the thread: an id always has a newest       *)
(* proposal, and work was made once for what is decided, plus crashes.     *)
(***************************************************************************)
EXTENDS Triage, SequenceTheorems, TLAPS

Stamped ==
    /\ note.triaged <= note.version
    /\ \A v \in swept : v <= note.triaged
    /\ item # None => note.triaged # 0

Turns ==
    /\ \A m \in Teammates : doing[m].read <= note.version
    /\ \A k \in Analyses(thread) : thread[k].read <= note.version
    /\ \A m, n \in Teammates : doing[m].owns /\ doing[n].owns => m = n
    /\ ~cutOff =>
          /\ \A m \in Teammates : doing[m] # Free => doing[m].owns
          /\ \A m \in Teammates, k \in Analyses(thread) :
                doing[m].owns => thread[k].read <= doing[m].read
          /\ \A j, k \in Analyses(thread) : j < k => thread[j].read <= thread[k].read

\* The folds, as functions of the lines: the proposals, what an id means up to a line, the
\* decisions that fall on a proposal and the decision on it.
ProposalsIn(lines) == UNION {{k} \X DOMAIN lines[k].proposals : k \in Analyses(lines)}
Uses(lines, id, before) == {p \in ProposalsIn(lines) : p[2] = id /\ p[1] < before}
NamedIn(lines, id, before) ==
    IF Uses(lines, id, before) = {} THEN <<0, id>>
    ELSE CHOOSE p \in Uses(lines, id, before) : \A q \in Uses(lines, id, before) : p[1] >= q[1]
Namings(lines, p) ==
    {d \in DOMAIN lines \ Analyses(lines) : NamedIn(lines, lines[d].id, d) = p}
DecisionIn(lines, p) ==
    IF Namings(lines, p) = {} THEN "pending"
    ELSE lines[CHOOSE d \in Namings(lines, p) : \A e \in Namings(lines, p) : d >= e].action

\* An id has a newest proposal, and no two decisions fall on one.
Naming(lines) ==
    /\ \A id \in Ids, before \in 1..(Len(lines) + 1) :
          Uses(lines, id, before) # {} =>
             \E p \in Uses(lines, id, before) : \A q \in Uses(lines, id, before) : p[1] >= q[1]
    /\ \A p \in ProposalsIn(lines) : \A d, e \in Namings(lines, p) : d = e

Booked ==
    /\ thread \in Seq(Line) /\ Naming(thread)
    /\ made \in [ProposalsIn(thread) -> Nat]
    /\ \A p \in ProposalsIn(thread) :
          made[p] <= crashes + (IF DecisionIn(thread, p) = "pending" THEN 0 ELSE 1)
    /\ crashes \in 0..MaxCrashes /\ story \in BOOLEAN

NoteInv == NoteTypeOK /\ Stamped /\ thread \in Seq(Line) /\ Turns

-----------------------------------------------------------------------------
(* Lines of a thread. *)

LEMMA LinesOf ==
    ASSUME NEW lines \in Seq(Line)
    PROVE  /\ DOMAIN lines = 1..Len(lines) /\ Len(lines) \in Nat
           /\ Analyses(lines) \subseteq 1..Len(lines)
           /\ \A k \in DOMAIN lines : lines[k] \in Line
           /\ \A k \in Analyses(lines) :
                 lines[k].read \in Nat /\ \E S \in SUBSET Ids : lines[k].proposals \in [S -> Kinds]
           /\ \A d \in DOMAIN lines \ Analyses(lines) :
                 lines[d].id \in Ids /\ lines[d].action \in {"accepted", "rejected"}
  <1>1. DOMAIN lines = 1..Len(lines) /\ Len(lines) \in Nat /\ \A k \in DOMAIN lines : lines[k] \in Line
    OBVIOUS
  <1>2. Analyses(lines) \subseteq 1..Len(lines)
    BY <1>1 DEF Analyses
  <1>3. ASSUME NEW k \in Analyses(lines)
        PROVE  lines[k].read \in Nat /\ \E S \in SUBSET Ids : lines[k].proposals \in [S -> Kinds]
    <2>1. lines[k] \in Line /\ lines[k].line = "analysis"
      BY <1>1, <1>3 DEF Analyses
    <2>2. lines[k] \in [line : {"analysis"}, outcome : Outcomes, read : Nat,
                         proposals : UNION {[S -> Kinds] : S \in SUBSET Ids}]
      BY <2>1 DEF Line
    <2> QED  BY <2>2
  <1>4. ASSUME NEW d \in DOMAIN lines \ Analyses(lines)
        PROVE  lines[d].id \in Ids /\ lines[d].action \in {"accepted", "rejected"}
    <2>1. lines[d] \in Line /\ lines[d].line # "analysis"
      BY <1>1, <1>4 DEF Analyses
    <2> QED  BY <2>1 DEF Line
  <1> QED  BY <1>1, <1>2, <1>3, <1>4

LEMMA Lines ==
    ASSUME thread \in Seq(Line)
    PROVE  /\ DOMAIN thread = 1..Len(thread) /\ Len(thread) \in Nat
           /\ Analyses(thread) \subseteq 1..Len(thread)
           /\ \A k \in Analyses(thread) : thread[k].read \in Nat
  BY LinesOf

LEMMA AnalysisLine ==
    ASSUME NEW read \in Nat, NEW outcome \in Outcomes, NEW S \in SUBSET Ids, NEW proposals \in [S -> Kinds]
    PROVE  LET new == Analysis(outcome, read, proposals)
           IN  new \in Line /\ new.line = "analysis" /\ new.read = read /\ new.proposals = proposals
  BY DEF Analysis, Line

LEMMA DecisionLine ==
    ASSUME NEW id \in Ids, NEW action \in {"accepted", "rejected"}
    PROVE  LET new == Decision(id, action)
           IN  new \in Line /\ new.line = "decision" /\ new.id = id /\ new.action = action
  BY DEF Decision, Line

\* after is lines with one more.
Grown(lines, new, after) ==
    /\ after \in Seq(Line) /\ Len(after) = Len(lines) + 1
    /\ DOMAIN after = DOMAIN lines \union {Len(lines) + 1}
    /\ Len(lines) + 1 \notin DOMAIN lines
    /\ \A k \in DOMAIN lines : after[k] = lines[k]
    /\ after[Len(lines) + 1] = new
    /\ Analyses(after) = IF new.line = "analysis" THEN Analyses(lines) \union {Len(lines) + 1}
                         ELSE Analyses(lines)

LEMMA Appending ==
    ASSUME NEW lines \in Seq(Line), NEW new \in Line
    PROVE  Grown(lines, new, Append(lines, new))
  <1> DEFINE after == Append(lines, new)
  <1>1. /\ after \in Seq(Line) /\ Len(after) = Len(lines) + 1
        /\ DOMAIN after = DOMAIN lines \union {Len(lines) + 1}
        /\ Len(lines) + 1 \notin DOMAIN lines
        /\ \A k \in DOMAIN lines : after[k] = lines[k]
        /\ after[Len(lines) + 1] = new
    OBVIOUS
  <1> HIDE DEF after
  <1>2. Analyses(after) = IF new.line = "analysis" THEN Analyses(lines) \union {Len(lines) + 1}
                          ELSE Analyses(lines)
    BY <1>1 DEF Analyses
  <1> QED  BY <1>1, <1>2 DEF Grown, after

\* What a step does to the lines.
LEMMA DecidesLines ==
    ASSUME thread \in Seq(Line), Decides
    PROVE  /\ thread' \in Seq(Line) /\ Analyses(thread') = Analyses(thread)
           /\ \A k \in Analyses(thread) : thread'[k] = thread[k]
  <1>1. ASSUME NEW id \in Ids, NEW action \in {"accepted", "rejected"}, Decide(id, action)
        PROVE  /\ thread' \in Seq(Line) /\ Analyses(thread') = Analyses(thread)
               /\ \A k \in Analyses(thread) : thread'[k] = thread[k]
    BY <1>1, DecisionLine, Appending, Lines DEF Decide, Grown
  <1>2. UNCHANGED thread \/ \E id \in Ids : Decide(id, "accepted") \/ Decide(id, "rejected")
    BY DEF Decides, AcceptProposal, AcceptExisting, RejectProposal, AcceptCut, StoryChanges
  <1> QED  BY <1>1, <1>2

LEMMA AnalysisAdded ==
    ASSUME thread \in Seq(Line), NEW read \in Nat, NEW outcome \in Outcomes,
           NEW S \in SUBSET Ids, NEW proposals \in [S -> Kinds], AddAnalysis(read, outcome, proposals)
    PROVE  LET new == Len(thread) + 1
           IN  /\ thread' \in Seq(Line) /\ Analyses(thread') = Analyses(thread) \union {new}
               /\ \A k \in Analyses(thread) : thread'[k] = thread[k] /\ k < new
               /\ thread'[new].read = read
  <1> DEFINE line == Analysis(outcome, read, proposals)
  <1>1. line \in Line /\ line.line = "analysis" /\ line.read = read
    BY AnalysisLine
  <1>2. thread' = Append(thread, line)
    BY DEF AddAnalysis
  <1> HIDE DEF line
  <1>3. /\ thread' \in Seq(Line) /\ Analyses(thread') = Analyses(thread) \union {Len(thread) + 1}
        /\ \A k \in DOMAIN thread : thread'[k] = thread[k]
        /\ thread'[Len(thread) + 1] = line
    BY <1>1, <1>2, Appending DEF Grown
  <1>4. \A k \in Analyses(thread) : k \in DOMAIN thread /\ k < Len(thread) + 1
    BY Lines
  <1> QED  BY <1>1, <1>3, <1>4

-----------------------------------------------------------------------------
(* The note's own invariant. *)

LEMMA NoteInit == Init => NoteInv
  <1> SUFFICES ASSUME Init PROVE NoteInv
    OBVIOUS
  <1>1. NoteTypeOK
    <2>1. note \in Note
      BY TriageAssumption DEF Init, Note
    <2>2. doing \in [Teammates -> [read : 0..MaxVersions, owns : BOOLEAN]] /\ \A m \in Teammates : ~doing[m].owns
      BY TriageAssumption DEF Init, Free
    <2>3. events \in 0..MaxEvents
      BY TriageAssumption DEF Init
    <2> QED  BY <2>1, <2>2, <2>3 DEF Init, NoteTypeOK
  <1>2. Stamped
    BY DEF Init, Stamped
  <1>3. thread \in Seq(Line) /\ Analyses(thread) = {}
    BY DEF Init, ThreadInit, Analyses
  <1>4. Turns
    BY <1>3 DEF Init, Turns, Free
  <1> QED  BY <1>1, <1>2, <1>3, <1>4 DEF NoteInv

LEMMA EventsCounted ==
    ASSUME NoteTypeOK, [Next]_vars
    PROVE  events' \in 0..MaxEvents
  BY TriageAssumption DEF NoteTypeOK, Next, vars

LEMMA NoteTypeStep ==
    ASSUME NoteTypeOK, Stamped, Turns, [Next]_vars
    PROVE  NoteTypeOK'
  <1>e. events' \in 0..MaxEvents
    BY EventsCounted
  <1>n. note \in Note /\ note.version \in Nat /\ MaxVersions \in Nat \ {0}
    BY TriageAssumption DEF NoteTypeOK, Note
  <1>d. \A m \in Teammates : doing[m] \in [read : 0..MaxVersions, owns : BOOLEAN]
    BY DEF NoteTypeOK
  <1>1. CASE Sweep \/ TriageNow
    <2>1. note' \in Note /\ note'.status = "active" /\ note'.version = note.version
      BY <1>1, <1>n DEF Sweep, TriageNow, Due, Triageable, Enqueue, Note
    <2>2. \A m \in Teammates : ~doing[m].owns
      BY <1>1, TriageAssumption
      DEF Sweep, TriageNow, Due, Triageable, HasActiveItem, NoteTypeOK
    <2>3. item' = "READY" /\ def' = "active" /\ UNCHANGED <<fresh, doing, seen, unread, cutOff>>
      BY <1>1 DEF Sweep, TriageNow, Enqueue, EnsureWorkDef, history
    <2>4. swept' \subseteq 1..MaxVersions
      BY <1>1, <1>n DEF Sweep, TriageNow, history, NoteTypeOK, Note
    <2> QED  BY <1>e, <2>1, <2>2, <2>3, <2>4, TriageAssumption DEF NoteTypeOK
  <1>2. CASE QuietPasses \/ Decides
    BY <1>2, <1>e DEF QuietPasses, Decides, history, NoteTypeOK
  <1>3. ASSUME NEW m \in Teammates, Claim(m) PROVE NoteTypeOK'
    <2>1. /\ doing' = [doing EXCEPT ![m] = [read |-> note.version, owns |-> TRUE]]
          /\ item = "READY" /\ item' = "IN_PROGRESS"
          /\ seen' = seen \union {note.version}
          /\ UNCHANGED <<note, fresh, def, swept, unread, cutOff>>
      BY <1>3 DEF Claim
    <2>2. doing' \in [Teammates -> [read : 0..MaxVersions, owns : BOOLEAN]]
      BY <1>n, <2>1 DEF NoteTypeOK, Note
    <2>3. seen' \subseteq 1..MaxVersions
      BY <1>n, <2>1 DEF NoteTypeOK, Note
    <2> QED  BY <1>e, <2>1, <2>2, <2>3, TriageAssumption DEF NoteTypeOK
  <1>4. ASSUME NEW m \in Teammates, ProposeWork(m) PROVE NoteTypeOK'
    BY <1>4, <1>e DEF ProposeWork, history, NoteTypeOK
  <1>5. ASSUME NEW m \in Teammates, NEW next \in {None, "READY", "MORIBUND"}, EndRun(m, next)
        PROVE  NoteTypeOK'
    <2>1. /\ doing' = [doing EXCEPT ![m] = Free]
          /\ item' = IF doing[m].owns THEN next ELSE item
          /\ UNCHANGED <<note, fresh, def, swept, seen, unread, cutOff>>
      BY <1>5 DEF EndRun, history
    <2>2. doing' \in [Teammates -> [read : 0..MaxVersions, owns : BOOLEAN]]
      BY <1>n, <2>1 DEF NoteTypeOK, Free
    <2>3. \A n \in Teammates : doing'[n].owns => doing[n].owns /\ n # m
      BY <2>1 DEF NoteTypeOK, Free
    <2>4. \A n \in Teammates : doing'[n].owns => item' \in {"IN_PROGRESS", "MORIBUND"}
      BY <2>1, <2>3 DEF NoteTypeOK, Turns
    <2>5. item' # None => item # None
      BY <2>1, TriageAssumption DEF NoteTypeOK
    <2> QED  BY <1>e, <2>1, <2>2, <2>4, <2>5 DEF NoteTypeOK
  <1>6. ASSUME NEW m \in Teammates, Reap(m) \/ Heard(m) PROVE NoteTypeOK'
    BY <1>6, <1>e, TriageAssumption DEF Reap, Heard, SetState, history, NoteTypeOK
  <1>7. ASSUME Withdraw
        PROVE  /\ item' = None /\ cutOff' \in BOOLEAN /\ unread' \subseteq 1..MaxVersions
               /\ doing' \in [Teammates -> [read : 0..MaxVersions, owns : BOOLEAN]]
               /\ \A m \in Teammates : ~doing'[m].owns
    <2>1. doing' = [m \in Teammates |-> [doing[m] EXCEPT !.owns = FALSE]] /\ item' = None
      BY <1>7 DEF Withdraw
    <2>2. doing' \in [Teammates -> [read : 0..MaxVersions, owns : BOOLEAN]]
      BY <1>d, <2>1
    <2>3. \A m \in Teammates : ~doing'[m].owns
      BY <1>d, <2>1
    <2>4. unread' \subseteq 1..MaxVersions
      <3>1. note.triaged \in 0..MaxVersions
        BY <1>n DEF Note
      <3>2. item = "READY" => note.triaged \in 1..MaxVersions
        BY <3>1, TriageAssumption DEF Stamped
      <3>3. unread' = IF item = "READY" THEN unread \union {note.triaged} ELSE unread
        BY <1>7 DEF Withdraw
      <3> QED  BY <3>2, <3>3 DEF NoteTypeOK
    <2>5. cutOff' \in BOOLEAN
      BY <1>7 DEF Withdraw
    <2> QED  BY <2>1, <2>2, <2>3, <2>4, <2>5
  <1>8. CASE Edit
    <2>1. PICK empty \in BOOLEAN : note' = [note EXCEPT !.version = @ + 1, !.empty = empty]
      BY <1>8 DEF Edit
    <2>2. note' \in Note /\ note'.status = note.status
      <3>1. note.version \in 1..MaxVersions /\ note.version < MaxVersions
        BY <1>8, <1>n DEF Edit, Note
      <3>2. note.version + 1 \in 1..MaxVersions
        BY <3>1, <1>n
      <3> QED  BY <1>n, <2>1, <3>2 DEF Note
    <2> QED  BY <1>8, <1>e, <2>2 DEF Edit, history, NoteTypeOK
  <1>9. ASSUME NEW status \in {"active", "archived"}, PatchStatus(status) PROVE NoteTypeOK'
    <2>1. note' \in Note /\ note'.status # "deleted"
      BY <1>9, <1>n DEF PatchStatus, Note
    <2> QED  BY <1>9, <1>e, <2>1 DEF PatchStatus, history, NoteTypeOK
  <1>10. CASE RestoreThought
    <2>1. note' \in Note /\ note'.status # "deleted"
      BY <1>10, <1>n DEF RestoreThought, Note
    <2>2. def' \in {None, "active"} /\ (def' = None <=> def = None)
      BY <1>10, TriageAssumption DEF RestoreThought
    <2> QED  BY <1>10, <1>e, <2>1, <2>2 DEF RestoreThought, history, NoteTypeOK
  <1>11. CASE ArchiveThought
    <2>1. note' \in Note /\ note'.status # "deleted"
      BY <1>11, <1>n DEF ArchiveThought, Note
    <2>2. def' \in {None, "archived"} /\ Withdraw /\ UNCHANGED <<fresh, swept, seen>>
      BY <1>11 DEF ArchiveThought
    <2>3. def' = None \/ def' # None
      OBVIOUS
    <2> QED  BY <1>e, <1>7, <2>1, <2>2 DEF NoteTypeOK
  <1>12. CASE DeleteThought
    <2>1. note' \in Note /\ def' = None /\ Withdraw /\ UNCHANGED <<fresh, swept, seen>>
      BY <1>12, <1>n DEF DeleteThought, Note
    <2> QED  BY <1>e, <1>7, <2>1 DEF NoteTypeOK
  <1>13. CASE TakeFromQueue
    <2>1. Withdraw /\ UNCHANGED <<note, fresh, def, swept, seen>>
      BY <1>13 DEF TakeFromQueue
    <2> QED  BY <1>e, <1>7, <2>1 DEF NoteTypeOK
  <1>14. ASSUME NEW status \in {"active", "archived"}, ArchiveContainer(status) PROVE NoteTypeOK'
    BY <1>14, <1>e, TriageAssumption DEF ArchiveContainer, history, NoteTypeOK
  <1>15. CASE UNCHANGED vars
    BY <1>15, <1>e DEF vars, history, NoteTypeOK
  <1> QED  BY <1>1, <1>2, <1>3, <1>4, <1>5, <1>6, <1>8, <1>9, <1>10, <1>11, <1>12, <1>13, <1>14, <1>15
           DEF Next, Event, End, SessionError, Crash

LEMMA StampedStep ==
    ASSUME NoteTypeOK, Stamped, [Next]_vars
    PROVE  Stamped'
  <1>n. /\ note \in Note /\ note.version \in Nat \ {0} /\ note.triaged \in Nat
        /\ swept \subseteq Nat
    BY TriageAssumption DEF NoteTypeOK, Note
  <1>1. CASE Sweep \/ TriageNow
    <2>1. note' = [note EXCEPT !.triaged = note.version]
      BY <1>1 DEF Sweep, TriageNow, Enqueue
    <2>2. note'.triaged = note.version /\ note'.version = note.version
      BY <1>n, <2>1 DEF Note
    <2>3. swept' \in {swept, swept \union {note.version}}
      BY <1>1 DEF Sweep, TriageNow, history
    <2>4. \A v \in swept : v <= note.version
      BY <1>n DEF Stamped
    <2> QED  BY <1>n, <2>2, <2>3, <2>4 DEF Stamped
  <1>2. CASE Edit
    <2>1. PICK empty \in BOOLEAN : note' = [note EXCEPT !.version = @ + 1, !.empty = empty]
      BY <1>2 DEF Edit
    <2>2. note'.triaged = note.triaged /\ note'.version = note.version + 1
      BY <1>n, <2>1 DEF Note
    <2>3. UNCHANGED <<item, swept>>
      BY <1>2 DEF Edit, history
    <2> QED  BY <1>n, <2>2, <2>3 DEF Stamped
  <1>3. ASSUME UNCHANGED swept, item' # None => item # None,
               note'.version = note.version, note'.triaged = note.triaged
        PROVE  Stamped'
    BY <1>3 DEF Stamped
  <1>4. CASE ArchiveThought \/ RestoreThought \/ DeleteThought
             \/ \E status \in {"active", "archived"} : PatchStatus(status)
    <2>1. note'.version = note.version /\ note'.triaged = note.triaged
      BY <1>4, <1>n DEF ArchiveThought, RestoreThought, DeleteThought, PatchStatus, Note
    <2>2. UNCHANGED swept /\ item' \in {None, item}
      BY <1>4 DEF ArchiveThought, RestoreThought, DeleteThought, PatchStatus, Withdraw, history
    <2> QED  BY <1>3, <2>1, <2>2
  <1>5. CASE TakeFromQueue
    BY <1>3, <1>5 DEF TakeFromQueue, Withdraw
  <1>6. ASSUME NEW m \in Teammates, NEW next, EndRun(m, next) PROVE Stamped'
    <2>1. UNCHANGED <<note, swept>> /\ (item' # None => item # None)
      BY <1>6, TriageAssumption DEF EndRun, history, NoteTypeOK
    <2> QED  BY <1>3, <2>1
  <1>7. ASSUME NEW m \in Teammates, Claim(m) \/ ProposeWork(m) \/ Reap(m) \/ Heard(m) PROVE Stamped'
    <2>1. UNCHANGED <<note, swept>> /\ (item' # None => item # None)
      BY <1>7, TriageAssumption DEF Claim, ProposeWork, Reap, Heard, SetState, history, NoteTypeOK
    <2> QED  BY <1>3, <2>1
  <1>8. CASE \/ QuietPasses \/ Decides \/ UNCHANGED vars
             \/ \E status \in {"active", "archived"} : ArchiveContainer(status)
    <2>1. UNCHANGED <<note, swept, item>>
      BY <1>8 DEF QuietPasses, Decides, ArchiveContainer, vars, history
    <2> QED  BY <1>3, <2>1
  <1> QED  BY <1>1, <1>2, <1>4, <1>5, <1>6, <1>7, <1>8
           DEF Next, Event, End, SessionError, Crash

\* The turns are kept by what posts nothing, starts no run, and gives nobody the item.
LEMMA TurnsKept ==
    ASSUME NoteTypeOK, Turns, thread \in Seq(Line),
           Analyses(thread') = Analyses(thread), \A k \in Analyses(thread) : thread'[k] = thread[k],
           note'.version \in Nat, note.version <= note'.version,
           \A m \in Teammates : \/ doing'[m] = doing[m]
                                \/ doing'[m] = Free
                                \/ cutOff' /\ doing'[m].read = doing[m].read /\ ~doing'[m].owns,
           cutOff => cutOff'
    PROVE  Turns'
  <1>1. note.version \in Nat /\ \A m \in Teammates : doing[m].read \in Nat
    BY TriageAssumption DEF NoteTypeOK, Note
  <1>2. \A k \in Analyses(thread) : thread[k].read \in Nat
    BY Lines
  <1>3. Free.read = 0 /\ ~Free.owns
    BY DEF Free
  <1>4. \A m \in Teammates : doing'[m].read <= note'.version
    BY <1>1, <1>3 DEF Turns
  <1>5. \A k \in Analyses(thread) : thread'[k].read <= note'.version
    BY <1>1, <1>2 DEF Turns
  <1>6. \A m \in Teammates : doing'[m].owns => doing'[m] = doing[m]
    BY <1>3
  <1>7. \A m, n \in Teammates : doing'[m].owns /\ doing'[n].owns => m = n
    BY <1>6 DEF Turns
  <1>8. ASSUME ~cutOff'
        PROVE  /\ \A m \in Teammates : doing'[m] # Free => doing'[m].owns
               /\ \A m \in Teammates, k \in Analyses(thread) :
                     doing'[m].owns => thread'[k].read <= doing'[m].read
               /\ \A j, k \in Analyses(thread) : j < k => thread'[j].read <= thread'[k].read
    <2>1. \A m \in Teammates : doing'[m] # Free => doing'[m] = doing[m]
      BY <1>8
    <2> QED  BY <1>6, <1>8, <2>1 DEF Turns
  <1> QED  BY <1>4, <1>5, <1>7, <1>8 DEF Turns

LEMMA TurnsClaim ==
    ASSUME NoteTypeOK, Turns, thread \in Seq(Line), NEW m \in Teammates, Claim(m)
    PROVE  Turns'
  <1>1. /\ item = "READY" /\ doing[m] = Free
        /\ doing' = [doing EXCEPT ![m] = [read |-> note.version, owns |-> TRUE]]
        /\ UNCHANGED <<note, cutOff, thread>>
    BY DEF Claim, threadVars
  <1>2. \A n \in Teammates : ~doing[n].owns
    BY <1>1 DEF NoteTypeOK
  <1>3. /\ doing'[m] = [read |-> note.version, owns |-> TRUE]
        /\ \A n \in Teammates \ {m} : doing'[n] = doing[n]
    BY <1>1 DEF NoteTypeOK
  <1>4. note.version \in Nat
    BY DEF NoteTypeOK, Note
  <1> QED  BY <1>1, <1>2, <1>3, <1>4 DEF Turns

\* Who posts read the version of his claim, the newest of those posted, or an item was cut off.
LEMMA TurnsPropose ==
    ASSUME NoteTypeOK, Turns, thread \in Seq(Line), NEW m \in Teammates, ProposeWork(m)
    PROVE  thread' \in Seq(Line) /\ Turns'
  <1>1. doing[m] # Free /\ UNCHANGED <<note, doing, cutOff>>
    BY DEF ProposeWork, history
  <1>2. doing[m].read \in Nat
    BY DEF NoteTypeOK
  <1>3. PICK outcome \in Outcomes, S \in SUBSET Ids : \E proposals \in [S -> Kinds] :
           AddAnalysis(doing[m].read, outcome, proposals)
    BY DEF ProposeWork
  <1>p. PICK proposals \in [S -> Kinds] : AddAnalysis(doing[m].read, outcome, proposals)
    BY <1>3
  <1> DEFINE new == Len(thread) + 1
  <1>4. /\ thread' \in Seq(Line) /\ Analyses(thread') = Analyses(thread) \union {new}
        /\ \A k \in Analyses(thread) : thread'[k] = thread[k] /\ k < new /\ k \in Nat
        /\ thread'[new].read = doing[m].read /\ new \in Nat
    <2>1. new \in Nat /\ \A k \in Analyses(thread) : k \in Nat
      BY Lines
    <2>2. LET k == Len(thread) + 1
          IN  /\ thread' \in Seq(Line) /\ Analyses(thread') = Analyses(thread) \union {k}
              /\ \A j \in Analyses(thread) : thread'[j] = thread[j] /\ j < k
              /\ thread'[k].read = doing[m].read
      BY <1>2, <1>p, AnalysisAdded
    <2> QED  BY <2>1, <2>2
  <1> HIDE DEF new
  <1>5. \A k \in Analyses(thread') : thread'[k].read <= note'.version
    BY <1>1, <1>4 DEF Turns
  <1>6. ASSUME ~cutOff
        PROVE  /\ \A n \in Teammates, k \in Analyses(thread') :
                     doing[n].owns => thread'[k].read <= doing[n].read
               /\ \A j, k \in Analyses(thread') : j < k => thread'[j].read <= thread'[k].read
    <2>1. doing[m].owns
      BY <1>1, <1>6 DEF Turns
    <2>2. \A k \in Analyses(thread) : thread[k].read <= doing[m].read
      BY <1>6, <2>1 DEF Turns
    <2>3. \A n \in Teammates : doing[n].owns => n = m
      BY <2>1 DEF Turns
    <2>4. \A n \in Teammates, k \in Analyses(thread') : doing[n].owns => thread'[k].read <= doing[n].read
      BY <1>2, <1>4, <2>2, <2>3
    <2>5. ASSUME NEW j \in Analyses(thread'), NEW k \in Analyses(thread'), j < k
          PROVE  thread'[j].read <= thread'[k].read
      <3>1. CASE k = new
        BY <1>4, <2>2, <2>5, <3>1
      <3>2. CASE k # new
        <4>1. k \in Analyses(thread) /\ j \in Analyses(thread)
          BY <1>4, <2>5, <3>2
        <4> QED  BY <1>4, <1>6, <2>5, <4>1 DEF Turns
      <3> QED  BY <3>1, <3>2
    <2> QED  BY <2>4, <2>5
  <1>7. \A n \in Teammates : doing'[n].read <= note'.version
    BY <1>1 DEF Turns
  <1> QED  BY <1>1, <1>4, <1>5, <1>6, <1>7 DEF Turns

LEMMA TurnsStep ==
    ASSUME NoteTypeOK, Turns, thread \in Seq(Line), [Next]_vars
    PROVE  thread' \in Seq(Line) /\ Turns'
  <1>n. note \in Note /\ note.version \in Nat
    BY DEF NoteTypeOK, Note
  <1>d. \A m \in Teammates : doing[m] \in [read : 0..MaxVersions, owns : BOOLEAN]
    BY DEF NoteTypeOK
  <1>1. ASSUME NEW m \in Teammates, Claim(m) PROVE thread' \in Seq(Line) /\ Turns'
    BY <1>1, TurnsClaim DEF Claim, threadVars
  <1>2. ASSUME NEW m \in Teammates, ProposeWork(m) PROVE thread' \in Seq(Line) /\ Turns'
    BY <1>2, TurnsPropose
  <1>3. CASE Decides
    BY <1>3, <1>n, DecidesLines, TurnsKept DEF Decides, history
  <1>4. CASE Edit
    <2>1. PICK empty \in BOOLEAN : note' = [note EXCEPT !.version = @ + 1, !.empty = empty]
      BY <1>4 DEF Edit
    <2>2. note'.version = note.version + 1
      BY <1>n, <2>1 DEF Note
    <2> QED  BY <1>4, <1>n, <2>2, TurnsKept DEF Edit, history, threadVars
  <1>5. CASE \/ Sweep \/ TriageNow \/ QuietPasses \/ RestoreThought
             \/ \E status \in {"active", "archived"} : PatchStatus(status) \/ ArchiveContainer(status)
             \/ \E m \in Teammates : Reap(m) \/ Heard(m)
    <2>1. UNCHANGED <<doing, cutOff, thread>>
      BY <1>5 DEF Sweep, TriageNow, QuietPasses, RestoreThought, PatchStatus, ArchiveContainer,
                  Reap, Heard, SetState, history, threadVars
    <2>2. note'.version = note.version
      BY <1>5, <1>n DEF Sweep, TriageNow, Enqueue, QuietPasses, RestoreThought, PatchStatus, ArchiveContainer,
                  Reap, Heard, SetState, Note
    <2> QED  BY <1>n, <2>1, <2>2, TurnsKept
  <1>6. ASSUME NEW m \in Teammates, NEW next, EndRun(m, next) PROVE thread' \in Seq(Line) /\ Turns'
    <2>1. doing' = [doing EXCEPT ![m] = Free] /\ UNCHANGED <<note, cutOff, thread>>
      BY <1>6 DEF EndRun, history, threadVars
    <2>2. \A n \in Teammates : doing'[n] = doing[n] \/ doing'[n] = Free
      BY <2>1 DEF NoteTypeOK
    <2> QED  BY <1>n, <2>1, <2>2, TurnsKept
  <1>7. ASSUME Withdraw
        PROVE  /\ cutOff => cutOff'
               /\ \A m \in Teammates : \/ doing'[m] = doing[m]
                                       \/ cutOff' /\ doing'[m].read = doing[m].read /\ ~doing'[m].owns
    <2>1. doing' = [m \in Teammates |-> [doing[m] EXCEPT !.owns = FALSE]]
      BY <1>7 DEF Withdraw
    <2>2. cutOff' = (cutOff \/ \E m \in Teammates : doing[m].owns)
      BY <1>7 DEF Withdraw
    <2>3. \A m \in Teammates : doing'[m].read = doing[m].read /\ ~doing'[m].owns
      BY <1>d, <2>1
    <2>4. \A m \in Teammates : ~doing[m].owns => doing'[m] = doing[m]
      BY <1>d, <2>1
    <2> QED  BY <2>2, <2>3, <2>4
  <1>8. CASE ArchiveThought \/ TakeFromQueue
    <2>1. Withdraw /\ UNCHANGED thread /\ note'.version = note.version
      BY <1>8, <1>n DEF ArchiveThought, TakeFromQueue, threadVars, Note
    <2> QED  BY <1>7, <1>n, <2>1, TurnsKept
  <1>9. CASE DeleteThought
    <2>1. Withdraw /\ thread' = <<>> /\ note'.version = note.version
      BY <1>9, <1>n DEF DeleteThought, DropThread, Note
    <2>2. thread' \in Seq(Line) /\ Analyses(thread') = {}
      BY <2>1 DEF Analyses
    <2>3. \A m \in Teammates : /\ doing'[m].read = doing[m].read /\ ~doing'[m].owns
                               /\ doing'[m] = doing[m] \/ cutOff'
      BY <1>7, <1>9, <1>d, <2>1 DEF Withdraw
    <2>4. cutOff => cutOff'
      BY <1>7, <2>1
    <2> QED  BY <2>1, <2>2, <2>3, <2>4 DEF Turns
  <1>10. CASE UNCHANGED vars
    BY <1>10, <1>n, TurnsKept DEF vars, history, threadVars
  <1> QED  BY <1>1, <1>2, <1>3, <1>4, <1>5, <1>6, <1>8, <1>9, <1>10
           DEF Next, Event, End, SessionError, Crash

LEMMA NoteStep == NoteInv /\ [Next]_vars => NoteInv'
  <1> SUFFICES ASSUME NoteInv, [Next]_vars PROVE NoteInv'
    OBVIOUS
  <1>1. NoteTypeOK /\ Stamped /\ thread \in Seq(Line) /\ Turns
    BY DEF NoteInv
  <1> QED  BY <1>1, NoteTypeStep, StampedStep, TurnsStep DEF NoteInv

LEMMA NoteInvHolds == Spec => []NoteInv
  BY NoteInit, NoteStep, PTL DEF Spec

\* An analysis of a newer version is never followed by one of an older, unless an item was
\* taken from a run that went on (hasActiveItem in triageSkipReason).
THEOREM AnalysesComeInOrder == Spec => []AnalysesInOrder
  <1>1. NoteInv => AnalysesInOrder
    BY DEF NoteInv, Turns, AnalysesInOrder
  <1> QED  BY <1>1, NoteInvHolds, PTL

\* The sweep hands a version of the text over once, whatever becomes of its run (enqueue's
\* stamp, isTriageDue).
THEOREM SweptOnce == Spec => OncePerVersion
  <1>1. NoteInv /\ [Next]_vars => [Sweep => note.version \notin swept]_vars
    <2> SUFFICES ASSUME NoteInv, Sweep PROVE note.version \notin swept
      OBVIOUS
    <2>1. note.triaged < note.version
      BY DEF Sweep, Due, Unread
    <2>2. note.triaged \in Nat /\ note.version \in Nat /\ swept \subseteq Nat
      BY TriageAssumption DEF NoteInv, NoteTypeOK, Note
    <2>3. \A v \in swept : v <= note.triaged
      BY DEF NoteInv, Stamped
    <2> QED  BY <2>1, <2>2, <2>3
  <1>2. Spec => [][Sweep => note.version \notin swept]_vars
    BY <1>1, NoteInvHolds, PTL DEF Spec
  <1> QED  BY <1>2 DEF OncePerVersion

-----------------------------------------------------------------------------
(* The folds over the thread. *)

LEMMA FoldsOf ==
    /\ Proposals = ProposalsIn(thread)
    /\ \A id, before : Named(id, before) = NamedIn(thread, id, before)
    /\ \A p : DecisionOf(p) = DecisionIn(thread, p)
  <1>1. Proposals = ProposalsIn(thread)
    BY DEF Proposals, ProposalsIn
  <1>2. \A id, before : Named(id, before) = NamedIn(thread, id, before)
    BY <1>1 DEF Named, NamedIn, Uses
  <1>3. ASSUME NEW p PROVE DecisionOf(p) = DecisionIn(thread, p)
    <2> DEFINE named == {d \in DOMAIN thread \ Analyses(thread) : Named(thread[d].id, d) = p}
    <2>1. named = Namings(thread, p)
      BY <1>2 DEF Namings
    <2>2. DecisionOf(p) = IF named = {} THEN "pending"
                          ELSE thread[CHOOSE d \in named : \A e \in named : d >= e].action
      BY DEF DecisionOf
    <2> HIDE DEF named
    <2> QED  BY <2>1, <2>2 DEF DecisionIn
  <1> QED  BY <1>1, <1>2, <1>3

LEMMA ProposalIs ==
    ASSUME NEW lines \in Seq(Line)
    PROVE  /\ \A p \in ProposalsIn(lines) : /\ p = <<p[1], p[2]>> /\ p[1] \in Analyses(lines)
                                            /\ p[1] \in 1..Len(lines)
                                            /\ p[2] \in DOMAIN lines[p[1]].proposals /\ p[2] \in Ids
           /\ \A k \in Analyses(lines) : \A id \in DOMAIN lines[k].proposals : <<k, id>> \in ProposalsIn(lines)
  <1>1. \A k \in Analyses(lines) : DOMAIN lines[k].proposals \subseteq Ids /\ k \in 1..Len(lines)
    BY LinesOf
  <1> QED  BY <1>1 DEF ProposalsIn

\* What an id means up to a line is a proposal before that line, the newest of its name.
LEMMA NamedIs ==
    ASSUME NEW lines \in Seq(Line), Naming(lines), NEW id \in Ids, NEW before \in 1..(Len(lines) + 1)
    PROVE  /\ Uses(lines, id, before) = {} => NamedIn(lines, id, before) = <<0, id>>
           /\ Uses(lines, id, before) # {} => /\ NamedIn(lines, id, before) \in Uses(lines, id, before)
                                              /\ NamedIn(lines, id, before) \in ProposalsIn(lines)
           /\ NamedIn(lines, id, before)[1] \in 0..(before - 1)
           /\ NamedIn(lines, id, before)[2] = id
  <1>0. before \in Nat
    BY LinesOf
  <1>1. Uses(lines, id, before) = {} => NamedIn(lines, id, before) = <<0, id>>
    BY DEF NamedIn
  <1>2. ASSUME Uses(lines, id, before) # {} PROVE NamedIn(lines, id, before) \in Uses(lines, id, before)
    BY <1>2 DEF NamedIn, Naming
  <1>3. /\ Uses(lines, id, before) \subseteq ProposalsIn(lines)
        /\ \A p \in Uses(lines, id, before) : p[1] < before /\ p[1] \in Nat /\ p[2] = id
    BY ProposalIs, LinesOf DEF Uses
  <1>4. <<0, id>>[1] = 0 /\ <<0, id>>[2] = id
    OBVIOUS
  <1> QED  BY <1>0, <1>1, <1>2, <1>3, <1>4

\* A new line changes nothing an older line means.
LEMMA NamedKept ==
    ASSUME NEW lines \in Seq(Line), NEW new \in Line, NEW after, Grown(lines, new, after),
           NEW id, NEW before \in 1..(Len(lines) + 1)
    PROVE  /\ Uses(after, id, before) = Uses(lines, id, before)
           /\ NamedIn(after, id, before) = NamedIn(lines, id, before)
  <1>1. /\ DOMAIN after = DOMAIN lines \union {Len(lines) + 1}
        /\ \A k \in DOMAIN lines : after[k] = lines[k]
        /\ Analyses(after) = IF new.line = "analysis" THEN Analyses(lines) \union {Len(lines) + 1}
                             ELSE Analyses(lines)
    BY DEF Grown
  <1>2. Analyses(lines) \subseteq 1..Len(lines) /\ Len(lines) \in Nat /\ DOMAIN lines = 1..Len(lines)
    BY LinesOf
  <1>3. ASSUME NEW p PROVE p \in Uses(after, id, before) <=> p \in Uses(lines, id, before)
    <2>1. ASSUME p \in Uses(lines, id, before) PROVE p \in Uses(after, id, before)
      <3>1. PICK k \in Analyses(lines) : p \in {k} \X DOMAIN lines[k].proposals
        BY <2>1 DEF Uses, ProposalsIn
      <3>2. k \in Analyses(after) /\ after[k] = lines[k]
        BY <1>1, <1>2, <3>1
      <3> QED  BY <2>1, <3>1, <3>2 DEF Uses, ProposalsIn
    <2>2. ASSUME p \in Uses(after, id, before) PROVE p \in Uses(lines, id, before)
      <3>1. PICK k \in Analyses(after) : p \in {k} \X DOMAIN after[k].proposals
        BY <2>2 DEF Uses, ProposalsIn
      <3>2. p[1] = k /\ p[1] < before
        BY <2>2, <3>1 DEF Uses
      <3>3. k \in Analyses(lines) /\ after[k] = lines[k]
        BY <1>1, <1>2, <3>1, <3>2
      <3> QED  BY <2>2, <3>1, <3>3 DEF Uses, ProposalsIn
    <2> QED  BY <2>1, <2>2
  <1>4. Uses(after, id, before) = Uses(lines, id, before)
    BY <1>3
  <1> QED  BY <1>4 DEF NamedIn

\* Nor what was decided, but for the proposal a new decision names.
LEMMA NamingsAfter ==
    ASSUME NEW lines \in Seq(Line), NEW new \in Line, NEW after, Grown(lines, new, after), NEW p
    PROVE  Namings(after, p) = IF new.line # "analysis" /\ NamedIn(lines, new.id, Len(lines) + 1) = p
                               THEN Namings(lines, p) \union {Len(lines) + 1} ELSE Namings(lines, p)
  <1> DEFINE last == Len(lines) + 1
  <1>1. /\ DOMAIN after = DOMAIN lines \union {last} /\ last \notin DOMAIN lines
        /\ \A k \in DOMAIN lines : after[k] = lines[k]
        /\ after[last] = new
        /\ Analyses(after) = IF new.line = "analysis" THEN Analyses(lines) \union {last} ELSE Analyses(lines)
    BY DEF Grown
  <1>2. DOMAIN lines = 1..Len(lines) /\ Len(lines) \in Nat /\ Analyses(lines) \subseteq DOMAIN lines
    BY LinesOf
  <1>3. \A d \in DOMAIN lines : NamedIn(after, after[d].id, d) = NamedIn(lines, lines[d].id, d)
    BY <1>1, <1>2, NamedKept
  <1>4. NamedIn(after, new.id, last) = NamedIn(lines, new.id, last)
    BY <1>2, NamedKept
  <1> HIDE DEF last
  <1>5. Namings(after, p) = IF new.line # "analysis" /\ NamedIn(lines, new.id, last) = p
                            THEN Namings(lines, p) \union {last} ELSE Namings(lines, p)
    BY <1>1, <1>2, <1>3, <1>4 DEF Namings
  <1> QED  BY <1>5 DEF last

LEMMA DecisionIs ==
    ASSUME NEW lines \in Seq(Line), NEW p, \A d, e \in Namings(lines, p) : d = e
    PROVE  /\ Namings(lines, p) = {} <=> DecisionIn(lines, p) = "pending"
           /\ \A d \in Namings(lines, p) : DecisionIn(lines, p) = lines[d].action
  <1>1. Namings(lines, p) = {} => DecisionIn(lines, p) = "pending"
    BY DEF DecisionIn
  <1>2. ASSUME NEW d \in Namings(lines, p)
        PROVE  DecisionIn(lines, p) = lines[d].action /\ lines[d].action # "pending"
    <2>1. Namings(lines, p) = {d}
      OBVIOUS
    <2>2. d \in Nat /\ lines[d].action # "pending"
      BY LinesOf DEF Namings
    <2>3. DecisionIn(lines, p) = lines[CHOOSE e \in {d} : \A f \in {d} : e >= f].action
      BY <2>1 DEF DecisionIn
    <2>4. (CHOOSE e \in {d} : \A f \in {d} : e >= f) = d
      BY <2>2
    <2> QED  BY <2>2, <2>3, <2>4
  <1> QED  BY <1>1, <1>2

-----------------------------------------------------------------------------
(* What a line does to the folds. *)

\* An analysis brings its proposals, none of them decided, and leaves the others alone.
LEMMA GrownByAnalysis ==
    ASSUME NEW lines \in Seq(Line), Naming(lines), NEW new \in Line, NEW after, Grown(lines, new, after),
           new.line = "analysis"
    PROVE  /\ ProposalsIn(after) = ProposalsIn(lines) \union ({Len(lines) + 1} \X DOMAIN new.proposals)
           /\ Naming(after)
           /\ \A p \in ProposalsIn(lines) : /\ DecisionIn(after, p) = DecisionIn(lines, p)
                                            /\ p[1] # Len(lines) + 1
           /\ \A p \in ProposalsIn(after) \ ProposalsIn(lines) : DecisionIn(after, p) = "pending"
  <1> DEFINE last == Len(lines) + 1
  <1>1. /\ Analyses(after) = Analyses(lines) \union {last} /\ after[last] = new
        /\ \A k \in DOMAIN lines : after[k] = lines[k]
        /\ Len(after) = last /\ after \in Seq(Line)
    BY DEF Grown
  <1>2. /\ Analyses(lines) \subseteq 1..Len(lines) /\ Len(lines) \in Nat /\ DOMAIN lines = 1..Len(lines)
        /\ last \in Nat /\ last \notin 1..Len(lines)
    BY LinesOf
  <1>u. \A id, before : before \in 1..last => Uses(after, id, before) = Uses(lines, id, before)
    BY NamedKept
  <1>g. \A p : Namings(after, p) = Namings(lines, p)
    BY NamingsAfter
  <1>p. \A p \in ProposalsIn(lines) : p[1] \in 1..Len(lines)
    BY ProposalIs
  <1> HIDE DEF last
  <1>3. ProposalsIn(after) = ProposalsIn(lines) \union ({last} \X DOMAIN new.proposals)
    BY <1>1, <1>2 DEF ProposalsIn
  <1>4. \A p \in ProposalsIn(lines) : DecisionIn(after, p) = DecisionIn(lines, p) /\ p[1] # last
    <2> SUFFICES ASSUME NEW p \in ProposalsIn(lines)
                 PROVE  DecisionIn(after, p) = DecisionIn(lines, p) /\ p[1] # last
      OBVIOUS
    <2>1. \A d, e \in Namings(lines, p) : d = e
      BY DEF Naming
    <2>2. Namings(after, p) = Namings(lines, p)
      BY <1>g
    <2>3. /\ Namings(lines, p) = {} <=> DecisionIn(lines, p) = "pending"
          /\ \A d \in Namings(lines, p) : DecisionIn(lines, p) = lines[d].action
      BY <2>1, DecisionIs
    <2>4. /\ Namings(after, p) = {} <=> DecisionIn(after, p) = "pending"
          /\ \A d \in Namings(after, p) : DecisionIn(after, p) = after[d].action
      BY <1>1, <2>1, <2>2, DecisionIs
    <2>5. \A d \in Namings(lines, p) : after[d] = lines[d]
      BY <1>1 DEF Namings
    <2> QED  BY <1>2, <1>p, <2>2, <2>3, <2>4, <2>5
  <1>5. \A p : p[1] = last => Namings(lines, p) = {}
    <2> SUFFICES ASSUME NEW p, p[1] = last, NEW d \in Namings(lines, p) PROVE FALSE
      OBVIOUS
    <2>1. d \in 1..Len(lines) /\ d \in Nat /\ lines[d].id \in Ids /\ NamedIn(lines, lines[d].id, d) = p
      BY LinesOf DEF Namings
    <2>2. p[1] \in 0..(d - 1)
      BY <1>2, <2>1, NamedIs
    <2> QED  BY <1>2, <2>1, <2>2 DEF last
  <1>6. \A p \in ProposalsIn(after) \ ProposalsIn(lines) : DecisionIn(after, p) = "pending"
    <2> SUFFICES ASSUME NEW p \in ProposalsIn(after) \ ProposalsIn(lines)
                 PROVE  DecisionIn(after, p) = "pending"
      OBVIOUS
    <2>1. p[1] = last
      BY <1>3
    <2> QED  BY <1>5, <1>g, <2>1 DEF DecisionIn
  <1>7. ASSUME NEW id \in Ids, NEW before \in 1..(Len(after) + 1), Uses(after, id, before) # {}
        PROVE  \E p \in Uses(after, id, before) : \A q \in Uses(after, id, before) : p[1] >= q[1]
    <2>1. CASE before \in 1..last
      BY <1>u, <1>7, <2>1 DEF Naming, last
    <2>2. CASE before = last + 1
      <3>0. \A q \in Uses(after, id, before) : q[1] \in 1..last
        BY <1>1, ProposalIs DEF Uses
      <3>1. CASE id \in DOMAIN new.proposals
        <4>1. <<last, id>> \in Uses(after, id, before)
          BY <1>2, <1>3, <2>2, <3>1 DEF Uses
        <4>2. \A q \in Uses(after, id, before) : <<last, id>>[1] >= q[1]
          BY <1>2, <3>0
        <4> QED  BY <4>1, <4>2
      <3>2. CASE id \notin DOMAIN new.proposals
        <4>1. Uses(after, id, before) = Uses(lines, id, last)
          BY <1>2, <1>3, <1>p, <2>2, <3>2 DEF Uses, last
        <4>2. last \in 1..(Len(lines) + 1)
          BY <1>2 DEF last
        <4> QED  BY <1>7, <4>1, <4>2 DEF Naming
      <3> QED  BY <3>1, <3>2
    <2>3. before \in 1..last \/ before = last + 1
      BY <1>1, <1>2
    <2> QED  BY <2>1, <2>2, <2>3
  <1>8. \A p \in ProposalsIn(after) : \A d, e \in Namings(after, p) : d = e
    <2> SUFFICES ASSUME NEW p \in ProposalsIn(after) PROVE \A d, e \in Namings(lines, p) : d = e
      BY <1>g
    <2>1. p \in ProposalsIn(lines) \/ p[1] = last
      BY <1>3
    <2> QED  BY <1>5, <2>1 DEF Naming
  <1>9. Naming(after)
    BY <1>7, <1>8 DEF Naming
  <1> QED  BY <1>3, <1>4, <1>6, <1>9 DEF last

\* A decision falls on the proposal its id means, and leaves the others alone.
LEMMA GrownByDecision ==
    ASSUME NEW lines \in Seq(Line), Naming(lines), NEW id \in Ids, NEW action \in {"accepted", "rejected"},
           NEW after, Grown(lines, Decision(id, action), after),
           DecisionIn(lines, NamedIn(lines, id, Len(lines) + 1)) = "pending"
    PROVE  LET p == NamedIn(lines, id, Len(lines) + 1)
           IN  /\ ProposalsIn(after) = ProposalsIn(lines)
               /\ p \in ProposalsIn(lines) => Naming(after) /\ DecisionIn(after, p) = action
               /\ \A q \in ProposalsIn(lines) \ {p} : DecisionIn(after, q) = DecisionIn(lines, q)
  <1> DEFINE last == Len(lines) + 1
             new == Decision(id, action)
             p == NamedIn(lines, id, last)
  <1>0. new \in Line /\ new.line = "decision" /\ new.id = id /\ new.action = action
    BY DecisionLine
  <1>2. /\ Analyses(lines) \subseteq 1..Len(lines) /\ Len(lines) \in Nat /\ DOMAIN lines = 1..Len(lines)
        /\ last \in Nat /\ last \notin 1..Len(lines) /\ last \in 1..(Len(lines) + 1)
    BY LinesOf
  <1>g. \A q : Namings(after, q) = IF q = p THEN Namings(lines, q) \union {last} ELSE Namings(lines, q)
    BY <1>0, NamingsAfter
  <1>u. \A i, before : before \in 1..last => Uses(after, i, before) = Uses(lines, i, before)
    BY <1>0, NamedKept
  <1>h. Grown(lines, new, after) /\ DecisionIn(lines, p) = "pending"
    OBVIOUS
  <1> HIDE DEF last, new, p
  <1>1. /\ Analyses(after) = Analyses(lines) /\ after[last] = new
        /\ \A k \in DOMAIN lines : after[k] = lines[k]
        /\ Len(after) = last /\ after \in Seq(Line)
    BY <1>0, <1>h DEF Grown, last
  <1>3. ProposalsIn(after) = ProposalsIn(lines)
    BY <1>1, <1>2 DEF ProposalsIn
  <1>p. \A q \in ProposalsIn(lines) : q[1] \in 1..Len(lines)
    BY ProposalIs
  <1>4. \A q \in ProposalsIn(lines) \ {p} : DecisionIn(after, q) = DecisionIn(lines, q)
    <2> SUFFICES ASSUME NEW q \in ProposalsIn(lines), q # p
                 PROVE  DecisionIn(after, q) = DecisionIn(lines, q)
      OBVIOUS
    <2>1. \A d, e \in Namings(lines, q) : d = e
      BY DEF Naming
    <2>2. Namings(after, q) = Namings(lines, q)
      BY <1>g
    <2>3. /\ Namings(lines, q) = {} <=> DecisionIn(lines, q) = "pending"
          /\ \A d \in Namings(lines, q) : DecisionIn(lines, q) = lines[d].action
      BY <2>1, DecisionIs
    <2>4. /\ Namings(after, q) = {} <=> DecisionIn(after, q) = "pending"
          /\ \A d \in Namings(after, q) : DecisionIn(after, q) = after[d].action
      BY <1>1, <2>1, <2>2, DecisionIs
    <2>5. \A d \in Namings(lines, q) : after[d] = lines[d]
      BY <1>1 DEF Namings
    <2> QED  BY <2>2, <2>3, <2>4, <2>5
  <1>5. ASSUME p \in ProposalsIn(lines) PROVE Naming(after) /\ DecisionIn(after, p) = action
    <2>1. \A d, e \in Namings(lines, p) : d = e
      BY <1>5 DEF Naming
    <2>2. Namings(lines, p) = {}
      BY <1>h, <2>1, DecisionIs
    <2>3. Namings(after, p) = {last}
      BY <1>g, <2>2
    <2>4. DecisionIn(after, p) = action
      BY <1>0, <1>1, <2>3, DecisionIs
    <2>5. \A q \in ProposalsIn(after) : \A d, e \in Namings(after, q) : d = e
      BY <1>3, <1>g, <2>3 DEF Naming
    <2>6. ASSUME NEW i \in Ids, NEW before \in 1..(Len(after) + 1), Uses(after, i, before) # {}
          PROVE  \E x \in Uses(after, i, before) : \A y \in Uses(after, i, before) : x[1] >= y[1]
      <3>1. CASE before \in 1..last
        BY <1>u, <2>6, <3>1 DEF Naming, last
      <3>2. CASE before = last + 1
        <4>1. Uses(after, i, before) = Uses(lines, i, last)
          BY <1>2, <1>3, <1>p, <3>2 DEF Uses, last
        <4> QED  BY <1>2, <2>6, <4>1 DEF Naming
      <3>3. before \in 1..last \/ before = last + 1
        BY <1>1, <1>2
      <3> QED  BY <3>1, <3>2, <3>3
    <2> QED  BY <2>4, <2>5, <2>6 DEF Naming
  <1> QED  BY <1>3, <1>4, <1>5 DEF last, p

-----------------------------------------------------------------------------
(* The thread implements the ledger. *)

Book(lines) == [p \in ProposalsIn(lines) |-> DecisionIn(lines, p)]

LEMMA FoldsAfter ==
    /\ Proposals' = ProposalsIn(thread')
    /\ \A p : DecisionOf(p)' = DecisionIn(thread', p)
  <1>1. (/\ Proposals = ProposalsIn(thread)
         /\ \A p : DecisionOf(p) = DecisionIn(thread, p))'
    BY FoldsOf, PTL
  <1> QED  BY <1>1

LEMMA BookOf ==
    /\ [p \in Proposals |-> DecisionOf(p)] = Book(thread)
    /\ [p \in Proposals |-> DecisionOf(p)]' = Book(thread')
  BY FoldsOf, FoldsAfter DEF Book

\* The proposal found for an id is one of the thread, or there is none of that name.
LEMMA Found ==
    ASSUME Booked, NEW id \in Ids
    PROVE  /\ FindProposal(id) = NamedIn(thread, id, Len(thread) + 1)
           /\ Open(id) => /\ FindProposal(id) \in ProposalsIn(thread)
                          /\ DecisionIn(thread, FindProposal(id)) = "pending"
  <1>1. FindProposal(id) = NamedIn(thread, id, Len(thread) + 1)
    BY FoldsOf DEF FindProposal
  <1>2. Len(thread) + 1 \in 1..(Len(thread) + 1)
    BY Lines DEF Booked
  <1>3. FindProposal(id)[1] # 0 => FindProposal(id) \in ProposalsIn(thread)
    BY <1>1, <1>2, NamedIs DEF Booked
  <1> QED  BY <1>1, <1>3, FoldsOf DEF Open

\* A decision on an open proposal, with the work it makes or without.
LEMMA DecideStep ==
    ASSUME Booked, NEW id \in Ids, NEW action \in {"accepted", "rejected"}, NEW count \in {0, 1},
           Open(id), Decide(id, action), made' = [made EXCEPT ![FindProposal(id)] = @ + count],
           UNCHANGED <<crashes, story>>
    PROVE  /\ Booked'
           /\ FindProposal(id) \in DOMAIN Book(thread) /\ Book(thread)[FindProposal(id)] = "pending"
           /\ Book(thread') = [Book(thread) EXCEPT ![FindProposal(id)] = action]
  <1> DEFINE p == FindProposal(id)
  <1>1. /\ p = NamedIn(thread, id, Len(thread) + 1)
        /\ p \in ProposalsIn(thread) /\ DecisionIn(thread, p) = "pending"
    BY Found
  <1>2. thread \in Seq(Line) /\ Naming(thread) /\ made \in [ProposalsIn(thread) -> Nat]
    BY DEF Booked
  <1>3. Grown(thread, Decision(id, action), thread')
    BY <1>2, DecisionLine, Appending DEF Decide
  <1>m. made' = [made EXCEPT ![p] = @ + count]
    OBVIOUS
  <1> HIDE DEF p
  <1>4. /\ ProposalsIn(thread') = ProposalsIn(thread)
        /\ Naming(thread') /\ DecisionIn(thread', p) = action
        /\ \A q \in ProposalsIn(thread) \ {p} : DecisionIn(thread', q) = DecisionIn(thread, q)
    BY <1>1, <1>2, <1>3, GrownByDecision
  <1>5. made' \in [ProposalsIn(thread) -> Nat] /\ made'[p] = made[p] + count
        /\ \A q \in ProposalsIn(thread) \ {p} : made'[q] = made[q]
    <2>1. made[p] + count \in Nat
      BY <1>1, <1>2
    <2>2. made' = [made EXCEPT ![p] = made[p] + count]
      BY <1>m
    <2> QED  BY <1>1, <1>2, <2>1, <2>2
  <1>6. crashes \in Nat
    BY TriageAssumption DEF Booked
  <1>7. ASSUME NEW q \in ProposalsIn(thread)
        PROVE  made'[q] <= crashes + (IF DecisionIn(thread', q) = "pending" THEN 0 ELSE 1)
    <2>1. made[q] <= crashes + (IF DecisionIn(thread, q) = "pending" THEN 0 ELSE 1) /\ made[q] \in Nat
      BY <1>2 DEF Booked
    <2>2. CASE q = p
      BY <1>1, <1>4, <1>5, <1>6, <2>1, <2>2
    <2>3. CASE q # p
      BY <1>4, <1>5, <2>1, <2>3
    <2> QED  BY <2>2, <2>3
  <1>8. Booked'
    BY <1>3, <1>4, <1>5, <1>7 DEF Booked, Grown
  <1>9. Book(thread') = [Book(thread) EXCEPT ![p] = action]
    BY <1>1, <1>4 DEF Book
  <1> QED  BY <1>1, <1>8, <1>9 DEF p, Book

LEMMA LedgerUnfolded ==
    /\ Ledger!Init <=> Book(thread) = <<>> /\ made = <<>> /\ crashes = 0
    /\ Ledger!Propose <=>
          /\ DOMAIN Book(thread) \subseteq DOMAIN Book(thread')
          /\ \A p \in DOMAIN Book(thread') :
                IF p \in DOMAIN Book(thread)
                THEN Book(thread')[p] = Book(thread)[p] /\ made'[p] = made[p]
                ELSE Book(thread')[p] = "pending" /\ made'[p] = 0
          /\ UNCHANGED crashes
    /\ \A p, count : Ledger!Accept(p, count) <=>
          /\ Book(thread)[p] = "pending"
          /\ Book(thread') = [Book(thread) EXCEPT ![p] = "accepted"]
          /\ made' = [made EXCEPT ![p] = @ + count]
          /\ UNCHANGED crashes
    /\ \A p : Ledger!Reject(p) <=>
          /\ Book(thread)[p] = "pending"
          /\ Book(thread') = [Book(thread) EXCEPT ![p] = "rejected"]
          /\ UNCHANGED <<made, crashes>>
    /\ \A p : Ledger!Crash(p) <=>
          /\ Book(thread)[p] = "pending"
          /\ made' = [made EXCEPT ![p] = @ + 1]
          /\ crashes' = crashes + 1
          /\ Book(thread') = Book(thread)
    /\ Ledger!Forget <=> Book(thread') = <<>> /\ made' = <<>> /\ UNCHANGED crashes
    /\ Ledger!Next <=>
          \/ Ledger!Propose \/ Ledger!Forget
          \/ \E p \in DOMAIN Book(thread) :
                (\E count \in {0, 1} : Ledger!Accept(p, count)) \/ Ledger!Reject(p) \/ Ledger!Crash(p)
  <1>1. Ledger!Init <=> Book(thread) = <<>> /\ made = <<>> /\ crashes = 0
    BY BookOf DEF Ledger!Init
  <1>2. Ledger!Propose <=>
          /\ DOMAIN Book(thread) \subseteq DOMAIN Book(thread')
          /\ \A p \in DOMAIN Book(thread') :
                IF p \in DOMAIN Book(thread)
                THEN Book(thread')[p] = Book(thread)[p] /\ made'[p] = made[p]
                ELSE Book(thread')[p] = "pending" /\ made'[p] = 0
          /\ UNCHANGED crashes
    BY BookOf DEF Ledger!Propose
  <1>3. \A p, count : Ledger!Accept(p, count) <=>
          /\ Book(thread)[p] = "pending"
          /\ Book(thread') = [Book(thread) EXCEPT ![p] = "accepted"]
          /\ made' = [made EXCEPT ![p] = @ + count]
          /\ UNCHANGED crashes
    BY BookOf DEF Ledger!Accept
  <1>4. \A p : Ledger!Reject(p) <=>
          /\ Book(thread)[p] = "pending"
          /\ Book(thread') = [Book(thread) EXCEPT ![p] = "rejected"]
          /\ UNCHANGED <<made, crashes>>
    BY BookOf DEF Ledger!Reject
  <1>5. \A p : Ledger!Crash(p) <=>
          /\ Book(thread)[p] = "pending"
          /\ made' = [made EXCEPT ![p] = @ + 1]
          /\ crashes' = crashes + 1
          /\ Book(thread') = Book(thread)
    BY BookOf DEF Ledger!Crash
  <1>6. Ledger!Forget <=> Book(thread') = <<>> /\ made' = <<>> /\ UNCHANGED crashes
    BY BookOf DEF Ledger!Forget
  <1>7. Ledger!Next <=>
          \/ Ledger!Propose \/ Ledger!Forget
          \/ \E p \in DOMAIN Book(thread) :
                (\E count \in {0, 1} : Ledger!Accept(p, count)) \/ Ledger!Reject(p) \/ Ledger!Crash(p)
    BY BookOf DEF Ledger!Next
  <1> QED  BY <1>1, <1>2, <1>3, <1>4, <1>5, <1>6, <1>7

LEMMA BookedInit == Init => Booked /\ Ledger!Init
  <1> SUFFICES ASSUME Init PROVE Booked /\ Ledger!Init
    OBVIOUS
  <1>1. thread = <<>> /\ made = <<>> /\ crashes = 0 /\ story = TRUE
    BY DEF Init, ThreadInit
  <1>2. Analyses(thread) = {} /\ ProposalsIn(thread) = {}
    BY <1>1 DEF Analyses, ProposalsIn
  <1>3. Naming(thread)
    BY <1>2 DEF Naming, Uses
  <1>4. Book(thread) = <<>>
    BY <1>2 DEF Book
  <1> QED  BY <1>1, <1>2, <1>3, <1>4, TriageAssumption, LedgerUnfolded DEF Booked

LEMMA ProposeStep ==
    ASSUME Booked, NoteTypeOK, NEW m \in Teammates, ProposeWork(m)
    PROVE  Booked' /\ Ledger!Propose
  <1>1. PICK outcome \in Outcomes, S \in SUBSET Ids : \E proposals \in [S -> Kinds] :
           AddAnalysis(doing[m].read, outcome, proposals)
    BY DEF ProposeWork
  <1>2. PICK proposals \in [S -> Kinds] : AddAnalysis(doing[m].read, outcome, proposals)
    BY <1>1
  <1> DEFINE new == Analysis(outcome, doing[m].read, proposals)
             last == Len(thread) + 1
  <1>3. thread \in Seq(Line) /\ Naming(thread) /\ made \in [ProposalsIn(thread) -> Nat]
    BY DEF Booked
  <1>4. new \in Line /\ new.line = "analysis" /\ new.proposals = proposals
    BY AnalysisLine DEF NoteTypeOK
  <1>5. /\ thread' = Append(thread, new) /\ UNCHANGED <<crashes, story>>
        /\ made' = [p \in Proposals \union ({last} \X DOMAIN proposals) |->
                       IF p \in Proposals THEN made[p] ELSE 0]
    BY <1>2 DEF AddAnalysis
  <1> HIDE DEF new, last
  <1>6. Grown(thread, new, thread')
    BY <1>3, <1>4, <1>5, Appending
  <1>7. /\ ProposalsIn(thread') = ProposalsIn(thread) \union ({last} \X DOMAIN proposals)
        /\ Naming(thread')
        /\ \A p \in ProposalsIn(thread) : DecisionIn(thread', p) = DecisionIn(thread, p)
        /\ \A p \in ProposalsIn(thread') \ ProposalsIn(thread) : DecisionIn(thread', p) = "pending"
    BY <1>3, <1>4, <1>6, GrownByAnalysis DEF last
  <1>8. made' = [p \in ProposalsIn(thread') |-> IF p \in ProposalsIn(thread) THEN made[p] ELSE 0]
    BY <1>5, <1>7, FoldsOf
  <1>9. made' \in [ProposalsIn(thread') -> Nat]
    BY <1>3, <1>8
  <1>10. \A p \in ProposalsIn(thread') :
            made'[p] <= crashes' + (IF DecisionIn(thread', p) = "pending" THEN 0 ELSE 1)
    <2> SUFFICES ASSUME NEW p \in ProposalsIn(thread')
                 PROVE  made'[p] <= crashes' + (IF DecisionIn(thread', p) = "pending" THEN 0 ELSE 1)
      OBVIOUS
    <2>1. crashes' = crashes /\ crashes \in Nat
      BY <1>5, TriageAssumption DEF Booked
    <2>2. CASE p \in ProposalsIn(thread)
      BY <1>7, <1>8, <2>1, <2>2 DEF Booked
    <2>3. CASE p \notin ProposalsIn(thread)
      BY <1>7, <1>8, <2>1, <2>3
    <2> QED  BY <2>2, <2>3
  <1>11. Booked'
    BY <1>5, <1>6, <1>7, <1>9, <1>10 DEF Booked, Grown
  <1>12. Ledger!Propose
    BY <1>5, <1>7, <1>8, LedgerUnfolded DEF Book
  <1> QED  BY <1>11, <1>12

LEMMA DecidesStep ==
    ASSUME Booked, Decides
    PROVE  Booked' /\ (Ledger!Next \/ UNCHANGED <<Book(thread), made, crashes>>)
  <1>d. DOMAIN Book(thread) = ProposalsIn(thread)
    BY DEF Book
  <1>m. made \in [ProposalsIn(thread) -> Nat]
    BY DEF Booked
  <1>1. ASSUME NEW id \in Ids, AcceptProposal(id) PROVE Booked' /\ Ledger!Next
    <2>1. /\ Open(id) /\ Decide(id, "accepted") /\ UNCHANGED <<crashes, story>>
          /\ made' = [made EXCEPT ![FindProposal(id)] = @ + 1]
      BY <1>1 DEF AcceptProposal, CreateWork
    <2>2. /\ Booked' /\ FindProposal(id) \in DOMAIN Book(thread)
          /\ Ledger!Accept(FindProposal(id), 1)
      BY <2>1, DecideStep, LedgerUnfolded
    <2> QED  BY <2>2, LedgerUnfolded
  <1>2. ASSUME NEW id \in Ids, NEW action \in {"accepted", "rejected"}, Open(id), Decide(id, action),
               UNCHANGED <<made, crashes, story>>
        PROVE  Booked' /\ Ledger!Next
    <2>1. made' = [made EXCEPT ![FindProposal(id)] = @ + 0]
      <3>1. FindProposal(id) \in ProposalsIn(thread)
        BY <1>2, Found
      <3>2. made[FindProposal(id)] + 0 = made[FindProposal(id)]
        BY <1>m, <3>1
      <3> QED  BY <1>2, <1>m, <3>1, <3>2
    <2>2. /\ Booked' /\ FindProposal(id) \in DOMAIN Book(thread)
          /\ Book(thread)[FindProposal(id)] = "pending"
          /\ Book(thread') = [Book(thread) EXCEPT ![FindProposal(id)] = action]
      BY <1>2, <2>1, DecideStep
    <2>3. CASE action = "accepted"
      <3>1. Ledger!Accept(FindProposal(id), 0)
        BY <1>2, <2>1, <2>2, <2>3, LedgerUnfolded
      <3> QED  BY <2>2, <3>1, LedgerUnfolded
    <2>4. CASE action = "rejected"
      <3> DEFINE p == FindProposal(id)
      <3>0. /\ Book(thread)[p] = "pending" /\ Book(thread') = [Book(thread) EXCEPT ![p] = "rejected"]
            /\ UNCHANGED <<made, crashes>>
        BY <1>2, <2>2, <2>4
      <3> HIDE DEF p
      <3>p. Ledger!Reject(p)
        BY <3>0, LedgerUnfolded
      <3>1. Ledger!Reject(FindProposal(id))
        BY <3>p DEF p
      <3> QED  BY <2>2, <3>1, LedgerUnfolded
    <2> QED  BY <2>3, <2>4
  <1>3. ASSUME NEW id \in Ids, AcceptCut(id) PROVE Booked' /\ Ledger!Next
    <2> DEFINE p == FindProposal(id)
    <2>1. /\ Open(id) /\ crashes < MaxCrashes /\ crashes' = crashes + 1 /\ UNCHANGED <<thread, story>>
          /\ made' = [made EXCEPT ![p] = @ + 1]
      BY <1>3 DEF AcceptCut, CreateWork
    <2>2. p \in ProposalsIn(thread) /\ DecisionIn(thread, p) = "pending"
      BY <2>1, Found
    <2>n. crashes \in Nat /\ crashes' \in 0..MaxCrashes
      BY <2>1, TriageAssumption DEF Booked
    <2> HIDE DEF p
    <2>3. made' \in [ProposalsIn(thread) -> Nat] /\ made'[p] = made[p] + 1
          /\ \A q \in ProposalsIn(thread) \ {p} : made'[q] = made[q]
      <3>1. made[p] + 1 \in Nat
        BY <1>m, <2>2
      <3> QED  BY <1>m, <2>1, <2>2, <3>1
    <2>4. ASSUME NEW q \in ProposalsIn(thread)
          PROVE  made'[q] <= crashes' + (IF DecisionIn(thread, q) = "pending" THEN 0 ELSE 1)
      <3>1. made[q] \in Nat /\ made[q] <= crashes + (IF DecisionIn(thread, q) = "pending" THEN 0 ELSE 1)
        BY <1>m DEF Booked
      <3>2. CASE q = p
        BY <2>1, <2>2, <2>3, <2>n, <3>1, <3>2
      <3>3. CASE q # p
        BY <2>1, <2>3, <2>n, <3>1, <3>3
      <3> QED  BY <3>2, <3>3
    <2>5. Booked'
      BY <2>1, <2>3, <2>4, <2>n DEF Booked
    <2>6. Ledger!Crash(p)
      BY <2>1, <2>2, LedgerUnfolded DEF Book
    <2> QED  BY <1>d, <2>2, <2>5, <2>6, LedgerUnfolded
  <1>4. CASE StoryChanges
    BY <1>4 DEF StoryChanges, Booked
  <1> QED  BY <1>1, <1>2, <1>3, <1>4 DEF Decides, AcceptExisting, RejectProposal

LEMMA ForgetStep ==
    ASSUME Booked, DropThread
    PROVE  Booked' /\ Ledger!Next
  <1>1. thread' = <<>> /\ made' = <<>> /\ UNCHANGED <<crashes, story>>
    BY DEF DropThread
  <1>2. thread' \in Seq(Line) /\ Analyses(thread') = {} /\ ProposalsIn(thread') = {}
    BY <1>1 DEF Analyses, ProposalsIn
  <1>3. Naming(thread')
    BY <1>2 DEF Naming, Uses
  <1>4. Book(thread') = <<>>
    BY <1>2 DEF Book
  <1>5. Booked'
    BY <1>1, <1>2, <1>3 DEF Booked
  <1> QED  BY <1>1, <1>4, <1>5, LedgerUnfolded

LEMMA BookedStep ==
    ASSUME Booked, NoteTypeOK, [Next]_vars
    PROVE  Booked' /\ (Ledger!Next \/ UNCHANGED <<Book(thread), made, crashes>>)
  <1>1. CASE UNCHANGED threadVars
    BY <1>1 DEF threadVars, Booked
  <1>2. ASSUME NEW m \in Teammates, ProposeWork(m) PROVE Booked' /\ Ledger!Next
    BY <1>2, ProposeStep, LedgerUnfolded
  <1>3. CASE Decides
    BY <1>3, DecidesStep
  <1>4. CASE DeleteThought
    BY <1>4, ForgetStep DEF DeleteThought
  <1>5. CASE \/ Sweep \/ TriageNow \/ QuietPasses \/ Edit \/ RestoreThought \/ ArchiveThought
             \/ TakeFromQueue \/ UNCHANGED vars
             \/ \E status \in {"active", "archived"} : PatchStatus(status) \/ ArchiveContainer(status)
             \/ \E m \in Teammates : \/ Claim(m) \/ Reap(m) \/ Heard(m)
                                     \/ End(m) \/ SessionError(m) \/ Crash(m)
    BY <1>1, <1>5
    DEF Sweep, TriageNow, QuietPasses, Edit, RestoreThought, ArchiveThought, TakeFromQueue,
        PatchStatus, ArchiveContainer, Claim, Reap, Heard, SetState, End, SessionError, Crash, EndRun, vars
  <1> QED  BY <1>2, <1>3, <1>4, <1>5 DEF Next, Event

LEMMA BookedHolds == Spec => [](NoteInv /\ Booked)
  <1>1. Init => NoteInv /\ Booked
    BY NoteInit, BookedInit
  <1>2. NoteInv /\ Booked /\ [Next]_vars => (NoteInv /\ Booked)'
    BY NoteStep, BookedStep DEF NoteInv
  <1> QED  BY <1>1, <1>2, PTL DEF Spec

\* Types; who owns the item is the one in whose hands it is, and what is in flight has a
\* container, of a note that is there; work is made once for each proposal and once more
\* for a crash (acceptProposal).
THEOREM TypeCorrect == Spec => []TypeOK
  <1>1. NoteInv /\ Booked => TypeOK
    <2> SUFFICES ASSUME NoteInv, Booked PROVE ThreadTypeOK
      BY DEF NoteInv, TypeOK
    <2>1. ASSUME NEW p \in ProposalsIn(thread) PROVE made[p] \in 0..(1 + MaxCrashes)
      BY TriageAssumption DEF Booked
    <2> QED  BY <2>1, FoldsOf DEF Booked, ThreadTypeOK
  <1> QED  BY <1>1, BookedHolds, PTL

\* The folded thread keeps the promises of the ledger: a decision falls on the proposal
\* whose work was made, once and for good, however ids are reused (foldProposals,
\* findProposal, acceptProposal, rejectProposal).
THEOREM ThreadImplementsLedger == Spec => ImplementsLedger
  <1>1. Init => Ledger!Init
    BY BookedInit
  <1>2. NoteInv /\ Booked /\ [Next]_vars
          => [Ledger!Next]_<<[p \in Proposals |-> DecisionOf(p)], made, crashes>>
    <2> SUFFICES ASSUME NoteInv, Booked, [Next]_vars
                 PROVE  Ledger!Next \/ UNCHANGED <<[p \in Proposals |-> DecisionOf(p)], made, crashes>>
      OBVIOUS
    <2>1. Ledger!Next \/ UNCHANGED <<Book(thread), made, crashes>>
      BY BookedStep DEF NoteInv
    <2> QED  BY <2>1, BookOf
  <1>3. Spec => Ledger!Init /\ [][Ledger!Next]_<<[p \in Proposals |-> DecisionOf(p)], made, crashes>>
    BY <1>1, <1>2, BookedHolds, PTL DEF Spec
  <1> QED  BY <1>3, PTL DEF ImplementsLedger, Ledger!Spec

=============================================================================
