------------------------- MODULE StoryBoard_proofs -------------------------
(***************************************************************************)
(* What TLAPS proves of the story board, for any stories, workflows and    *)
(* requests.                                                               *)
(*                                                                         *)
(* A task's rows number at most one because everything that enqueues looks *)
(* first; that is a property of the values the policy operators return, so *)
(* the proof goes operator by operator: each maps a good board to a good   *)
(* board, and each action is a composition of them.                        *)
(*                                                                         *)
(* What a step may do to the positions is proved of a step's two parts:    *)
(* every action edits the board and then admits (BoardStep).  An admission *)
(* only pulls tasks in, each in its turn, and what it pulled in the next   *)
(* one leaves alone (Pulled); so the edit alone decides the rest (Edit),   *)
(* and every story it stirred has been asked (Settled).                    *)
(***************************************************************************)
EXTENDS StoryBoard, FiniteSetTheorems, SequenceTheorems, TLAPS

Rows == {q \in Seq(ItemRow) : Len(q) <= 1}

Boards == [story: [Stories -> StoryRow], task: [Tasks -> TaskRow], items: [Tasks -> Rows]]

-----------------------------------------------------------------------------
(* Rows.                                                                   *)

LEMMA FreshRows ==
    ASSUME NEW def, NEW p \in Positions
    PROVE  EnqueueFor(<< >>, def, p) \in Rows
  <1>1. FreshRow(p) \in ItemRow  BY DEF FreshRow, ItemRow, ActiveStates
  <1>2. << >> \in Seq(ItemRow) /\ Len(<< >>) = 0  OBVIOUS
  <1>3. Append(<< >>, FreshRow(p)) \in Seq(ItemRow) /\ Len(Append(<< >>, FreshRow(p))) = 1
    BY <1>1, <1>2
  <1> QED  BY <1>2, <1>3 DEF EnqueueFor, Rows

LEMMA WithdrawRows ==
    ASSUME NEW q \in Rows
    PROVE  Withdraw(q) = << >>
  <1>1. CASE q = << >>  BY <1>1 DEF Withdraw
  <1>2. CASE q # << >>
    <2>1. Len(q) \in Nat \ {0} /\ Len(q) <= 1  BY <1>2, EmptySeq DEF Rows
    <2>2. Tail(q) = << >>  BY <1>2, <2>1, HeadTailProperties, EmptySeq DEF Rows
    <2> QED  BY <1>2, <2>2 DEF Withdraw
  <1> QED  BY <1>1, <1>2

LEMMA WithoutRows ==
    ASSUME NEW q \in Rows, NEW k \in DOMAIN q
    PROVE  Without(q, k) = << >>
  <1>0. q \in Seq(ItemRow) /\ Len(q) <= 1  BY DEF Rows
  <1>1. Len(q) \in Nat /\ DOMAIN q = 1 .. Len(q)  BY <1>0, LenProperties
  <1>2. Len(q) = 1 /\ k = 1  BY <1>0, <1>1
  <1>3. SubSeq(q, 1, 0) = << >> /\ SubSeq(q, 2, 1) = << >>
    BY <1>0, SubSeqEmpty
  <1>4. << >> \o << >> = << >>  OBVIOUS
  <1> QED  BY <1>2, <1>3, <1>4 DEF Without, SX!RemoveAt

LEMMA LandedRows ==
    ASSUME NEW b \in Boards, NEW t \in Tasks, NEW p \in Positions, NEW keep
    PROVE  Landed(b, t, p, keep) \in Rows
  <1> DEFINE q == IF keep \/ b.task[t].pos = p THEN b.items[t] ELSE Withdraw(b.items[t])
  <1>0. b.items[t] \in Rows  BY DEF Boards
  <1>1. << >> \in Rows  BY DEF Rows
  <1>2. q \in Rows  BY <1>0, <1>1, WithdrawRows
  <1>3. EnqueueFor(<< >>, b.task[t].def, p) \in Rows  BY FreshRows
  <1> HIDE DEF q
  <1>4. (IF IsAgent(b, t[1], p) /\ q = << >> THEN EnqueueFor(q, b.task[t].def, p) ELSE q) \in Rows
    BY <1>2, <1>3
  <1> QED  BY <1>4 DEF Landed, q
-----------------------------------------------------------------------------
(* Positions.                                                              *)

LEMMA FlowPositions ==
    ASSUME NEW b \in Boards, NEW s \in Stories
    PROVE  /\ b.story[s] \in StoryRow
           /\ Flow(b, s) \in Seq([name: STRING, type: {"agent", "manual"}])
           /\ \A k \in DOMAIN Flow(b, s) : Flow(b, s)[k].name \in Positions
  <1>1. b.story[s] \in StoryRow  BY DEF Boards
  <1>2. b.story[s].workflow \in Workflows  BY <1>1 DEF StoryRow
  <1>3. Flow(b, s) \in Seq([name: STRING, type: {"agent", "manual"}])
    BY <1>2, StatesAssumption DEF Flow
  <1>4. \A k \in DOMAIN Flow(b, s) : Flow(b, s)[k].name \in Positions
    BY <1>2 DEF Flow, Positions
  <1> QED  BY <1>1, <1>3, <1>4

LEMMA BucketPositions == {"todo", "done"} \subseteq Positions
  BY DEF Positions, Buckets

LEMMA NextStatePosition ==
    ASSUME NEW b \in Boards, NEW s \in Stories, NEW p
    PROVE  NextState(b, s, p) \in Positions
  <1> DEFINE ahead == {k \in DOMAIN Flow(b, s) : k > 1 /\ Flow(b, s)[k - 1].name = p}
  <1>1. CASE ahead = {}  BY <1>1, BucketPositions DEF NextState
  <1>2. CASE ahead # {}
    <2>1. (CHOOSE k \in ahead : TRUE) \in DOMAIN Flow(b, s)  BY <1>2
    <2>2. NextState(b, s, p) = Flow(b, s)[CHOOSE k \in ahead : TRUE].name
      BY <1>2 DEF NextState
    <2> QED  BY <2>1, <2>2, FlowPositions
  <1> QED  BY <1>1, <1>2

-----------------------------------------------------------------------------
(* Policy operators: good boards to good boards.                           *)

LEMMA PlaceBoards ==
    ASSUME NEW b \in Boards, NEW at, NEW keep,
           \A t \in Tasks \intersect DOMAIN at : at[t] \in Positions
    PROVE  Place(b, at, keep) \in Boards /\ Place(b, at, keep).story = b.story
  <1> DEFINE tasks == [t \in Tasks |->
                          IF t \in DOMAIN at THEN [b.task[t] EXCEPT !.pos = at[t]] ELSE b.task[t]]
             rows == [t \in Tasks |->
                          IF t \in DOMAIN at THEN Landed(b, t, at[t], keep) ELSE b.items[t]]
  <1>1. tasks \in [Tasks -> TaskRow]
    <2> SUFFICES ASSUME NEW t \in Tasks PROVE tasks[t] \in TaskRow  OBVIOUS
    <2>1. b.task[t] \in TaskRow  BY DEF Boards
    <2> QED  BY <2>1 DEF TaskRow
  <1>2. rows \in [Tasks -> Rows]
    <2> SUFFICES ASSUME NEW t \in Tasks PROVE rows[t] \in Rows  OBVIOUS
    <2>1. b.items[t] \in Rows  BY DEF Boards
    <2> QED  BY <2>1, LandedRows
  <1> HIDE DEF tasks, rows
  <1>3. [b EXCEPT !.task = tasks, !.items = rows] \in Boards
    BY <1>1, <1>2 DEF Boards
  <1>4. [b EXCEPT !.task = tasks, !.items = rows].story = b.story  BY DEF Boards
  <1> QED  BY <1>3, <1>4 DEF Place, tasks, rows

LEMMA AdmittedOwn ==
    ASSUME NEW b \in Boards, NEW s \in Stories, NEW X, NEW t \in Admitted(b, s, X)
    PROVE  t \in Tasks /\ t[1] = s /\ 1 \in DOMAIN Flow(b, s)
  <1>1. t \in NextInLine(b, s, X) /\ Flow(b, s) # << >>  BY DEF Admitted
  <1>2. t \in {s} \X (1 .. MaxSeq)  BY <1>1 DEF NextInLine, TasksOf
  <1>3. Len(Flow(b, s)) \in Nat \ {0} /\ DOMAIN Flow(b, s) = 1 .. Len(Flow(b, s))
    BY <1>1, FlowPositions, EmptySeq, LenProperties
  <1> QED  BY <1>2, <1>3 DEF Tasks

LEMMA AdmitBoards ==
    ASSUME NEW b \in Boards, NEW S \in SUBSET Stories, NEW X
    PROVE  Admit(b, S, X) \in Boards /\ Admit(b, S, X).story = b.story
  <1> DEFINE at == [t \in UNION {Admitted(b, s, X) : s \in S} |-> Flow(b, t[1])[1].name]
  <1>1. \A t \in Tasks \intersect DOMAIN at : at[t] \in Positions
    <2> SUFFICES ASSUME NEW s \in S, NEW t \in Admitted(b, s, X)
                 PROVE  Flow(b, t[1])[1].name \in Positions
      OBVIOUS
    <2>1. t[1] = s /\ 1 \in DOMAIN Flow(b, s)  BY AdmittedOwn
    <2> QED  BY <2>1, FlowPositions
  <1> HIDE DEF at
  <1>2. Place(b, at, FALSE) \in Boards /\ Place(b, at, FALSE).story = b.story
    BY <1>1, PlaceBoards
  <1> QED  BY <1>2 DEF Admit, at

LEMMA AdmitDependentsBoards ==
    ASSUME NEW b \in Boards, NEW s \in Stories
    PROVE  AdmitDependents(b, s) \in Boards /\ AdmitDependents(b, s).story = b.story
  BY AdmitBoards DEF AdmitDependents

LEMMA SetStoryStatusBoards ==
    ASSUME NEW b \in Boards, NEW s \in Stories, NEW status \in {"open", "done"}
    PROVE  SetStoryStatus(b, s, status) \in Boards
  <1> DEFINE c == [b EXCEPT !.story[s].status = status]
  <1>1. [b.story[s] EXCEPT !.status = status] \in StoryRow  BY FlowPositions DEF StoryRow
  <1>2. c \in Boards  BY <1>1 DEF Boards
  <1> QED  BY <1>2, AdmitDependentsBoards DEF SetStoryStatus

LEMMA SetPositionBoards ==
    ASSUME NEW b \in Boards, NEW t \in Tasks, NEW p \in Positions, NEW keep
    PROVE  SetPosition(b, t, p, keep) \in Boards
  <1> DEFINE c == Place(b, [u \in {t} |-> p], keep)
  <1>1. t[1] \in Stories  BY DEF Tasks
  <1>2. c \in Boards  BY PlaceBoards
  <1> HIDE DEF c
  <1>3. SetStoryStatus(c, t[1], "done") \in Boards /\ SetStoryStatus(c, t[1], "open") \in Boards
    BY <1>1, <1>2, SetStoryStatusBoards
  <1> QED  BY <1>2, <1>3 DEF SetPosition, c

LEMMA AdvanceBoards ==
    ASSUME NEW b \in Boards, NEW t \in Tasks
    PROVE  Advance(b, t) \in Boards
  <1>1. t[1] \in Stories  BY DEF Tasks
  <1>2. NextState(b, t[1], b.task[t].pos) \in Positions  BY <1>1, NextStatePosition
  <1>3. SetPosition(b, t, NextState(b, t[1], b.task[t].pos), TRUE) \in Boards
    BY <1>2, SetPositionBoards
  <1> QED  BY <1>1, <1>3, AdmitBoards DEF Advance

-----------------------------------------------------------------------------
(* The invariant, action by action.                                        *)

BoardInv == board \in Boards /\ assigned \subseteq Tasks

LEMMA BoardParts ==
    board \in Boards <=> /\ story \in [Stories -> StoryRow]
                         /\ task \in [Tasks -> TaskRow]
                         /\ items \in [Tasks -> Rows]
  BY DEF board, Boards

LEMMA NewTaskTyped ==
    ASSUME NEW place \in 0 .. MaxSeq, NEW seq \in 0 .. MaxSeq, NEW pending
    PROVE  NewTask(place, seq, pending) \in TaskRow /\ NoTask \in TaskRow
  BY MaxSeqAssumption, BucketPositions DEF NewTask, NoTask, TaskRow

\* What an action that goes through the policy leaves behind.
LEMMA BecomesBoards ==
    ASSUME NEW b \in Boards, Becomes(b)
    PROVE  board' \in Boards
  BY DEF Becomes, board, Boards

LEMMA InitBoards == Init => BoardInv
  <1> SUFFICES ASSUME Init PROVE BoardInv  OBVIOUS
  <1>1. NoTask \in TaskRow  BY NewTaskTyped, MaxSeqAssumption
  <1>2. << >> \in Rows  BY DEF Rows
  <1>3. \A s \in Stories : NoStory(s) \in StoryRow  BY StoriesAssumption DEF NoStory, StoryRow
  <1> QED  BY <1>1, <1>2, <1>3, BoardParts DEF Init, BoardInv

LEMMA CreateStoryBoards ==
    ASSUME BoardInv, NEW s \in Stories, NEW status \in {"open", "done"}, NEW n \in 0 .. MaxSeq,
           NEW P, NEW pending \in BOOLEAN, CreateStory(s, status, n, P, pending)
    PROVE  BoardInv'
  <1> DEFINE row == [status |-> status, pending |-> pending, deps |-> Requires[s], workflow |-> Starts[s]]
             tasks == [t \in Tasks |-> IF t[1] = s /\ t[2] <= n
                                       THEN NewTask(t[2], t[2], t[2] \in P) ELSE task[t]]
             b == [board EXCEPT !.story[s] = row, !.task = tasks]
  <1>1. row \in StoryRow  BY StoriesAssumption DEF StoryRow
  <1>2. tasks \in [Tasks -> TaskRow]
    <2> SUFFICES ASSUME NEW t \in Tasks PROVE tasks[t] \in TaskRow  OBVIOUS
    <2>1. t[2] \in 0 .. MaxSeq  BY MaxSeqAssumption DEF Tasks
    <2>2. task[t] \in TaskRow  BY BoardParts DEF BoardInv
    <2> QED  BY <2>1, <2>2, NewTaskTyped
  <1> HIDE DEF row, tasks
  <1>3. b \in Boards  BY <1>1, <1>2 DEF BoardInv, Boards
  <1>4. Admit(b, {s}, {}) \in Boards  BY <1>3, AdmitBoards
  <1>5. Becomes(Admit(b, {s}, {})) /\ assigned' = assigned  BY DEF CreateStory, row, tasks
  <1> QED  BY <1>4, <1>5, BecomesBoards DEF BoardInv

LEMMA AddTaskBoards ==
    ASSUME BoardInv, NEW s \in Stories, NEW pending \in BOOLEAN, AddTask(s, pending)
    PROVE  BoardInv'
  <1>1. PICK n \in 1 .. MaxSeq, m \in 1 .. MaxSeq :
            Becomes(Admit([board EXCEPT !.task[<<s, n>>] = NewTask(m, n, pending)], {s}, {}))
    BY DEF AddTask
  <1> DEFINE b == [board EXCEPT !.task[<<s, n>>] = NewTask(m, n, pending)]
  <1>2. NewTask(m, n, pending) \in TaskRow  BY NewTaskTyped, MaxSeqAssumption
  <1>3. b \in Boards  BY <1>2 DEF BoardInv, Boards
  <1>4. Admit(b, {s}, {}) \in Boards  BY <1>3, AdmitBoards
  <1> QED  BY <1>1, <1>4, BecomesBoards DEF AddTask, BoardInv

LEMMA MoveTaskBoards ==
    ASSUME BoardInv, NEW t \in Tasks, NEW p \in Positions, MoveTask(t, p)
    PROVE  BoardInv'
  <1>1. t[1] \in Stories  BY DEF Tasks
  <1>2. SetPosition(board, t, p, FALSE) \in Boards  BY SetPositionBoards DEF BoardInv
  <1>3. Admit(SetPosition(board, t, p, FALSE), {t[1]}, {t}) \in Boards
    BY <1>1, <1>2, AdmitBoards
  <1> QED  BY <1>3, BecomesBoards DEF MoveTask, BoardInv

LEMMA DeleteTaskBoards ==
    ASSUME BoardInv, NEW t \in Tasks, DeleteTask(t)
    PROVE  BoardInv'
  <1> DEFINE tasks == [u \in Tasks |->
                         IF u = t THEN NoTask
                         ELSE IF u[1] = t[1] /\ task[u].place > task[t].place
                         THEN [task[u] EXCEPT !.place = task[u].place - 1] ELSE task[u]]
             b == [board EXCEPT !.task = tasks, !.items[t] = Withdraw(items[t])]
  <1>1. t[1] \in Stories  BY DEF Tasks
  <1>2. tasks \in [Tasks -> TaskRow]
    <2> SUFFICES ASSUME NEW u \in Tasks PROVE tasks[u] \in TaskRow  OBVIOUS
    <2>1. NoTask \in TaskRow  BY NewTaskTyped, MaxSeqAssumption
    <2>2. task[u] \in TaskRow /\ task[t] \in TaskRow  BY BoardParts DEF BoardInv
    <2>3. task[u].place > task[t].place => task[u].place - 1 \in 0 .. MaxSeq
      BY <2>2, MaxSeqAssumption DEF TaskRow
    <2> QED  BY <2>1, <2>2, <2>3 DEF TaskRow
  <1>3. Withdraw(items[t]) \in Rows
    <2>1. items[t] \in Rows /\ << >> \in Rows  BY BoardParts DEF BoardInv, Rows
    <2> QED  BY <2>1, WithdrawRows
  <1> HIDE DEF tasks
  <1>4. b \in Boards  BY <1>2, <1>3 DEF BoardInv, Boards
  <1>5. Admit(b, {t[1]}, {}) \in Boards  BY <1>1, <1>4, AdmitBoards
  <1>6. Becomes(Admit(b, {t[1]}, {})) /\ assigned' = assigned \ {t}  BY DEF DeleteTask, tasks
  <1> QED  BY <1>5, <1>6, BecomesBoards DEF BoardInv

LEMMA ReorderTasksBoards ==
    ASSUME BoardInv, NEW s \in Stories, NEW place \in Orders(TasksOf(board, s)),
           ReorderTasks(s, place)
    PROVE  BoardInv'
  <1>1. task' \in [Tasks -> TaskRow]
    <2> SUFFICES ASSUME NEW t \in Tasks PROVE task'[t] \in TaskRow  BY DEF ReorderTasks
    <2>1. task[t] \in TaskRow  BY BoardParts DEF BoardInv
    <2>2. t \in TasksOf(board, s) => place[t] \in 0 .. MaxSeq  BY MaxSeqAssumption DEF Orders
    <2> QED  BY <2>1, <2>2 DEF ReorderTasks, TaskRow
  <1> QED  BY <1>1 DEF ReorderTasks, BoardInv, board, Boards

LEMMA UpdateStoryBoards ==
    ASSUME BoardInv, NEW s \in Stories, NEW status \in {"open", "done"}, NEW pending \in BOOLEAN,
           NEW deps \in SUBSET Stories, NEW w \in Workflows,
           UpdateStory(s, status, pending, deps, w)
    PROVE  BoardInv'
  <1> DEFINE row == [status |-> status, pending |-> pending, deps |-> deps, workflow |-> w]
             b == [board EXCEPT !.story[s] = row]
             c == Admit(b, {s}, {})
  <1>1. row \in StoryRow  BY DEF StoryRow
  <1> HIDE DEF row
  <1>2. b \in Boards  BY <1>1 DEF BoardInv, Boards
  <1> HIDE DEF b
  <1>3. c \in Boards  BY <1>2, AdmitBoards
  <1> HIDE DEF c
  <1>4. AdmitDependents(c, s) \in Boards  BY <1>3, AdmitDependentsBoards
  <1>5. Becomes(c) \/ Becomes(AdmitDependents(c, s))  BY DEF UpdateStory, c, b, row
  <1>6. assigned' = assigned  BY DEF UpdateStory
  <1> QED  BY <1>3, <1>4, <1>5, <1>6, BecomesBoards DEF BoardInv

LEMMA RemoveStoryBoards ==
    ASSUME NEW b \in Boards, NEW s \in Stories, NEW status \in {"absent", "archived"}
    PROVE  RemoveStory(b, s, status) \in Boards
  <1> DEFINE row == [NoStory(s) EXCEPT !.status = status]
             tasks == [t \in Tasks |->
                         IF t \notin TasksOf(b, s) THEN b.task[t]
                         ELSE [NoTask EXCEPT !.def = IF status = "archived" THEN b.task[t].def ELSE "absent"]]
  <1>1. row \in StoryRow  BY StoriesAssumption DEF NoStory, StoryRow
  <1>2. tasks \in [Tasks -> TaskRow]
    <2> SUFFICES ASSUME NEW t \in Tasks PROVE tasks[t] \in TaskRow  OBVIOUS
    <2>1. b.task[t] \in TaskRow  BY DEF Boards
    <2> QED  BY <2>1, BucketPositions, MaxSeqAssumption DEF TaskRow, NoTask
  <1> HIDE DEF row, tasks
  <1>3. [b EXCEPT !.story[s] = row, !.task = tasks] \in Boards  BY <1>1, <1>2 DEF Boards
  <1> QED  BY <1>3 DEF RemoveStory, row, tasks

LEMMA DeleteStoryBoards ==
    ASSUME BoardInv, NEW s \in Stories, DeleteStory(s)
    PROVE  BoardInv'
  <1>1. RemoveStory(board, s, "absent") \in Boards  BY RemoveStoryBoards DEF BoardInv
  <1>2. AdmitDependents(RemoveStory(board, s, "absent"), s) \in Boards
    BY <1>1, AdmitDependentsBoards
  <1> QED  BY <1>2, BecomesBoards DEF DeleteStory, BoardInv

LEMMA ArchiveStoryBoards ==
    ASSUME BoardInv, NEW s \in Stories, NEW force, ArchiveStory(s, force)
    PROVE  BoardInv'
  <1> DEFINE late == {t \in TasksOf(board, s) : task[t].pos # "done"}
             b == Place(board, [t \in late |-> "done"], FALSE)
             c == IF late = {} THEN b ELSE SetStoryStatus(b, s, "done")
  <1>1. b \in Boards  BY PlaceBoards, BucketPositions DEF BoardInv
  <1> HIDE DEF b
  <1>2. c \in Boards  BY <1>1, SetStoryStatusBoards
  <1> HIDE DEF c
  <1>3. RemoveStory(c, s, "archived") \in Boards  BY <1>2, RemoveStoryBoards
  <1>4. AdmitDependents(RemoveStory(c, s, "archived"), s) \in Boards
    BY <1>3, AdmitDependentsBoards
  <1>5. Becomes(AdmitDependents(RemoveStory(c, s, "archived"), s))
    BY DEF ArchiveStory, c, b
  <1> QED  BY <1>4, <1>5, BecomesBoards DEF ArchiveStory, BoardInv

LEMMA ActivateTaskBoards ==
    ASSUME BoardInv, NEW t \in Tasks, ActivateTask(t)
    PROVE  BoardInv'
  <1> DEFINE row == [task[t] EXCEPT !.def = "active"]
             b == [board EXCEPT !.task[t].def = "active"]
             placed == Place(b, [u \in {t} |-> b.task[t].pos], TRUE)
             admitted == Admit(b, {t[1]}, {})
  <1>1. t[1] \in Stories  BY DEF Tasks
  <1>2. task \in [Tasks -> TaskRow]  BY BoardParts DEF BoardInv
  <1>3. row \in TaskRow  BY <1>2 DEF TaskRow
  <1>4. b = [board EXCEPT !.task[t] = row]  BY <1>2 DEF board
  <1>5. b \in Boards  BY <1>3, <1>4 DEF BoardInv, Boards
  <1> HIDE DEF b, row
  <1>6. b.task[t].pos \in Positions  BY <1>5 DEF Boards, TaskRow
  <1>7. placed \in Boards  BY <1>5, <1>6, PlaceBoards
  <1>8. admitted \in Boards  BY <1>1, <1>5, AdmitBoards
  <1> HIDE DEF placed, admitted
  <1>9. Becomes(b) \/ Becomes(placed) \/ Becomes(admitted)
    BY DEF ActivateTask, placed, admitted, b
  <1> QED  BY <1>5, <1>7, <1>8, <1>9, BecomesBoards DEF ActivateTask, BoardInv

-----------------------------------------------------------------------------
(* The queue's side.                                                       *)

\* The rows of one task are written.
LEMMA RowsWritten ==
    ASSUME BoardInv, NEW t \in Tasks, NEW q \in Rows,
           items' = [items EXCEPT ![t] = q], UNCHANGED <<story, task>>
    PROVE  board' \in Boards
  BY DEF BoardInv, board, Boards

LEMMA SetRowBoards ==
    ASSUME BoardInv, NEW t \in Tasks, NEW k \in DOMAIN items[t], NEW row \in ItemRow,
           SetRow(t, k, row), UNCHANGED <<story, task>>
    PROVE  board' \in Boards
  <1>1. items \in [Tasks -> Rows]  BY BoardParts DEF BoardInv
  <1>2. items[t] \in Seq(ItemRow) /\ Len(items[t]) <= 1  BY <1>1 DEF Rows
  <1>3. k \in 1 .. Len(items[t])  BY <1>2, LenProperties
  <1>4. [items[t] EXCEPT ![k] = row] \in Rows  BY <1>2, <1>3, ExceptSeq DEF Rows
  <1>5. items' = [items EXCEPT ![t] = [items[t] EXCEPT ![k] = row]]  BY <1>1 DEF SetRow
  <1> QED  BY <1>4, <1>5, RowsWritten

LEMMA RowTyped ==
    ASSUME BoardInv, NEW t \in Tasks, NEW k \in DOMAIN items[t]
    PROVE  items[t] \in Rows /\ items[t][k] \in ItemRow /\ Without(items[t], k) = << >>
  <1>1. items[t] \in Rows  BY BoardParts DEF BoardInv
  <1>2. items[t] \in Seq(ItemRow)  BY <1>1 DEF Rows
  <1>3. k \in 1 .. Len(items[t])  BY <1>2, LenProperties
  <1> QED  BY <1>1, <1>2, <1>3, ElementOfSeq, WithoutRows

\* The row ends; a fresh one may take its place.
LEMMA RowEnds ==
    ASSUME BoardInv, NEW t \in Tasks, NEW k \in DOMAIN items[t], NEW again,
           LET rest == Without(items[t], k)
           IN  items' = [items EXCEPT ![t] = IF again /\ rest = << >>
                                             THEN EnqueueFor(rest, task[t].def, task[t].pos) ELSE rest],
           UNCHANGED <<story, task>>
    PROVE  board' \in Boards
  <1>1. Without(items[t], k) = << >>  BY RowTyped
  <1>2. task[t].pos \in Positions  BY BoardParts DEF BoardInv, TaskRow
  <1>3. EnqueueFor(<< >>, task[t].def, task[t].pos) \in Rows /\ << >> \in Rows
    BY <1>2, FreshRows DEF Rows
  <1>4. \E q \in Rows : items' = [items EXCEPT ![t] = q]  BY <1>1, <1>3
  <1> QED  BY <1>4, RowsWritten

LEMMA CompleteBoards ==
    ASSUME BoardInv, NEW t \in Tasks, NEW k \in DOMAIN items[t], Complete(t, k)
    PROVE  BoardInv'
  <1> DEFINE b == [board EXCEPT !.items[t] = Without(items[t], k)]
  <1>1. << >> \in Rows /\ Without(items[t], k) = << >>  BY RowTyped DEF Rows
  <1>2. b \in Boards  BY <1>1 DEF BoardInv, Boards
  <1> HIDE DEF b
  <1>3. Advance(b, t) \in Boards  BY <1>2, AdvanceBoards
  <1>4. Becomes(b) \/ Becomes(Advance(b, t))  BY DEF Complete, b
  <1> QED  BY <1>2, <1>3, <1>4, BecomesBoards DEF Complete, BoardInv

LEMMA AgentStepBoards ==
    ASSUME BoardInv, AgentStep
    PROVE  BoardInv'
  <1>0. PICK t \in Tasks : \E k \in DOMAIN items[t] :
            \/ Offer(t, k) \/ Claim(t, k) \/ Complete(t, k) \/ Fail(t, k)
            \/ \E again \in BOOLEAN : SessionError(t, k, again)
            \/ GoesQuiet(t, k) \/ Returns(t, k) \/ MemberRemoved(t, k)
    BY DEF AgentStep
  <1>1. PICK k \in DOMAIN items[t] :
            \/ Offer(t, k) \/ Claim(t, k) \/ Complete(t, k) \/ Fail(t, k)
            \/ \E again \in BOOLEAN : SessionError(t, k, again)
            \/ GoesQuiet(t, k) \/ Returns(t, k) \/ MemberRemoved(t, k)
    BY <1>0
  <1>2. items[t][k] \in ItemRow  BY RowTyped
  <1>3. CASE Offer(t, k)
    <2>1. [items[t][k] EXCEPT !.offered = TRUE] \in ItemRow  BY <1>2 DEF ItemRow
    <2> QED  BY <1>3, <2>1, SetRowBoards DEF Offer, BoardInv
  <1>4. CASE Claim(t, k)
    <2>1. [items[t][k] EXCEPT !.state = "IN_PROGRESS", !.offered = FALSE, !.held = TRUE] \in ItemRow
      BY <1>2 DEF ItemRow, ActiveStates
    <2> QED  BY <1>4, <2>1, SetRowBoards DEF Claim, BoardInv
  <1>5. CASE Complete(t, k)  BY <1>5, CompleteBoards
  <1>6. CASE Fail(t, k)
    <2>1. << >> \in Rows /\ Without(items[t], k) = << >>  BY RowTyped DEF Rows
    <2> QED  BY <1>6, <2>1, RowsWritten DEF Fail, BoardInv
  <1>7. CASE \E again \in BOOLEAN : SessionError(t, k, again)
    BY <1>7, RowEnds DEF SessionError, BoardInv
  <1>8. CASE GoesQuiet(t, k)
    <2>1. [items[t][k] EXCEPT !.state = "MORIBUND"] \in ItemRow
      BY <1>2 DEF ItemRow, ActiveStates
    <2> QED  BY <1>8, <2>1, SetRowBoards DEF GoesQuiet, BoardInv
  <1>9. CASE Returns(t, k)
    <2>1. [items[t][k] EXCEPT !.state = "IN_PROGRESS"] \in ItemRow
      BY <1>2 DEF ItemRow, ActiveStates
    <2> QED  BY <1>9, <2>1, SetRowBoards DEF Returns, BoardInv
  <1>10. CASE MemberRemoved(t, k)
    <2>1. [items[t][k] EXCEPT !.state = "MORIBUND", !.held = FALSE] \in ItemRow
      BY <1>2 DEF ItemRow, ActiveStates
    <2> QED  BY <1>10, <2>1, SetRowBoards DEF MemberRemoved, BoardInv
  <1> QED  BY <1>1, <1>3, <1>4, <1>5, <1>6, <1>7, <1>8, <1>9, <1>10

LEMMA QueuePersonBoards ==
    ASSUME BoardInv, NEW t \in Tasks,
           \/ ReEnqueue(t)
           \/ \E k \in DOMAIN items[t] :
                \/ CancelItem(t, k)
                \/ \E reEnqueue \in BOOLEAN : ForceFail(t, k, reEnqueue)
    PROVE  BoardInv'
  <1>1. CASE ReEnqueue(t)
    <2>1. task[t].pos \in Positions  BY BoardParts DEF BoardInv, TaskRow
    <2>2. EnqueueFor(<< >>, task[t].def, task[t].pos) \in Rows  BY <2>1, FreshRows
    <2> QED  BY <1>1, <2>2, RowsWritten DEF ReEnqueue, BoardInv
  <1>2. ASSUME NEW k \in DOMAIN items[t], CancelItem(t, k)
        PROVE  BoardInv'
    <2>1. << >> \in Rows /\ Without(items[t], k) = << >>  BY RowTyped DEF Rows
    <2> QED  BY <1>2, <2>1, RowsWritten DEF CancelItem, BoardInv
  <1>3. ASSUME NEW k \in DOMAIN items[t], NEW reEnqueue \in BOOLEAN, ForceFail(t, k, reEnqueue)
        PROVE  BoardInv'
    BY <1>3, RowEnds DEF ForceFail, BoardInv
  <1> QED  BY <1>1, <1>2, <1>3

LEMMA BootBoards ==
    ASSUME BoardInv, Boot
    PROVE  BoardInv'
  <1> DEFINE rows == [t \in Tasks |-> Orphaned(items[t])]
             forgotten == [board EXCEPT !.items = rows]
             loaded == LoadFromDisk(forgotten)
             live == {s \in Stories : Live(loaded, s)}
             b == Admit(loaded, live, {})
             waiting == {t \in Tasks : HasTask(b, t) /\ IsAgent(b, t[1], b.task[t].pos)}
             c == Place(b, [t \in waiting |-> b.task[t].pos], TRUE)
  <1>1. rows \in [Tasks -> Rows]
    <2> SUFFICES ASSUME NEW t \in Tasks PROVE Orphaned(items[t]) \in Rows  OBVIOUS
    <2>1. items[t] \in Seq(ItemRow) /\ Len(items[t]) <= 1
      BY BoardParts DEF BoardInv, Rows
    <2>2. Len(items[t]) \in Nat /\ DOMAIN items[t] = 1 .. Len(items[t])
      BY <2>1, LenProperties
    <2>3. \A k \in DOMAIN items[t] : items[t][k] \in ItemRow
      BY <2>1, <2>2, ElementOfSeq
    <2>4. \A k \in 1 .. Len(items[t]) : Orphaned(items[t])[k] \in ItemRow
      BY <2>2, <2>3 DEF Orphaned, ItemRow, ActiveStates
    <2>5. Orphaned(items[t]) \in [1 .. Len(items[t]) -> ItemRow]  BY <2>2, <2>4 DEF Orphaned
    <2>6. Orphaned(items[t]) \in Seq(ItemRow) /\ Len(Orphaned(items[t])) = Len(items[t])
      BY <2>2, <2>5
    <2> QED  BY <2>1, <2>6 DEF Rows
  <1> HIDE DEF rows
  <1>2. forgotten \in Boards  BY <1>1 DEF BoardInv, Boards
  <1> HIDE DEF forgotten
  <1>3. loaded \in Boards
    <2>1. \A t \in Tasks : [forgotten.task[t] EXCEPT !.seq = forgotten.task[t].place] \in TaskRow
      BY <1>2 DEF Boards, TaskRow
    <2> QED  BY <1>2, <2>1 DEF Boards, LoadFromDisk
  <1> HIDE DEF loaded
  <1>4. b \in Boards  BY <1>3, AdmitBoards
  <1> HIDE DEF b
  <1>5. \A t \in Tasks : b.task[t].pos \in Positions  BY <1>4 DEF Boards, TaskRow
  <1>6. c \in Boards  BY <1>4, <1>5, PlaceBoards
  <1> HIDE DEF c
  <1>7. Becomes(c) /\ assigned' = {}
    BY DEF Boot, Reconcile, c, waiting, b, live, loaded, forgotten, rows
  <1> QED  BY <1>6, <1>7, BecomesBoards DEF BoardInv

LEMMA PersonStepBoards ==
    ASSUME BoardInv, PersonStep
    PROVE  BoardInv'
  <1>1. CASE \E s \in Stories :
            \/ \E status \in {"open", "done"}, n \in 0 .. MaxSeq, pending \in BOOLEAN :
                \E P \in SUBSET (1 .. n) : CreateStory(s, status, n, P, pending)
            \/ \E pending \in BOOLEAN : AddTask(s, pending)
            \/ \E place \in Orders(TasksOf(board, s)) : ReorderTasks(s, place)
            \/ EditStory(s)
            \/ DeleteStory(s)
            \/ \E force \in BOOLEAN : ArchiveStory(s, force)
    BY <1>1, CreateStoryBoards, AddTaskBoards, ReorderTasksBoards, UpdateStoryBoards,
       DeleteStoryBoards, ArchiveStoryBoards DEF EditStory
  <1>2. CASE \E t \in Tasks :
            \/ \E p \in Positions : MoveTask(t, p)
            \/ DeleteTask(t)
            \/ ActivateTask(t)
            \/ ReEnqueue(t)
            \/ \E k \in DOMAIN items[t] :
                \/ CancelItem(t, k)
                \/ \E reEnqueue \in BOOLEAN : ForceFail(t, k, reEnqueue)
    BY <1>2, MoveTaskBoards, DeleteTaskBoards, ActivateTaskBoards, QueuePersonBoards
  <1> QED  BY <1>1, <1>2 DEF PersonStep

-----------------------------------------------------------------------------

LEMMA BoardInvHolds == Spec => []BoardInv
  <1>1. BoardInv /\ [Next]_vars => BoardInv'
    <2> SUFFICES ASSUME BoardInv, [Next]_vars PROVE BoardInv'  OBVIOUS
    <2>1. CASE UNCHANGED vars  BY <2>1 DEF vars, BoardInv, board
    <2>2. CASE Next  BY <2>2, PersonStepBoards, AgentStepBoards, BootBoards DEF Next
    <2> QED  BY <2>1, <2>2
  <1> QED  BY <1>1, InitBoards, PTL DEF Spec

\* The board's variables keep their types (the rows of src/daemon/store/schema.ts):
\* every position a task gets is one of a workflow or a bucket.
THEOREM TypeCorrect == Spec => []TypeOK
  <1>1. BoardInv => TypeOK
    <2> SUFFICES ASSUME BoardInv PROVE TypeOK  OBVIOUS
    <2>1. Rows \subseteq Seq(ItemRow)  BY DEF Rows
    <2> QED  BY <2>1, BoardParts DEF BoardInv, TypeOK
  <1> QED  BY <1>1, BoardInvHolds, PTL

\* However many stories, tasks and workflows, no task ever has two active items
\* (getActiveWorkItem, src/daemon/store/queue.ts:186-191, returns "the" one).
THEOREM OneActivePerTaskCorrect == Spec => []OneActivePerTask
  <1>1. BoardInv => OneActivePerTask  BY BoardParts DEF BoardInv, OneActivePerTask, Rows
  <1> QED  BY <1>1, BoardInvHolds, PTL

-----------------------------------------------------------------------------
(* Where work is done.  A task is worked on only where it stands, because    *)
(* every position change withdraws the row of the old position first, the    *)
(* one exception (keep) being a row that has ended; because a task comes to  *)
(* the board without rows; and because its id is not another's.              *)

\* No edit of a story's workflow, no story deleted with its items left behind,
\* and no renumbering of the tasks from which new ids are derived.
Undisturbed ==
    /\ {"workflow", "deleteStory"} \intersect Env = {}
    /\ ~({"add", "boot"} \subseteq Env)

RowFits(b, t, row) ==
    /\ row.at = b.task[t].pos
    /\ row.offered \/ row.held \/ row.state \in InFlightStates => IsAgent(b, t[1], b.task[t].pos)

\* A task of the board has rows that fit it and, until a restart, the number of
\* its id; any other has nothing in the queue, unless it was archived.
TaskSteady(b, t) ==
    IF HasTask(b, t)
    THEN /\ \A k \in DOMAIN b.items[t] : RowFits(b, t, b.items[t][k])
         /\ b.task[t].seq = t[2] \/ "boot" \in Env
    ELSE \/ b.story[t[1]].status = "archived"
         \/ b.items[t] = << >> /\ b.task[t] = NoTask

Steady(b) == b \in Boards /\ \A t \in Tasks : TaskSteady(b, t)

LEMMA HasTaskDef ==
    ASSUME NEW b, NEW t \in Tasks
    PROVE  HasTask(b, t) <=> Live(b, t[1]) /\ b.task[t].place > 0
  BY DEF HasTask, TasksOf, Tasks

\* A task that a step leaves alone stays steady.
LEMMA TaskSteadyKept ==
    ASSUME NEW b, NEW c, NEW t \in Tasks, TaskSteady(b, t),
           c.task[t] = b.task[t], c.items[t] = b.items[t],
           c.story[t[1]].workflow = b.story[t[1]].workflow,
           Live(c, t[1]) <=> Live(b, t[1]),
           b.story[t[1]].status = "archived" => c.story[t[1]].status = "archived"
    PROVE  TaskSteady(c, t)
  <1>1. HasTask(c, t) <=> HasTask(b, t)  BY HasTaskDef
  <1>2. \A q : IsAgent(c, t[1], q) <=> IsAgent(b, t[1], q)  BY DEF IsAgent, Flow
  <1> QED  BY <1>1, <1>2 DEF TaskSteady, RowFits

LEMMA EnqueuedFits ==
    ASSUME NEW t \in Tasks, NEW p, NEW def,
           NEW c, c.task[t].pos = p,
           NEW k \in DOMAIN EnqueueFor(<< >>, def, p)
    PROVE  RowFits(c, t, EnqueueFor(<< >>, def, p)[k])
  <1>1. def = "active"  BY DEF EnqueueFor
  <1>2. EnqueueFor(<< >>, def, p) = << FreshRow(p) >>  BY <1>1 DEF EnqueueFor
  <1>3. k = 1  BY <1>2
  <1> QED  BY <1>2, <1>3 DEF RowFits, FreshRow, InFlightStates

LEMMA PlaceSteady ==
    ASSUME NEW b, Steady(b), NEW at, NEW keep \in BOOLEAN,
           \A t \in Tasks \intersect DOMAIN at :
                /\ at[t] \in Positions
                /\ HasTask(b, t)
                /\ keep => b.items[t] = << >> \/ at[t] = b.task[t].pos
    PROVE  /\ Steady(Place(b, at, keep))
           /\ Place(b, at, keep).story = b.story
           /\ \A t \in Tasks : HasTask(Place(b, at, keep), t) <=> HasTask(b, t)
  <1> DEFINE c == Place(b, at, keep)
  <1>1. c \in Boards /\ c.story = b.story  BY PlaceBoards DEF Steady
  <1>2. /\ \A t \in Tasks : c.task[t] = IF t \in DOMAIN at THEN [b.task[t] EXCEPT !.pos = at[t]]
                                         ELSE b.task[t]
        /\ \A t \in Tasks : c.items[t] = IF t \in DOMAIN at THEN Landed(b, t, at[t], keep)
                                          ELSE b.items[t]
    BY DEF Place, Steady, Boards
  <1>3. \A t \in Tasks : /\ b.task[t] \in TaskRow /\ b.items[t] \in Rows
                         /\ c.task[t] = [b.task[t] EXCEPT !.pos = c.task[t].pos]
                         /\ t \in DOMAIN at => c.task[t].pos = at[t]
    BY <1>2 DEF Steady, Boards, TaskRow
  <1>4. \A t \in Tasks : c.task[t].place = b.task[t].place /\ c.task[t].seq = b.task[t].seq
    BY <1>3 DEF TaskRow
  <1> HIDE DEF c
  <1>5. \A t \in Tasks : HasTask(c, t) <=> HasTask(b, t)
    BY <1>1, <1>4, HasTaskDef DEF Live
  <1>6. ASSUME NEW t \in Tasks PROVE TaskSteady(c, t)
    <2>1. CASE t \notin DOMAIN at
      BY <1>1, <1>2, <2>1, TaskSteadyKept DEF Steady, Live
    <2>2. CASE t \in DOMAIN at
      <3> DEFINE q == IF keep \/ b.task[t].pos = at[t] THEN b.items[t] ELSE Withdraw(b.items[t])
      <3>1. c.items[t] = IF IsAgent(b, t[1], at[t]) /\ q = << >>
                         THEN EnqueueFor(q, b.task[t].def, at[t]) ELSE q
        BY <1>2, <2>2 DEF Landed
      <3>2. q = << >> \/ (q = b.items[t] /\ at[t] = b.task[t].pos)
        BY <1>3, <2>2, WithdrawRows
      <3>3. HasTask(b, t) /\ HasTask(c, t) /\ TaskSteady(b, t)
        BY <1>5, <2>2 DEF Steady
      <3>4. \A p : IsAgent(c, t[1], p) <=> IsAgent(b, t[1], p)
        BY <1>1 DEF IsAgent, Flow
      <3> HIDE DEF q
      <3>5. ASSUME NEW k \in DOMAIN c.items[t] PROVE RowFits(c, t, c.items[t][k])
        <4>1. CASE q = << >>
          <5>1. c.items[t] = EnqueueFor(<< >>, b.task[t].def, at[t])  BY <3>1, <3>5, <4>1
          <5>2. c.task[t].pos = at[t] /\ k \in DOMAIN EnqueueFor(<< >>, b.task[t].def, at[t])
            BY <1>3, <2>2, <3>5, <5>1
          <5>3. RowFits(c, t, EnqueueFor(<< >>, b.task[t].def, at[t])[k])  BY <5>2, EnqueuedFits
          <5> QED  BY <5>1, <5>3
        <4>2. CASE q # << >>
          <5>1. c.items[t] = b.items[t] /\ at[t] = b.task[t].pos  BY <3>1, <3>2, <4>2
          <5>2. RowFits(b, t, b.items[t][k])  BY <3>3, <3>5, <5>1 DEF TaskSteady
          <5> QED  BY <1>3, <2>2, <3>4, <5>1, <5>2 DEF RowFits
        <4> QED  BY <4>1, <4>2
      <3> QED  BY <1>4, <3>3, <3>5 DEF TaskSteady
    <2> QED  BY <2>1, <2>2
  <1> QED  BY <1>1, <1>5, <1>6 DEF Steady, c

LEMMA AdmitSteady ==
    ASSUME NEW b, Steady(b), NEW S \in SUBSET Stories, NEW X
    PROVE  /\ Steady(Admit(b, S, X))
           /\ Admit(b, S, X).story = b.story
           /\ \A t \in Tasks : HasTask(Admit(b, S, X), t) <=> HasTask(b, t)
  <1> DEFINE at == [t \in UNION {Admitted(b, s, X) : s \in S} |-> Flow(b, t[1])[1].name]
  <1>1. \A t \in Tasks \intersect DOMAIN at : at[t] \in Positions /\ HasTask(b, t)
    <2> SUFFICES ASSUME NEW s \in S, NEW t \in Admitted(b, s, X)
                 PROVE  Flow(b, t[1])[1].name \in Positions /\ HasTask(b, t)
      OBVIOUS
    <2>1. t[1] = s /\ 1 \in DOMAIN Flow(b, s)  BY AdmittedOwn DEF Steady
    <2>2. t \in TasksOf(b, s)  BY DEF Admitted, NextInLine
    <2> QED  BY <2>1, <2>2, FlowPositions DEF HasTask, Steady
  <1> HIDE DEF at
  <1>2. /\ Steady(Place(b, at, FALSE))
        /\ Place(b, at, FALSE).story = b.story
        /\ \A t \in Tasks : HasTask(Place(b, at, FALSE), t) <=> HasTask(b, t)
    BY <1>1, PlaceSteady
  <1> QED  BY <1>2 DEF Admit, at

LEMMA AdmitDependentsSteady ==
    ASSUME NEW b, Steady(b), NEW s \in Stories
    PROVE  /\ Steady(AdmitDependents(b, s))
           /\ AdmitDependents(b, s).story = b.story
           /\ \A t \in Tasks : HasTask(AdmitDependents(b, s), t) <=> HasTask(b, t)
  BY AdmitSteady DEF AdmitDependents

\* A step that edits stories and keeps their workflows keeps the board steady.
LEMMA StoriesEdited ==
    ASSUME NEW b, Steady(b), NEW c \in Boards, c.task = b.task, c.items = b.items,
           \A s \in Stories : /\ c.story[s].workflow = b.story[s].workflow
                              /\ Live(c, s) <=> Live(b, s)
                              /\ b.story[s].status = "archived" => c.story[s].status = "archived"
    PROVE  Steady(c) /\ \A t \in Tasks : HasTask(c, t) <=> HasTask(b, t)
  <1>1. \A t \in Tasks : t[1] \in Stories  BY DEF Tasks
  <1> QED  BY <1>1, TaskSteadyKept, HasTaskDef DEF Steady

LEMMA SetStoryStatusSteady ==
    ASSUME NEW b, Steady(b), NEW s \in Stories, Live(b, s), NEW status \in {"open", "done"}
    PROVE  /\ Steady(SetStoryStatus(b, s, status))
           /\ \A t \in Tasks : HasTask(SetStoryStatus(b, s, status), t) <=> HasTask(b, t)
  <1> DEFINE c == [b EXCEPT !.story[s].status = status]
  <1>0. b \in Boards /\ b.story \in [Stories -> StoryRow]  BY DEF Steady, Boards
  <1>1. [b.story[s] EXCEPT !.status = status] \in StoryRow  BY <1>0 DEF StoryRow
  <1>2. c \in Boards /\ c.task = b.task /\ c.items = b.items
        /\ c.story = [b.story EXCEPT ![s] = [b.story[s] EXCEPT !.status = status]]
    BY <1>0, <1>1 DEF Boards
  <1> HIDE DEF c
  <1>3. \A r \in Stories : /\ c.story[r].workflow = b.story[r].workflow
                           /\ Live(c, r) <=> Live(b, r)
                           /\ b.story[r].status = "archived" => c.story[r].status = "archived"
    BY <1>0, <1>2 DEF Live, StoryRow
  <1>4. Steady(c) /\ \A t \in Tasks : HasTask(c, t) <=> HasTask(b, t)
    BY <1>2, <1>3, StoriesEdited
  <1>5. /\ Steady(AdmitDependents(c, s))
        /\ \A t \in Tasks : HasTask(AdmitDependents(c, s), t) <=> HasTask(b, t)
    BY <1>4, AdmitDependentsSteady
  <1> QED  BY <1>4, <1>5 DEF SetStoryStatus, c

LEMMA SetPositionSteady ==
    ASSUME NEW b, Steady(b), NEW t \in Tasks, NEW p \in Positions, NEW keep \in BOOLEAN,
           HasTask(b, t), keep => b.items[t] = << >>
    PROVE  Steady(SetPosition(b, t, p, keep))
  <1> DEFINE c == Place(b, [u \in {t} |-> p], keep)
  <1>1. t[1] \in Stories /\ Live(b, t[1])  BY HasTaskDef DEF Tasks
  <1>2. Steady(c) /\ c.story = b.story  BY PlaceSteady
  <1> HIDE DEF c
  <1>3. Live(c, t[1])  BY <1>1, <1>2 DEF Live
  <1>4. Steady(SetStoryStatus(c, t[1], "done")) /\ Steady(SetStoryStatus(c, t[1], "open"))
    BY <1>1, <1>2, <1>3, SetStoryStatusSteady
  <1> QED  BY <1>2, <1>4 DEF SetPosition, c

LEMMA AdvanceSteady ==
    ASSUME NEW b, Steady(b), NEW t \in Tasks, HasTask(b, t), b.items[t] = << >>
    PROVE  Steady(Advance(b, t))
  <1>1. t[1] \in Stories  BY DEF Tasks
  <1>2. NextState(b, t[1], b.task[t].pos) \in Positions  BY <1>1, NextStatePosition DEF Steady
  <1>3. Steady(SetPosition(b, t, NextState(b, t[1], b.task[t].pos), TRUE))
    BY <1>2, SetPositionSteady
  <1> QED  BY <1>1, <1>3, AdmitSteady DEF Advance

-----------------------------------------------------------------------------
(* Steadiness, action by action.                                           *)

LEMMA BecomesSteady ==
    ASSUME NEW c, Steady(c), Becomes(c)
    PROVE  Steady(board')
  <1>1. c \in Boards  BY DEF Steady
  <1>2. board' = c  BY <1>1 DEF Becomes, board, Boards
  <1> QED  BY <1>2

LEMMA InitSteady == Init => Steady(board)
  <1> SUFFICES ASSUME Init PROVE Steady(board)  OBVIOUS
  <1>1. board \in Boards  BY InitBoards DEF BoardInv
  <1>2. ASSUME NEW t \in Tasks PROVE TaskSteady(board, t)
    <2>1. t[1] \in Stories  BY DEF Tasks
    <2>2. board.story[t[1]].status = "absent"  BY <2>1 DEF Init, NoStory, board
    <2>3. ~HasTask(board, t)  BY <2>2, HasTaskDef DEF Live
    <2> QED  BY <2>3 DEF TaskSteady, Init, board
  <1> QED  BY <1>1, <1>2 DEF Steady

LEMMA CreateStorySteady ==
    ASSUME Steady(board), NEW s \in Stories, NEW status \in {"open", "done"},
           NEW n \in 0 .. MaxSeq, NEW P, NEW pending \in BOOLEAN,
           CreateStory(s, status, n, P, pending)
    PROVE  Steady(board')
  <1> DEFINE row == [status |-> status, pending |-> pending, deps |-> Requires[s], workflow |-> Starts[s]]
             tasks == [t \in Tasks |-> IF t[1] = s /\ t[2] <= n
                                       THEN NewTask(t[2], t[2], t[2] \in P) ELSE task[t]]
             b == [board EXCEPT !.story[s] = row, !.task = tasks]
  <1>0. board \in Boards  BY DEF Steady
  <1>1. row \in StoryRow /\ Live(b, s)
    <2>1. row \in StoryRow /\ row.status = status  BY StoriesAssumption DEF StoryRow
    <2> HIDE DEF row, tasks
    <2>2. b.story[s] = row  BY <1>0 DEF Boards
    <2> QED  BY <2>1, <2>2 DEF Live
  <1>2. tasks \in [Tasks -> TaskRow]
    <2> SUFFICES ASSUME NEW t \in Tasks PROVE tasks[t] \in TaskRow  OBVIOUS
    <2>1. t[2] \in 0 .. MaxSeq  BY MaxSeqAssumption DEF Tasks
    <2>2. task[t] \in TaskRow  BY <1>0, BoardParts
    <2> QED  BY <2>1, <2>2, NewTaskTyped
  <1>3. \A t \in Tasks : tasks[t] = IF t[1] = s /\ t[2] <= n
                                    THEN NewTask(t[2], t[2], t[2] \in P) ELSE task[t]
    OBVIOUS
  <1> HIDE DEF row, tasks
  <1>4. /\ b \in Boards /\ b.task = tasks /\ b.items = items
        /\ \A r \in Stories \ {s} : b.story[r] = board.story[r]
    BY <1>0, <1>1, <1>2 DEF Boards, board
  <1>5. story[s].status = "absent"  BY DEF CreateStory
  <1> HIDE DEF b
  <1>6. ASSUME NEW t \in Tasks PROVE TaskSteady(b, t)
    <2>0. t[1] \in Stories /\ TaskSteady(board, t)  BY DEF Tasks, Steady
    <2>1. CASE t[1] # s
      <3>1. b.task[t] = board.task[t] /\ b.items[t] = board.items[t] /\ b.story[t[1]] = board.story[t[1]]
        BY <1>3, <1>4, <2>0, <2>1 DEF board
      <3> QED  BY <2>0, <3>1, TaskSteadyKept DEF Live
    <2>2. CASE t[1] = s
      <3>1. ~HasTask(board, t) /\ board.story[t[1]].status = "absent"
        BY <1>5, <2>2, HasTaskDef DEF Live, board
      <3>2. items[t] = << >> /\ task[t] = NoTask  BY <2>0, <3>1 DEF TaskSteady, board
      <3>3. b.items[t] = << >>  BY <1>4, <3>2
      <3>4. CASE t[2] <= n
        <4> DEFINE p == t[2] \in P
        <4>0. b.task[t] = NewTask(t[2], t[2], p)  BY <1>3, <1>4, <2>2, <3>4
        <4> HIDE DEF p
        <4>1. b.task[t].seq = t[2] /\ b.task[t].place = t[2]  BY <4>0 DEF NewTask
        <4>2. HasTask(b, t)
          <5>1. t[2] > 0  BY MaxSeqAssumption DEF Tasks
          <5> QED  BY <1>1, <2>2, <4>1, <5>1, HasTaskDef
        <4> QED  BY <3>3, <4>1, <4>2 DEF TaskSteady
      <3>5. CASE ~(t[2] <= n)
        <4>1. b.task[t] = NoTask  BY <1>3, <1>4, <3>2, <3>5
        <4>2. ~HasTask(b, t)  BY <4>1, HasTaskDef DEF NoTask
        <4> QED  BY <3>3, <4>1, <4>2 DEF TaskSteady
      <3> QED  BY <3>4, <3>5
    <2> QED  BY <2>1, <2>2
  <1>7. Steady(Admit(b, {s}, {}))  BY <1>4, <1>6, AdmitSteady DEF Steady
  <1>8. Becomes(Admit(b, {s}, {}))  BY DEF CreateStory, b, row, tasks
  <1> QED  BY <1>7, <1>8, BecomesSteady

LEMMA AddTaskSteady ==
    ASSUME Undisturbed, Steady(board), NEW s \in Stories, NEW pending \in BOOLEAN, AddTask(s, pending)
    PROVE  Steady(board')
  <1>1. PICK n \in 1 .. MaxSeq, m \in 1 .. MaxSeq :
            /\ NextSeq(s, n)
            /\ Becomes(Admit([board EXCEPT !.task[<<s, n>>] = NewTask(m, n, pending)], {s}, {}))
    BY DEF AddTask
  <1> DEFINE u == <<s, n>>
             b == [board EXCEPT !.task[u] = NewTask(m, n, pending)]
  <1>2. board \in Boards /\ NewTask(m, n, pending) \in TaskRow /\ u \in Tasks
    BY NewTaskTyped, MaxSeqAssumption DEF Steady, Tasks
  <1>3. u[1] = s /\ u[2] = n  OBVIOUS
  <1>4. Live(board, s) /\ "boot" \notin Env  BY DEF AddTask, Undisturbed
  <1> HIDE DEF u
  <1>5. /\ b \in Boards /\ b.story = board.story /\ b.items = board.items
        /\ b.task = [board.task EXCEPT ![u] = NewTask(m, n, pending)]
    BY <1>2 DEF Boards
  <1>6. \A t \in Tasks : b.task[t] = IF t = u THEN NewTask(m, n, pending) ELSE board.task[t]
    BY <1>5, <1>2 DEF Boards
  <1> HIDE DEF b
  <1>7. items[u] = << >>
    <2>1. ~HasTask(board, u)
      <3>1. HasTask(board, u) => u \in TasksOf(board, s) /\ task[u].seq = n
        BY <1>2, <1>3, <1>4 DEF Steady, TaskSteady, HasTask, board
      <3>2. u \in TasksOf(board, s) => task[u].seq < n  BY <1>1 DEF NextSeq
      <3>3. n \in Nat  BY MaxSeqAssumption
      <3> QED  BY <3>1, <3>2, <3>3
    <2>2. board.story[u[1]].status # "archived"  BY <1>3, <1>4 DEF Live
    <2> QED  BY <1>2, <2>1, <2>2 DEF Steady, TaskSteady, board
  <1>8. ASSUME NEW t \in Tasks PROVE TaskSteady(b, t)
    <2>1. CASE t # u
      <3>1. b.task[t] = board.task[t]  BY <1>6, <2>1
      <3> QED  BY <1>5, <3>1, TaskSteadyKept DEF Steady, Live
    <2>2. CASE t = u
      <3>1. b.task[u].place = m /\ b.task[u].seq = n  BY <1>2, <1>6 DEF NewTask
      <3>2. m > 0 /\ Live(b, s)  BY <1>4, <1>5, MaxSeqAssumption DEF Live
      <3>3. HasTask(b, u)  BY <1>2, <1>3, <3>1, <3>2, HasTaskDef
      <3>4. b.items[u] = << >>  BY <1>5, <1>7 DEF board
      <3> QED  BY <1>3, <2>2, <3>1, <3>3, <3>4 DEF TaskSteady
    <2> QED  BY <2>1, <2>2
  <1>9. Steady(Admit(b, {s}, {}))  BY <1>5, <1>8, AdmitSteady DEF Steady
  <1> QED  BY <1>1, <1>9, BecomesSteady DEF b, u

LEMMA MoveTaskSteady ==
    ASSUME Steady(board), NEW t \in Tasks, NEW p \in Positions, MoveTask(t, p)
    PROVE  Steady(board')
  <1>1. t[1] \in Stories /\ HasTask(board, t)  BY DEF Tasks, MoveTask
  <1>2. Steady(SetPosition(board, t, p, FALSE))  BY <1>1, SetPositionSteady
  <1>3. Steady(Admit(SetPosition(board, t, p, FALSE), {t[1]}, {t}))  BY <1>1, <1>2, AdmitSteady
  <1> QED  BY <1>3, BecomesSteady DEF MoveTask

LEMMA DeleteTaskSteady ==
    ASSUME Steady(board), NEW t \in Tasks, DeleteTask(t)
    PROVE  Steady(board')
  <1> DEFINE tasks == [u \in Tasks |->
                         IF u = t THEN NoTask
                         ELSE IF u[1] = t[1] /\ task[u].place > task[t].place
                         THEN [task[u] EXCEPT !.place = task[u].place - 1] ELSE task[u]]
             b == [board EXCEPT !.task = tasks, !.items[t] = Withdraw(items[t])]
  <1>0. t[1] \in Stories /\ HasTask(board, t) /\ board \in Boards
    BY DEF Tasks, DeleteTask, Steady
  <1>1. \A u \in Tasks : task[u] \in TaskRow /\ items[u] \in Rows  BY <1>0, BoardParts
  <1>2. \A u \in Tasks : tasks[u] = IF u = t THEN NoTask
                                    ELSE IF u[1] = t[1] /\ task[u].place > task[t].place
                                    THEN [task[u] EXCEPT !.place = task[u].place - 1] ELSE task[u]
    OBVIOUS
  <1>3. task[t].place \in Nat /\ task[t].place > 0 /\ NoTask \in TaskRow
    BY <1>0, <1>1, HasTaskDef, NewTaskTyped, MaxSeqAssumption DEF TaskRow, board
  <1>4. ASSUME NEW u \in Tasks \ {t}
        PROVE  /\ tasks[u] \in TaskRow
               /\ tasks[u] = task[u] \/ /\ tasks[u].place > 0 /\ task[u].place > 0
                                        /\ tasks[u].pos = task[u].pos /\ tasks[u].seq = task[u].seq
    <2> HIDE DEF tasks
    <2>1. task[u] \in TaskRow  BY <1>1
    <2>2. CASE ~(u[1] = t[1] /\ task[u].place > task[t].place)  BY <1>2, <2>1, <2>2
    <2>3. CASE u[1] = t[1] /\ task[u].place > task[t].place
      <3>1. tasks[u] = [task[u] EXCEPT !.place = task[u].place - 1]  BY <1>2, <2>3
      <3>2. task[u].place \in 0 .. MaxSeq  BY <2>1 DEF TaskRow
      <3>3. task[u].place - 1 \in 0 .. MaxSeq /\ task[u].place - 1 > 0
        BY <1>3, <2>3, <3>2, MaxSeqAssumption
      <3> QED  BY <2>1, <3>1, <3>2, <3>3 DEF TaskRow
    <2> QED  BY <2>2, <2>3
  <1>5. tasks \in [Tasks -> TaskRow]
    <2>1. ASSUME NEW u \in Tasks PROVE tasks[u] \in TaskRow
      <3> HIDE DEF tasks
      <3> QED  BY <1>2, <1>3, <1>4
    <2> QED  BY <2>1
  <1> HIDE DEF tasks
  <1>6. Withdraw(items[t]) = << >> /\ << >> \in Rows  BY <1>1, WithdrawRows DEF Rows
  <1>7. /\ b \in Boards /\ b.story = board.story /\ b.task = tasks
        /\ b.items = [items EXCEPT ![t] = << >>]
    BY <1>0, <1>5, <1>6 DEF Boards, board
  <1>8. \A u \in Tasks : b.items[u] = IF u = t THEN << >> ELSE items[u]
    BY <1>0, <1>7 DEF Boards, board
  <1> HIDE DEF b
  <1>9. ASSUME NEW u \in Tasks PROVE TaskSteady(b, u)
    <2>1. CASE u = t
      <3>1. b.task[u] = NoTask /\ b.items[u] = << >>  BY <1>2, <1>7, <1>8, <2>1
      <3>2. ~HasTask(b, u)  BY <3>1, HasTaskDef DEF NoTask
      <3> QED  BY <3>1, <3>2 DEF TaskSteady
    <2>2. CASE u # t
      <3>1. TaskSteady(board, u) /\ b.items[u] = board.items[u]  BY <1>8, <2>2 DEF Steady, board
      <3>2. CASE tasks[u] = task[u]
        BY <1>7, <3>1, <3>2, TaskSteadyKept DEF Live, board
      <3>3. CASE tasks[u] # task[u]
        <4>1. HasTask(b, u) <=> HasTask(board, u)
          BY <1>4, <1>7, <2>2, <3>3, HasTaskDef DEF Live, board
        <4>2. \A q : IsAgent(b, u[1], q) <=> IsAgent(board, u[1], q)
          BY <1>7 DEF IsAgent, Flow
        <4>3. HasTask(board, u)
          <5>1. u[1] = t[1]  BY <1>2, <2>2, <3>3
          <5>2. Live(board, u[1])  BY <1>0, <5>1, HasTaskDef
          <5>3. board.task[u].place > 0  BY <1>4, <2>2, <3>3 DEF board
          <5> QED  BY <5>2, <5>3, HasTaskDef
        <4>4. b.task[u].pos = board.task[u].pos /\ b.task[u].seq = board.task[u].seq
          BY <1>4, <1>7, <2>2, <3>3 DEF board
        <4> QED  BY <3>1, <4>1, <4>2, <4>3, <4>4 DEF TaskSteady, RowFits
      <3> QED  BY <3>2, <3>3
    <2> QED  BY <2>1, <2>2
  <1>10. Steady(Admit(b, {t[1]}, {}))  BY <1>0, <1>7, <1>9, AdmitSteady DEF Steady
  <1>11. Becomes(Admit(b, {t[1]}, {}))  BY DEF DeleteTask, b, tasks
  <1> QED  BY <1>10, <1>11, BecomesSteady

LEMMA ReorderTasksSteady ==
    ASSUME Steady(board), NEW s \in Stories, NEW place \in Orders(TasksOf(board, s)),
           ReorderTasks(s, place)
    PROVE  Steady(board')
  <1>1. board \in Boards  BY DEF Steady
  <1>2. \A t \in Tasks : task'[t] = IF t \in TasksOf(board, s)
                                    THEN [task[t] EXCEPT !.place = place[t]] ELSE task[t]
    BY DEF ReorderTasks
  <1>3. board'.story = board.story /\ board'.items = board.items /\ board'.task = task'
    BY DEF ReorderTasks, board
  <1>4. board' \in Boards
    <2>1. ASSUME NEW t \in Tasks PROVE task'[t] \in TaskRow
      <3>1. task[t] \in TaskRow  BY <1>1, BoardParts
      <3>2. t \in TasksOf(board, s) => place[t] \in 0 .. MaxSeq  BY MaxSeqAssumption DEF Orders
      <3> QED  BY <1>2, <3>1, <3>2 DEF TaskRow
    <2>2. task' \in [Tasks -> TaskRow]  BY <2>1 DEF ReorderTasks
    <2> QED  BY <1>1, <1>3, <2>2 DEF Boards, board
  <1>5. ASSUME NEW t \in Tasks PROVE TaskSteady(board', t)
    <2>1. CASE t \notin TasksOf(board, s)
      <3>1. board'.task[t] = board.task[t]  BY <1>2, <1>3, <2>1 DEF board
      <3> QED  BY <1>3, <3>1, TaskSteadyKept DEF Live, Steady
    <2>2. CASE t \in TasksOf(board, s)
      <3>1. task[t] \in TaskRow /\ place[t] \in 1 .. MaxSeq  BY <1>1, <2>2, BoardParts DEF Orders
      <3>2. /\ board'.task[t].pos = board.task[t].pos /\ board'.task[t].seq = board.task[t].seq
            /\ board'.task[t].place > 0
        <4>1. board'.task[t] = [task[t] EXCEPT !.place = place[t]]  BY <1>2, <1>3, <2>2
        <4>2. place[t] > 0  BY <3>1, MaxSeqAssumption
        <4> QED  BY <3>1, <4>1, <4>2 DEF TaskRow, board
      <3>3. HasTask(board, t)  BY <2>2 DEF HasTask, TasksOf
      <3>4. HasTask(board', t)  BY <1>3, <3>2, <3>3, HasTaskDef DEF Live
      <3>5. \A q : IsAgent(board', t[1], q) <=> IsAgent(board, t[1], q)
        BY <1>3 DEF IsAgent, Flow
      <3> QED  BY <1>3, <3>2, <3>3, <3>4, <3>5 DEF TaskSteady, RowFits, Steady
    <2> QED  BY <2>1, <2>2
  <1> QED  BY <1>4, <1>5 DEF Steady

LEMMA UpdateStorySteady ==
    ASSUME Undisturbed, Steady(board), NEW s \in Stories, NEW status \in {"open", "done"},
           NEW pending \in BOOLEAN, NEW deps \in SUBSET Stories, NEW w \in Workflows,
           UpdateStory(s, status, pending, deps, w)
    PROVE  Steady(board')
  <1> DEFINE row == [status |-> status, pending |-> pending, deps |-> deps, workflow |-> w]
             b == [board EXCEPT !.story[s] = row]
             c == Admit(b, {s}, {})
  <1>1. board \in Boards /\ Live(board, s) /\ w = story[s].workflow
    BY DEF UpdateStory, Undisturbed, Steady
  <1>2. row \in StoryRow /\ row.status = status /\ row.workflow = w  BY DEF StoryRow
  <1> HIDE DEF row
  <1>3. /\ b \in Boards /\ b.task = board.task /\ b.items = board.items
        /\ \A r \in Stories : b.story[r] = IF r = s THEN row ELSE board.story[r]
    BY <1>1, <1>2 DEF Boards
  <1> HIDE DEF b
  <1>4. \A r \in Stories : /\ b.story[r].workflow = board.story[r].workflow
                           /\ Live(b, r) <=> Live(board, r)
                           /\ board.story[r].status = "archived" => b.story[r].status = "archived"
    BY <1>1, <1>2, <1>3 DEF Live, board
  <1>5. Steady(b)  BY <1>3, <1>4, StoriesEdited
  <1>6. Steady(c)  BY <1>5, AdmitSteady
  <1> HIDE DEF c
  <1>7. Steady(AdmitDependents(c, s))  BY <1>6, AdmitDependentsSteady
  <1>8. Becomes(c) \/ Becomes(AdmitDependents(c, s))  BY DEF UpdateStory, c, b, row
  <1> QED  BY <1>6, <1>7, <1>8, BecomesSteady

LEMMA ArchivedSteady ==
    ASSUME NEW b, Steady(b), NEW s \in Stories
    PROVE  Steady(RemoveStory(b, s, "archived"))
  <1> DEFINE c == RemoveStory(b, s, "archived")
  <1>1. b \in Boards /\ c \in Boards  BY RemoveStoryBoards DEF Steady
  <1>2. /\ c.items = b.items
        /\ \A t \in Tasks : t \notin TasksOf(b, s) => c.task[t] = b.task[t]
        /\ \A r \in Stories \ {s} : c.story[r] = b.story[r]
        /\ c.story[s] = [NoStory(s) EXCEPT !.status = "archived"]
    BY <1>1 DEF RemoveStory, Boards
  <1> HIDE DEF c
  <1>3. c.story[s].status = "archived"  BY <1>2 DEF NoStory
  <1>4. ASSUME NEW t \in Tasks PROVE TaskSteady(c, t)
    <2>1. CASE t[1] = s
      <3>1. ~HasTask(c, t)  BY <1>3, <2>1, HasTaskDef DEF Live
      <3> QED  BY <1>3, <2>1, <3>1 DEF TaskSteady
    <2>2. CASE t[1] # s
      <3>1. t[1] \in Stories /\ t \notin TasksOf(b, s)  BY <2>2 DEF Tasks, TasksOf
      <3> QED  BY <1>2, <2>2, <3>1, TaskSteadyKept DEF Steady, Live
    <2> QED  BY <2>1, <2>2
  <1> QED  BY <1>1, <1>4 DEF Steady, c

LEMMA ArchiveStorySteady ==
    ASSUME Steady(board), NEW s \in Stories, NEW force, ArchiveStory(s, force)
    PROVE  Steady(board')
  <1> DEFINE late == {t \in TasksOf(board, s) : task[t].pos # "done"}
             b == Place(board, [t \in late |-> "done"], FALSE)
             c == IF late = {} THEN b ELSE SetStoryStatus(b, s, "done")
  <1>0. \A t \in late : HasTask(board, t)  BY DEF HasTask, TasksOf
  <1>1. Live(board, s)  BY DEF ArchiveStory
  <1> HIDE DEF late
  <1>2. Steady(b) /\ b.story = board.story  BY <1>0, PlaceSteady, BucketPositions
  <1> HIDE DEF b
  <1>3. Steady(c)  BY <1>1, <1>2, SetStoryStatusSteady DEF Live
  <1> HIDE DEF c
  <1>4. Steady(RemoveStory(c, s, "archived"))  BY <1>3, ArchivedSteady
  <1>5. Steady(AdmitDependents(RemoveStory(c, s, "archived"), s))
    BY <1>4, AdmitDependentsSteady
  <1>6. Becomes(AdmitDependents(RemoveStory(c, s, "archived"), s))
    BY DEF ArchiveStory, c, b, late
  <1> QED  BY <1>5, <1>6, BecomesSteady

\* A pending definition becoming active changes nothing of where its task stands.
LEMMA ActivateTaskSteady ==
    ASSUME Steady(board), NEW t \in Tasks, ActivateTask(t)
    PROVE  Steady(board')
  <1> DEFINE row == [task[t] EXCEPT !.def = "active"]
             b == [board EXCEPT !.task[t].def = "active"]
             placed == Place(b, [u \in {t} |-> b.task[t].pos], TRUE)
             admitted == Admit(b, {t[1]}, {})
  <1>1. t[1] \in Stories /\ board \in Boards  BY DEF Tasks, Steady
  <1>2. task \in [Tasks -> TaskRow] /\ task[t] \in TaskRow  BY <1>1, BoardParts
  <1>3. /\ row \in TaskRow /\ row.pos = task[t].pos /\ row.place = task[t].place
        /\ row.seq = task[t].seq
    BY <1>2 DEF TaskRow
  <1>4. b = [board EXCEPT !.task[t] = row]  BY <1>2 DEF board
  <1> HIDE DEF row
  <1>5. /\ b \in Boards /\ b.story = board.story /\ b.items = board.items
        /\ \A u \in Tasks : b.task[u] = IF u = t THEN row ELSE board.task[u]
    BY <1>1, <1>3, <1>4 DEF Boards
  <1> HIDE DEF b
  <1>6. \A u \in Tasks : HasTask(b, u) <=> HasTask(board, u)
    BY <1>3, <1>5, HasTaskDef DEF Live, board
  <1>7. ASSUME NEW u \in Tasks PROVE TaskSteady(b, u)
    <2>0. TaskSteady(board, u)  BY DEF Steady
    <2>1. CASE u # t  BY <1>5, <2>0, <2>1, TaskSteadyKept DEF Live
    <2>2. CASE u = t
      <3>1. CASE HasTask(board, t)
        <4>1. \A p : IsAgent(b, t[1], p) <=> IsAgent(board, t[1], p)
          BY <1>5 DEF IsAgent, Flow
        <4> QED  BY <1>3, <1>5, <1>6, <2>0, <2>2, <3>1, <4>1 DEF TaskSteady, RowFits, board
      <3>2. CASE ~HasTask(board, t)
        <4>1. task[t] # NoTask  BY DEF ActivateTask, NoTask
        <4>2. board.story[t[1]].status = "archived"
          BY <2>0, <2>2, <3>2, <4>1 DEF TaskSteady, board
        <4> QED  BY <1>5, <1>6, <2>2, <3>2, <4>2 DEF TaskSteady
      <3> QED  BY <3>1, <3>2
    <2> QED  BY <2>1, <2>2
  <1>8. Steady(b)  BY <1>5, <1>7 DEF Steady
  <1>9. HasTask(b, t) => Steady(placed)
    <2>1. b.task[t].pos \in Positions  BY <1>5 DEF Boards, TaskRow
    <2> QED  BY <1>8, <2>1, PlaceSteady
  <1>10. Steady(admitted)  BY <1>1, <1>8, AdmitSteady
  <1> HIDE DEF placed, admitted
  <1>11. Becomes(b) \/ (HasTask(b, t) /\ Becomes(placed)) \/ Becomes(admitted)
    BY DEF ActivateTask, placed, admitted, b
  <1> QED  BY <1>8, <1>9, <1>10, <1>11, BecomesSteady

-----------------------------------------------------------------------------
(* The queue's side: the rows of one task are written.                     *)

LEMMA RowsWrittenSteady ==
    ASSUME Steady(board), board' \in Boards, NEW t \in Tasks, NEW q,
           items' = [items EXCEPT ![t] = q], UNCHANGED <<story, task>>,
           \/ q = << >>
           \/ /\ HasTask(board, t) \/ story[t[1]].status = "archived"
              /\ HasTask(board, t) => \A k \in DOMAIN q : RowFits(board, t, q[k])
    PROVE  Steady(board')
  <1>1. items \in [Tasks -> Rows]  BY BoardParts DEF Steady
  <1>2. /\ board'.story = board.story /\ board'.task = board.task
        /\ \A u \in Tasks : board'.items[u] = IF u = t THEN q ELSE board.items[u]
    BY <1>1 DEF board
  <1>3. ASSUME NEW u \in Tasks PROVE TaskSteady(board', u)
    <2>0. TaskSteady(board, u)  BY DEF Steady
    <2>1. CASE u # t  BY <1>2, <2>0, <2>1, TaskSteadyKept DEF Live
    <2>2. CASE u = t
      <3>1. HasTask(board', t) <=> HasTask(board, t)  BY <1>2, HasTaskDef DEF Live
      <3>2. \A p : IsAgent(board', t[1], p) <=> IsAgent(board, t[1], p)
        BY <1>2 DEF IsAgent, Flow
      <3>3. story[t[1]] = board.story[t[1]]  BY DEF board
      <3>4. board'.items[t] = q  BY <1>2
      <3>5. CASE HasTask(board, t)
        <4>1. ASSUME NEW k \in DOMAIN q PROVE RowFits(board', t, q[k])
          <5>1. RowFits(board, t, q[k])  BY <3>5, <4>1
          <5> QED  BY <1>2, <3>2, <5>1 DEF RowFits
        <4> QED  BY <1>2, <2>0, <2>2, <3>1, <3>4, <3>5, <4>1 DEF TaskSteady
      <3>6. CASE ~HasTask(board, t)
        BY <1>2, <2>0, <2>2, <3>1, <3>3, <3>4, <3>6 DEF TaskSteady
      <3> QED  BY <3>5, <3>6
    <2> QED  BY <2>1, <2>2
  <1> QED  BY <1>3 DEF Steady

\* A row is rewritten where its task stands, and taken to work in an agent state.
LEMMA SetRowSteady ==
    ASSUME BoardInv, Steady(board), NEW t \in Tasks, NEW k \in DOMAIN items[t], NEW row \in ItemRow,
           SetRow(t, k, row), UNCHANGED <<story, task>>, row.at = items[t][k].at,
           HasTask(board, t) => IsAgent(board, t[1], task[t].pos)
    PROVE  Steady(board')
  <1>1. board' \in Boards  BY SetRowBoards
  <1>2. items[t] \in Rows  BY RowTyped
  <1>3. HasTask(board, t) \/ story[t[1]].status = "archived"
    <2>1. items[t] # << >>  OBVIOUS
    <2> QED  BY <2>1 DEF Steady, TaskSteady, board
  <1>4. ASSUME HasTask(board, t), NEW j \in DOMAIN [items[t] EXCEPT ![k] = row]
        PROVE  RowFits(board, t, [items[t] EXCEPT ![k] = row][j])
    <2>1. j \in DOMAIN items[t]  BY <1>4
    <2>2. RowFits(board, t, items[t][k]) /\ RowFits(board, t, items[t][j])
      BY <1>4, <2>1 DEF Steady, TaskSteady, board
    <2> QED  BY <1>4, <2>1, <2>2 DEF RowFits, board
  <1>5. items' = [items EXCEPT ![t] = [items[t] EXCEPT ![k] = row]]
    BY BoardParts DEF SetRow, BoardInv
  <1> QED  BY <1>1, <1>3, <1>4, <1>5, RowsWrittenSteady

\* The row of a task at work stands in an agent state.
LEMMA HeldFits ==
    ASSUME Steady(board), NEW t \in Tasks, NEW k \in DOMAIN items[t], HasTask(board, t),
           \/ items[t][k].offered \/ items[t][k].held \/ items[t][k].state \in InFlightStates
    PROVE  IsAgent(board, t[1], task[t].pos)
  BY DEF Steady, TaskSteady, RowFits, board

LEMMA RowEndsSteady ==
    ASSUME BoardInv, Steady(board), NEW t \in Tasks, NEW k \in DOMAIN items[t], NEW again,
           LET rest == Without(items[t], k)
           IN  items' = [items EXCEPT ![t] = IF again /\ rest = << >>
                                             THEN EnqueueFor(rest, task[t].def, task[t].pos) ELSE rest],
           UNCHANGED <<story, task>>
    PROVE  Steady(board')
  <1>1. Without(items[t], k) = << >>  BY RowTyped
  <1>2. board' \in Boards  BY RowEnds
  <1>3. HasTask(board, t) \/ story[t[1]].status = "archived"
    <2>1. items[t] # << >>  OBVIOUS
    <2> QED  BY <2>1 DEF Steady, TaskSteady, board
  <1>4. \A j \in DOMAIN EnqueueFor(<< >>, task[t].def, task[t].pos) :
            RowFits(board, t, EnqueueFor(<< >>, task[t].def, task[t].pos)[j])
    BY EnqueuedFits DEF board
  <1>5. \/ items' = [items EXCEPT ![t] = EnqueueFor(<< >>, task[t].def, task[t].pos)]
        \/ items' = [items EXCEPT ![t] = << >>]
    BY <1>1
  <1> QED  BY <1>2, <1>3, <1>4, <1>5, RowsWrittenSteady

LEMMA CompleteSteady ==
    ASSUME BoardInv, Steady(board), NEW t \in Tasks, NEW k \in DOMAIN items[t], Complete(t, k)
    PROVE  Steady(board')
  <1> DEFINE b == [board EXCEPT !.items[t] = Without(items[t], k)]
  <1>1. board \in Boards /\ << >> \in Rows /\ Without(items[t], k) = << >>
    BY RowTyped DEF Rows, Steady
  <1>2. /\ b \in Boards /\ b.story = board.story /\ b.task = board.task
        /\ \A u \in Tasks : b.items[u] = IF u = t THEN << >> ELSE board.items[u]
    BY <1>1 DEF Boards
  <1>3. HasTask(board, t) \/ board.story[t[1]].status = "archived"
    <2>1. board.items[t] # << >>  BY DEF board
    <2> QED  BY <2>1 DEF Steady, TaskSteady
  <1> HIDE DEF b
  <1>4. \A u \in Tasks : HasTask(b, u) <=> HasTask(board, u)  BY <1>2, HasTaskDef DEF Live
  <1>5. ASSUME NEW u \in Tasks PROVE TaskSteady(b, u)
    <2>0. TaskSteady(board, u)  BY DEF Steady
    <2>1. CASE u # t  BY <1>2, <2>0, <2>1, TaskSteadyKept DEF Live
    <2>2. CASE u = t  BY <1>2, <1>3, <1>4, <2>0, <2>2 DEF TaskSteady
    <2> QED  BY <2>1, <2>2
  <1>6. Steady(b)  BY <1>2, <1>5 DEF Steady
  <1>7. HasTask(b, t) => Steady(Advance(b, t))  BY <1>2, <1>6, AdvanceSteady
  <1>8. Becomes(b) \/ (HasTask(b, t) /\ Becomes(Advance(b, t)))  BY DEF Complete, b
  <1> QED  BY <1>6, <1>7, <1>8, BecomesSteady

LEMMA AgentStepSteady ==
    ASSUME BoardInv, Steady(board), AgentStep
    PROVE  Steady(board')
  <1>0. PICK t \in Tasks : \E k \in DOMAIN items[t] :
            \/ Offer(t, k) \/ Claim(t, k) \/ Complete(t, k) \/ Fail(t, k)
            \/ \E again \in BOOLEAN : SessionError(t, k, again)
            \/ GoesQuiet(t, k) \/ Returns(t, k) \/ MemberRemoved(t, k)
    BY DEF AgentStep
  <1>1. PICK k \in DOMAIN items[t] :
            \/ Offer(t, k) \/ Claim(t, k) \/ Complete(t, k) \/ Fail(t, k)
            \/ \E again \in BOOLEAN : SessionError(t, k, again)
            \/ GoesQuiet(t, k) \/ Returns(t, k) \/ MemberRemoved(t, k)
    BY <1>0
  <1>2. items[t][k] \in ItemRow  BY RowTyped
  <1>3. CASE Offer(t, k)
    <2> DEFINE row == [items[t][k] EXCEPT !.offered = TRUE]
    <2>1. row \in ItemRow /\ row.at = items[t][k].at  BY <1>2 DEF ItemRow
    <2>2. HasTask(board, t) => IsAgent(board, t[1], task[t].pos)
      BY <1>3 DEF Offer, IsEligible
    <2> QED  BY <1>3, <2>1, <2>2, SetRowSteady DEF Offer
  <1>4. CASE Claim(t, k)
    <2> DEFINE row == [items[t][k] EXCEPT !.state = "IN_PROGRESS", !.offered = FALSE, !.held = TRUE]
    <2>1. row \in ItemRow /\ row.at = items[t][k].at  BY <1>2 DEF ItemRow, ActiveStates
    <2>2. HasTask(board, t) => IsAgent(board, t[1], task[t].pos)  BY <1>4, HeldFits DEF Claim
    <2> QED  BY <1>4, <2>1, <2>2, SetRowSteady DEF Claim
  <1>5. CASE Complete(t, k)  BY <1>5, CompleteSteady
  <1>6. CASE Fail(t, k)
    <2>1. board' \in Boards  BY <1>6, AgentStepBoards DEF BoardInv
    <2>2. Without(items[t], k) = << >>  BY RowTyped
    <2> QED  BY <1>6, <2>1, <2>2, RowsWrittenSteady DEF Fail
  <1>7. CASE \E again \in BOOLEAN : SessionError(t, k, again)
    BY <1>7, RowEndsSteady DEF SessionError
  <1>8. CASE GoesQuiet(t, k)
    <2> DEFINE row == [items[t][k] EXCEPT !.state = "MORIBUND"]
    <2>1. row \in ItemRow /\ row.at = items[t][k].at  BY <1>2 DEF ItemRow, ActiveStates
    <2>2. HasTask(board, t) => IsAgent(board, t[1], task[t].pos)
      BY <1>8, HeldFits DEF GoesQuiet, InFlightStates
    <2> QED  BY <1>8, <2>1, <2>2, SetRowSteady DEF GoesQuiet
  <1>9. CASE Returns(t, k)
    <2> DEFINE row == [items[t][k] EXCEPT !.state = "IN_PROGRESS"]
    <2>1. row \in ItemRow /\ row.at = items[t][k].at  BY <1>2 DEF ItemRow, ActiveStates
    <2>2. HasTask(board, t) => IsAgent(board, t[1], task[t].pos)
      BY <1>9, HeldFits DEF Returns, InFlightStates
    <2> QED  BY <1>9, <2>1, <2>2, SetRowSteady DEF Returns
  <1>10. CASE MemberRemoved(t, k)
    <2> DEFINE row == [items[t][k] EXCEPT !.state = "MORIBUND", !.held = FALSE]
    <2>1. row \in ItemRow /\ row.at = items[t][k].at  BY <1>2 DEF ItemRow, ActiveStates
    <2>2. HasTask(board, t) => IsAgent(board, t[1], task[t].pos)
      BY <1>10, HeldFits DEF MemberRemoved
    <2> QED  BY <1>10, <2>1, <2>2, SetRowSteady DEF MemberRemoved
  <1> QED  BY <1>1, <1>3, <1>4, <1>5, <1>6, <1>7, <1>8, <1>9, <1>10

LEMMA QueuePersonSteady ==
    ASSUME BoardInv, Steady(board), NEW t \in Tasks,
           \/ ReEnqueue(t)
           \/ \E k \in DOMAIN items[t] :
                \/ CancelItem(t, k)
                \/ \E reEnqueue \in BOOLEAN : ForceFail(t, k, reEnqueue)
    PROVE  Steady(board')
  <1>0. board' \in Boards  BY QueuePersonBoards DEF BoardInv
  <1>1. CASE ReEnqueue(t)
    <2> DEFINE q == EnqueueFor(<< >>, task[t].def, task[t].pos)
    <2>1. \A j \in DOMAIN q : RowFits(board, t, q[j])  BY EnqueuedFits DEF board
    <2>2. \/ q = << >>
          \/ HasTask(board, t) \/ story[t[1]].status = "archived"
      <3>1. task[t] = NoTask => q = << >>  BY DEF NoTask, EnqueueFor
      <3> HIDE DEF q
      <3> QED  BY <3>1 DEF Steady, TaskSteady, board
    <2>3. items' = [items EXCEPT ![t] = q] /\ UNCHANGED <<story, task>>  BY <1>1 DEF ReEnqueue
    <2> HIDE DEF q
    <2> QED  BY <1>0, <2>1, <2>2, <2>3, RowsWrittenSteady
  <1>2. ASSUME NEW k \in DOMAIN items[t], CancelItem(t, k)
        PROVE  Steady(board')
    <2>1. Without(items[t], k) = << >>  BY RowTyped
    <2> QED  BY <1>0, <1>2, <2>1, RowsWrittenSteady DEF CancelItem
  <1>3. ASSUME NEW k \in DOMAIN items[t], NEW reEnqueue \in BOOLEAN, ForceFail(t, k, reEnqueue)
        PROVE  Steady(board')
    BY <1>3, RowEndsSteady DEF ForceFail
  <1> QED  BY <1>1, <1>2, <1>3

LEMMA BootSteady ==
    ASSUME BoardInv, Steady(board), Boot
    PROVE  Steady(board')
  <1> DEFINE rows == [t \in Tasks |-> Orphaned(items[t])]
             forgotten == [board EXCEPT !.items = rows]
             loaded == LoadFromDisk(forgotten)
             live == {s \in Stories : Live(loaded, s)}
             b == Admit(loaded, live, {})
             waiting == {t \in Tasks : HasTask(b, t) /\ IsAgent(b, t[1], b.task[t].pos)}
             c == Place(b, [t \in waiting |-> b.task[t].pos], TRUE)
  <1>1. board \in Boards /\ \A t \in Tasks : task[t] \in TaskRow /\ items[t] \in Rows
    BY BoardParts DEF BoardInv
  <1>2. ASSUME NEW t \in Tasks
        PROVE  /\ rows[t] \in Rows
               /\ items[t] = << >> => rows[t] = << >>
               /\ DOMAIN rows[t] = DOMAIN items[t]
               /\ \A k \in DOMAIN items[t] :
                    /\ rows[t][k].at = items[t][k].at
                    /\ rows[t][k].offered = items[t][k].offered
                    /\ rows[t][k].held = items[t][k].held
                    /\ rows[t][k].state \in InFlightStates => items[t][k].state \in InFlightStates
    <2>1. items[t] \in Seq(ItemRow) /\ Len(items[t]) <= 1  BY <1>1 DEF Rows
    <2>2. Len(items[t]) \in Nat /\ DOMAIN items[t] = 1 .. Len(items[t])
      BY <2>1, LenProperties
    <2>3. \A k \in DOMAIN items[t] : items[t][k] \in ItemRow
      BY <2>1, <2>2, ElementOfSeq
    <2>4. rows[t] = Orphaned(items[t])  OBVIOUS
    <2>5. \A k \in 1 .. Len(items[t]) :
            /\ Orphaned(items[t])[k] \in ItemRow
            /\ Orphaned(items[t])[k].at = items[t][k].at
            /\ Orphaned(items[t])[k].offered = items[t][k].offered
            /\ Orphaned(items[t])[k].held = items[t][k].held
            /\ Orphaned(items[t])[k].state \in InFlightStates => items[t][k].state \in InFlightStates
      BY <2>2, <2>3 DEF Orphaned, ItemRow, ActiveStates, InFlightStates
    <2>6. Orphaned(items[t]) \in [1 .. Len(items[t]) -> ItemRow]  BY <2>2, <2>5 DEF Orphaned
    <2> HIDE DEF rows
    <2>7. Orphaned(items[t]) \in Seq(ItemRow) /\ Len(Orphaned(items[t])) = Len(items[t])
      BY <2>2, <2>6
    <2>8. items[t] = << >> => Orphaned(items[t]) = << >>  BY <2>1, <2>7, EmptySeq
    <2>9. Orphaned(items[t]) \in Rows  BY <2>1, <2>7 DEF Rows
    <2> QED  BY <2>2, <2>4, <2>5, <2>6, <2>8, <2>9
  <1>3. rows \in [Tasks -> Rows]  BY <1>2
  <1> HIDE DEF rows
  <1>4. /\ forgotten \in Boards
        /\ forgotten.story = board.story /\ forgotten.task = task /\ forgotten.items = rows
    BY <1>1, <1>3 DEF Boards, board
  <1> HIDE DEF forgotten
  <1>5. \A t \in Tasks : HasTask(forgotten, t) <=> HasTask(board, t)
    BY <1>4, HasTaskDef DEF Live, board
  <1>6. /\ loaded \in Boards /\ loaded.story = board.story /\ loaded.items = rows
        /\ \A t \in Tasks : loaded.task[t] = IF HasTask(board, t)
                                               THEN [task[t] EXCEPT !.seq = task[t].place] ELSE task[t]
    <2>1. \A t \in Tasks : [forgotten.task[t] EXCEPT !.seq = forgotten.task[t].place] \in TaskRow
      BY <1>4 DEF Boards, TaskRow
    <2> QED  BY <1>4, <1>5, <2>1 DEF Boards, LoadFromDisk
  <1> HIDE DEF loaded
  <1>7. ASSUME NEW t \in Tasks PROVE TaskSteady(loaded, t)
    <2>0. TaskSteady(board, t) /\ task[t] \in TaskRow  BY <1>1 DEF Steady
    <2>1. loaded.task[t].place = task[t].place /\ loaded.task[t].pos = task[t].pos
      BY <1>6, <2>0 DEF TaskRow
    <2>2. HasTask(loaded, t) <=> HasTask(board, t)
      BY <1>6, <2>1, HasTaskDef DEF Live, board
    <2>3. CASE HasTask(board, t)
      <3>1. \A q : IsAgent(loaded, t[1], q) <=> IsAgent(board, t[1], q)
        BY <1>6 DEF IsAgent, Flow
      <3>2. "boot" \in Env  BY DEF Boot
      <3>3. ASSUME NEW k \in DOMAIN loaded.items[t] PROVE RowFits(loaded, t, loaded.items[t][k])
        <4>1. k \in DOMAIN items[t]  BY <1>2, <1>6, <3>3
        <4>2. RowFits(board, t, items[t][k])  BY <2>0, <2>3, <4>1 DEF TaskSteady, board
        <4> QED  BY <1>2, <1>6, <2>1, <3>1, <4>1, <4>2 DEF RowFits, board
      <3> QED  BY <2>2, <2>3, <3>2, <3>3 DEF TaskSteady
    <2>4. CASE ~HasTask(board, t)
      <3>1. loaded.task[t] = task[t]  BY <1>6, <2>4
      <3> QED  BY <1>2, <1>6, <2>0, <2>2, <2>4, <3>1 DEF TaskSteady, board
    <2> QED  BY <2>3, <2>4
  <1>8. Steady(loaded)  BY <1>6, <1>7 DEF Steady
  <1>9. Steady(b)  BY <1>8, AdmitSteady
  <1> HIDE DEF b
  <1>10. \A t \in Tasks : b.task[t].pos \in Positions  BY <1>9 DEF Steady, Boards, TaskRow
  <1>11. Steady(c)  BY <1>9, <1>10, PlaceSteady
  <1> HIDE DEF c
  <1>12. Becomes(c)  BY DEF Boot, Reconcile, c, waiting, b, live, loaded, forgotten, rows
  <1> QED  BY <1>11, <1>12, BecomesSteady

LEMMA PersonStepSteady ==
    ASSUME Undisturbed, BoardInv, Steady(board), PersonStep
    PROVE  Steady(board')
  <1>1. CASE \E s \in Stories :
            \/ \E status \in {"open", "done"}, n \in 0 .. MaxSeq, pending \in BOOLEAN :
                \E P \in SUBSET (1 .. n) : CreateStory(s, status, n, P, pending)
            \/ \E pending \in BOOLEAN : AddTask(s, pending)
            \/ \E place \in Orders(TasksOf(board, s)) : ReorderTasks(s, place)
            \/ EditStory(s)
            \/ DeleteStory(s)
            \/ \E force \in BOOLEAN : ArchiveStory(s, force)
    <2>1. ~\E s \in Stories : DeleteStory(s)  BY DEF DeleteStory, Undisturbed
    <2> QED
      BY <1>1, <2>1, CreateStorySteady, AddTaskSteady, ReorderTasksSteady, UpdateStorySteady,
         ArchiveStorySteady DEF EditStory
  <1>2. CASE \E t \in Tasks :
            \/ \E p \in Positions : MoveTask(t, p)
            \/ DeleteTask(t)
            \/ ActivateTask(t)
            \/ ReEnqueue(t)
            \/ \E k \in DOMAIN items[t] :
                \/ CancelItem(t, k)
                \/ \E reEnqueue \in BOOLEAN : ForceFail(t, k, reEnqueue)
    BY <1>2, MoveTaskSteady, DeleteTaskSteady, ActivateTaskSteady, QueuePersonSteady
  <1> QED  BY <1>1, <1>2 DEF PersonStep

\* Unless a workflow is edited, a story deleted, or a task added after a restart
\* renumbered them, a teammate works on a task only in the agent state where the
\* board shows it, so that COMPLETE never advances it from elsewhere
\* (setPosition and onItemTerminal, src/daemon/sources/story.ts).
THEOREM WorkedWhereItStandsCorrect ==
    ASSUME Undisturbed
    PROVE  Spec => []WorkedWhereItStands
  <1>1. Init => Steady(board)  BY InitSteady
  <1>2. BoardInv /\ Steady(board) /\ [Next]_vars => Steady(board)'
    <2> SUFFICES ASSUME BoardInv, Steady(board), [Next]_vars PROVE Steady(board')
      OBVIOUS
    <2>1. CASE UNCHANGED vars
      <3>1. board' = board  BY <2>1 DEF vars, board
      <3> QED  BY <3>1
    <2>2. CASE Next  BY <2>2, PersonStepSteady, AgentStepSteady, BootSteady DEF Next
    <2> QED  BY <2>1, <2>2
  <1>3. Steady(board) => WorkedWhereItStands
    BY DEF Steady, TaskSteady, RowFits, WorkedWhereItStands, board
  <1> QED  BY <1>1, <1>2, <1>3, BoardInvHolds, PTL DEF Spec

-----------------------------------------------------------------------------
(* Admission.  Every action edits the board, then admits.  What an admission *)
(* pulls in it pulls in for reasons that still hold when the action is over, *)
(* so that what an action does to the board follows from its edit.           *)

\* The order of the board: a story's tasks stand at places of their own, and
\* what is in no story has none.
Ordered(b) ==
    /\ b \in Boards
    /\ \A t \in Tasks : ~Live(b, t[1]) => b.task[t].place = 0
    /\ \A t, u \in Tasks :
        t[1] = u[1] /\ HasTask(b, t) /\ b.task[t].place = b.task[u].place => t = u

\* t holds its story's token, and none but those of X was before it.
InTurn(b, t, X) ==
    /\ HasTask(b, t)
    /\ IsStoryReady(b, t[1])
    /\ ~b.story[t[1]].pending
    /\ b.task[t].def # "pending"
    /\ IsActive(b, t[1], b.task[t].pos)
    /\ \A u \in TasksOf(b, t[1]) :
        /\ IsActive(b, t[1], b.task[u].pos) => u = t
        /\ b.task[u].place < b.task[t].place => b.task[u].pos # "todo" \/ u \in X

\* c is b after admissions that passed over the tasks of X.
Pulled(b, c, X) ==
    /\ Ordered(b) /\ Ordered(c)
    /\ c.story = b.story
    /\ \A t \in Tasks :
        \/ c.task[t] = b.task[t]
        \/ /\ c.task[t] = [b.task[t] EXCEPT !.pos = c.task[t].pos]
           /\ b.task[t].pos = "todo"
           /\ InTurn(c, t, X)

\* No workflow has a state named like a bucket.
LEMMA BucketsInactive ==
    ASSUME NEW b \in Boards, NEW s \in Stories, NEW p \in Buckets
    PROVE  ~IsActive(b, s, p) /\ ~IsAgent(b, s, p)
  <1>1. b.story[s].workflow \in Workflows  BY FlowPositions DEF StoryRow
  <1> QED  BY <1>1, StatesAssumption DEF IsActive, IsAgent, Flow

LEMMA SameFlow ==
    ASSUME NEW b, NEW c, NEW s, c.story[s].workflow = b.story[s].workflow
    PROVE  /\ Flow(c, s) = Flow(b, s)
           /\ \A p : IsActive(c, s, p) <=> IsActive(b, s, p)
           /\ \A p : IsAgent(c, s, p) <=> IsAgent(b, s, p)
           /\ \A p : NextState(c, s, p) = NextState(b, s, p)
  BY DEF Flow, IsActive, IsAgent, NextState

LEMMA SameTasks ==
    ASSUME NEW b, NEW c, NEW s \in Stories, Live(c, s) <=> Live(b, s),
           \A t \in Tasks : t[1] = s => c.task[t].place = b.task[t].place
    PROVE  /\ TasksOf(c, s) = TasksOf(b, s)
           /\ \A t \in Tasks : t[1] = s => (HasTask(c, t) <=> HasTask(b, t))
  <1>1. \A t \in {s} \X (1 .. MaxSeq) : t \in Tasks /\ t[1] = s  BY DEF Tasks
  <1> QED  BY <1>1, HasTaskDef DEF TasksOf

LEMMA OrderedKept ==
    ASSUME NEW b, Ordered(b), NEW c \in Boards,
           \A s \in Stories : Live(c, s) <=> Live(b, s),
           \A t \in Tasks : c.task[t].place = b.task[t].place
    PROVE  Ordered(c) /\ \A t \in Tasks : HasTask(c, t) <=> HasTask(b, t)
  <1>1. \A t \in Tasks : t[1] \in Stories  BY DEF Tasks
  <1>2. \A t \in Tasks : HasTask(c, t) <=> HasTask(b, t)  BY <1>1, SameTasks
  <1> QED  BY <1>1, <1>2 DEF Ordered

LEMMA PosOnly ==
    ASSUME NEW row \in TaskRow, NEW p, NEW r, r = [row EXCEPT !.pos = p]
    PROVE  r.pos = p /\ r.place = row.place /\ r.seq = row.seq /\ r.def = row.def
  BY DEF TaskRow

LEMMA PulledSame ==
    ASSUME NEW b, NEW c, NEW X, Pulled(b, c, X)
    PROVE  /\ \A s \in Stories : Live(c, s) <=> Live(b, s)
           /\ \A s \in Stories : TasksOf(c, s) = TasksOf(b, s)
           /\ \A p : \A s \in Stories : IsActive(c, s, p) <=> IsActive(b, s, p)
           /\ \A t \in Tasks : HasTask(c, t) <=> HasTask(b, t)
           /\ \A t \in Tasks : c.task[t].place = b.task[t].place /\ c.task[t].def = b.task[t].def
                               /\ c.task[t].seq = b.task[t].seq
  <1>1. c.story = b.story  BY DEF Pulled
  <1>2. \A s \in Stories : Live(c, s) <=> Live(b, s)  BY <1>1 DEF Live
  <1>3. ASSUME NEW t \in Tasks
        PROVE  c.task[t].place = b.task[t].place /\ c.task[t].def = b.task[t].def
               /\ c.task[t].seq = b.task[t].seq
    <2>1. b.task[t] \in TaskRow  BY DEF Pulled, Ordered, Boards
    <2>2. c.task[t] = b.task[t] \/ c.task[t] = [b.task[t] EXCEPT !.pos = c.task[t].pos]
      BY DEF Pulled
    <2> QED  BY <2>1, <2>2 DEF TaskRow
  <1>4. \A t \in Tasks : t[1] \in Stories  BY DEF Tasks
  <1> QED  BY <1>1, <1>2, <1>3, <1>4, SameTasks, SameFlow

LEMMA PulledSelf ==
    ASSUME NEW b, Ordered(b), NEW X
    PROVE  Pulled(b, b, X)
  BY DEF Pulled

\* A task pulled in is not disturbed by later admissions, and takes the token.
LEMMA PulledTwice ==
    ASSUME NEW b, NEW c, NEW d, NEW X, NEW Y, Pulled(b, c, X), Pulled(c, d, Y)
    PROVE  Pulled(b, d, X \union Y)
  <1>1. Ordered(b) /\ Ordered(c) /\ Ordered(d) /\ d.story = b.story /\ c.story = b.story
    BY DEF Pulled
  <1>2. ASSUME NEW t \in Tasks
        PROVE  \/ d.task[t] = b.task[t]
               \/ /\ d.task[t] = [b.task[t] EXCEPT !.pos = d.task[t].pos]
                  /\ b.task[t].pos = "todo"
                  /\ InTurn(d, t, X \union Y)
    <2>1. b.task[t] \in TaskRow /\ t[1] \in Stories /\ c \in Boards
      BY <1>1 DEF Ordered, Boards, Tasks
    <2>2. CASE d.task[t] # c.task[t]
      <3>1. c.task[t].pos = "todo" /\ InTurn(d, t, Y) /\ d.task[t] = [c.task[t] EXCEPT !.pos = d.task[t].pos]
        BY <2>2 DEF Pulled
      <3>2. c.task[t] = b.task[t]
        <4>1. ~InTurn(c, t, X)  BY <2>1, <3>1, BucketsInactive DEF InTurn, Buckets
        <4> QED  BY <4>1 DEF Pulled
      <3> QED  BY <3>1, <3>2 DEF InTurn
    <2>3. CASE d.task[t] = c.task[t] /\ c.task[t] # b.task[t]
      <3>1. /\ c.task[t] = [b.task[t] EXCEPT !.pos = c.task[t].pos]
            /\ b.task[t].pos = "todo" /\ InTurn(c, t, X)
        BY <2>3 DEF Pulled
      <3>2. /\ TasksOf(d, t[1]) = TasksOf(c, t[1])
            /\ \A p : IsActive(d, t[1], p) <=> IsActive(c, t[1], p)
            /\ HasTask(d, t) <=> HasTask(c, t)
        BY <2>1, PulledSame
      <3>3. ASSUME NEW u \in TasksOf(c, t[1]) PROVE d.task[u] = c.task[u]
        <4>1. u \in Tasks /\ u[1] = t[1]  BY <2>1 DEF TasksOf, Tasks
        <4>2. InTurn(d, u, Y) => t = u
          <5>1. t \in TasksOf(d, t[1])  BY <3>1, <3>2 DEF InTurn, HasTask
          <5> QED  BY <2>3, <3>1, <3>2, <4>1, <5>1 DEF InTurn
        <4> QED  BY <2>3, <4>1, <4>2 DEF Pulled
      <3>4. IsStoryReady(d, t[1]) <=> IsStoryReady(c, t[1])  BY <1>1 DEF IsStoryReady
      <3>5. InTurn(d, t, X \union Y)  BY <1>1, <2>3, <3>1, <3>2, <3>3, <3>4 DEF InTurn
      <3> QED  BY <2>3, <3>1, <3>5
    <2> QED  BY <2>2, <2>3
  <1> QED  BY <1>1, <1>2 DEF Pulled

-----------------------------------------------------------------------------
(* The policy operators, as edits and admissions.                          *)

\* What admission does to each task.
LEMMA AdmitTasks ==
    ASSUME NEW b \in Boards, NEW S \in SUBSET Stories, NEW X
    PROVE  /\ Admit(b, S, X) \in Boards
           /\ Admit(b, S, X).story = b.story
           /\ \A t \in Tasks :
                Admit(b, S, X).task[t] =
                    IF t[1] \in S /\ t \in Admitted(b, t[1], X)
                    THEN [b.task[t] EXCEPT !.pos = Flow(b, t[1])[1].name] ELSE b.task[t]
  <1> DEFINE at == [t \in UNION {Admitted(b, s, X) : s \in S} |-> Flow(b, t[1])[1].name]
             c == Admit(b, S, X)
  <1>1. c \in Boards /\ c.story = b.story  BY AdmitBoards
  <1>2. \A t \in Tasks : t \in DOMAIN at <=> t[1] \in S /\ t \in Admitted(b, t[1], X)
    BY AdmittedOwn
  <1>3. \A t \in Tasks : t \in DOMAIN at => at[t] = Flow(b, t[1])[1].name
    OBVIOUS
  <1> HIDE DEF at
  <1>4. \A t \in Tasks : Place(b, at, FALSE).task[t] =
            IF t \in DOMAIN at THEN [b.task[t] EXCEPT !.pos = at[t]] ELSE b.task[t]
    BY DEF Place, Boards
  <1>5. c = Place(b, at, FALSE)  BY DEF Admit, at
  <1> QED  BY <1>1, <1>2, <1>3, <1>4, <1>5

\* A story's token goes to one task, the one whose turn it is.
LEMMA AdmittedInLine ==
    ASSUME NEW b, Ordered(b), NEW s \in Stories, NEW X, NEW t \in Admitted(b, s, X)
    PROVE  /\ t \in Tasks /\ t[1] = s /\ HasTask(b, t)
           /\ IsStoryReady(b, s) /\ ~b.story[s].pending
           /\ b.task[t].pos = "todo" /\ b.task[t].def # "pending"
           /\ IsActive(b, s, Flow(b, s)[1].name)
           /\ Admitted(b, s, X) = {t}
           /\ \A u \in TasksOf(b, s) :
                /\ ~IsActive(b, s, b.task[u].pos)
                /\ b.task[u].place < b.task[t].place => b.task[u].pos # "todo" \/ u \in X
  <1>1. t \in Tasks /\ t[1] = s /\ 1 \in DOMAIN Flow(b, s)  BY AdmittedOwn DEF Ordered
  <1>2. t \in NextInLine(b, s, X) /\ t \in TasksOf(b, s)  BY DEF Admitted, NextInLine
  <1>3. HasTask(b, t)  BY <1>1, <1>2 DEF HasTask
  <1>4. \A u \in TasksOf(b, s) : u \in Tasks /\ u[1] = s /\ b.task[u].place \in Nat
    BY MaxSeqAssumption DEF TasksOf, Tasks, Ordered, Boards, TaskRow
  <1>5. \A u \in TasksOf(b, s) :
            b.task[u].place < b.task[t].place => b.task[u].pos # "todo" \/ u \in X
    BY <1>2, <1>4 DEF NextInLine
  <1>6. \A u \in Admitted(b, s, X) : u = t
    <2>1. ASSUME NEW u \in NextInLine(b, s, X) PROVE u = t
      <3>1. u \in TasksOf(b, s) /\ b.task[u].place <= b.task[t].place /\ b.task[t].place <= b.task[u].place
        BY <1>2 DEF NextInLine
      <3>2. b.task[u].place = b.task[t].place  BY <1>2, <1>4, <3>1
      <3> QED  BY <1>1, <1>3, <1>4, <3>1, <3>2 DEF Ordered
    <2> QED  BY <2>1 DEF Admitted
  <1>7. Admitted(b, s, X) = {t}  BY <1>6
  <1>8. IsActive(b, s, Flow(b, s)[1].name)  BY <1>1 DEF IsActive
  <1>9. IsStoryReady(b, s) /\ ~b.story[s].pending /\ b.task[t].def # "pending"
        /\ \A u \in TasksOf(b, s) : ~IsActive(b, s, b.task[u].pos)
    BY DEF Admitted
  <1> QED  BY <1>1, <1>2, <1>3, <1>5, <1>7, <1>8, <1>9 DEF NextInLine

LEMMA AdmitPulled ==
    ASSUME NEW b, Ordered(b), NEW S \in SUBSET Stories, NEW X
    PROVE  Pulled(b, Admit(b, S, X), X)
  <1> DEFINE c == Admit(b, S, X)
  <1>1. b \in Boards  BY DEF Ordered
  <1>2. /\ c \in Boards /\ c.story = b.story
        /\ \A t \in Tasks : c.task[t] = IF t[1] \in S /\ t \in Admitted(b, t[1], X)
                                        THEN [b.task[t] EXCEPT !.pos = Flow(b, t[1])[1].name]
                                        ELSE b.task[t]
    BY <1>1, AdmitTasks
  <1> HIDE DEF c
  <1>3. \A t \in Tasks : b.task[t] \in TaskRow /\ t[1] \in Stories  BY <1>1 DEF Boards, Tasks
  <1>4. \A t \in Tasks : c.task[t].place = b.task[t].place /\ c.task[t].def = b.task[t].def
    BY <1>2, <1>3 DEF TaskRow
  <1>5. \A s \in Stories : Live(c, s) <=> Live(b, s)  BY <1>2 DEF Live
  <1>6. Ordered(c) /\ \A t \in Tasks : HasTask(c, t) <=> HasTask(b, t)
    BY <1>2, <1>4, <1>5, OrderedKept
  <1>7. ASSUME NEW t \in Tasks, t[1] \in S, t \in Admitted(b, t[1], X)
        PROVE  /\ c.task[t] = [b.task[t] EXCEPT !.pos = c.task[t].pos]
               /\ b.task[t].pos = "todo"
               /\ InTurn(c, t, X)
    <2> DEFINE s == t[1]
               p == Flow(b, s)[1].name
    <2>1. /\ HasTask(b, t) /\ IsStoryReady(b, s) /\ ~b.story[s].pending
          /\ b.task[t].pos = "todo" /\ b.task[t].def # "pending"
          /\ IsActive(b, s, p)
          /\ Admitted(b, s, X) = {t}
          /\ \A u \in TasksOf(b, s) :
                /\ ~IsActive(b, s, b.task[u].pos)
                /\ b.task[u].place < b.task[t].place => b.task[u].pos # "todo" \/ u \in X
      BY <1>7, AdmittedInLine
    <2>2. c.task[t] = [b.task[t] EXCEPT !.pos = p]  BY <1>2, <1>7
    <2>3. c.task[t].pos = p  BY <1>3, <2>2, PosOnly
    <2>4. s \in Stories  BY <1>3
    <2> HIDE DEF s, p
    <2>5. TasksOf(c, s) = TasksOf(b, s) /\ \A q : IsActive(c, s, q) <=> IsActive(b, s, q)
      BY <1>2, <1>4, <1>5, <2>4, SameTasks, SameFlow
    <2>6. \A u \in TasksOf(b, s) : u # t => c.task[u] = b.task[u]
      <3>1. ASSUME NEW u \in TasksOf(b, s), u # t PROVE c.task[u] = b.task[u]
        <4>1. u \in Tasks /\ u[1] = s  BY <2>4, <3>1 DEF TasksOf, Tasks
        <4> QED  BY <1>2, <2>1, <3>1, <4>1
      <3> QED  BY <3>1
    <2>7. IsStoryReady(c, s)  BY <1>2, <2>1 DEF IsStoryReady
    <2>8. \A u \in TasksOf(c, s) :
            /\ IsActive(c, s, c.task[u].pos) => u = t
            /\ c.task[u].place < c.task[t].place => c.task[u].pos # "todo" \/ u \in X
      <3>1. ASSUME NEW u \in TasksOf(b, s)
            PROVE  /\ IsActive(b, s, c.task[u].pos) => u = t
                   /\ c.task[u].place < c.task[t].place => c.task[u].pos # "todo" \/ u \in X
        <4>1. CASE u = t
          <5>1. c.task[t].place \in Nat
            BY <1>3, <1>4, MaxSeqAssumption DEF TaskRow
          <5> QED  BY <4>1, <5>1
        <4>2. CASE u # t
          <5>1. c.task[u] = b.task[u] /\ c.task[t].place = b.task[t].place  BY <1>4, <2>6, <4>2
          <5> QED  BY <2>1, <4>2, <5>1
        <4> QED  BY <4>1, <4>2
      <3> QED  BY <2>5, <3>1
    <2>9. c.story[s].pending = b.story[s].pending /\ HasTask(c, t) /\ c.task[t].def # "pending"
          /\ IsActive(c, s, c.task[t].pos)
      BY <1>2, <1>4, <1>6, <2>1, <2>3, <2>5
    <2>10. InTurn(c, t, X)  BY <2>1, <2>7, <2>8, <2>9 DEF InTurn, s
    <2> QED  BY <2>1, <2>2, <2>3, <2>10
  <1>8. \A t \in Tasks : \/ c.task[t] = b.task[t]
                         \/ /\ c.task[t] = [b.task[t] EXCEPT !.pos = c.task[t].pos]
                            /\ b.task[t].pos = "todo"
                            /\ InTurn(c, t, X)
    BY <1>2, <1>7
  <1> QED  BY <1>2, <1>6, <1>8 DEF Pulled, c

\* Only rows are rewritten.
LEMMA PulledStays ==
    ASSUME NEW b, Ordered(b), NEW c \in Boards, NEW X, c.story = b.story,
           \A t \in Tasks : c.task[t] = b.task[t]
    PROVE  Pulled(b, c, X)
  <1>1. \A s \in Stories : Live(c, s) <=> Live(b, s)  BY DEF Live
  <1>2. Ordered(c)  BY <1>1, OrderedKept
  <1> QED  BY <1>2 DEF Pulled

\* setPosition before it admits dependents: the task lands, its story follows.
Put(b, t, p, keep) ==
    LET s == t[1]
        c == Place(b, [u \in {t} |-> p], keep)
    IN  IF p = "done"
        THEN IF \A u \in TasksOf(c, s) : c.task[u].pos = "done"
             THEN [c EXCEPT !.story[s].status = "done"] ELSE c
        ELSE IF c.story[s].status = "done" THEN [c EXCEPT !.story[s].status = "open"] ELSE c

WithStatus(row, status) == [row EXCEPT !.status = status]

\* A story's status set, the board's order is kept.
LEMMA StatusSet ==
    ASSUME NEW b, Ordered(b), NEW s \in Stories, Live(b, s), NEW status \in {"open", "done"},
           NEW c, c = [b EXCEPT !.story[s].status = status]
    PROVE  /\ Ordered(c)
           /\ c.task = b.task
           /\ \A r \in Stories : c.story[r] = IF r = s THEN WithStatus(b.story[s], status)
                                              ELSE b.story[r]
           /\ c.story[s].status = status
           /\ \A t \in Tasks : HasTask(c, t) <=> HasTask(b, t)
  <1>1. b \in Boards /\ b.story \in [Stories -> StoryRow] /\ b.story[s] \in StoryRow
    BY DEF Ordered, Boards
  <1>2. [b.story[s] EXCEPT !.status = status] \in StoryRow  BY <1>1 DEF StoryRow
  <1>3. /\ c \in Boards /\ c.task = b.task
        /\ c.story = [b.story EXCEPT ![s] = [b.story[s] EXCEPT !.status = status]]
    BY <1>1, <1>2 DEF Boards
  <1>4. \A r \in Stories : c.story[r] = IF r = s THEN WithStatus(b.story[s], status) ELSE b.story[r]
    BY <1>1, <1>3 DEF WithStatus
  <1>5. c.story[s].status = status  BY <1>1, <1>4 DEF StoryRow, WithStatus
  <1>6. \A r \in Stories : Live(c, r) <=> Live(b, r)  BY <1>4, <1>5 DEF Live
  <1>7. Ordered(c) /\ \A t \in Tasks : HasTask(c, t) <=> HasTask(b, t)
    BY <1>3, <1>6, OrderedKept
  <1> QED  BY <1>3, <1>4, <1>5, <1>7

AtPos(row, p) == [row EXCEPT !.pos = p]

\* c is b with the tasks of DOMAIN at put at their positions.
Placed(b, c, at) ==
    /\ Ordered(c)
    /\ c.story = b.story
    /\ \A t \in Tasks : c.task[t] = IF t \in DOMAIN at THEN AtPos(b.task[t], at[t]) ELSE b.task[t]
    /\ \A t \in Tasks : HasTask(c, t) <=> HasTask(b, t)

LEMMA PlaceOrdered ==
    ASSUME NEW b, Ordered(b), NEW at, NEW keep,
           \A t \in Tasks \intersect DOMAIN at : at[t] \in Positions,
           NEW c, c = Place(b, at, keep)
    PROVE  Placed(b, c, at)
  <1>1. b \in Boards /\ \A t \in Tasks : b.task[t] \in TaskRow  BY DEF Ordered, Boards
  <1>2. c \in Boards /\ c.story = b.story  BY <1>1, PlaceBoards
  <1>3. \A t \in Tasks : c.task[t] = IF t \in DOMAIN at THEN AtPos(b.task[t], at[t])
                                     ELSE b.task[t]
    BY <1>1 DEF Place, Boards, AtPos
  <1>4. \A t \in Tasks : c.task[t].place = b.task[t].place  BY <1>1, <1>3 DEF TaskRow, AtPos
  <1>5. Ordered(c) /\ \A t \in Tasks : HasTask(c, t) <=> HasTask(b, t)
    BY <1>2, <1>4, OrderedKept DEF Live
  <1> QED  BY <1>2, <1>3, <1>5 DEF Placed

LEMMA PutFacts ==
    ASSUME NEW b, Ordered(b), NEW t \in Tasks, HasTask(b, t), NEW p \in Positions, NEW keep,
           NEW c, c = Put(b, t, p, keep)
    PROVE  /\ Ordered(c)
           /\ \A u \in Tasks : HasTask(c, u) <=> HasTask(b, u)
           /\ \A u \in Tasks : c.task[u] = IF u = t THEN AtPos(b.task[t], p) ELSE b.task[u]
           /\ \A s \in Stories : s # t[1] => c.story[s] = b.story[s]
           /\ c.story[t[1]] = WithStatus(b.story[t[1]], c.story[t[1]].status)
           /\ c.story[t[1]].status =
                IF p # "done" THEN "open"
                ELSE IF \A u \in TasksOf(c, t[1]) : c.task[u].pos = "done" THEN "done"
                ELSE b.story[t[1]].status
  <1> DEFINE s == t[1]
             at == [u \in {t} |-> p]
             a == Place(b, at, keep)
             allDone == \A u \in TasksOf(a, s) : a.task[u].pos = "done"
             Goal == /\ Ordered(c)
                     /\ \A u \in Tasks : HasTask(c, u) <=> HasTask(b, u)
                     /\ \A u \in Tasks : c.task[u] = IF u = t THEN AtPos(b.task[t], p)
                                                    ELSE b.task[u]
                     /\ \A r \in Stories : r # s => c.story[r] = b.story[r]
                     /\ c.story[s] = WithStatus(b.story[s], c.story[s].status)
                     /\ c.story[s].status =
                            IF p # "done" THEN "open"
                            ELSE IF \A u \in TasksOf(c, s) : c.task[u].pos = "done" THEN "done"
                            ELSE b.story[s].status
  <1> SUFFICES Goal
    OBVIOUS
  <1>1. s \in Stories /\ Live(b, s) /\ b.story[s] \in StoryRow
    BY HasTaskDef DEF Tasks, Ordered, Boards
  <1>2. /\ Ordered(a) /\ a.story = b.story
        /\ \A u \in Tasks : a.task[u] = IF u \in DOMAIN at THEN AtPos(b.task[u], at[u])
                                        ELSE b.task[u]
        /\ \A u \in Tasks : HasTask(a, u) <=> HasTask(b, u)
    <2>1. \A u \in Tasks \intersect DOMAIN at : at[u] \in Positions  OBVIOUS
    <2> HIDE DEF at
    <2>2. Placed(b, a, at)  BY <2>1, PlaceOrdered
    <2> QED  BY <2>2 DEF Placed
  <1>3. \A u \in Tasks : a.task[u] = IF u = t THEN AtPos(b.task[t], p) ELSE b.task[u]
    BY <1>2
  <1>4. c = IF p = "done" THEN IF allDone THEN [a EXCEPT !.story[s].status = "done"] ELSE a
            ELSE IF a.story[s].status = "done" THEN [a EXCEPT !.story[s].status = "open"] ELSE a
    BY DEF Put
  <1> HIDE DEF a, s
  <1>5. Live(a, s) /\ a.story[s].status \in {"open", "done"}  BY <1>1, <1>2 DEF Live
  <1>6. CASE c = a
    <2>1. a.story[s] = WithStatus(b.story[s], a.story[s].status)
      BY <1>1, <1>2 DEF StoryRow, WithStatus
    <2>2. p # "done" => a.story[s].status = "open"
      <3>1. ASSUME p # "done", a.story[s].status = "done" PROVE FALSE
        <4>1. a = [a EXCEPT !.story[s].status = "open"]  BY <1>4, <1>6, <3>1
        <4>2. a.story[s].status = "open"
          BY <1>1, <1>2, <1>5, <4>1, StatusSet
        <4> QED  BY <3>1, <4>2
      <3> QED  BY <1>5, <3>1
    <2>3. p = "done" /\ allDone => a.story[s].status = "done"
      <3>1. ASSUME p = "done", allDone PROVE a.story[s].status = "done"
        <4>1. a = [a EXCEPT !.story[s].status = "done"]  BY <1>4, <1>6, <3>1
        <4> HIDE DEF allDone
        <4> QED  BY <1>1, <1>2, <1>5, <4>1, StatusSet
      <3> QED  BY <3>1
    <2> QED  BY <1>2, <1>3, <1>6, <2>1, <2>2, <2>3
  <1>7. ASSUME NEW st \in {"open", "done"}, c = [a EXCEPT !.story[s].status = st],
               st = IF p = "done" THEN "done" ELSE "open", p = "done" => allDone
        PROVE  Goal
    <2>0. c = [a EXCEPT !.story[s].status = st]  BY <1>7
    <2>1. /\ Ordered(c) /\ c.task = a.task /\ c.story[s].status = st
          /\ \A r \in Stories : c.story[r] = IF r = s THEN WithStatus(a.story[s], st)
                                             ELSE a.story[r]
          /\ \A u \in Tasks : HasTask(c, u) <=> HasTask(a, u)
      <3>1. Ordered(a) /\ s \in Stories /\ Live(a, s)  BY <1>1, <1>2, <1>5
      <3> HIDE DEF allDone, Goal
      <3> QED  BY <2>0, <3>1, StatusSet
    <2>2. Live(c, s)  BY <1>7, <2>1 DEF Live
    <2>3. TasksOf(c, s) = TasksOf(a, s)  BY <1>5, <2>1, <2>2 DEF TasksOf
    <2> QED  BY <1>1, <1>2, <1>3, <1>7, <2>1, <2>3
  <1>8. CASE c # a
    <2>1. CASE p = "done"  BY <1>4, <1>7, <1>8, <2>1
    <2>2. CASE p # "done"  BY <1>4, <1>7, <1>8, <2>2
    <2> QED  BY <2>1, <2>2
  <1> QED  BY <1>6, <1>8

StandsAt(b, t, p) == b.task[t].pos = p

LEMMA PutLands ==
    ASSUME NEW b, Ordered(b), NEW t \in Tasks, HasTask(b, t), NEW p \in Positions, NEW keep
    PROVE  StandsAt(Put(b, t, p, keep), t, p)
  <1> DEFINE c == Put(b, t, p, keep)
  <1>1. c = Put(b, t, p, keep)  OBVIOUS
  <1> HIDE DEF c
  <1>2. \A u \in Tasks : c.task[u] = IF u = t THEN AtPos(b.task[t], p) ELSE b.task[u]
    BY <1>1, PutFacts
  <1>3. b.task[t] \in TaskRow  BY DEF Ordered, Boards
  <1> QED  BY <1>1, <1>2, <1>3 DEF AtPos, TaskRow, StandsAt

LEMMA SetPositionPulled ==
    ASSUME NEW b, Ordered(b), NEW t \in Tasks, HasTask(b, t), NEW p \in Positions, NEW keep
    PROVE  Pulled(Put(b, t, p, keep), SetPosition(b, t, p, keep), {})
  <1> DEFINE s == t[1]
             a == Place(b, [u \in {t} |-> p], keep)
             c == Put(b, t, p, keep)
             d == SetPosition(b, t, p, keep)
  <1>1. Ordered(c)  BY PutFacts
  <1>2. s \in Stories  BY DEF Tasks
  <1>3. d = c \/ d = AdmitDependents(c, s)
    BY DEF Put, SetPosition, SetStoryStatus
  <1> HIDE DEF c, d
  <1>4. Pulled(c, AdmitDependents(c, s), {})  BY <1>1, <1>2, AdmitPulled DEF AdmitDependents
  <1> QED  BY <1>1, <1>3, <1>4, PulledSelf DEF c, d

-----------------------------------------------------------------------------
(* What is left to admit.                                                  *)

\* A story whose record, tasks and dependencies stay has nothing more to admit.
LEMMA SameAdmitted ==
    ASSUME NEW b, NEW c, NEW s, NEW X,
           c.story[s] = b.story[s], TasksOf(c, s) = TasksOf(b, s),
           \A t \in TasksOf(b, s) : c.task[t] = b.task[t],
           IsStoryReady(c, s) => IsStoryReady(b, s)
    PROVE  Admitted(c, s, X) \subseteq Admitted(b, s, X)
  <1>1. NextInLine(c, s, X) = NextInLine(b, s, X)
    <2> DEFINE queue(x) == {t \in TasksOf(x, s) \ X : x.task[t].pos = "todo"}
    <2>1. queue(c) = queue(b)  OBVIOUS
    <2>2. \A t \in queue(b) : c.task[t] = b.task[t]  OBVIOUS
    <2>3. NextInLine(c, s, X) = {t \in queue(c) : \A u \in queue(c) : c.task[t].place <= c.task[u].place}
      BY DEF NextInLine
    <2>4. NextInLine(b, s, X) = {t \in queue(b) : \A u \in queue(b) : b.task[t].place <= b.task[u].place}
      BY DEF NextInLine
    <2> HIDE DEF queue
    <2> QED  BY <2>1, <2>2, <2>3, <2>4
  <1>2. Flow(c, s) = Flow(b, s) /\ \A p : IsActive(c, s, p) <=> IsActive(b, s, p)
    BY SameFlow
  <1>3. \A t \in NextInLine(b, s, X) : c.task[t] = b.task[t]  BY DEF NextInLine
  <1> QED  BY <1>1, <1>2, <1>3 DEF Admitted

\* Only an active story has something to admit.
LEMMA ClosedAdmitted ==
    ASSUME NEW b, NEW s, b.story[s].status # "open", NEW X
    PROVE  Admitted(b, s, X) = {}
  BY DEF Admitted, IsStoryReady

LEMMA PulledAdmitted ==
    ASSUME NEW b, NEW c, NEW X, Pulled(b, c, X), NEW s \in Stories, NEW Y
    PROVE  Admitted(c, s, Y) \subseteq Admitted(b, s, Y)
  <1> SUFFICES ASSUME Admitted(c, s, Y) # {} PROVE Admitted(c, s, Y) \subseteq Admitted(b, s, Y)
    OBVIOUS
  <1>1. Ordered(c) /\ c.story = b.story  BY DEF Pulled
  <1>2. \A u \in TasksOf(c, s) : ~IsActive(c, s, c.task[u].pos)  BY DEF Admitted
  <1>3. TasksOf(c, s) = TasksOf(b, s)  BY PulledSame
  <1>4. ASSUME NEW u \in TasksOf(b, s) PROVE c.task[u] = b.task[u]
    <2>1. u \in Tasks /\ u[1] = s  BY <1>4 DEF TasksOf, Tasks
    <2>2. ~InTurn(c, u, X)  BY <1>2, <1>3, <1>4, <2>1 DEF InTurn
    <2> QED  BY <2>1, <2>2 DEF Pulled
  <1>5. IsStoryReady(c, s) => IsStoryReady(b, s)  BY <1>1 DEF IsStoryReady
  <1> QED  BY <1>1, <1>3, <1>4, <1>5, SameAdmitted

LEMMA AdmitClears ==
    ASSUME NEW b, Ordered(b), NEW S \in SUBSET Stories, NEW s \in S, NEW X
    PROVE  Admitted(Admit(b, S, X), s, X) = {}
  <1> DEFINE c == Admit(b, S, X)
  <1>0. b \in Boards /\ s \in Stories  BY DEF Ordered
  <1>1. Pulled(b, c, X)  BY AdmitPulled
  <1>2. \A t \in Tasks : c.task[t] = IF t[1] \in S /\ t \in Admitted(b, t[1], X)
                                     THEN [b.task[t] EXCEPT !.pos = Flow(b, t[1])[1].name]
                                     ELSE b.task[t]
    BY <1>0, AdmitTasks
  <1> HIDE DEF c
  <1>3. ASSUME NEW t \in Admitted(c, s, X) PROVE FALSE
    <2>1. Ordered(c)  BY <1>1 DEF Pulled
    <2>2. t \in Tasks /\ t[1] = s /\ c.task[t].pos = "todo"  BY <1>0, <1>3, <2>1, AdmittedInLine
    <2>3. t \in Admitted(b, s, X)  BY <1>0, <1>1, <1>3, PulledAdmitted
    <2>4. IsActive(b, s, Flow(b, s)[1].name)  BY <1>0, <2>3, AdmittedInLine
    <2>5. c.task[t] = [b.task[t] EXCEPT !.pos = Flow(b, s)[1].name]  BY <1>2, <2>2, <2>3
    <2>6. b.task[t] \in TaskRow  BY <1>0, <2>2 DEF Boards
    <2>7. c.task[t].pos = Flow(b, s)[1].name  BY <2>5, <2>6, PosOnly
    <2> QED  BY <1>0, <2>2, <2>4, <2>7, BucketsInactive DEF Buckets
  <1> QED  BY <1>3 DEF c

LEMMA DependentsCleared ==
    ASSUME NEW b, Ordered(b), NEW s \in Stories, NEW r \in Stories \ {s}, s \in b.story[r].deps
    PROVE  Admitted(AdmitDependents(b, s), r, {}) = {}
  <1> DEFINE S == {d \in Stories \ {s} : Live(b, d) /\ s \in b.story[d].deps}
  <1>1. AdmitDependents(b, s) = Admit(b, S, {})  BY DEF AdmitDependents
  <1>2. CASE Live(b, r)
    <2>1. r \in S /\ S \in SUBSET Stories  BY <1>2
    <2> HIDE DEF S
    <2> QED  BY <1>1, <2>1, AdmitClears
  <1>3. CASE ~Live(b, r)
    <2>1. AdmitDependents(b, s).story = b.story  BY AdmitDependentsBoards DEF Ordered
    <2> QED  BY <1>3, <2>1, ClosedAdmitted DEF Live
  <1> QED  BY <1>2, <1>3

\* Nothing that an admission of r asks for has changed for the better.
Unstirred(b, c, r) ==
    /\ c.story[r] = b.story[r]
    /\ \A t \in Tasks : t[1] = r => /\ HasTask(c, t) <=> HasTask(b, t)
                                    /\ HasTask(b, t) => c.task[t] = b.task[t]
    /\ \A d \in b.story[r].deps : c.story[d].status # "open" => b.story[d].status # "open"

LEMMA UnstirredAdmitted ==
    ASSUME NEW b, NEW c, NEW r \in Stories, Unstirred(b, c, r), NEW X
    PROVE  Admitted(c, r, X) \subseteq Admitted(b, r, X)
  <1>1. c.story[r] = b.story[r]  BY DEF Unstirred
  <1>2. ASSUME NEW t PROVE t \in TasksOf(c, r) <=> t \in TasksOf(b, r)
    <2>1. t \in {r} \X (1 .. MaxSeq) => t \in Tasks /\ t[1] = r  BY DEF Tasks
    <2>2. t \in Tasks /\ t[1] = r => (HasTask(c, t) <=> HasTask(b, t))  BY DEF Unstirred
    <2> QED  BY <2>1, <2>2 DEF HasTask, TasksOf
  <1>3. ASSUME NEW t \in TasksOf(b, r) PROVE c.task[t] = b.task[t]
    <2>1. t \in Tasks /\ t[1] = r /\ HasTask(b, t)  BY <1>3 DEF TasksOf, Tasks, HasTask
    <2> QED  BY <2>1 DEF Unstirred
  <1>4. IsStoryReady(c, r) => IsStoryReady(b, r)  BY <1>1 DEF Unstirred, IsStoryReady
  <1> QED  BY <1>1, <1>2, <1>3, <1>4, SameAdmitted

\* Of an edit c of b and the admissions that led to d: a story was asked once the
\* edit was made, past the tasks of X, or the edit gave it nothing to admit.
Settled(b, c, d, X) ==
    "reorder" \in Env \/ \A r \in Stories : \/ Unstirred(b, c, r)
                                            \/ Admitted(d, r, {}) = {}
                                            \/ Admitted(d, r, X) = {}

\* The edit is one of the story s and its tasks.
Local(b, c, s) ==
    /\ \A r \in Stories \ {s} : c.story[r] = b.story[r]
    /\ \A t \in Tasks : t[1] # s => c.task[t] = b.task[t]

Lifted(b, c, s) == b.story[s].status = "open" /\ c.story[s].status # "open"

LEMMA LocalUnstirred ==
    ASSUME NEW b, Ordered(b), NEW c, NEW s \in Stories, Local(b, c, s), NEW r \in Stories \ {s},
           s \in b.story[r].deps => ~Lifted(b, c, s)
    PROVE  Unstirred(b, c, r)
  <1>1. \A t \in Tasks : t[1] = r => c.task[t] = b.task[t]  BY DEF Local
  <1>2. c.story[r] = b.story[r]  BY DEF Local
  <1>3. \A t \in Tasks : t[1] = r => (HasTask(c, t) <=> HasTask(b, t))
    BY <1>1, <1>2, HasTaskDef DEF Live
  <1>4. b.story[r] \in StoryRow  BY DEF Ordered, Boards
  <1>5. b.story[r].deps \subseteq Stories  BY <1>4 DEF StoryRow
  <1>6. \A d \in b.story[r].deps : c.story[d].status # "open" => b.story[d].status # "open"
    BY <1>5 DEF Local, Lifted
  <1> QED  BY <1>1, <1>2, <1>3, <1>6 DEF Unstirred

\* A story is edited, nobody is waiting for it, and it is asked.
LEMMA SettledOne ==
    ASSUME NEW b, Ordered(b), NEW c, Ordered(c), NEW s \in Stories, Local(b, c, s), ~Lifted(b, c, s),
           NEW X
    PROVE  Settled(b, c, Admit(c, {s}, X), X)
  <1>1. Admitted(Admit(c, {s}, X), s, X) = {}  BY AdmitClears
  <1>2. \A r \in Stories \ {s} : Unstirred(b, c, r)  BY LocalUnstirred
  <1> QED  BY <1>1, <1>2 DEF Settled

LEMMA SettledSame ==
    ASSUME NEW a, NEW b, a.story = b.story, a.task = b.task,
           NEW c, NEW d, NEW X, Settled(b, c, d, X)
    PROVE  Settled(a, c, d, X)
  <1>1. \A t : HasTask(a, t) <=> HasTask(b, t)  BY DEF HasTask, TasksOf, Live
  <1>2. \A r \in Stories : Unstirred(b, c, r) => Unstirred(a, c, r)  BY <1>1 DEF Unstirred
  <1> QED  BY <1>2 DEF Settled

\* Nothing the board shows has changed.
LEMMA SettledStill ==
    ASSUME NEW b, NEW c, c.story = b.story, c.task = b.task, NEW X, NEW d
    PROVE  Settled(b, c, d, X)
  <1>1. \A t : HasTask(c, t) <=> HasTask(b, t)  BY DEF HasTask, TasksOf, Live
  <1> QED  BY <1>1 DEF Settled, Unstirred

LEMMA SettledPut ==
    ASSUME NEW b, Ordered(b), NEW t \in Tasks, HasTask(b, t), NEW p \in Positions, NEW keep,
           NEW X
    PROVE  Settled(b, Put(b, t, p, keep), Admit(SetPosition(b, t, p, keep), {t[1]}, X), X)
  <1> DEFINE s == t[1]
             a == Place(b, [u \in {t} |-> p], keep)
             c == Put(b, t, p, keep)
             d == SetPosition(b, t, p, keep)
             e == Admit(d, {s}, X)
  <1>1. s \in Stories  BY DEF Tasks
  <1>2. /\ Ordered(c)
        /\ \A u \in Tasks : c.task[u] = IF u = t THEN AtPos(b.task[t], p) ELSE b.task[u]
        /\ \A r \in Stories : r # s => c.story[r] = b.story[r]
    BY PutFacts
  <1>3. Local(b, c, s)  BY <1>2 DEF Local
  <1>4. Pulled(c, d, {})  BY SetPositionPulled
  <1>5. Lifted(b, c, s) => d = AdmitDependents(c, s)
    <2>1. a.story = b.story
      BY BucketPositions, PlaceBoards DEF Ordered
    <2> QED  BY <2>1 DEF Put, SetPosition, SetStoryStatus, Lifted
  <1> HIDE DEF a, c, d, s
  <1>6. Ordered(d)  BY <1>4 DEF Pulled
  <1>7. Pulled(d, e, X) /\ Admitted(e, s, X) = {}  BY <1>1, <1>6, AdmitPulled, AdmitClears
  <1> HIDE DEF e
  <1>8. ASSUME NEW r \in Stories \ {s}
        PROVE  Unstirred(b, c, r) \/ Admitted(e, r, {}) = {}
    <2>1. CASE Lifted(b, c, s) /\ s \in b.story[r].deps
      <3>1. s \in c.story[r].deps  BY <1>2, <2>1
      <3>2. Admitted(d, r, {}) = {}  BY <1>1, <1>2, <1>5, <2>1, <3>1, DependentsCleared
      <3>3. Admitted(e, r, {}) = {}  BY <1>7, <3>2, PulledAdmitted
      <3> QED  BY <3>3
    <2>2. CASE ~(Lifted(b, c, s) /\ s \in b.story[r].deps)
      BY <1>1, <1>3, <2>2, LocalUnstirred
    <2> QED  BY <2>1, <2>2
  <1>9. Settled(b, c, e, X)  BY <1>7, <1>8 DEF Settled
  <1> QED  BY <1>9 DEF c, d, e, s

-----------------------------------------------------------------------------
(* Edits.                                                                  *)

\* No task comes to a story or leaves it, and nobody sets a status by hand.
Unedited == {"add", "deleteTask", "status"} \intersect Env = {}

InSync(b) ==
    \A s \in Stories : TasksOf(b, s) # {} =>
        (b.story[s].status = "done" <=> \A t \in TasksOf(b, s) : b.task[t].pos = "done")

\* A task stands where it stood or one state on, or is new, its id perhaps
\* another's.
Carried(b, c, t) ==
    IF HasTask(b, t)
    THEN \/ c.task[t].pos \in {b.task[t].pos, NextState(b, t[1], b.task[t].pos)}
         \/ c.task[t].pos = "todo" /\ "add" \in Env /\ b.task[t].seq # t[2]
    ELSE c.task[t].pos = "todo"

\* What an edit does to the board: a person moves the tasks of M and edits the
\* stories of E.
Edit(b, c, M, E) ==
    /\ Ordered(c)
    /\ M \subseteq Tasks
    /\ \A t \in Tasks \ M : HasTask(c, t) => Carried(b, c, t)
    /\ \A t \in Tasks : HasTask(c, t) =>
        \/ c.task[t].seq = t[2] \/ "boot" \in Env
        \/ HasTask(b, t) /\ c.task[t].seq = b.task[t].seq
    /\ \A s \in Stories \ E :
        Live(b, s) /\ Live(c, s) => c.story[s].workflow = b.story[s].workflow
    /\ Unedited /\ InSync(b) => InSync(c)

\* Every step is an edit and the admissions that follow from it.
BoardStep ==
    \E c, M, E :
        /\ Edit(board, c, M, E)
        /\ Pulled(c, board', M)
        /\ Settled(board, c, board', M)
        /\ \A t \in M : \E p \in Positions : MoveTask(t, p) /\ c.task[t].pos = p
        /\ \A s \in E : EditStory(s)

LEMMA BecomesBoard ==
    ASSUME NEW c \in Boards, Becomes(c)
    PROVE  board' = c
  BY DEF Becomes, board, Boards

\* An edit by a request of no person at the board.
LEMMA PlainStep ==
    ASSUME NEW c, Edit(board, c, {}, {}), NEW d, Pulled(c, d, {}), Settled(board, c, d, {}),
           Becomes(d)
    PROVE  BoardStep
  <1>1. board' = d  BY BecomesBoard DEF Pulled, Ordered
  <1> QED  BY <1>1 DEF BoardStep

\* Tasks keep their places and positions, stories their records.
LEMMA EditNothing ==
    ASSUME NEW b, Ordered(b), NEW c \in Boards, c.story = b.story,
           \A t \in Tasks : /\ c.task[t].pos = b.task[t].pos /\ c.task[t].place = b.task[t].place
                            /\ c.task[t].seq = b.task[t].seq \/ "boot" \in Env
    PROVE  Edit(b, c, {}, {})
  <1>1. \A s \in Stories : Live(c, s) <=> Live(b, s)  BY DEF Live
  <1>2. Ordered(c) /\ \A t \in Tasks : HasTask(c, t) <=> HasTask(b, t)
    BY <1>1, OrderedKept
  <1>3. \A s \in Stories : TasksOf(c, s) = TasksOf(b, s)  BY <1>1, SameTasks
  <1>4. \A s \in Stories : \A t \in TasksOf(b, s) : t \in Tasks  BY DEF TasksOf, Tasks
  <1>5. InSync(b) => InSync(c)  BY <1>3, <1>4 DEF InSync
  <1> QED  BY <1>2, <1>5 DEF Edit, Carried

\* An edit of one story keeps the others in sync.
LEMMA InSyncFrom ==
    ASSUME NEW b, NEW c, InSync(b), NEW s \in Stories,
           \A r \in Stories \ {s} : c.story[r] = b.story[r],
           \A t \in Tasks : t[1] # s => /\ c.task[t].place = b.task[t].place
                                        /\ c.task[t].pos = b.task[t].pos,
           TasksOf(c, s) # {} =>
                (c.story[s].status = "done" <=> \A t \in TasksOf(c, s) : c.task[t].pos = "done")
    PROVE  InSync(c)
  <1> SUFFICES ASSUME NEW r \in Stories \ {s}, TasksOf(c, r) # {}
               PROVE  c.story[r].status = "done" <=> \A t \in TasksOf(c, r) : c.task[t].pos = "done"
    BY DEF InSync
  <1>1. TasksOf(c, r) = TasksOf(b, r)  BY SameTasks DEF Live
  <1>2. \A t \in TasksOf(b, r) : t \in Tasks /\ t[1] = r  BY DEF TasksOf, Tasks
  <1> QED  BY <1>1, <1>2 DEF InSync

\* Rows are written and nothing else.
LEMMA QueueStep ==
    ASSUME Ordered(board), board' \in Boards, UNCHANGED <<story, task>>
    PROVE  BoardStep
  <1>1. board'.story = board.story /\ board'.task = board.task  BY DEF board
  <1>2. Edit(board, board', {}, {}) /\ Ordered(board')  BY <1>1, EditNothing DEF Edit
  <1>3. Settled(board, board', board', {})  BY <1>1, SettledStill
  <1> QED  BY <1>2, <1>3, PulledSelf DEF BoardStep

LEMMA CreateStoryStep ==
    ASSUME Ordered(board), NEW s \in Stories, NEW status \in {"open", "done"},
           NEW n \in 0 .. MaxSeq, NEW P, NEW pending \in BOOLEAN,
           CreateStory(s, status, n, P, pending)
    PROVE  BoardStep
  <1> DEFINE row == [status |-> status, pending |-> pending, deps |-> Requires[s], workflow |-> Starts[s]]
             tasks == [t \in Tasks |-> IF t[1] = s /\ t[2] <= n
                                       THEN NewTask(t[2], t[2], t[2] \in P) ELSE task[t]]
             b == [board EXCEPT !.story[s] = row, !.task = tasks]
  <1>0. board \in Boards  BY DEF Ordered
  <1>1. row \in StoryRow /\ row.status = status  BY StoriesAssumption DEF StoryRow
  <1>2. tasks \in [Tasks -> TaskRow]
    <2> SUFFICES ASSUME NEW t \in Tasks PROVE tasks[t] \in TaskRow  OBVIOUS
    <2>1. t[2] \in 0 .. MaxSeq  BY MaxSeqAssumption DEF Tasks
    <2>2. task[t] \in TaskRow  BY <1>0, BoardParts
    <2> QED  BY <2>1, <2>2, NewTaskTyped
  <1>3. \A t \in Tasks : tasks[t] = IF t[1] = s /\ t[2] <= n
                                    THEN NewTask(t[2], t[2], t[2] \in P) ELSE task[t]
    OBVIOUS
  <1> HIDE DEF row, tasks
  <1>4. /\ b \in Boards /\ b.task = tasks /\ b.story[s] = row
        /\ \A r \in Stories \ {s} : b.story[r] = board.story[r]
    BY <1>0, <1>1, <1>2 DEF Boards, board
  <1>5. Becomes(Admit(b, {s}, {})) /\ story[s].status = "absent"
        /\ (status = "open" \/ "status" \in Env)
    BY DEF CreateStory, b, row, tasks
  <1> HIDE DEF b
  <1>6. Live(b, s) /\ ~Live(board, s)  BY <1>1, <1>4, <1>5 DEF Live, board
  <1>7. ASSUME NEW t \in Tasks
        PROVE  /\ t[1] \in Stories
               /\ t[1] # s => b.task[t] = task[t] /\ (Live(b, t[1]) <=> Live(board, t[1]))
                              /\ (HasTask(b, t) <=> HasTask(board, t))
               /\ t[1] = s => /\ ~HasTask(board, t)
                              /\ HasTask(b, t) => /\ b.task[t].place = t[2] /\ b.task[t].seq = t[2]
                                                  /\ b.task[t].pos = "todo"
    <2>1. t[1] \in Stories  BY DEF Tasks
    <2>2. ASSUME t[1] # s
          PROVE b.task[t] = task[t] /\ (Live(b, t[1]) <=> Live(board, t[1]))
                /\ (HasTask(b, t) <=> HasTask(board, t))
      <3>1. b.task[t] = task[t]  BY <1>3, <1>4, <2>2
      <3>2. Live(b, t[1]) <=> Live(board, t[1])  BY <1>4, <2>1, <2>2 DEF Live
      <3> QED  BY <3>1, <3>2, HasTaskDef DEF board
    <2>3. ASSUME t[1] = s
          PROVE  /\ ~HasTask(board, t)
                 /\ HasTask(b, t) => /\ b.task[t].place = t[2] /\ b.task[t].seq = t[2]
                                     /\ b.task[t].pos = "todo"
      <3>1. ~HasTask(board, t)  BY <1>6, <2>3, HasTaskDef
      <3>2. ~(t[2] <= n) => ~HasTask(b, t)
        <4>1. task[t].place = 0  BY <1>6, <2>3 DEF Ordered, board
        <4> QED  BY <1>3, <1>4, <4>1, HasTaskDef
      <3>3. CASE t[2] <= n
        <4>1. b.task[t] = NewTask(t[2], t[2], t[2] \in P)  BY <1>3, <1>4, <2>3, <3>3
        <4> QED  BY <3>1, <4>1 DEF NewTask
      <3> QED  BY <3>1, <3>2, <3>3
    <2> QED  BY <2>1, <2>2, <2>3
  <1>8. Ordered(b)
    <2>1. \A t \in Tasks : ~Live(b, t[1]) => b.task[t].place = 0
      BY <1>6, <1>7 DEF Ordered, board
    <2>2. ASSUME NEW t \in Tasks, NEW u \in Tasks, t[1] = u[1], HasTask(b, t),
                 b.task[t].place = b.task[u].place
          PROVE  t = u
      <3>1. CASE t[1] = s
        <4>1. b.task[t].place > 0 /\ Live(b, t[1])  BY <2>2, HasTaskDef
        <4>2. HasTask(b, u)  BY <2>2, <4>1, HasTaskDef
        <4>3. t[2] = u[2]  BY <1>7, <2>2, <3>1, <4>2
        <4> QED  BY <2>2, <4>3 DEF Tasks
      <3>2. CASE t[1] # s
        <4>1. HasTask(board, t) /\ board.task[t].place = board.task[u].place
          BY <1>7, <2>2, <3>2 DEF board
        <4> QED  BY <2>2, <4>1 DEF Ordered
      <3> QED  BY <3>1, <3>2
    <2> QED  BY <1>4, <2>1, <2>2 DEF Ordered
  <1>9. Unedited /\ InSync(board) => InSync(b)
    <2>0. \A t \in TasksOf(b, s) : t \in Tasks /\ t[1] = s /\ HasTask(b, t)
      BY DEF TasksOf, HasTask, Tasks
    <2>1. Unedited => b.story[s].status = "open"  BY <1>1, <1>4, <1>5 DEF Unedited
    <2>2. \A t \in TasksOf(b, s) : b.task[t].pos = "todo"  BY <1>7, <2>0
    <2>3. \A t \in Tasks : t[1] # s => b.task[t] = board.task[t]  BY <1>7 DEF board
    <2> QED  BY <1>4, <2>1, <2>2, <2>3, InSyncFrom
  <1>10. \A t \in Tasks : HasTask(b, t) =>
            /\ Carried(board, b, t)
            /\ b.task[t].seq = t[2] \/ "boot" \in Env
               \/ (HasTask(board, t) /\ b.task[t].seq = board.task[t].seq)
    BY <1>7 DEF Carried, board
  <1>11. \A r \in Stories : Live(board, r) /\ Live(b, r) => b.story[r].workflow = board.story[r].workflow
    BY <1>4, <1>6
  <1>12. Edit(board, b, {}, {})  BY <1>8, <1>9, <1>10, <1>11 DEF Edit
  <1>13. Pulled(b, Admit(b, {s}, {}), {})  BY <1>8, AdmitPulled
  <1>14. Local(board, b, s)  BY <1>4, <1>7 DEF Local, board
  <1>15. ~Lifted(board, b, s)  BY <1>6 DEF Lifted, Live
  <1>16. Settled(board, b, Admit(b, {s}, {}), {})  BY <1>8, <1>14, <1>15, SettledOne
  <1> QED  BY <1>5, <1>12, <1>13, <1>16, PlainStep

LEMMA AddTaskStep ==
    ASSUME Ordered(board), NEW s \in Stories, NEW pending \in BOOLEAN, AddTask(s, pending)
    PROVE  BoardStep
  <1>1. PICK n \in 1 .. MaxSeq, m \in 1 .. MaxSeq :
            /\ NextSeq(s, n)
            /\ IF HasTask(board, <<s, n>>) THEN m = task[<<s, n>>].place
               ELSE \A v \in TasksOf(board, s) \ {<<s, n>>} : task[v].place < m
            /\ Becomes(Admit([board EXCEPT !.task[<<s, n>>] = NewTask(m, n, pending)], {s}, {}))
    BY DEF AddTask
  <1> DEFINE u == <<s, n>>
             b == [board EXCEPT !.task[u] = NewTask(m, n, pending)]
  <1>2. board \in Boards /\ NewTask(m, n, pending) \in TaskRow /\ u \in Tasks
    BY NewTaskTyped, MaxSeqAssumption DEF Ordered, Tasks
  <1>3. u[1] = s /\ u[2] = n  OBVIOUS
  <1>4. Live(board, s) /\ "add" \in Env  BY DEF AddTask
  <1> HIDE DEF u
  <1>5. /\ b \in Boards /\ b.story = board.story
        /\ b.task = [board.task EXCEPT ![u] = NewTask(m, n, pending)]
    BY <1>2 DEF Boards
  <1>6. \A t \in Tasks : b.task[t] = IF t = u THEN NewTask(m, n, pending) ELSE task[t]
    BY <1>5, <1>2 DEF Boards, board
  <1>7. b.task[u].pos = "todo" /\ b.task[u].place = m /\ b.task[u].seq = n
    BY <1>2, <1>6 DEF NewTask
  <1> HIDE DEF b
  <1>8. \A t \in Tasks \ {u} : HasTask(b, t) <=> HasTask(board, t)
    BY <1>5, <1>6, HasTaskDef DEF Live, board
  <1>9. \A t \in Tasks : t[1] = s /\ t # u /\ HasTask(board, t) => task[t].place # m
    <2>1. ASSUME NEW t \in Tasks, t[1] = s, t # u, HasTask(board, t), task[t].place = m
          PROVE  FALSE
      <3>1. CASE HasTask(board, u)
        <4>1. board.task[t].place = board.task[u].place  BY <1>1, <2>1, <3>1 DEF u, board
        <4> QED  BY <1>2, <1>3, <2>1, <4>1 DEF Ordered
      <3>2. CASE ~HasTask(board, u)
        <4>1. t \in TasksOf(board, s) \ {u}  BY <2>1 DEF HasTask
        <4>2. task[t].place < m  BY <1>1, <3>2, <4>1 DEF u
        <4>3. m \in Nat  BY MaxSeqAssumption
        <4> QED  BY <2>1, <4>2, <4>3
      <3> QED  BY <3>1, <3>2
    <2> QED  BY <2>1
  <1>10. Ordered(b)
    <2>1. \A t \in Tasks : ~Live(b, t[1]) => b.task[t].place = 0
      BY <1>3, <1>4, <1>5, <1>6 DEF Ordered, Live, board
    <2>2. ASSUME NEW t \in Tasks, NEW v \in Tasks, t[1] = v[1], HasTask(b, t),
                 b.task[t].place = b.task[v].place
          PROVE  t = v
      <3>1. HasTask(b, v)  BY <2>2, HasTaskDef
      <3>2. CASE t # u /\ v # u
        <4>1. HasTask(board, t) /\ board.task[t].place = board.task[v].place
          BY <1>6, <1>8, <2>2, <3>2 DEF board
        <4> QED  BY <2>2, <4>1 DEF Ordered
      <3>3. CASE t = u \/ v = u
        BY <1>3, <1>6, <1>7, <1>8, <1>9, <2>2, <3>1, <3>3
      <3> QED  BY <3>2, <3>3
    <2> QED  BY <1>5, <2>1, <2>2 DEF Ordered
  <1>11. \A t \in Tasks : HasTask(b, t) =>
            /\ Carried(board, b, t)
            /\ b.task[t].seq = t[2] \/ "boot" \in Env
               \/ (HasTask(board, t) /\ b.task[t].seq = board.task[t].seq)
    <2>1. Carried(board, b, u)
      <3>1. HasTask(board, u) => task[u].seq < n
        <4>1. HasTask(board, u) => u \in TasksOf(board, s)  BY <1>3 DEF HasTask
        <4> QED  BY <1>1, <4>1 DEF NextSeq
      <3>2. n \in Nat  BY MaxSeqAssumption
      <3> QED  BY <1>3, <1>4, <1>7, <3>1, <3>2 DEF Carried, board
    <2> QED  BY <1>3, <1>6, <1>7, <1>8, <2>1 DEF Carried, board
  <1>12. Edit(board, b, {}, {})
    <2>1. ~Unedited  BY <1>4 DEF Unedited
    <2> QED  BY <1>5, <1>10, <1>11, <2>1 DEF Edit
  <1>13. Pulled(b, Admit(b, {s}, {}), {})  BY <1>10, AdmitPulled
  <1>14. Becomes(Admit(b, {s}, {}))  BY <1>1 DEF b, u
  <1>15. Local(board, b, s) /\ ~Lifted(board, b, s)
    BY <1>3, <1>5, <1>6 DEF Local, Lifted, board
  <1>16. Settled(board, b, Admit(b, {s}, {}), {})  BY <1>10, <1>15, SettledOne
  <1> QED  BY <1>12, <1>13, <1>14, <1>16, PlainStep

\* A task lands at p, and its story is in sync with it.
LEMMA PutInSync ==
    ASSUME NEW b, Ordered(b), InSync(b), NEW t \in Tasks, HasTask(b, t), NEW p \in Positions,
           NEW keep, NEW c, c = Put(b, t, p, keep)
    PROVE  InSync(c)
  <1> DEFINE s == t[1]
  <1>1. /\ \A u \in Tasks : HasTask(c, u) <=> HasTask(b, u)
        /\ \A u \in Tasks : c.task[u] = IF u = t THEN AtPos(b.task[t], p) ELSE b.task[u]
        /\ \A r \in Stories : r # s => c.story[r] = b.story[r]
        /\ c.story[s].status = IF p # "done" THEN "open"
                               ELSE IF \A u \in TasksOf(c, s) : c.task[u].pos = "done" THEN "done"
                               ELSE b.story[s].status
    BY PutFacts
  <1>2. s \in Stories /\ t \in TasksOf(c, s) /\ b.task[t] \in TaskRow
    BY <1>1 DEF Tasks, HasTask, Ordered, Boards
  <1>3. c.task[t].pos = p  BY <1>1, <1>2 DEF TaskRow, AtPos
  <1>4. \A u \in TasksOf(c, s) : u \in Tasks /\ u[1] = s /\ HasTask(c, u)
    BY <1>2 DEF TasksOf, Tasks, HasTask
  <1>5. \A u \in TasksOf(b, s) : u \in Tasks /\ u[1] = s /\ HasTask(b, u)
    BY <1>2 DEF TasksOf, Tasks, HasTask
  <1> HIDE DEF s
  <1>6. c.story[s].status = "done" <=> \A u \in TasksOf(c, s) : c.task[u].pos = "done"
    <2>1. CASE p # "done"  BY <1>1, <1>2, <1>3, <2>1
    <2>2. CASE p = "done" /\ \A u \in TasksOf(c, s) : c.task[u].pos = "done"
      BY <1>1, <2>2
    <2>3. CASE p = "done" /\ ~\A u \in TasksOf(c, s) : c.task[u].pos = "done"
      <3>1. PICK u \in TasksOf(c, s) : c.task[u].pos # "done"  BY <2>3
      <3>2. u \in TasksOf(b, s) /\ b.task[u].pos # "done"
        <4>1. u # t  BY <1>3, <2>3, <3>1
        <4> QED  BY <1>1, <1>4, <3>1, <4>1 DEF HasTask
      <3>3. b.story[s].status # "done"  BY <1>2, <3>2 DEF InSync
      <3> QED  BY <1>1, <2>3, <3>3
    <2> QED  BY <2>1, <2>2, <2>3
  <1>7. \A u \in Tasks : u[1] # s => c.task[u] = b.task[u]  BY <1>1 DEF s
  <1> QED  BY <1>1, <1>2, <1>6, <1>7, InSyncFrom

\* setPosition is an edit of the tasks of M, or carries its task one state on.
LEMMA PutEdit ==
    ASSUME NEW b, Ordered(b), NEW t \in Tasks, HasTask(b, t), NEW p \in Positions, NEW keep,
           NEW c, c = Put(b, t, p, keep),
           NEW M \in SUBSET Tasks, t \in M \/ p = NextState(b, t[1], b.task[t].pos)
    PROVE  Edit(b, c, M, {})
  <1>1. /\ Ordered(c)
        /\ \A u \in Tasks : HasTask(c, u) <=> HasTask(b, u)
        /\ \A u \in Tasks : c.task[u] = IF u = t THEN AtPos(b.task[t], p) ELSE b.task[u]
        /\ \A s \in Stories : s # t[1] => c.story[s] = b.story[s]
        /\ c.story[t[1]] = WithStatus(b.story[t[1]], c.story[t[1]].status)
    BY PutFacts
  <1>2. b.task[t] \in TaskRow /\ t[1] \in Stories /\ b.story[t[1]] \in StoryRow
    BY DEF Tasks, Ordered, Boards
  <1>3. c.task[t].pos = p /\ c.task[t].seq = b.task[t].seq  BY <1>1, <1>2 DEF TaskRow, AtPos
  <1>4. \A s \in Stories : c.story[s].workflow = b.story[s].workflow
    BY <1>1, <1>2 DEF WithStatus, StoryRow
  <1>5. InSync(b) => InSync(c)  BY PutInSync
  <1>6. \A u \in Tasks \ M : HasTask(c, u) => Carried(b, c, u)  BY <1>1, <1>3 DEF Carried
  <1>7. \A u \in Tasks : c.task[u].seq = b.task[u].seq  BY <1>1, <1>3
  <1> QED  BY <1>1, <1>4, <1>5, <1>6, <1>7 DEF Edit

LEMMA MoveTaskStep ==
    ASSUME Ordered(board), NEW t \in Tasks, NEW p \in Positions, MoveTask(t, p)
    PROVE  BoardStep
  <1> DEFINE c == Put(board, t, p, FALSE)
             d == SetPosition(board, t, p, FALSE)
             e == Admit(d, {t[1]}, {t})
  <1>1. HasTask(board, t) /\ Becomes(e) /\ t[1] \in Stories  BY DEF MoveTask, Tasks
  <1>2. Edit(board, c, {t}, {})  BY <1>1, PutEdit
  <1>3. Pulled(c, d, {})  BY <1>1, SetPositionPulled
  <1>8. Settled(board, c, e, {t})  BY <1>1, SettledPut
  <1>9. c.task[t].pos = p
    <2>1. StandsAt(c, t, p)  BY <1>1, PutLands
    <2> QED  BY <2>1 DEF StandsAt
  <1> HIDE DEF c, d
  <1>4. Pulled(d, e, {t})  BY <1>1, <1>3, AdmitPulled DEF Pulled
  <1> HIDE DEF e
  <1>5. Pulled(c, e, {} \union {t})  BY <1>3, <1>4, PulledTwice
  <1>6. board' = e  BY <1>1, <1>4, BecomesBoard DEF Pulled, Ordered
  <1>7. {} \union {t} = {t}  OBVIOUS
  <1> QED  BY <1>2, <1>5, <1>6, <1>7, <1>8, <1>9 DEF BoardStep

LEMMA DeleteTaskStep ==
    ASSUME Ordered(board), NEW t \in Tasks, DeleteTask(t)
    PROVE  BoardStep
  <1> DEFINE tasks == [u \in Tasks |->
                         IF u = t THEN NoTask
                         ELSE IF u[1] = t[1] /\ task[u].place > task[t].place
                         THEN [task[u] EXCEPT !.place = task[u].place - 1] ELSE task[u]]
             b == [board EXCEPT !.task = tasks, !.items[t] = Withdraw(items[t])]
  <1>0. t[1] \in Stories /\ HasTask(board, t) /\ board \in Boards /\ "deleteTask" \in Env
    BY DEF Tasks, DeleteTask, Ordered
  <1>1. \A u \in Tasks : task[u] \in TaskRow /\ items[u] \in Rows  BY <1>0, BoardParts
  <1>2. \A u \in Tasks : tasks[u] = IF u = t THEN NoTask
                                    ELSE IF u[1] = t[1] /\ task[u].place > task[t].place
                                    THEN [task[u] EXCEPT !.place = task[u].place - 1] ELSE task[u]
    OBVIOUS
  <1>3. \A u \in Tasks : task[u].place \in Nat /\ task[u].place <= MaxSeq
    BY <1>1, MaxSeqAssumption DEF TaskRow
  <1>4. task[t].place > 0 /\ Live(board, t[1]) /\ NoTask \in TaskRow /\ NoTask.place = 0
    BY <1>0, HasTaskDef, NewTaskTyped, MaxSeqAssumption DEF board, NoTask
  <1>5. ASSUME NEW u \in Tasks \ {t}
        PROVE  /\ tasks[u] \in TaskRow
               /\ tasks[u].pos = task[u].pos /\ tasks[u].seq = task[u].seq
               /\ tasks[u].place = IF u[1] = t[1] /\ task[u].place > task[t].place
                                   THEN task[u].place - 1 ELSE task[u].place
    <2> HIDE DEF tasks
    <2>1. task[u] \in TaskRow  BY <1>1
    <2>2. CASE ~(u[1] = t[1] /\ task[u].place > task[t].place)  BY <1>2, <2>1, <2>2
    <2>3. CASE u[1] = t[1] /\ task[u].place > task[t].place
      <3>1. tasks[u] = [task[u] EXCEPT !.place = task[u].place - 1]  BY <1>2, <2>3
      <3>2. task[u].place - 1 \in 0 .. MaxSeq  BY <1>3, <2>3, MaxSeqAssumption
      <3> QED  BY <2>1, <2>3, <3>1, <3>2 DEF TaskRow
    <2> QED  BY <2>2, <2>3
  <1>6. tasks \in [Tasks -> TaskRow]
    <2>1. ASSUME NEW u \in Tasks PROVE tasks[u] \in TaskRow
      <3> HIDE DEF tasks
      <3> QED  BY <1>2, <1>4, <1>5
    <2> QED  BY <2>1
  <1> HIDE DEF tasks
  <1>7. Withdraw(items[t]) \in Rows
    <2>1. items[t] \in Rows /\ << >> \in Rows  BY <1>1 DEF Rows
    <2> QED  BY <2>1, WithdrawRows
  <1>8. b \in Boards /\ b.story = board.story /\ b.task = tasks
    BY <1>0, <1>6, <1>7 DEF Boards, board
  <1> HIDE DEF b
  <1>9. tasks[t].place = 0 /\ ~HasTask(b, t)
    <2>1. tasks[t].place = 0  BY <1>2, <1>4
    <2> QED  BY <1>8, <2>1, HasTaskDef
  <1>10. \A u \in Tasks \ {t} : HasTask(b, u) <=> HasTask(board, u)
    <2>1. ASSUME NEW u \in Tasks \ {t} PROVE HasTask(b, u) <=> HasTask(board, u)
      <3>1. tasks[u].place > 0 <=> task[u].place > 0  BY <1>3, <1>4, <1>5
      <3> QED  BY <1>8, <3>1, HasTaskDef DEF Live, board
    <2> QED  BY <2>1
  <1>11. Ordered(b)
    <2>1. ASSUME NEW u \in Tasks, ~Live(b, u[1]) PROVE b.task[u].place = 0
      <3>1. task[u].place = 0  BY <1>8, <2>1 DEF Ordered, Live, board
      <3> QED  BY <1>3, <1>5, <1>8, <1>9, <3>1
    <2>2. ASSUME NEW u \in Tasks, NEW v \in Tasks, u[1] = v[1], HasTask(b, u),
                 b.task[u].place = b.task[v].place
          PROVE  u = v
      <3>0. HasTask(b, v)
        <4>1. Live(b, u[1]) /\ b.task[u].place > 0  BY <2>2, HasTaskDef
        <4> QED  BY <2>2, <4>1, HasTaskDef
      <3>1. HasTask(b, v) /\ u # t /\ v # t  BY <1>9, <2>2, <3>0
      <3>2. HasTask(board, u) /\ HasTask(board, v)  BY <1>10, <2>2, <3>1
      <3>3. u[1] = t[1] => task[u].place # task[t].place /\ task[v].place # task[t].place
        BY <1>0, <2>2, <3>1, <3>2 DEF Ordered, board
      <3>4. task[u].place = task[v].place
        <4>1. /\ tasks[u].place = IF u[1] = t[1] /\ task[u].place > task[t].place
                                  THEN task[u].place - 1 ELSE task[u].place
              /\ tasks[v].place = IF v[1] = t[1] /\ task[v].place > task[t].place
                                  THEN task[v].place - 1 ELSE task[v].place
          BY <1>5, <3>1
        <4>2. tasks[u].place = tasks[v].place  BY <1>8, <2>2
        <4> QED  BY <1>3, <2>2, <3>3, <4>1, <4>2
      <3> QED  BY <2>2, <3>2, <3>4 DEF Ordered, board
    <2> QED  BY <1>8, <2>1, <2>2 DEF Ordered
  <1>12. \A u \in Tasks : HasTask(b, u) => Carried(board, b, u) /\ b.task[u].seq = board.task[u].seq
                                            /\ HasTask(board, u)
    BY <1>5, <1>8, <1>9, <1>10 DEF Carried, board
  <1>13. Edit(board, b, {}, {})
    <2>1. ~Unedited  BY <1>0 DEF Unedited
    <2> QED  BY <1>8, <1>11, <1>12, <2>1 DEF Edit
  <1>14. Pulled(b, Admit(b, {t[1]}, {}), {})  BY <1>0, <1>11, AdmitPulled
  <1>15. Becomes(Admit(b, {t[1]}, {}))  BY DEF DeleteTask, b, tasks
  <1>16. Local(board, b, t[1]) /\ ~Lifted(board, b, t[1])
    BY <1>2, <1>8 DEF Local, Lifted, board
  <1>17. Settled(board, b, Admit(b, {t[1]}, {}), {})  BY <1>0, <1>11, <1>16, SettledOne
  <1> QED  BY <1>13, <1>14, <1>15, <1>17, PlainStep

\* An order puts no two tasks at one place.
LEMMA OrdersDistinct ==
    ASSUME NEW S, IsFiniteSet(S), NEW place \in Orders(S), NEW t \in S, NEW u \in S,
           place[t] = place[u]
    PROVE  t = u
  <1> DEFINE T == 1 .. Cardinality(S)
  <1>1. Cardinality(S) \in Nat  BY FS_CardinalityType
  <1>2. Cardinality(T) = Cardinality(S)  BY <1>1, FS_Interval
  <1>3. place \in [S -> 1 .. MaxSeq] /\ {place[v] : v \in S} = T  BY DEF Orders
  <1> HIDE DEF T
  <1>4. place \in [S -> T] /\ \A n \in T : \E v \in S : place[v] = n  BY <1>3
  <1>5. place \in Surjection(S, T)  BY <1>4 DEF Surjection
  <1>6. place \in Injection(S, T)  BY <1>2, <1>5, FS_SurjSameCardinalityImpliesInj
  <1> QED  BY <1>6 DEF Injection, IsInjective

LEMMA TasksFinite ==
    ASSUME NEW b, NEW s
    PROVE  IsFiniteSet(TasksOf(b, s))
  <1>0. IsFiniteSet({s})  BY FS_Singleton
  <1>1. IsFiniteSet(1 .. MaxSeq)  BY FS_Interval, MaxSeqAssumption
  <1>2. IsFiniteSet({s} \X (1 .. MaxSeq))  BY <1>0, <1>1, FS_Product
  <1>3. TasksOf(b, s) \subseteq {s} \X (1 .. MaxSeq)  BY DEF TasksOf
  <1> QED  BY <1>2, <1>3, FS_Subset

LEMMA ReorderTasksStep ==
    ASSUME Ordered(board), board' \in Boards, NEW s \in Stories,
           NEW place \in Orders(TasksOf(board, s)), ReorderTasks(s, place)
    PROVE  BoardStep
  <1>1. \A t \in Tasks : task[t] \in TaskRow /\ t[1] \in Stories
    BY BoardParts DEF Ordered, Tasks
  <1>2. \A t \in Tasks : task'[t] = IF t \in TasksOf(board, s)
                                    THEN [task[t] EXCEPT !.place = place[t]] ELSE task[t]
    BY DEF ReorderTasks
  <1>3. board'.story = board.story /\ board'.task = task'
    BY DEF ReorderTasks, board
  <1>4. \A t \in Tasks : t \in TasksOf(board, s) <=> t[1] = s /\ HasTask(board, t)
    BY DEF TasksOf, HasTask, Tasks
  <1>5. \A t \in TasksOf(board, s) : place[t] \in Nat /\ place[t] > 0
    BY MaxSeqAssumption DEF Orders
  <1>6. \A t \in Tasks : /\ task'[t].pos = task[t].pos /\ task'[t].seq = task[t].seq
                         /\ task'[t].place = IF t \in TasksOf(board, s) THEN place[t] ELSE task[t].place
    BY <1>1, <1>2 DEF TaskRow
  <1>7. \A t \in Tasks : HasTask(board', t) <=> HasTask(board, t)
    <2>1. ASSUME NEW t \in Tasks PROVE HasTask(board', t) <=> HasTask(board, t)
      <3>1. CASE t \in TasksOf(board, s)
        <4>1. HasTask(board, t) /\ Live(board, t[1])  BY <1>4, <3>1, HasTaskDef
        <4>2. task'[t].place > 0  BY <1>5, <1>6, <3>1
        <4> QED  BY <1>3, <4>1, <4>2, HasTaskDef DEF Live
      <3>2. CASE t \notin TasksOf(board, s)
        BY <1>3, <1>6, <3>2, HasTaskDef DEF Live, board
      <3> QED  BY <3>1, <3>2
    <2> QED  BY <2>1
  <1>8. Ordered(board')
    <2>1. ASSUME NEW t \in Tasks, ~Live(board', t[1]) PROVE board'.task[t].place = 0
      <3>1. ~Live(board, t[1])  BY <1>3, <2>1 DEF Live
      <3>2. t \notin TasksOf(board, s)  BY <1>4, <3>1, HasTaskDef
      <3> QED  BY <1>3, <1>6, <3>1, <3>2 DEF Ordered, board
    <2>2. ASSUME NEW t \in Tasks, NEW u \in Tasks, t[1] = u[1], HasTask(board', t),
                 board'.task[t].place = board'.task[u].place
          PROVE  t = u
      <3>1. HasTask(board', u)
        <4>1. Live(board', t[1]) /\ board'.task[t].place > 0  BY <2>2, HasTaskDef
        <4> QED  BY <2>2, <4>1, HasTaskDef
      <3>2. HasTask(board, t) /\ HasTask(board, u)  BY <1>7, <2>2, <3>1
      <3>3. CASE t[1] = s
        <4>1. t \in TasksOf(board, s) /\ u \in TasksOf(board, s)  BY <1>4, <2>2, <3>2, <3>3
        <4>2. place[t] = place[u]  BY <1>3, <1>6, <2>2, <4>1
        <4> QED  BY <4>1, <4>2, OrdersDistinct, TasksFinite
      <3>4. CASE t[1] # s
        <4>1. task[t].place = task[u].place  BY <1>3, <1>4, <1>6, <2>2, <3>4
        <4> QED  BY <2>2, <3>2, <4>1 DEF Ordered, board
      <3> QED  BY <3>3, <3>4
    <2> QED  BY <2>1, <2>2 DEF Ordered
  <1>9. InSync(board) => InSync(board')
    <2>1. \A r \in Stories : TasksOf(board', r) = TasksOf(board, r)
      <3>1. ASSUME NEW r \in Stories, NEW t
            PROVE  t \in TasksOf(board', r) <=> t \in TasksOf(board, r)
        <4>1. t \in {r} \X (1 .. MaxSeq) => t \in Tasks /\ t[1] = r  BY DEF Tasks
        <4> QED  BY <1>7, <4>1 DEF HasTask, TasksOf
      <3> QED  BY <3>1
    <2>2. \A r \in Stories : \A t \in TasksOf(board, r) : t \in Tasks  BY DEF TasksOf, Tasks
    <2> QED  BY <1>3, <1>6, <2>1, <2>2 DEF InSync, board
  <1>10. Edit(board, board', {}, {})
    BY <1>3, <1>6, <1>7, <1>8, <1>9 DEF Edit, Carried, board
  <1>11. Settled(board, board', board', {})  BY DEF Settled, ReorderTasks
  <1> QED  BY <1>8, <1>10, <1>11, PulledSelf DEF BoardStep

LEMMA UpdateStoryStep ==
    ASSUME Ordered(board), NEW s \in Stories, NEW status \in {"open", "done"},
           NEW pending \in BOOLEAN, NEW deps \in SUBSET Stories, NEW w \in Workflows,
           UpdateStory(s, status, pending, deps, w)
    PROVE  BoardStep
  <1> DEFINE row == [status |-> status, pending |-> pending, deps |-> deps, workflow |-> w]
             b == [board EXCEPT !.story[s] = row]
             c == Admit(b, {s}, {})
             d == AdmitDependents(c, s)
  <1>1. board \in Boards /\ Live(board, s) /\ (status = story[s].status \/ "status" \in Env)
    BY DEF UpdateStory, Ordered
  <1>2. row \in StoryRow /\ row.status = status  BY DEF StoryRow
  <1> HIDE DEF row
  <1>3. /\ b \in Boards /\ b.task = board.task
        /\ \A r \in Stories : b.story[r] = IF r = s THEN row ELSE board.story[r]
    BY <1>1, <1>2 DEF Boards
  <1>4. (~Lifted(board, b, s) /\ Becomes(c)) \/ Becomes(d)
    BY <1>2, <1>3 DEF UpdateStory, row, Lifted, board
  <1> HIDE DEF b, c, d
  <1>5. \A r \in Stories : Live(b, r) <=> Live(board, r)  BY <1>1, <1>2, <1>3 DEF Live, board
  <1>6. Ordered(b) /\ \A t \in Tasks : HasTask(b, t) <=> HasTask(board, t)
    BY <1>3, <1>5, OrderedKept
  <1>7. Unedited /\ InSync(board) => InSync(b)
    <2> SUFFICES ASSUME Unedited, InSync(board) PROVE InSync(b)  OBVIOUS
    <2>1. \A r \in Stories : b.story[r].status = board.story[r].status
      BY <1>1, <1>2, <1>3 DEF Unedited, board
    <2>2. \A r \in Stories : TasksOf(b, r) = TasksOf(board, r)  BY <1>3, <1>5, SameTasks
    <2> QED  BY <1>3, <2>1, <2>2 DEF InSync
  <1>8. Edit(board, b, {}, {s})  BY <1>3, <1>6, <1>7 DEF Edit, Carried
  <1>9. Pulled(b, c, {})  BY <1>6, AdmitPulled DEF c
  <1>10. Pulled(c, d, {})  BY <1>9, AdmitPulled DEF d, AdmitDependents, Pulled
  <1>11. Pulled(b, d, {})
    <2>1. Pulled(b, d, {} \union {})  BY <1>9, <1>10, PulledTwice
    <2> QED  BY <2>1
  \* What waits for s is asked if s is done, and s itself.
  <1>14. Local(board, b, s)  BY <1>3 DEF Local
  <1>15. Admitted(c, s, {}) = {} /\ Admitted(d, s, {}) = {}
    <2>1. Admitted(c, s, {}) = {}  BY <1>6, AdmitClears DEF c
    <2> QED  BY <1>10, <2>1, PulledAdmitted
  <1>16. ~Lifted(board, b, s) => Settled(board, b, c, {})
    BY <1>6, <1>14, SettledOne DEF c
  <1>17. Settled(board, b, d, {})
    <2>1. ASSUME NEW r \in Stories \ {s}
          PROVE  Unstirred(board, b, r) \/ Admitted(d, r, {}) = {}
      <3>1. CASE s \in board.story[r].deps
        <4>1. s \in c.story[r].deps /\ Ordered(c)  BY <1>3, <1>9, <3>1 DEF Pulled
        <4> QED  BY <4>1, DependentsCleared DEF d
      <3>2. CASE s \notin board.story[r].deps  BY <1>14, <3>2, LocalUnstirred
      <3> QED  BY <3>1, <3>2
    <2> QED  BY <1>15, <2>1 DEF Settled
  <1>12. \E e : Pulled(b, e, {}) /\ Settled(board, b, e, {}) /\ board' = e
    BY <1>4, <1>9, <1>11, <1>16, <1>17, BecomesBoard DEF Pulled, Ordered
  <1>13. EditStory(s)  BY DEF EditStory
  <1> QED  BY <1>8, <1>12, <1>13 DEF BoardStep

Cleared(row, status) == [NoTask EXCEPT !.def = IF status = "archived" THEN row.def ELSE "absent"]

GoneStory(s, status) == [NoStory(s) EXCEPT !.status = status]

\* c is b with a story taken off the board, and its tasks.
Removed(b, c, s, status) ==
    /\ Ordered(c)
    /\ ~Live(c, s) /\ c.story[s].status = status
    /\ \A r \in Stories : c.story[r] = IF r = s THEN GoneStory(s, status) ELSE b.story[r]
    /\ \A t \in Tasks : t[1] # s => c.task[t] = b.task[t] /\ (HasTask(c, t) <=> HasTask(b, t))
    /\ \A t \in Tasks : t[1] = s => ~HasTask(c, t)
    /\ \A t \in Tasks : c.task[t] = IF HasTask(b, t) /\ t[1] = s
                                     THEN Cleared(b.task[t], status) ELSE b.task[t]

LEMMA RemoveFacts ==
    ASSUME NEW b, Ordered(b), NEW s \in Stories, NEW status \in {"absent", "archived"},
           NEW c, c = RemoveStory(b, s, status)
    PROVE  Removed(b, c, s, status)
  <1>1. b \in Boards /\ c \in Boards /\ \A t \in Tasks : b.task[t] \in TaskRow /\ t[1] \in Stories
    BY RemoveStoryBoards DEF Ordered, Boards, Tasks
  <1>2. \A t \in Tasks : t \in TasksOf(b, s) <=> HasTask(b, t) /\ t[1] = s
    BY DEF TasksOf, HasTask, Tasks
  <1>3. \A t \in Tasks : c.task[t] = IF HasTask(b, t) /\ t[1] = s
                                     THEN Cleared(b.task[t], status) ELSE b.task[t]
    BY <1>1, <1>2 DEF RemoveStory, Boards, Cleared
  <1>4. \A r \in Stories : c.story[r] = IF r = s THEN GoneStory(s, status) ELSE b.story[r]
    BY <1>1 DEF RemoveStory, Boards, GoneStory
  <1>5. ~Live(c, s) /\ c.story[s].status = status  BY <1>4 DEF Live, NoStory, GoneStory
  <1>6. \A t \in Tasks : t[1] # s => c.task[t] = b.task[t] /\ (HasTask(c, t) <=> HasTask(b, t))
    <2>1. ASSUME NEW t \in Tasks, t[1] # s
          PROVE  c.task[t] = b.task[t] /\ (HasTask(c, t) <=> HasTask(b, t))
      <3>1. c.task[t] = b.task[t]  BY <1>3, <2>1
      <3>2. Live(c, t[1]) <=> Live(b, t[1])  BY <1>1, <1>4, <2>1 DEF Live
      <3> QED  BY <3>1, <3>2, HasTaskDef
    <2> QED  BY <2>1
  <1>7. \A t \in Tasks : t[1] = s => ~HasTask(c, t)  BY <1>5, HasTaskDef
  <1>8. \A t \in Tasks : t[1] = s => c.task[t].place = 0
    <2>1. ASSUME NEW t \in Tasks, t[1] = s PROVE c.task[t].place = 0
      <3>1. CASE HasTask(b, t)  BY <1>3, <2>1, <3>1 DEF NoTask, Cleared
      <3>2. CASE ~HasTask(b, t)
        <4>1. c.task[t] = b.task[t]  BY <1>3, <3>2
        <4>2. ~Live(b, s) => b.task[t].place = 0  BY <2>1 DEF Ordered
        <4>3. Live(b, s) => ~(b.task[t].place > 0)  BY <2>1, <3>2, HasTaskDef
        <4>4. b.task[t].place \in Nat  BY <1>1, MaxSeqAssumption DEF TaskRow
        <4> QED  BY <4>1, <4>2, <4>3, <4>4
      <3> QED  BY <3>1, <3>2
    <2> QED  BY <2>1
  <1>9. \A t \in Tasks : ~Live(c, t[1]) => c.task[t].place = 0
    BY <1>1, <1>4, <1>6, <1>8 DEF Ordered, Live
  <1>10. \A t, u \in Tasks :
            t[1] = u[1] /\ HasTask(c, t) /\ c.task[t].place = c.task[u].place => t = u
    BY <1>6, <1>7 DEF Ordered
  <1>11. Ordered(c)  BY <1>1, <1>9, <1>10 DEF Ordered
  <1> QED  BY <1>3, <1>4, <1>5, <1>6, <1>7, <1>11 DEF Removed

LEMMA RemoveEdit ==
    ASSUME NEW b, Ordered(b), NEW s \in Stories, NEW status \in {"absent", "archived"},
           NEW c, c = RemoveStory(b, s, status)
    PROVE  Edit(b, c, {}, {})
  <1>1. /\ Ordered(c) /\ ~Live(c, s)
        /\ \A r \in Stories : c.story[r] = IF r = s THEN GoneStory(s, status) ELSE b.story[r]
        /\ \A t \in Tasks : t[1] # s => c.task[t] = b.task[t] /\ (HasTask(c, t) <=> HasTask(b, t))
        /\ \A t \in Tasks : t[1] = s => ~HasTask(c, t)
    <2>1. Removed(b, c, s, status)  BY RemoveFacts
    <2> QED  BY <2>1 DEF Removed
  <1>2. TasksOf(c, s) = {}  BY <1>1 DEF TasksOf
  <1>3. InSync(b) => InSync(c)  BY <1>1, <1>2, InSyncFrom
  <1> QED  BY <1>1, <1>3 DEF Edit, Carried

\* What was admitted beside a story that is done stays so when it is removed.
LEMMA RemovePulled ==
    ASSUME NEW b, NEW c, NEW X, Pulled(b, c, X), NEW s \in Stories, b.story[s].status = "done",
           NEW status \in {"absent", "archived"},
           NEW x, x = RemoveStory(b, s, status), NEW y, y = RemoveStory(c, s, status)
    PROVE  Pulled(x, y, X)
  <1>1. /\ Ordered(b) /\ Ordered(c) /\ c.story = b.story
        /\ \A t \in Tasks : HasTask(c, t) <=> HasTask(b, t)
        /\ \A t \in Tasks : c.task[t].def = b.task[t].def
    <2>1. Ordered(b) /\ Ordered(c) /\ c.story = b.story  BY DEF Pulled
    <2>2. \A t \in Tasks : HasTask(c, t) <=> HasTask(b, t)  BY PulledSame
    <2>3. \A t \in Tasks : c.task[t].def = b.task[t].def  BY PulledSame
    <2> QED  BY <2>1, <2>2, <2>3
  <1>11. Removed(b, x, s, status) /\ Removed(c, y, s, status)  BY <1>1, RemoveFacts
  <1>2. /\ Ordered(x)
        /\ \A t \in Tasks : t[1] # s => x.task[t] = b.task[t]
        /\ \A t \in Tasks : x.task[t] = IF HasTask(b, t) /\ t[1] = s
                                        THEN Cleared(b.task[t], status) ELSE b.task[t]
    BY <1>11 DEF Removed
  <1>3. /\ Ordered(y)
        /\ y.story[s].status = status
        /\ \A r \in Stories : y.story[r] = IF r = s THEN GoneStory(s, status) ELSE c.story[r]
        /\ \A t \in Tasks : t[1] # s => y.task[t] = c.task[t] /\ (HasTask(y, t) <=> HasTask(c, t))
        /\ \A t \in Tasks : y.task[t] = IF HasTask(c, t) /\ t[1] = s
                                        THEN Cleared(c.task[t], status) ELSE c.task[t]
    BY <1>11 DEF Removed
  <1>4. y.story = x.story
    <2>1. b \in Boards /\ c \in Boards  BY <1>1 DEF Ordered
    <2> QED  BY <1>1, <2>1 DEF RemoveStory, Boards
  <1>5. y.story[s].status # "open"  BY <1>3
  <1>6. ASSUME NEW t \in Tasks
        PROVE  \/ y.task[t] = x.task[t]
               \/ /\ y.task[t] = [x.task[t] EXCEPT !.pos = y.task[t].pos]
                  /\ x.task[t].pos = "todo"
                  /\ InTurn(y, t, X)
    <2>0. t[1] \in Stories  BY DEF Tasks
    <2>1. CASE c.task[t] = b.task[t]
      <3>1. HasTask(c, t) <=> HasTask(b, t)  BY <1>1
      <3>2. c.task[t].def = b.task[t].def  BY <1>1
      <3>3. CASE HasTask(b, t) /\ t[1] = s
        <4>1. Cleared(b.task[t], status) = Cleared(c.task[t], status)  BY <3>2 DEF Cleared
        <4>2. x.task[t] = Cleared(b.task[t], status)  BY <1>2, <3>3
        <4>3. y.task[t] = Cleared(c.task[t], status)  BY <1>3, <3>1, <3>3
        <4> QED  BY <4>1, <4>2, <4>3
      <3>4. CASE ~(HasTask(b, t) /\ t[1] = s)  BY <1>2, <1>3, <2>1, <3>1, <3>4
      <3> QED  BY <3>3, <3>4
    <2>2. CASE c.task[t] # b.task[t]
      <3>1. /\ c.task[t] = [b.task[t] EXCEPT !.pos = c.task[t].pos]
            /\ b.task[t].pos = "todo" /\ InTurn(c, t, X)
        BY <2>2 DEF Pulled
      <3>2. t[1] # s  BY <1>1, <3>1 DEF InTurn, IsStoryReady
      <3>3. y.story[t[1]] = c.story[t[1]]  BY <1>3, <2>0, <3>2
      <3>4. \A u \in Tasks : u[1] = t[1] => y.task[u] = c.task[u]  BY <1>3, <3>2
      <3>5. TasksOf(y, t[1]) = TasksOf(c, t[1])
        <4>1. Live(y, t[1]) <=> Live(c, t[1])  BY <3>3 DEF Live
        <4> QED  BY <2>0, <3>4, <4>1, SameTasks
      <3>10. \A q : IsActive(y, t[1], q) <=> IsActive(c, t[1], q)
        <4>1. y.story[t[1]].workflow = c.story[t[1]].workflow  BY <3>3
        <4> QED  BY <4>1, SameFlow
      <3>6. \A u \in TasksOf(c, t[1]) : y.task[u] = c.task[u]
        <4>1. \A u \in TasksOf(c, t[1]) : u \in Tasks /\ u[1] = t[1]
          BY <2>0 DEF TasksOf, Tasks
        <4> QED  BY <3>4, <4>1
      <3>7. IsStoryReady(y, t[1])
        <4>1. c.story[t[1]].deps \subseteq Stories
          <5>1. c.story[t[1]] \in StoryRow  BY <1>1, <2>0 DEF Ordered, Boards
          <5> QED  BY <5>1 DEF StoryRow
        <4>2. IsStoryReady(c, t[1])  BY <3>1 DEF InTurn
        <4>3. \A d \in c.story[t[1]].deps : y.story[d].status # "open"
          BY <1>3, <1>5, <4>1, <4>2 DEF IsStoryReady
        <4> QED  BY <3>3, <4>2, <4>3 DEF IsStoryReady
      <3>8. InTurn(y, t, X)
        BY <1>3, <3>1, <3>2, <3>3, <3>5, <3>6, <3>7, <3>10 DEF InTurn
      <3>9. y.task[t] = c.task[t] /\ x.task[t] = b.task[t]  BY <1>2, <1>3, <3>2
      <3> QED  BY <3>1, <3>8, <3>9
    <2> QED  BY <2>1, <2>2
  <1> QED  BY <1>2, <1>3, <1>4, <1>6 DEF Pulled

\* A story taken off the board is asked no more, and what waits for it is.
LEMMA SettledGone ==
    ASSUME NEW a, Ordered(a), NEW e, NEW s \in Stories, Local(a, e, s), e.story[s].status # "open",
           NEW y, Pulled(e, y, {}), NEW z, z = AdmitDependents(y, s)
    PROVE  Settled(a, e, z, {})
  <1>1. Ordered(y) /\ y.story = e.story  BY DEF Pulled
  <1>2. z.story = y.story  BY <1>1, AdmitDependentsBoards DEF Ordered
  <1>3. Admitted(z, s, {}) = {}  BY <1>1, <1>2, ClosedAdmitted
  <1>4. ASSUME NEW r \in Stories \ {s}
        PROVE  Unstirred(a, e, r) \/ Admitted(z, r, {}) = {}
    <2>1. CASE s \in a.story[r].deps
      <3>1. s \in y.story[r].deps  BY <1>1, <2>1 DEF Local
      <3> QED  BY <1>1, <3>1, DependentsCleared
    <2>2. CASE s \notin a.story[r].deps  BY <2>2, LocalUnstirred
    <2> QED  BY <2>1, <2>2
  <1> QED  BY <1>3, <1>4 DEF Settled

LEMMA DeleteStoryStep ==
    ASSUME Ordered(board), NEW s \in Stories, DeleteStory(s)
    PROVE  BoardStep
  <1> DEFINE b == RemoveStory(board, s, "absent")
             c == AdmitDependents(b, s)
  <1>1. Edit(board, b, {}, {}) /\ Ordered(b)  BY RemoveEdit DEF Edit
  <1> HIDE DEF b
  <1>2. Pulled(b, c, {})  BY <1>1, AdmitPulled DEF AdmitDependents
  <1>3. Becomes(c)  BY DEF DeleteStory, b
  <1>4. Local(board, b, s) /\ b.story[s].status # "open"
    <2>1. Removed(board, b, s, "absent")  BY RemoveFacts DEF b
    <2> QED  BY <2>1 DEF Removed, Local
  <1>5. Pulled(b, b, {})  BY <1>1, PulledSelf
  <1>6. Settled(board, b, c, {})  BY <1>4, <1>5, SettledGone
  <1> HIDE DEF c
  <1> QED  BY <1>1, <1>2, <1>3, <1>6, PlainStep

LEMMA ArchiveStoryStep ==
    ASSUME Ordered(board), NEW s \in Stories, NEW force, ArchiveStory(s, force)
    PROVE  BoardStep
  <1> DEFINE late == {t \in TasksOf(board, s) : task[t].pos # "done"}
             at == [t \in late |-> "done"]
             a == Place(board, at, FALSE)
             b == [a EXCEPT !.story[s].status = "done"]
             c == AdmitDependents(b, s)
             d == IF late = {} THEN a ELSE c
             x == RemoveStory(board, s, "archived")
             y == RemoveStory(d, s, "archived")
             z == AdmitDependents(y, s)
  <1>1. Becomes(z) /\ Live(board, s)
    BY DEF ArchiveStory, SetStoryStatus
  <1>2. \A t \in late : t \in Tasks /\ t[1] = s /\ HasTask(board, t)
    BY DEF TasksOf, Tasks, HasTask
  <1>3. \A t \in Tasks \intersect DOMAIN at : at[t] \in Positions  BY BucketPositions
  <1>4. DOMAIN at = late  OBVIOUS
  <1> HIDE DEF late, at, z
  <1>5. /\ Ordered(a) /\ a.story = board.story
        /\ \A t \in Tasks : a.task[t] = IF t \in DOMAIN at THEN AtPos(board.task[t], at[t])
                                        ELSE board.task[t]
        /\ \A t \in Tasks : HasTask(a, t) <=> HasTask(board, t)
    <2>1. Placed(board, a, at)  BY <1>3, PlaceOrdered
    <2> QED  BY <2>1 DEF Placed
  <1> HIDE DEF a
  <1>6. \A t \in Tasks : a.task[t].def = board.task[t].def /\ (t[1] # s => a.task[t] = board.task[t])
                         /\ (~HasTask(board, t) => a.task[t] = board.task[t])
    <2>1. \A t \in Tasks : board.task[t] \in TaskRow  BY DEF Ordered, Boards
    <2> QED  BY <1>2, <1>4, <1>5, <2>1 DEF TaskRow, AtPos
  <1>7. Live(a, s)  BY <1>1, <1>5 DEF Live
  <1>8. /\ Ordered(b) /\ b.task = a.task /\ b.story[s].status = "done"
        /\ \A r \in Stories : b.story[r] = IF r = s THEN WithStatus(a.story[s], "done")
                                           ELSE a.story[r]
        /\ \A t \in Tasks : HasTask(b, t) <=> HasTask(a, t)
    BY <1>5, <1>7, StatusSet
  <1> HIDE DEF b
  <1>9. Pulled(b, c, {})  BY <1>8, AdmitPulled DEF AdmitDependents
  <1> HIDE DEF c
  \* Removed, the story is what it would be had its tasks not been put at done.
  <1>10. ASSUME NEW e, Ordered(e), NEW f, f = RemoveStory(e, s, "archived"),
                \A r \in Stories \ {s} : e.story[r] = board.story[r],
                \A t \in Tasks : HasTask(e, t) <=> HasTask(board, t),
                \A t \in Tasks : /\ e.task[t].def = board.task[t].def
                                 /\ (t[1] # s => e.task[t] = board.task[t])
                                 /\ (~HasTask(board, t) => e.task[t] = board.task[t])
         PROVE  Edit(board, f, {}, {}) /\ Local(board, f, s) /\ f.story[s].status # "open"
    <2>1. /\ Ordered(f) /\ ~Live(f, s) /\ f.story[s].status = "archived"
          /\ \A r \in Stories : f.story[r] = IF r = s THEN GoneStory(s, "archived") ELSE e.story[r]
          /\ \A t \in Tasks : t[1] # s => f.task[t] = e.task[t] /\ (HasTask(f, t) <=> HasTask(e, t))
          /\ \A t \in Tasks : t[1] = s => ~HasTask(f, t)
      <3>1. Removed(e, f, s, "archived")  BY <1>10, RemoveFacts
      <3> QED  BY <3>1 DEF Removed
    <2>2. TasksOf(f, s) = {}  BY <2>1 DEF TasksOf
    <2>3. InSync(board) => InSync(f)  BY <1>10, <2>1, <2>2, InSyncFrom
    <2>4. Local(board, f, s)  BY <1>10, <2>1 DEF Local
    <2> QED  BY <1>10, <2>1, <2>3, <2>4 DEF Edit, Carried
  <1>11. \E e : /\ Edit(board, e, {}, {}) /\ Pulled(e, y, {})
                /\ Local(board, e, s) /\ e.story[s].status # "open"
    <2>1. CASE late = {}
      <3>1. y = RemoveStory(a, s, "archived")  BY <2>1
      <3>2. Edit(board, y, {}, {}) /\ Local(board, y, s) /\ y.story[s].status # "open"
        BY <1>5, <1>6, <1>10, <3>1
      <3> QED  BY <3>2, PulledSelf DEF Edit
    <2>2. CASE late # {}
      <3>1. y = RemoveStory(c, s, "archived")  BY <2>2
      <3> HIDE DEF y
      <3> DEFINE f == RemoveStory(b, s, "archived")
      <3>2. Edit(board, f, {}, {}) /\ Local(board, f, s) /\ f.story[s].status # "open"
        BY <1>5, <1>6, <1>8, <1>10
      <3>3. Pulled(f, y, {})  BY <1>8, <1>9, <3>1, RemovePulled
      <3> QED  BY <3>2, <3>3
    <2> QED  BY <2>1, <2>2
  <1>12. PICK e : /\ Edit(board, e, {}, {}) /\ Pulled(e, y, {})
                 /\ Local(board, e, s) /\ e.story[s].status # "open"
    BY <1>11
  <1> HIDE DEF y
  <1>13. Pulled(y, z, {})  BY <1>12, AdmitPulled DEF z, AdmitDependents, Pulled
  <1>14. Pulled(e, z, {} \union {})  BY <1>12, <1>13, PulledTwice
  <1>15. Pulled(e, z, {})  BY <1>14
  <1>16. Settled(board, e, z, {})
    <2>1. z = AdmitDependents(y, s)  BY DEF z
    <2> QED  BY <1>12, <2>1, SettledGone
  <1> QED  BY <1>1, <1>12, <1>15, <1>16, PlainStep

\* Tasks put where they stand.
LEMMA PlaceStill ==
    ASSUME NEW b, Ordered(b), NEW at, NEW keep,
           \A t \in Tasks \intersect DOMAIN at : at[t] = b.task[t].pos,
           NEW c, c = Place(b, at, keep)
    PROVE  Pulled(b, c, {})
  <1>1. \A t \in Tasks : b.task[t] \in TaskRow  BY DEF Ordered, Boards
  <1>2. \A t \in Tasks \intersect DOMAIN at : at[t] \in Positions  BY <1>1 DEF TaskRow
  <1>3. Placed(b, c, at)  BY <1>2, PlaceOrdered
  <1>4. \A t \in Tasks : c.task[t] = b.task[t]
    <2>1. ASSUME NEW t \in Tasks PROVE c.task[t] = b.task[t]
      <3>1. AtPos(b.task[t], b.task[t].pos) = b.task[t]  BY <1>1 DEF AtPos, TaskRow
      <3>2. CASE t \in DOMAIN at
        <4>1. c.task[t] = AtPos(b.task[t], at[t])  BY <1>3, <3>2 DEF Placed
        <4> QED  BY <3>1, <3>2, <4>1
      <3>3. CASE t \notin DOMAIN at  BY <1>3, <3>3 DEF Placed
      <3> QED  BY <3>2, <3>3
    <2> QED  BY <2>1
  <1>5. c.story = b.story /\ c \in Boards  BY <1>3 DEF Placed, Ordered
  <1> QED  BY <1>4, <1>5, PulledStays

\* An edit is one of the stories and their tasks, whatever is in the queue.
LEMMA EditSame ==
    ASSUME NEW a, NEW b, a.story = b.story, a.task = b.task,
           NEW c, NEW M, NEW E, Edit(b, c, M, E)
    PROVE  Edit(a, c, M, E)
  <1>1. \A s : Live(a, s) <=> Live(b, s)  BY DEF Live
  <1>2. \A s : TasksOf(a, s) = TasksOf(b, s)  BY <1>1 DEF TasksOf
  <1>3. \A t : HasTask(a, t) <=> HasTask(b, t)  BY <1>2 DEF HasTask
  <1>4. \A s, p : NextState(a, s, p) = NextState(b, s, p)  BY DEF NextState, Flow
  <1>5. InSync(a) <=> InSync(b)  BY <1>2 DEF InSync
  <1>6. \A t : Carried(a, c, t) <=> Carried(b, c, t)  BY <1>3, <1>4 DEF Carried
  <1> QED  BY <1>1, <1>3, <1>5, <1>6 DEF Edit

LEMMA ActivateTaskStep ==
    ASSUME Ordered(board), NEW t \in Tasks, ActivateTask(t)
    PROVE  BoardStep
  <1> DEFINE row == [task[t] EXCEPT !.def = "active"]
             b == [board EXCEPT !.task[t].def = "active"]
             at == [u \in {t} |-> b.task[t].pos]
             placed == Place(b, at, TRUE)
             admitted == Admit(b, {t[1]}, {})
  <1>1. t[1] \in Stories /\ board \in Boards  BY DEF Tasks, Ordered
  <1>2. task \in [Tasks -> TaskRow] /\ task[t] \in TaskRow  BY <1>1, BoardParts
  <1>3. /\ row \in TaskRow /\ row.pos = task[t].pos /\ row.place = task[t].place
        /\ row.seq = task[t].seq
    BY <1>2 DEF TaskRow
  <1>4. b = [board EXCEPT !.task[t] = row]  BY <1>2 DEF board
  <1> HIDE DEF row
  <1>6. /\ b \in Boards /\ b.story = board.story
        /\ \A u \in Tasks : b.task[u] = IF u = t THEN row ELSE board.task[u]
    BY <1>1, <1>3, <1>4 DEF Boards
  <1> HIDE DEF b
  <1>7. \A u \in Tasks : /\ b.task[u].pos = board.task[u].pos
                         /\ b.task[u].place = board.task[u].place
                         /\ b.task[u].seq = board.task[u].seq
    BY <1>3, <1>6 DEF board
  <1>8. Edit(board, b, {}, {})  BY <1>6, <1>7, EditNothing
  <1>9. Ordered(b)  BY <1>8 DEF Edit
  <1>10. Pulled(b, b, {})  BY <1>9, PulledSelf
  <1>11. Pulled(b, placed, {})
    <2>1. \A u \in Tasks \intersect DOMAIN at : at[u] = b.task[u].pos  OBVIOUS
    <2> HIDE DEF at
    <2> QED  BY <1>9, <2>1, PlaceStill
  <1>12. Pulled(b, admitted, {})  BY <1>1, <1>9, AdmitPulled
  \* A task in the active section holds the token; out of it, its story is asked.
  <1>13. Local(board, b, t[1]) /\ ~Lifted(board, b, t[1])
    BY <1>6 DEF Local, Lifted
  <1>14. \A r \in Stories \ {t[1]} : Unstirred(board, b, r)  BY <1>1, <1>13, LocalUnstirred
  <1>15. ~HasTask(b, t) => Settled(board, b, b, {})
    <2>1. ASSUME ~HasTask(b, t), NEW u \in Tasks
          PROVE  (HasTask(b, u) <=> HasTask(board, u)) /\ (HasTask(board, u) => b.task[u] = board.task[u])
      <3>1. HasTask(b, u) <=> HasTask(board, u)  BY <1>6, <1>7, HasTaskDef DEF Live
      <3> QED  BY <1>6, <2>1, <3>1
    <2>2. ~HasTask(b, t) => Unstirred(board, b, t[1])  BY <1>6, <2>1 DEF Unstirred
    <2> QED  BY <1>14, <2>2 DEF Settled
  <1>16. HasTask(b, t) /\ IsAgent(b, t[1], b.task[t].pos) => Settled(board, b, placed, {})
    <2> SUFFICES ASSUME HasTask(b, t), IsAgent(b, t[1], b.task[t].pos)
                 PROVE  Settled(board, b, placed, {})
      OBVIOUS
    <2>1. t \in TasksOf(b, t[1]) /\ IsActive(b, t[1], b.task[t].pos)
      BY DEF HasTask, IsAgent, IsActive
    <2>2. Admitted(b, t[1], {}) = {}  BY <2>1 DEF Admitted
    <2>3. Admitted(placed, t[1], {}) = {}  BY <1>1, <1>11, <2>2, PulledAdmitted
    <2> QED  BY <1>14, <2>3 DEF Settled
  <1>17. Settled(board, b, admitted, {})  BY <1>1, <1>9, <1>13, SettledOne
  <1>18. \/ ~HasTask(b, t) /\ Becomes(b)
         \/ HasTask(b, t) /\ IsAgent(b, t[1], b.task[t].pos) /\ Becomes(placed)
         \/ Becomes(admitted)
    BY DEF ActivateTask, b
  <1> HIDE DEF placed, admitted
  <1> QED  BY <1>8, <1>10, <1>11, <1>12, <1>15, <1>16, <1>17, <1>18, PlainStep

LEMMA CompleteStep ==
    ASSUME BoardInv, Ordered(board), NEW t \in Tasks, NEW k \in DOMAIN items[t], Complete(t, k)
    PROVE  BoardStep
  <1> DEFINE b == [board EXCEPT !.items[t] = Without(items[t], k)]
             p == NextState(b, t[1], b.task[t].pos)
             c == Put(b, t, p, TRUE)
             d == SetPosition(b, t, p, TRUE)
             e == Admit(d, {t[1]}, {})
  <1>1. board \in Boards /\ << >> \in Rows /\ Without(items[t], k) = << >> /\ t[1] \in Stories
    BY RowTyped DEF Rows, Ordered, Tasks
  <1>2. b \in Boards /\ b.story = board.story /\ b.task = board.task
    BY <1>1 DEF Boards
  <1>3. Becomes(b) \/ (HasTask(b, t) /\ Becomes(e))  BY DEF Complete, Advance
  <1> HIDE DEF b
  <1>4. Edit(board, b, {}, {})  BY <1>2, EditNothing
  <1>5. Ordered(b)  BY <1>4 DEF Edit
  <1>6. Pulled(b, b, {})  BY <1>5, PulledSelf
  <1>9. Settled(board, b, b, {})  BY <1>2, SettledStill
  <1>7. CASE Becomes(b)  BY <1>4, <1>6, <1>7, <1>9, PlainStep
  <1>8. CASE HasTask(b, t) /\ Becomes(e)
    <2>1. p \in Positions  BY <1>1, <1>2, NextStatePosition
    <2>2. p = NextState(b, t[1], b.task[t].pos)  OBVIOUS
    <2> HIDE DEF p
    <2>3. Edit(b, c, {}, {})  BY <1>5, <1>8, <2>1, <2>2, PutEdit
    <2>4. Edit(board, c, {}, {})  BY <1>2, <2>3, EditSame
    <2>5. Pulled(c, d, {})  BY <1>5, <1>8, <2>1, SetPositionPulled
    <2>9. Settled(board, c, e, {})
      <3>1. Settled(b, c, e, {})  BY <1>5, <1>8, <2>1, SettledPut
      <3> QED  BY <1>2, <3>1, SettledSame
    <2> HIDE DEF c, d
    <2>6. Pulled(d, e, {})  BY <1>1, <2>5, AdmitPulled DEF Pulled
    <2> HIDE DEF e
    <2>7. Pulled(c, e, {} \union {})  BY <2>5, <2>6, PulledTwice
    <2>8. Pulled(c, e, {})  BY <2>7
    <2> QED  BY <1>8, <2>4, <2>8, <2>9, PlainStep
  <1> QED  BY <1>3, <1>7, <1>8

\* A restart renumbers the tasks, admits, and enqueues what has no item.
LEMMA BootStep ==
    ASSUME BoardInv, Ordered(board), Boot
    PROVE  BoardStep
  <1> DEFINE rows == [t \in Tasks |-> Orphaned(items[t])]
             forgotten == [board EXCEPT !.items = rows]
             loaded == LoadFromDisk(forgotten)
             live == {s \in Stories : Live(loaded, s)}
             b == Admit(loaded, live, {})
             waiting == {t \in Tasks : HasTask(b, t) /\ IsAgent(b, t[1], b.task[t].pos)}
             at == [t \in waiting |-> b.task[t].pos]
             c == Place(b, at, TRUE)
  <1>1. board \in Boards /\ \A t \in Tasks : task[t] \in TaskRow /\ items[t] \in Rows
    BY BoardParts DEF BoardInv
  <1>2. Becomes(c) /\ "boot" \in Env  BY DEF Boot, Reconcile
  <1>3. \A t \in Tasks : rows[t] \in Rows
    <2> SUFFICES ASSUME NEW t \in Tasks PROVE Orphaned(items[t]) \in Rows
      OBVIOUS
    <2>1. items[t] \in Seq(ItemRow) /\ Len(items[t]) <= 1  BY <1>1 DEF Rows
    <2>2. Len(items[t]) \in Nat /\ DOMAIN items[t] = 1 .. Len(items[t])
      BY <2>1, LenProperties
    <2>3. \A k \in DOMAIN items[t] : items[t][k] \in ItemRow
      BY <2>1, <2>2, ElementOfSeq
    <2>4. \A k \in 1 .. Len(items[t]) : Orphaned(items[t])[k] \in ItemRow
      BY <2>2, <2>3 DEF Orphaned, ItemRow, ActiveStates
    <2>5. Orphaned(items[t]) \in [1 .. Len(items[t]) -> ItemRow]  BY <2>2, <2>4 DEF Orphaned
    <2>6. Orphaned(items[t]) \in Seq(ItemRow) /\ Len(Orphaned(items[t])) = Len(items[t])
      BY <2>2, <2>5
    <2> QED  BY <2>1, <2>6 DEF Rows
  <1>4. rows \in [Tasks -> Rows]  BY <1>3
  <1> HIDE DEF rows
  <1>5. forgotten \in Boards /\ forgotten.story = board.story /\ forgotten.task = task
    BY <1>1, <1>4 DEF Boards, board
  <1> HIDE DEF forgotten
  <1>6. /\ loaded \in Boards /\ loaded.story = board.story
        /\ \A t \in Tasks : loaded.task[t] = IF HasTask(forgotten, t)
                                             THEN [task[t] EXCEPT !.seq = task[t].place] ELSE task[t]
    <2>1. \A t \in Tasks : [forgotten.task[t] EXCEPT !.seq = forgotten.task[t].place] \in TaskRow
      BY <1>5 DEF Boards, TaskRow
    <2> QED  BY <1>5, <2>1 DEF Boards, LoadFromDisk
  <1> HIDE DEF loaded
  <1>7. \A t \in Tasks : /\ loaded.task[t].pos = board.task[t].pos
                         /\ loaded.task[t].place = board.task[t].place
    BY <1>1, <1>6 DEF TaskRow, board
  <1>8. Edit(board, loaded, {}, {})  BY <1>2, <1>6, <1>7, EditNothing
  <1>9. Pulled(loaded, b, {})  BY <1>8, AdmitPulled DEF Edit
  <1>13. \A r \in Stories : Admitted(b, r, {}) = {}
    <2>1. ASSUME NEW r \in live PROVE Admitted(b, r, {}) = {}
      <3>1. Ordered(loaded) /\ live \in SUBSET Stories  BY <1>8 DEF Edit
      <3> HIDE DEF live
      <3> QED  BY <2>1, <3>1, AdmitClears
    <2>2. ASSUME NEW r \in Stories \ live PROVE Admitted(b, r, {}) = {}
      <3>1. b.story[r].status # "open"  BY <1>9, <2>2 DEF Pulled, Live
      <3> HIDE DEF b
      <3> QED  BY <3>1, ClosedAdmitted
    <2> QED  BY <2>1, <2>2
  <1> HIDE DEF b
  <1>10. Pulled(b, c, {})
    <2>1. \A t \in Tasks \intersect DOMAIN at : at[t] = b.task[t].pos  OBVIOUS
    <2> HIDE DEF at
    <2> QED  BY <1>9, <2>1, PlaceStill DEF Pulled
  <1> HIDE DEF c
  <1>11. Pulled(loaded, c, {} \union {})  BY <1>9, <1>10, PulledTwice
  <1>12. Pulled(loaded, c, {})  BY <1>11
  <1>14. Settled(board, loaded, c, {})  BY <1>10, <1>13, PulledAdmitted DEF Settled
  <1> QED  BY <1>2, <1>8, <1>12, <1>14, PlainStep

LEMMA AgentBoardStep ==
    ASSUME BoardInv, Ordered(board), AgentStep
    PROVE  BoardStep
  <1>0. PICK t \in Tasks : \E k \in DOMAIN items[t] :
            \/ Offer(t, k) \/ Claim(t, k) \/ Complete(t, k) \/ Fail(t, k)
            \/ \E again \in BOOLEAN : SessionError(t, k, again)
            \/ GoesQuiet(t, k) \/ Returns(t, k) \/ MemberRemoved(t, k)
    BY DEF AgentStep
  <1>1. PICK k \in DOMAIN items[t] :
            \/ Offer(t, k) \/ Claim(t, k) \/ Complete(t, k) \/ Fail(t, k)
            \/ \E again \in BOOLEAN : SessionError(t, k, again)
            \/ GoesQuiet(t, k) \/ Returns(t, k) \/ MemberRemoved(t, k)
    BY <1>0
  <1>2. board' \in Boards  BY AgentStepBoards DEF BoardInv
  <1>3. CASE Complete(t, k)  BY <1>3, CompleteStep
  <1>4. CASE ~Complete(t, k)
    <2>1. UNCHANGED <<story, task>>
      BY <1>1, <1>4 DEF Offer, Claim, Fail, SessionError, GoesQuiet, Returns, MemberRemoved
    <2> QED  BY <1>2, <2>1, QueueStep
  <1> QED  BY <1>3, <1>4

LEMMA PersonBoardStep ==
    ASSUME BoardInv, Ordered(board), PersonStep
    PROVE  BoardStep
  <1>0. board' \in Boards  BY PersonStepBoards DEF BoardInv
  <1>1. CASE \E s \in Stories :
            \/ \E status \in {"open", "done"}, n \in 0 .. MaxSeq, pending \in BOOLEAN :
                \E P \in SUBSET (1 .. n) : CreateStory(s, status, n, P, pending)
            \/ \E pending \in BOOLEAN : AddTask(s, pending)
            \/ \E place \in Orders(TasksOf(board, s)) : ReorderTasks(s, place)
            \/ EditStory(s)
            \/ DeleteStory(s)
            \/ \E force \in BOOLEAN : ArchiveStory(s, force)
    BY <1>0, <1>1, CreateStoryStep, AddTaskStep, ReorderTasksStep, UpdateStoryStep, DeleteStoryStep,
       ArchiveStoryStep DEF EditStory
  <1>2. CASE \E t \in Tasks :
            \/ \E p \in Positions : MoveTask(t, p)
            \/ DeleteTask(t)
            \/ ActivateTask(t)
            \/ ReEnqueue(t)
            \/ \E k \in DOMAIN items[t] :
                \/ CancelItem(t, k)
                \/ \E reEnqueue \in BOOLEAN : ForceFail(t, k, reEnqueue)
    BY <1>0, <1>2, MoveTaskStep, DeleteTaskStep, ActivateTaskStep, QueueStep
       DEF ReEnqueue, CancelItem, ForceFail
  <1> QED  BY <1>1, <1>2 DEF PersonStep

LEMMA EveryStep ==
    ASSUME BoardInv, Ordered(board), Next
    PROVE  BoardStep
  BY PersonBoardStep, AgentBoardStep, BootStep DEF Next

LEMMA OrderedHolds == Spec => []Ordered(board)
  <1>1. Init => Ordered(board)
    <2> SUFFICES ASSUME Init PROVE Ordered(board)  OBVIOUS
    <2>1. board \in Boards  BY InitBoards DEF BoardInv
    <2>2. \A t \in Tasks : board.task[t].place = 0  BY DEF Init, board, NoTask
    <2>3. \A t \in Tasks : ~HasTask(board, t)  BY <2>2, HasTaskDef
    <2> QED  BY <2>1, <2>2, <2>3 DEF Ordered
  <1>2. BoardInv /\ Ordered(board) /\ [Next]_vars => Ordered(board)'
    <2> SUFFICES ASSUME BoardInv, Ordered(board), [Next]_vars PROVE Ordered(board')
      OBVIOUS
    <2>1. CASE UNCHANGED vars
      <3>1. board' = board  BY <2>1 DEF vars, board
      <3> QED  BY <3>1
    <2>2. CASE Next  BY <2>2, EveryStep DEF BoardStep, Pulled
    <2> QED  BY <2>1, <2>2
  <1> QED  BY <1>1, <1>2, BoardInvHolds, PTL DEF Spec

-----------------------------------------------------------------------------
(* What every step does to the board, and so what no step does.            *)

\* Nobody enters the active section from outside by finishing a state.
LEMMA NextStateActive ==
    ASSUME NEW b \in Boards, NEW s \in Stories, NEW p, IsActive(b, s, NextState(b, s, p))
    PROVE  IsActive(b, s, p)
  <1> DEFINE ahead == {k \in DOMAIN Flow(b, s) : k > 1 /\ Flow(b, s)[k - 1].name = p}
  <1>1. ahead # {}
    <2>1. ~IsActive(b, s, "done")  BY BucketsInactive DEF Buckets
    <2> QED  BY <2>1 DEF NextState
  <1>2. PICK k \in DOMAIN Flow(b, s) : k > 1 /\ Flow(b, s)[k - 1].name = p  BY <1>1
  <1>3. DOMAIN Flow(b, s) = 1 .. Len(Flow(b, s)) /\ Len(Flow(b, s)) \in Nat
    BY FlowPositions, LenProperties
  <1>4. k - 1 \in DOMAIN Flow(b, s)  BY <1>2, <1>3
  <1> QED  BY <1>2, <1>4 DEF IsActive

LEMMA NextStateOfBucket ==
    ASSUME NEW b \in Boards, NEW s \in Stories, NEW p \in Buckets
    PROVE  NextState(b, s, p) = "done"
  <1> DEFINE ahead == {k \in DOMAIN Flow(b, s) : k > 1 /\ Flow(b, s)[k - 1].name = p}
  <1>1. DOMAIN Flow(b, s) = 1 .. Len(Flow(b, s)) /\ Len(Flow(b, s)) \in Nat
    BY FlowPositions, LenProperties
  <1>2. ~IsActive(b, s, p)  BY BucketsInactive
  <1>3. ahead = {}
    <2> SUFFICES ASSUME NEW k \in DOMAIN Flow(b, s), k > 1, Flow(b, s)[k - 1].name = p PROVE FALSE
      OBVIOUS
    <2>1. k - 1 \in DOMAIN Flow(b, s)  BY <1>1
    <2> QED  BY <1>2, <2>1 DEF IsActive
  <1> QED  BY <1>3 DEF NextState

\* Where a step leaves a task that nobody moved: where its edit did, or pulled in.
LEMMA PulledPosition ==
    ASSUME NEW b, NEW c, NEW X, Pulled(b, c, X), NEW t \in Tasks
    PROVE  \/ c.task[t].pos = b.task[t].pos
           \/ b.task[t].pos = "todo" /\ InTurn(c, t, X)
  BY DEF Pulled

LEMMA OneInPipelineStep ==
    ASSUME BoardInv, Ordered(board), Next, NEW s \in Stories,
           ~\E n \in 1 .. MaxSeq, p \in Positions : MoveTask(<<s, n>>, p),
           ~EditStory(s)
    PROVE  Cardinality(InPipeline(s)') <= 1 \/ InPipeline(s)' \subseteq InPipeline(s)
  <1>1. PICK c, M, E : /\ Edit(board, c, M, E)
                       /\ Pulled(c, board', M)
                       /\ \A t \in M : \E p \in Positions : MoveTask(t, p)
                       /\ \A r \in E : EditStory(r)
    BY EveryStep DEF BoardStep
  <1>2. InPipeline(s)' = {t \in TasksOf(board', s) : IsActive(board', s, task'[t].pos)}
    BY DEF InPipeline
  <1>3. \A t \in TasksOf(board', s) : t \in Tasks /\ t[1] = s /\ t = <<s, t[2]>> /\ t[2] \in 1 .. MaxSeq
                                      /\ HasTask(board', t)
    BY DEF TasksOf, Tasks, HasTask
  <1>4. task' = board'.task /\ task = board.task  BY DEF board
  <1>5. s \notin E /\ \A t \in TasksOf(board', s) : t \notin M  BY <1>1, <1>3
  <1>6. \A t \in Tasks : HasTask(board', t) <=> HasTask(c, t)  BY <1>1, PulledSame
  <1>7. \A p : IsActive(board', s, p) <=> IsActive(c, s, p)  BY <1>1, PulledSame
  <1>8. c \in Boards /\ board \in Boards  BY <1>1 DEF Edit, Ordered
  <1>9. CASE \E t \in InPipeline(s)' : board'.task[t].pos # c.task[t].pos
    <2>1. PICK t \in InPipeline(s)' : board'.task[t].pos # c.task[t].pos  BY <1>9
    <2>2. t \in Tasks /\ t[1] = s  BY <1>2, <1>3
    <2>3. InTurn(board', t, M)  BY <1>1, <2>1, <2>2, PulledPosition
    <2>4. InPipeline(s)' = {t}  BY <1>2, <1>4, <2>1, <2>2, <2>3 DEF InTurn
    <2> QED  BY <2>4, FS_Singleton
  <1>10. CASE \A t \in InPipeline(s)' : board'.task[t].pos = c.task[t].pos
    <2>1. ASSUME NEW t \in InPipeline(s)' PROVE t \in InPipeline(s)
      <3>1. /\ t \in Tasks /\ t[1] = s /\ t \notin M /\ HasTask(c, t)
            /\ IsActive(c, s, c.task[t].pos)
        BY <1>2, <1>3, <1>4, <1>5, <1>6, <1>7, <1>10, <2>1
      <3>2. Carried(board, c, t)  BY <1>1, <3>1 DEF Edit
      <3>3. c.task[t].pos # "todo"  BY <1>8, <3>1, BucketsInactive DEF Buckets
      <3>4. /\ HasTask(board, t)
            /\ c.task[t].pos \in {board.task[t].pos, NextState(board, s, board.task[t].pos)}
        BY <3>1, <3>2, <3>3 DEF Carried
      <3>5. Live(board, s) /\ Live(c, s)  BY <3>1, <3>4, HasTaskDef
      <3>6. c.story[s].workflow = board.story[s].workflow  BY <1>1, <1>5, <3>5 DEF Edit
      <3>7. IsActive(board, s, c.task[t].pos)  BY <3>1, <3>6, SameFlow
      <3>8. IsActive(board, s, board.task[t].pos)  BY <1>8, <3>4, <3>7, NextStateActive
      <3> QED  BY <1>4, <3>1, <3>4, <3>8 DEF InPipeline, HasTask
    <2> QED  BY <2>1
  <1> QED  BY <1>9, <1>10

\* CONWIP, whatever people do elsewhere at the same time: no step but a person's
\* move or edit in a story puts a second of its tasks in the active section
\* (runAdmission and advance, src/daemon/sources/story.ts).
THEOREM OneInPipelineCorrect == Spec => OneInPipeline
  <1>1. BoardInv /\ Ordered(board) /\ [Next]_vars =>
            [\A s \in Stories :
                \/ Cardinality(InPipeline(s)') <= 1
                \/ InPipeline(s)' \subseteq InPipeline(s)
                \/ \E n \in 1 .. MaxSeq, p \in Positions : MoveTask(<<s, n>>, p)
                \/ EditStory(s)]_vars
    BY OneInPipelineStep
  <1> QED  BY <1>1, BoardInvHolds, OrderedHolds, PTL DEF Spec, OneInPipeline

LEMMA AdmittedInTurnStep ==
    ASSUME BoardInv, Ordered(board), Next, NEW t \in Tasks,
           HasTask(board, t), task[t].pos = "todo",
           HasTask(board, t)', IsActive(board, t[1], task[t].pos)',
           \A p \in Positions : ~MoveTask(t, p)
    PROVE  /\ story'[t[1]].status = "open" /\ ~story'[t[1]].pending
           /\ \A d \in story'[t[1]].deps : story'[d].status # "open"
           /\ task'[t].def # "pending"
           /\ \A u \in TasksOf(board, t[1])' :
                task'[u].place < task'[t].place =>
                    task'[u].pos # "todo" \/ \E p \in Positions : MoveTask(u, p)
  <1>1. PICK c, M, E : /\ Edit(board, c, M, E)
                       /\ Pulled(c, board', M)
                       /\ \A u \in M : \E p \in Positions : MoveTask(u, p)
                       /\ \A r \in E : EditStory(r)
    BY EveryStep DEF BoardStep
  <1>2. task' = board'.task /\ task = board.task /\ story' = board'.story  BY DEF board
  <1>3. HasTask(board', t) /\ IsActive(board', t[1], task'[t].pos)  OBVIOUS
  <1>4. t \notin M /\ t[1] \in Stories  BY <1>1 DEF Tasks
  <1>5. c \in Boards /\ board \in Boards /\ board' \in Boards  BY <1>1 DEF Edit, Ordered, Pulled
  <1>6. HasTask(c, t)  BY <1>1, <1>3, PulledSame
  <1>7. Carried(board, c, t)  BY <1>1, <1>4, <1>6 DEF Edit
  <1>8. NextState(board, t[1], "todo") = "done"  BY <1>4, <1>5, NextStateOfBucket DEF Buckets
  <1>9. c.task[t].pos \in Buckets  BY <1>2, <1>7, <1>8 DEF Carried, Buckets
  <1>10. ~IsActive(board', t[1], c.task[t].pos)  BY <1>4, <1>5, <1>9, BucketsInactive
  <1>11. InTurn(board', t, M)  BY <1>1, <1>2, <1>3, <1>10, PulledPosition
  <1>12. TasksOf(board, t[1])' = TasksOf(board', t[1])  OBVIOUS
  <1> QED  BY <1>1, <1>2, <1>11, <1>12 DEF InTurn, IsStoryReady

\* Whatever a step edits, a task enters the active section by admission only in
\* its turn, as the board shows it when the step is over (runAdmission,
\* src/daemon/sources/story.ts).
THEOREM AdmittedInTurnCorrect == Spec => AdmittedInTurn
  <1>1. BoardInv /\ Ordered(board) /\ [Next]_vars =>
            [\A t \in Tasks :
                (/\ HasTask(board, t) /\ task[t].pos = "todo"
                 /\ HasTask(board, t)' /\ IsActive(board, t[1], task[t].pos)'
                 /\ \A p \in Positions : ~MoveTask(t, p))
                => /\ story'[t[1]].status = "open" /\ ~story'[t[1]].pending
                   /\ \A d \in story'[t[1]].deps : story'[d].status # "open"
                   /\ task'[t].def # "pending"
                   /\ \A u \in TasksOf(board, t[1])' :
                        task'[u].place < task'[t].place =>
                            task'[u].pos # "todo" \/ \E p \in Positions : MoveTask(u, p)]_vars
    BY AdmittedInTurnStep
  <1> QED  BY <1>1, BoardInvHolds, OrderedHolds, PTL DEF Spec, AdmittedInTurn

\* A task of the board has the number of its id, until a restart renumbers it.
Numbered(b) == \A t \in Tasks : HasTask(b, t) => b.task[t].seq = t[2] \/ "boot" \in Env

LEMMA NumberedHolds == Spec => []Numbered(board)
  <1>1. Init => Numbered(board)
    <2> SUFFICES ASSUME Init, NEW t \in Tasks PROVE ~HasTask(board, t)  BY DEF Numbered
    <2>1. board.task[t].place = 0  BY DEF Init, board, NoTask
    <2> QED  BY <2>1, HasTaskDef
  <1>2. BoardInv /\ Ordered(board) /\ Numbered(board) /\ [Next]_vars => Numbered(board)'
    <2> SUFFICES ASSUME BoardInv, Ordered(board), Numbered(board), [Next]_vars
                 PROVE  Numbered(board')
      OBVIOUS
    <2>1. CASE UNCHANGED vars
      <3>1. board' = board  BY <2>1 DEF vars, board
      <3> QED  BY <3>1
    <2>2. CASE Next
      <3>1. PICK c, M, E : Edit(board, c, M, E) /\ Pulled(c, board', M)
        BY <2>2, EveryStep DEF BoardStep
      <3>2. \A t \in Tasks : HasTask(board', t) <=> HasTask(c, t)  BY <3>1, PulledSame
      <3>3. \A t \in Tasks : board'.task[t].seq = c.task[t].seq  BY <3>1, PulledSame
      <3> QED  BY <3>1, <3>2, <3>3 DEF Edit, Numbered
    <2> QED  BY <2>1, <2>2
  <1> QED  BY <1>1, <1>2, BoardInvHolds, OrderedHolds, PTL DEF Spec

LEMMA DoneStaysStep ==
    ASSUME ~({"add", "boot"} \subseteq Env),
           BoardInv, Ordered(board), Numbered(board), Next, NEW t \in Tasks,
           HasTask(board, t), task[t].pos = "done", HasTask(board, t)',
           ~\E p \in Positions : MoveTask(t, p)
    PROVE  task'[t].pos = "done"
  <1>1. PICK c, M, E : /\ Edit(board, c, M, E)
                       /\ Pulled(c, board', M)
                       /\ \A u \in M : \E p \in Positions : MoveTask(u, p)
    BY EveryStep DEF BoardStep
  <1>2. task' = board'.task /\ task = board.task  BY DEF board
  <1>3. t \notin M /\ t[1] \in Stories /\ HasTask(board', t)  BY <1>1 DEF Tasks
  <1>4. HasTask(c, t)  BY <1>1, <1>3, PulledSame
  <1>5. Carried(board, c, t)  BY <1>1, <1>3, <1>4 DEF Edit
  <1>6. NextState(board, t[1], "done") = "done"
    BY <1>3, NextStateOfBucket DEF Buckets, Ordered
  <1>7. ~("add" \in Env /\ board.task[t].seq # t[2])  BY DEF Numbered
  <1>8. c.task[t].pos = "done"  BY <1>2, <1>5, <1>6, <1>7 DEF Carried
  <1> QED  BY <1>1, <1>2, <1>8, PulledPosition

\* Unless a task is added after a restart renumbered the others (addTask then
\* overwrites one), nothing but a person's move takes a task out of `done`
\* (advance, runAdmission and the archive, src/daemon/sources/story.ts).
THEOREM DoneStaysCorrect ==
    ASSUME ~({"add", "boot"} \subseteq Env)
    PROVE  Spec => DoneStays
  <1>1. BoardInv /\ Ordered(board) /\ Numbered(board) /\ [Next]_vars =>
            [\A t \in Tasks :
                HasTask(board, t) /\ task[t].pos = "done" /\ HasTask(board, t)'
                    => task'[t].pos = "done" \/ \E p \in Positions : MoveTask(t, p)]_vars
    BY DoneStaysStep
  <1> QED  BY <1>1, BoardInvHolds, OrderedHolds, NumberedHolds, PTL DEF Spec, DoneStays

\* Admission leaves a story that is in sync in sync.
LEMMA PulledInSync ==
    ASSUME NEW b, NEW c, NEW X, Pulled(b, c, X), InSync(b)
    PROVE  InSync(c)
  <1> SUFFICES ASSUME NEW s \in Stories, TasksOf(c, s) # {}
               PROVE  c.story[s].status = "done" <=> \A t \in TasksOf(c, s) : c.task[t].pos = "done"
    BY DEF InSync
  <1>1. TasksOf(c, s) = TasksOf(b, s)  BY PulledSame
  <1>2. c.story = b.story /\ c \in Boards  BY DEF Pulled, Ordered
  <1>3. \A t \in TasksOf(c, s) : t \in Tasks /\ t[1] = s  BY DEF TasksOf, Tasks
  <1>4. CASE \A t \in TasksOf(c, s) : c.task[t].pos = b.task[t].pos
    BY <1>1, <1>2, <1>4 DEF InSync
  <1>5. CASE \E t \in TasksOf(c, s) : c.task[t].pos # b.task[t].pos
    <2>1. PICK t \in TasksOf(c, s) : c.task[t].pos # b.task[t].pos  BY <1>5
    <2>2. InTurn(c, t, X) /\ t[1] = s  BY <1>3, <2>1, PulledPosition
    <2>3. c.story[s].status = "open"  BY <2>2 DEF InTurn, IsStoryReady
    <2>4. c.task[t].pos # "done"  BY <1>2, <2>2, BucketsInactive DEF InTurn, Buckets
    <2> QED  BY <2>1, <2>3, <2>4
  <1> QED  BY <1>4, <1>5

\* As long as a story's tasks are those it was created with and no status is set
\* by hand, it is done exactly while they all are (setPosition and
\* updateStoryStatus, src/daemon/sources/story.ts).
THEOREM StatusInSyncCorrect ==
    ASSUME Unedited
    PROVE  Spec => []StatusInSync
  <1>1. Init => InSync(board)
    <2> SUFFICES ASSUME Init, NEW s \in Stories PROVE TasksOf(board, s) = {}  BY DEF InSync
    <2>1. ~Live(board, s)  BY DEF Init, board, NoStory, Live
    <2> QED  BY <2>1 DEF TasksOf
  <1>2. BoardInv /\ Ordered(board) /\ InSync(board) /\ [Next]_vars => InSync(board)'
    <2> SUFFICES ASSUME BoardInv, Ordered(board), InSync(board), [Next]_vars
                 PROVE  InSync(board')
      OBVIOUS
    <2>1. CASE UNCHANGED vars
      <3>1. board' = board  BY <2>1 DEF vars, board
      <3> QED  BY <3>1
    <2>2. CASE Next
      <3>1. PICK c, M, E : Edit(board, c, M, E) /\ Pulled(c, board', M)
        BY <2>2, EveryStep DEF BoardStep
      <3> QED  BY <3>1, PulledInSync DEF Edit
    <2> QED  BY <2>1, <2>2
  <1>3. InSync(board) => StatusInSync  BY DEF InSync, StatusInSync, board
  <1> QED  BY <1>1, <1>2, <1>3, BoardInvHolds, OrderedHolds, PTL DEF Spec

LEMMA NoStallStep ==
    ASSUME "reorder" \notin Env, BoardInv, Ordered(board), Next, NEW s \in Stories,
           Admitted(board', s, {}) # {}, Admitted(board, s, {}) = {}
    PROVE  \E n \in 1 .. MaxSeq : /\ Admitted(board', s, {}) = {<<s, n>>}
                                  /\ MoveTask(<<s, n>>, "todo")
  <1>1. PICK c, M, E : /\ Edit(board, c, M, E)
                       /\ Pulled(c, board', M)
                       /\ Settled(board, c, board', M)
                       /\ \A t \in M : \E p \in Positions : MoveTask(t, p) /\ c.task[t].pos = p
    BY EveryStep DEF BoardStep
  <1>2. Ordered(board') /\ board' \in Boards  BY <1>1 DEF Pulled, Ordered
  <1>3. Admitted(board', s, {}) \subseteq Admitted(c, s, {})  BY <1>1, PulledAdmitted
  <1>4. ~Unstirred(board, c, s)
    <2>1. Unstirred(board, c, s) => Admitted(c, s, {}) \subseteq Admitted(board, s, {})
      BY UnstirredAdmitted
    <2> QED  BY <1>3, <2>1
  <1>5. Admitted(board', s, M) = {}  BY <1>1, <1>4 DEF Settled
  <1>6. PICK t : t \in Admitted(board', s, {})  OBVIOUS
  <1>7. t \in Tasks /\ t[1] = s /\ board'.task[t].pos = "todo" /\ Admitted(board', s, {}) = {t}
    BY <1>2, <1>6, AdmittedInLine
  \* The one it would admit is the one it passed over.
  <1>8. t \in M
    <2> SUFFICES ASSUME t \notin M PROVE FALSE  OBVIOUS
    <2>1. t \in NextInLine(board', s, {})  BY <1>6 DEF Admitted
    <2>2. t \in NextInLine(board', s, M)  BY <2>1 DEF NextInLine
    <2>3. t \in Admitted(board', s, M)  BY <1>6, <2>2 DEF Admitted
    <2> QED  BY <1>5, <2>3
  <1>9. c.task[t].pos = "todo"
    <2>1. CASE c.task[t].pos = board'.task[t].pos  BY <1>7, <2>1
    <2>2. CASE c.task[t].pos # board'.task[t].pos
      <3>1. c.task[t].pos = "todo"  BY <1>1, <1>7, <2>2, PulledPosition
      <3> QED  BY <3>1
    <2> QED  BY <2>1, <2>2
  <1>10. MoveTask(t, "todo")  BY <1>1, <1>8, <1>9
  <1>11. t = <<s, t[2]>> /\ t[2] \in 1 .. MaxSeq  BY <1>7 DEF Tasks
  <1>12. Admitted(board', s, {}) = {<<s, t[2]>>} /\ MoveTask(<<s, t[2]>>, "todo")
    BY <1>7, <1>10, <1>11
  <1> QED  BY <1>11, <1>12

\* Unless tasks are reordered, which runs no admission, no step leaves behind a
\* story that has a task to admit and did not have it before, but for the task a
\* person puts back (runAdmission and admitDependents, src/daemon/sources/story.ts).
THEOREM NoStallCorrect ==
    ASSUME "reorder" \notin Env
    PROVE  Spec => NoStall
  <1>1. ASSUME BoardInv, Ordered(board), Next, NEW s \in Stories, Stalled(s)', ~Stalled(s)
        PROVE  \E n \in 1 .. MaxSeq : /\ Admitted(board, s, {})' = {<<s, n>>}
                                      /\ MoveTask(<<s, n>>, "todo")
    <2>1. Admitted(board', s, {}) # {}  BY <1>1 DEF Stalled
    <2>2. Admitted(board, s, {}) = {}
      <3>1. ~Live(board, s) => board.story[s].status # "open"  BY DEF Live
      <3> QED  BY <1>1, <3>1, ClosedAdmitted DEF Stalled
    <2> QED  BY <1>1, <2>1, <2>2, NoStallStep
  <1>2. BoardInv /\ Ordered(board) /\ [Next]_vars =>
            [\A s \in Stories :
                Stalled(s)' => \/ Stalled(s)
                               \/ \E n \in 1 .. MaxSeq :
                                    /\ Admitted(board, s, {})' = {<<s, n>>}
                                    /\ MoveTask(<<s, n>>, "todo")]_vars
    BY <1>1
  <1> QED  BY <1>2, BoardInvHolds, OrderedHolds, PTL DEF Spec, NoStall
=============================================================================
