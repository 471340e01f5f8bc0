----------------------------- MODULE WorkItems -----------------------------
(***************************************************************************)
(* The row operations of the work queue (src/daemon/store/queue.ts) as     *)
(* operators on a sequence of WorkItems.  Rows are never deleted, so an    *)
(* item's id is its index and a smaller index was enqueued earlier.        *)
(***************************************************************************)
EXTENDS Naturals, Sequences, FiniteSets, Directories, ItemStates

CONSTANTS Defs,      \* WorkDef ids
          Agents,    \* member ids: the names teammates register under
          NoMember   \* a null member_id

ASSUME MemberAssumption == NoMember \notin Agents

(* A work_items row.  `held`: a retry whose backoff (retry_at) has not      *)
(* passed.  `read`: the automatic retry marked the failure read (a person   *)
(* doing so, markWorkItemRead, only tidies the Inbox and is left out).      *)
WorkItem ==
    [def: Defs, dir: Dirs \union {NoDir}, state: AllStates,
     member: Agents \union {NoMember}, attempt: Nat \ {0},
     held: BOOLEAN, read: BOOLEAN]

-----------------------------------------------------------------------------
(* Queries. *)

InState(q, S) == {i \in DOMAIN q : q[i].state \in S}

InFlight(q) == InState(q, InFlightStates)

\* getActiveWorkItem: the active items of a WorkDef.
ActiveItems(q, d) == {i \in InState(q, ActiveStates) : q[i].def = d}

\* Mutant of HasActive: a MORIBUND item does not count.
HasActiveConnected(q, d) == \E i \in InState(q, {"READY", "IN_PROGRESS"}) : q[i].def = d

HasActive(q, d) == ActiveItems(q, d) # {}

\* The items a member holds in one of the states S.
HeldBy(q, a, S) == {i \in InState(q, S) : q[i].member = a}

\* Two items of which each would block the other's claim.
Conflict(x, y) ==
    /\ x.dir # NoDir
    /\ y.dir # NoDir
    /\ DirectoriesOverlap(x.dir, y.dir)

\* Mutants of Blocked: MORIBUND items keep no lease; only equal paths conflict.
BlockedByConnected(q, i, exclusive) ==
    /\ exclusive
    /\ \E j \in InState(q, {"IN_PROGRESS"}) \ {i} : Conflict(q[j], q[i])
BlockedBySamePath(q, i, exclusive) ==
    /\ exclusive
    /\ \E j \in InFlight(q) \ {i} : q[j].dir = q[i].dir /\ q[i].dir # NoDir

\* getDirectoryBlocker: another in-flight item leases an overlapping directory.
Blocked(q, i, exclusive) ==
    /\ exclusive
    /\ \E j \in InFlight(q) \ {i} : Conflict(q[j], q[i])

-----------------------------------------------------------------------------
(* Updates. *)

\* The INSERT of enqueueFor.
NewItem(d, dir, attempt, held) ==
    [def |-> d, dir |-> dir, state |-> "READY", member |-> NoMember,
     attempt |-> attempt, held |-> held, read |-> FALSE]

EnqueueFor(q, d, dir, attempt, held) == Append(q, NewItem(d, dir, attempt, held))

\* setWorkItemStateRow on every row of S.
SetStates(q, S, s) ==
    [i \in DOMAIN q |-> IF i \in S THEN [q[i] EXCEPT !.state = s] ELSE q[i]]

\* claimWorkItem's row update.
Lease(q, i, a) == [q EXCEPT ![i].state = "IN_PROGRESS", ![i].member = a]

\* removeMember: in-flight items go MORIBUND first, then every row forgets the member.
Forget(q, a) ==
    [i \in DOMAIN q |->
        IF q[i].member # a THEN q[i]
        ELSE IF q[i].state = "IN_PROGRESS"
             THEN [q[i] EXCEPT !.state = "MORIBUND", !.member = NoMember]
             ELSE [q[i] EXCEPT !.member = NoMember]]
=============================================================================
