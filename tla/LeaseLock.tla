----------------------------- MODULE LeaseLock -----------------------------
(***************************************************************************)
(* What the exclusive directory lease promises (docs/DESIGN.md "Exclusive  *)
(* directory leases: one teammate per directory"), with nothing of queues, *)
(* agents or reapers: while enforcement is on, a lease is granted only if  *)
(* it overlaps none that is held, and only letting go makes room.          *)
(* WorkQueue is shown to implement it.                                     *)
(***************************************************************************)
EXTENDS Directories

CONSTANT Ids   \* who may hold a lease: in the queue, WorkItem ids

VARIABLES held,      \* the leases held: pairs of an id and a directory
          enforced   \* is enforcement on?

lockVars == <<held, enforced>>

Overlap(l, m) == DirectoriesOverlap(l[2], m[2])

Acquire(l) ==
    /\ l \notin held
    /\ enforced => \A m \in held : ~Overlap(l, m)
    /\ held' = held \union {l}
    /\ UNCHANGED enforced

Release(S) ==
    /\ held' = held \ S
    /\ UNCHANGED enforced

Switch ==
    /\ enforced' = ~enforced
    /\ UNCHANGED held

LockInit == held = {} /\ enforced \in BOOLEAN

LockNext ==
    \/ \E l \in Ids \X Dirs : Acquire(l)
    \/ \E S \in SUBSET held : Release(S)
    \/ Switch

LockSpec == LockInit /\ [][LockNext]_lockVars

-----------------------------------------------------------------------------

\* Two leases that overlap although they belong to different ids.
Overlapping == {p \in held \X held : p[1] # p[2] /\ Overlap(p[1], p[2])}

\* No two held leases overlap.
Exclusion == Overlapping = {}

\* While enforcement is on no new overlap comes about, whatever overlapped
\* when it was turned on (src/daemon/store/queue.ts claimWorkItem).
NoNewOverlap == [][enforced => Overlapping' \subseteq Overlapping]_lockVars
=============================================================================
