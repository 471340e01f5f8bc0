-------------------------- MODULE MirroredThread --------------------------
(***************************************************************************)
(* The thread of a mirrored item.  The external system's comments are      *)
(* pulled into it by the source's sync, by their ids; a comment made here  *)
(* is written back by the source's hook, which is not awaited, and comes   *)
(* back with the next pull as if it were somebody else's.                  *)
(*                                                                         *)
(* One comment of theirs and one of ours for each item.  Lines made here   *)
(* are not modelled but by their write-back.                               *)
(*                                                                         *)
(* Code: src/daemon/sources/comments.ts, src/daemon/store/threads.ts,      *)
(* src/daemon/store.ts.                                                    *)
(***************************************************************************)
EXTENDS Naturals

CONSTANTS Items   \* the external system's items

VARIABLES comments,   \* the comments each item has in the external system
          pulled,     \* the comments each mirror's thread has as external ones
          writeBack   \* the write-back of our comment on each item

threads == <<comments, pulled, writeBack>>

Comments == {"theirs", "ours"}

\* asked: the hook is called; posted: the external system has the comment; recorded: its
\* id is in the source's kv; failed: the hook rejected; cut: the answer will never come.
Phases == {"none", "asked", "posted", "recorded", "failed", "cut"}

\* late: the two minutes for which a write-back in flight defers have passed.
WriteBack == [phase : Phases, late : BOOLEAN]
NoWriteBack == [phase |-> "none", late |-> FALSE]

SetPhase(i, phase) == writeBack' = [writeBack EXCEPT ![i].phase = phase]

---------------------------------------------------------------------------
\* writeBackInFlight: in memory, and for two minutes only.
InFlight(i) == writeBack[i].phase \in {"asked", "posted"} /\ ~writeBack[i].late

\* mergeExternalComments: neither in the thread already nor known to be ours.
New(i, reported) ==
    {c \in reported \ pulled[i] : ~(c = "ours" /\ writeBack[i].phase = "recorded")}

\* Mutant: a write-back in flight defers nothing.
MergedAtOnce(i, reported) == pulled[i] \union New(i, reported)

\* ingestExternalComments: everything new waits while a write-back is in flight.
Merged(i, reported) == pulled[i] \union (IF InFlight(i) THEN {} ELSE New(i, reported))

---------------------------------------------------------------------------
\* Somebody comments in the external system.
TheyComment(i) ==
    /\ "theirs" \notin comments[i]
    /\ comments' = [comments EXCEPT ![i] = @ \union {"theirs"}]
    /\ UNCHANGED <<pulled, writeBack>>

\* addCommentForRef on a mirror, with notifyComment, which calls the hook.
AddComment(i) ==
    /\ writeBack[i] = NoWriteBack
    /\ SetPhase(i, "asked")
    /\ UNCHANGED <<comments, pulled>>

\* The external system takes the post.
PostReaches(i) ==
    /\ writeBack[i].phase = "asked"
    /\ comments' = [comments EXCEPT ![i] = @ \union {"ours"}]
    /\ SetPhase(i, "posted")
    /\ UNCHANGED pulled

\* The hook resolves with the comment's id, which is recorded.  (A source that has no id to
\* give filters its own posts out of its pulls itself.)
PostResolves(i) ==
    /\ writeBack[i].phase = "posted"
    /\ SetPhase(i, "recorded")
    /\ UNCHANGED <<comments, pulled>>

\* The hook rejects, a timeout or a lost reply among the reasons, whether the post was taken
\* or not: no id is recorded, and the write-back is no longer in flight.
PostFails(i) ==
    /\ writeBack[i].phase \in {"asked", "posted"}
    /\ SetPhase(i, "failed")
    /\ UNCHANGED <<comments, pulled>>

\* Two minutes pass: a hung hook defers no longer.
DeferPasses(i) ==
    /\ InFlight(i)
    /\ writeBack' = [writeBack EXCEPT ![i].late = TRUE]
    /\ UNCHANGED <<comments, pulled>>

\* A restart forgets the write-backs in flight, whether or not the post is on its way.
ForgetWriteBacks ==
    /\ writeBack' = [i \in Items |-> IF writeBack[i].phase \in {"asked", "posted"}
                                     THEN [writeBack[i] EXCEPT !.phase = "cut"] ELSE writeBack[i]]
    /\ \E taken \in SUBSET {i \in Items : writeBack[i].phase = "asked"} :
          comments' = [i \in Items |-> IF i \in taken THEN comments[i] \union {"ours"} ELSE comments[i]]
    /\ UNCHANGED pulled

ThreadInit ==
    /\ comments = [i \in Items |-> {}]
    /\ pulled = [i \in Items |-> {}]
    /\ writeBack = [i \in Items |-> NoWriteBack]

ThreadTypeOK ==
    /\ comments \in [Items -> SUBSET Comments]
    /\ pulled \in [Items -> SUBSET Comments]
    /\ writeBack \in [Items -> WriteBack]
===========================================================================
