---------------------------- MODULE ChatChannel ----------------------------
(***************************************************************************)
(* What the assistant's chat promises the user about a message: messages   *)
(* reach the agent for the first time in the order they were sent, a       *)
(* receipt says no more than what happened, and receipts only go forward.  *)
(* A message may reach the agent more than once.                           *)
(*                                                                         *)
(* docs/DESIGN.md "Assistant Chat Model".  AssistantChat implements it.    *)
(***************************************************************************)
EXTENDS Naturals, Sequences

VARIABLES receipt,   \* each message's: queued, delivered, read; deleted if it is gone
          out        \* the messages handed to the agent, in that order

Rank == [queued |-> 0, delivered |-> 1, read |-> 2, deleted |-> 3]

Handed(m, o) == \E k \in DOMAIN o : o[k] = m

Init == receipt = <<>> /\ out = <<>>

Send == receipt' = Append(receipt, "queued") /\ UNCHANGED out

Hand ==
    /\ UNCHANGED receipt
    /\ Len(out') > Len(out) /\ SubSeq(out', 1, Len(out)) = out
    /\ \A k \in DOMAIN out' : out'[k] \in DOMAIN receipt
    /\ \A k \in Len(out) + 1 .. Len(out') : \A m \in 1..(out'[k] - 1) :
          receipt[m] = "deleted" \/ \E j \in 1..(k - 1) : out'[j] = m

\* Receipts go forward, for messages that were handed; a deletion needs nothing.
Advance ==
    /\ DOMAIN receipt' = DOMAIN receipt
    /\ \A m \in DOMAIN receipt :
          \/ receipt'[m] = receipt[m]
          \/ Rank[receipt'[m]] > Rank[receipt[m]] /\ (Handed(m, out) \/ receipt'[m] = "deleted")
    /\ UNCHANGED out

Next == Send \/ Hand \/ Advance

Spec == Init /\ [][Next]_<<receipt, out>>

===========================================================================
