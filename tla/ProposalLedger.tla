-------------------------- MODULE ProposalLedger --------------------------
(***************************************************************************)
(* What a triage subject promises about its proposals: each is pending     *)
(* until it is accepted or rejected, once and for good; accepting makes at *)
(* most one piece of work, and nothing else makes any but a crash between  *)
(* the work and the decision.                                              *)
(*                                                                         *)
(* The threads of src/daemon/store/triage.ts implement it: TriageThread.   *)
(***************************************************************************)
EXTENDS Naturals

VARIABLES decision,   \* what was decided, by proposal: pending, accepted, rejected
          made,       \* how often work was created for it
          crashes     \* how many crashes there were between the work and the decision

Decisions == {"pending", "accepted", "rejected"}

Init == decision = <<>> /\ made = <<>> /\ crashes = 0

\* An analysis adds proposals, all pending, and changes no other.
Propose ==
    /\ DOMAIN decision \subseteq DOMAIN decision'
    /\ \A p \in DOMAIN decision' :
          IF p \in DOMAIN decision THEN decision'[p] = decision[p] /\ made'[p] = made[p]
          ELSE decision'[p] = "pending" /\ made'[p] = 0
    /\ UNCHANGED crashes

\* count: 1, or 0 for work the author has made already.
Accept(p, count) ==
    /\ decision[p] = "pending"
    /\ decision' = [decision EXCEPT ![p] = "accepted"]
    /\ made' = [made EXCEPT ![p] = @ + count]
    /\ UNCHANGED crashes

Reject(p) ==
    /\ decision[p] = "pending"
    /\ decision' = [decision EXCEPT ![p] = "rejected"]
    /\ UNCHANGED <<made, crashes>>

Crash(p) ==
    /\ decision[p] = "pending"
    /\ made' = [made EXCEPT ![p] = @ + 1]
    /\ crashes' = crashes + 1
    /\ UNCHANGED decision

\* The subject is deleted, its thread with it.
Forget == decision' = <<>> /\ made' = <<>> /\ UNCHANGED crashes

Next ==
    \/ Propose \/ Forget
    \/ \E p \in DOMAIN decision : (\E count \in {0, 1} : Accept(p, count)) \/ Reject(p) \/ Crash(p)

Spec == Init /\ [][Next]_<<decision, made, crashes>>

---------------------------------------------------------------------------
\* One piece of work for each proposal, but for crashes.
AtMostOneEach == \A p \in DOMAIN decision : made[p] <= 1 + crashes

===========================================================================
