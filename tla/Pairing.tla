------------------------------ MODULE Pairing ------------------------------
(***************************************************************************)
(* What the daemon keeps of a web pairing with one teammate                *)
(* (src/daemon/store/pairing.ts, src/daemon/routes/pairing.ts): a person's *)
(* intent, until the teammate's poll drains it.  It is in memory only.     *)
(*                                                                         *)
(* A person's requests are numbered as they are made; a message is its     *)
(* number, a release its number and what becomes of the held item.         *)
(***************************************************************************)
EXTENDS Naturals, Sequences, SequencesExt

CONSTANTS MaxOutbox,    \* MAX_OUTBOX, 50 in the code
          MaxRequests   \* bound on the requests people make

ASSUME PairingAssumption == MaxOutbox \in Nat \ {0} /\ MaxRequests \in Nat

ReleaseActions == {"resume", "complete", "fail"}

Requests == 1 .. MaxRequests

\* `at` = 0: nothing to release.
NoRelease == [at |-> 0, action |-> "resume"]
Releases  == {NoRelease} \union [at : Requests, action : ReleaseActions]

PairState == [paired : BOOLEAN, release : Releases, outbox : Seq(Requests)]

\* A member nothing is known of: never paired, forgotten, or the daemon restarted.
Unpaired == [paired |-> FALSE, release |-> NoRelease, outbox |-> << >>]

\* pair: supersedes a release that was not taken yet.
Pair(s) == [s EXCEPT !.paired = TRUE, !.release = NoRelease]

\* The newest n of a sequence.
Newest(n, seq) == SubSeq(seq, (IF Len(seq) > n THEN Len(seq) - n ELSE 0) + 1, Len(seq))

\* send: the oldest messages are dropped beyond MAX_OUTBOX.
Send(s, m) == [s EXCEPT !.outbox = Newest(MaxOutbox, Append(s.outbox, m))]

\* release: recorded whether or not a pairing is known; unsent messages are dropped.
Release(s, r) == [paired |-> FALSE, release |-> r, outbox |-> << >>]

\* Mutant of Drained: the messages are handed over and kept.
DrainedOfRelease(s) == [s EXCEPT !.release = NoRelease]

\* poll, after the answer: what it hands over is forgotten.
Drained(s) == [s EXCEPT !.release = NoRelease, !.outbox = << >>]
=============================================================================
