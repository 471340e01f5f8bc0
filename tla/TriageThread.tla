--------------------------- MODULE TriageThread ---------------------------
(***************************************************************************)
(* The thread of a triage subject: one append-only file of analyses, which *)
(* carry proposals, and of decisions, which name a proposal by its id.  An *)
(* id may be used again by a later analysis.  What was decided is a fold   *)
(* over the file.                                                          *)
(*                                                                         *)
(* A proposal is named <<k, id>>, k the line of its analysis.  Its text is *)
(* left out; of its kind only whether it needs a story that exists, and    *)
(* there is one story.                                                     *)
(*                                                                         *)
(* Code: src/daemon/triage.ts, src/daemon/store/triage.ts.                 *)
(***************************************************************************)
EXTENDS Integers, FiniteSets, SequencesExt

CONSTANTS Ids,           \* ids a teammate gives its proposals
          MaxAnalyses,   \* bound
          MaxCrashes     \* bound

VARIABLES thread,    \* the lines of comments.jsonl
          made,      \* history: how often work was created, by proposal
          crashes,   \* history: crashes between a proposal's work and its decision
          story      \* the story that proposals name exists

threadVars == <<thread, made, crashes, story>>

Kinds    == {"task", "story-task"}
Outcomes == {"proposals", "nothing"}   \* nothing stands for question as well

\* read: the version of the subject its teammate was given.
Analysis(outcome, read, proposals) ==
    [line |-> "analysis", outcome |-> outcome, read |-> read, proposals |-> proposals]
Decision(id, action) == [line |-> "decision", id |-> id, action |-> action]

Analyses(lines) == {k \in DOMAIN lines : lines[k].line = "analysis"}

---------------------------------------------------------------------------
(* The folds.                                                              *)

Proposals == UNION {{k} \X DOMAIN thread[k].proposals : k \in Analyses(thread)}

\* The proposal an id means, up to a line: the newest wins the name.  Line 0: none.
Named(id, before) ==
    LET uses == {p \in Proposals : p[2] = id /\ p[1] < before}
    IN  IF uses = {} THEN <<0, id>> ELSE CHOOSE p \in uses : \A q \in uses : p[1] >= q[1]

\* foldProposals: the last decision to name it.
DecisionOf(p) ==
    LET named == {d \in DOMAIN thread \ Analyses(thread) : Named(thread[d].id, d) = p}
    IN  IF named = {} THEN "pending"
        ELSE thread[CHOOSE d \in named : \A e \in named : d >= e].action

---------------------------------------------------------------------------
(* The operations, on a subject that exists.                               *)

\* validateProposal: a task for a story names one that exists.
ValidProposal(kind) == kind = "story-task" => story

\* validateAnalysis: proposals exactly when the outcome says so, each valid.
ValidAnalysis(outcome, proposals) ==
    /\ outcome = "proposals" <=> DOMAIN proposals # {}
    /\ \A id \in DOMAIN proposals : ValidProposal(proposals[id])

\* addTriageAnalysisForWorkDef: a line, or a refusal the teammate can mend.
AddAnalysis(read, outcome, proposals) ==
    /\ Cardinality(Analyses(thread)) < MaxAnalyses
    /\ ValidAnalysis(outcome, proposals)
    /\ thread' = Append(thread, Analysis(outcome, read, proposals))
    /\ LET k == Len(thread) + 1
       IN  made' = [p \in Proposals \union ({k} \X DOMAIN proposals) |->
                       IF p \in Proposals THEN made[p] ELSE 0]
    /\ UNCHANGED <<crashes, story>>

\* Mutant: the oldest proposal of that id still undecided.
FindUndecided(id) ==
    LET open == {p \in Proposals : p[2] = id /\ DecisionOf(p) = "pending"}
    IN  IF open = {} THEN Named(id, Len(thread) + 1)
        ELSE CHOOSE p \in open : \A q \in open : p[1] <= q[1]

\* findProposal: the latest of that id.
FindProposal(id) == Named(id, Len(thread) + 1)

\* Found, and not decided yet.
Open(id) == FindProposal(id)[1] # 0 /\ DecisionOf(FindProposal(id)) = "pending"

\* acceptProposal creates the work first ...
Creatable(id) ==
    LET p == FindProposal(id) IN thread[p[1]].proposals[id] = "story-task" => story
CreateWork(id) == made' = [made EXCEPT ![FindProposal(id)] = @ + 1]

\* ... then appends the decision.
Decide(id, action) == thread' = Append(thread, Decision(id, action))

AcceptProposal(id) ==
    /\ Open(id) /\ Creatable(id)
    /\ CreateWork(id) /\ Decide(id, "accepted")
    /\ UNCHANGED <<crashes, story>>

\* existingWorkDefId: the author has made the work already.
AcceptExisting(id) ==
    /\ Open(id)
    /\ Decide(id, "accepted")
    /\ UNCHANGED <<made, crashes, story>>

\* The daemon stops between the two.
AcceptCut(id) ==
    /\ crashes < MaxCrashes /\ Open(id) /\ Creatable(id)
    /\ CreateWork(id)
    /\ crashes' = crashes + 1
    /\ UNCHANGED <<thread, story>>

RejectProposal(id) ==
    /\ Open(id)
    /\ Decide(id, "rejected")
    /\ UNCHANGED <<made, crashes, story>>

\* The story is deleted, or one made under that id.
StoryChanges == story' = ~story /\ UNCHANGED <<thread, made, crashes>>

\* The subject's WorkDef is deleted, the thread with it.
DropThread == thread' = <<>> /\ made' = <<>> /\ UNCHANGED <<crashes, story>>

ThreadInit == thread = <<>> /\ made = <<>> /\ crashes = 0 /\ story = TRUE

---------------------------------------------------------------------------
Line ==
    [line : {"analysis"}, outcome : Outcomes, read : Nat,
     proposals : UNION {[S -> Kinds] : S \in SUBSET Ids}]
    \union [line : {"decision"}, id : Ids, action : {"accepted", "rejected"}]

\* Types; work is made once for each proposal, and once more for a crash.
ThreadTypeOK ==
    /\ thread \in Seq(Line)
    /\ DOMAIN made = Proposals /\ \A p \in Proposals : made[p] \in 0..(1 + MaxCrashes)
    /\ crashes \in 0..MaxCrashes /\ story \in BOOLEAN

\* The folded thread keeps the promises of the ledger: a decision falls on the proposal
\* whose work was made, once and for good, however ids are reused and whatever is posted
\* between (foldProposals, findProposal, acceptProposal, rejectProposal).
Ledger == INSTANCE ProposalLedger WITH
              decision <- [p \in Proposals |-> DecisionOf(p)], made <- made, crashes <- crashes
ImplementsLedger == Ledger!Spec

===========================================================================
