---------------------------- MODULE MCStoryBoard ----------------------------
(***************************************************************************)
(* Values of StoryBoard's constants for TLC.                               *)
(***************************************************************************)
EXTENDS StoryBoard, TLC

CONSTANTS s1, s2

Agent(n) == [name |-> n, type |-> "agent"]
Manual(n) == [name |-> n, type |-> "manual"]

\* Agents only; and one with a person's review in it.
MCStates == ("build" :> <<Agent("plan"), Agent("build")>>)
         @@ ("review" :> <<Agent("build"), Manual("review"), Agent("ship")>>)

OnlyBuild  == [s \in Stories |-> "build"]
OnlyReview == [s \in Stories |-> "review"]
Chain      == [s \in Stories |-> IF s = s1 THEN {} ELSE {s1}]
Nothing    == [s \in Stories |-> {}]

EnvMoves   == {"move", "pendingTask", "fail", "rerun", "cancel", "force", "silence", "removed",
               "sessionError", "boot"}
EnvStories == {"deps", "pending", "archive", "pendingTask", "fail"}
EnvEdits   == {"move", "reorder", "add", "deleteTask", "deleteStory", "archive", "status",
               "workflow", "sessionError"}

\* With these DoneStays is violated: after a deletion and a restart, addTask
\* reuses the id of a task that is done (see the README).
EnvRenumber == {"deleteTask", "add", "boot"}
=============================================================================
