---------------------------- MODULE Directories ----------------------------
(***************************************************************************)
(* Directories as the lease compares them: the tuple of a normalised       *)
(* path's segments (shared/paths.ts normalizeDirectory resolves symlinks   *)
(* and trailing slashes before any comparison).                            *)
(***************************************************************************)
EXTENDS Sequences

SX == INSTANCE SequencesExt

CONSTANTS Dirs,   \* the normalised directories in use
          NoDir   \* the absence of a directory

ASSUME DirsAssumption ==
    /\ Dirs \subseteq Seq(STRING)
    /\ NoDir \notin Dirs

\* directoriesOverlap: the same path, or one inside the other, by segment.
DirectoriesOverlap(a, b) == SX!IsPrefix(a, b) \/ SX!IsPrefix(b, a)
=============================================================================
