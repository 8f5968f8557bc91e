------------------------------- MODULE GitHub -------------------------------
(***************************************************************************)
(* The repository that migrations are delivered to: one migration branch,  *)
(* its files, and the pull requests opened from it.  GitHub is external;   *)
(* what it accepts and refuses is taken from github/client.py and from the *)
(* fake that the tests run against.                                        *)
(*                                                                         *)
(* A file is a version of its content, which stands for its blob sha too:  *)
(* two writers of the same content produce the same sha.                   *)
(***************************************************************************)
EXTENDS Naturals, Sequences

CONSTANTS Paths,     \* the paths that deliveries of this migration write
          Versions,  \* the contents that a path may have
          Labels,    \* the sets of labels that a decision may carry, by name
          Absent     \* no file at a path

VARIABLES
    branch,      \* the migration branch exists
    files,       \* path -> version on the branch
    baseFiles,   \* path -> version on the default branch
    ahead,       \* the branch has commits that the default branch has not
    pulls        \* the pull requests from the branch, by number

repository == <<branch, files, baseFiles, ahead, pulls>>

Tree == [Paths -> Versions \cup {Absent}]
Pulls == [open: BOOLEAN, draft: BOOLEAN, labels: SUBSET Labels, ours: BOOLEAN]

NoFiles == [p \in Paths |-> Absent]

OpenPulls == {n \in DOMAIN pulls : pulls[n].open}

RepositoryTypeOK ==
    /\ branch \in BOOLEAN
    /\ files \in Tree
    /\ baseFiles \in Tree
    /\ ahead \in BOOLEAN
    /\ pulls \in Seq(Pulls)

-----------------------------------------------------------------------------
\* Calls that write.  Each has a guard, which holds when GitHub accepts the
\* call, and an effect.

AcceptsRef == ~branch

CreateRef ==
    /\ branch' = TRUE
    /\ files' = baseFiles
    /\ ahead' = FALSE
    /\ UNCHANGED <<baseFiles, pulls>>

\* seen is the version whose sha the caller supplies, Absent for no sha.
AcceptsContents(path, seen) == branch /\ files[path] = seen

PutContents(path, version) ==
    /\ files' = [files EXCEPT ![path] = version]
    /\ ahead' = TRUE
    /\ UNCHANGED <<branch, baseFiles, pulls>>

AcceptsPull == branch /\ ahead /\ OpenPulls = {}

CreatePull(draft) ==
    /\ pulls' = Append(pulls, [open |-> TRUE, draft |-> draft,
                               labels |-> {}, ours |-> TRUE])
    /\ UNCHANGED <<branch, files, baseFiles, ahead>>

\* Labels accumulate, on closed pull requests as well.
AddLabels(n, label) ==
    /\ pulls' = [pulls EXCEPT ![n].labels = @ \cup {label}]
    /\ UNCHANGED <<branch, files, baseFiles, ahead>>

-----------------------------------------------------------------------------
\* What a reviewer does with an open pull request

ClosePull(n) ==
    /\ pulls' = [pulls EXCEPT ![n].open = FALSE]
    /\ UNCHANGED <<branch, files, baseFiles, ahead>>

\* A draft cannot be merged; the branch of a merged one may be deleted.
MergePull(n) ==
    /\ ~pulls[n].draft
    /\ pulls' = [pulls EXCEPT ![n].open = FALSE]
    /\ baseFiles' = files
    /\ ahead' = FALSE
    /\ branch' \in BOOLEAN
    /\ files' = IF branch' THEN files ELSE NoFiles
=============================================================================
