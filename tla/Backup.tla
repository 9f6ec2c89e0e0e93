------------------------------- MODULE Backup -------------------------------
(***************************************************************************)
(* The hourly backup of one repository to GitHub.                          *)
(*                                                                         *)
(* Every replica fetches the repository into a work directory of its own,  *)
(* copies it, rewrites the authors in the copy and forces its branch to    *)
(* GitHub.  The scheduler starts a backup every hour, whether or not the   *)
(* previous one has ended: backups of one replica share the directories,   *)
(* those of all replicas share GitHub.                                     *)
(*                                                                         *)
(* The content of the branch is a number that grows with every push to     *)
(* gitolite; 0 is no branch.  The directories are named after the          *)
(* repository with every slash replaced by an underscore, so that another  *)
(* repository, its twin, may have the same ones (a/b_c and a_b/c): whoever *)
(* clones first decides what both back up.  Other repositories continue    *)
(* when one fails and have other directories.                              *)
(***************************************************************************)
EXTENDS Naturals

CONSTANTS
    Replicas,
    Backups,      \* the backups that may be at work at the same time
    On,           \* backup -> the replica it runs on
    MaxPushes,    \* bound on pushes to gitolite
    Settings      \* who is there, whether the repository has a twin, and bounds: on commands
                  \* and calls that fail, on backups that start beside another one of the
                  \* replica, on restarts

ASSUME BackupAssumption ==
    /\ On \in [Backups -> Replicas]
    /\ MaxPushes \in Nat
    /\ Settings \subseteq [backups : SUBSET Backups, twin : BOOLEAN,
                            failures : Nat, overlaps : Nat, restarts : Nat]

VARIABLES
    setting,
    origin,    \* the branch in gitolite
    source,    \* per replica: the clone of gitolite
    rewrite,   \* per replica: the rewritten copy
    github,    \* the branch on GitHub
    pc,        \* per backup: its next command
    failures, overlaps, restarts,
    began,     \* history, per backup: the branch in gitolite when it began
    swapped    \* history: backups whose copy was replaced after they rewrote it

copies   == <<source, rewrite>>
counters == <<failures, overlaps, restarts>>
history  == <<began, swapped>>
vars     == <<setting, origin, source, rewrite, github, pc, failures, overlaps, restarts, began,
              swapped>>

Contents == 0 .. MaxPushes
Foreign  == MaxPushes + 1   \* the branch of the twin, no matter which state of it
Branches == Contents \union {Foreign}
Steps    == {"idle", "look", "clone", "fetch", "clear", "remove", "copy", "filter", "find",
             "create", "push", "cloning"}

\* A clone: nothing, an empty directory, an unfinished clone (.git is there, the remote
\* branches are not), a repository, or one with the lock file of a fetch that was killed.
NoClone   == [state |-> "none", branch |-> 0]
EmptyDir  == [state |-> "empty", branch |-> 0]
Partial   == [state |-> "partial", branch |-> 0]
Clone(v)  == [state |-> "whole", branch |-> v]
Locked(v) == [state |-> "locked", branch |-> v]

\* A copy: of which state of the branch, and whether its authors are rewritten.
NoCopy     == [there |-> FALSE, branch |-> 0, filtered |-> FALSE]
CopyOf(v)  == [there |-> TRUE, branch |-> v, filtered |-> FALSE]

Clones   == {NoClone, EmptyDir, Partial} \union UNION {{Clone(v), Locked(v)} : v \in Branches}
Rewrites == {NoCopy} \union [there : {TRUE}, branch : Branches, filtered : BOOLEAN]

Init ==
    /\ setting \in Settings
    /\ origin \in {0, 1} \intersect Contents
    /\ source = [r \in Replicas |-> NoClone]
    /\ rewrite = [r \in Replicas |-> NoCopy]
    /\ github = [there |-> FALSE, branch |-> 0, filtered |-> FALSE, since |-> 0, swapped |-> FALSE]
    /\ pc = [b \in Backups |-> "idle"]
    /\ failures = 0 /\ overlaps = 0 /\ restarts = 0
    /\ began = [b \in Backups |-> 0]
    /\ swapped = {}

Goto(b, from, to) ==
    /\ pc[b] = from
    /\ pc' = [pc EXCEPT ![b] = to]

Beside(b) == {c \in Backups \ {b} : On[c] = On[b] /\ pc[c] # "idle"}

\* A developer pushes.
PushOrigin ==
    /\ origin < MaxPushes
    /\ origin' = origin + 1
    /\ UNCHANGED <<setting, copies, github, pc, counters, history>>

\* The cron tick; when gitolite cannot be asked for its repositories nothing happens.
Start(b) ==
    /\ b \in setting.backups
    /\ Goto(b, "idle", "look")
    /\ Beside(b) # {} => overlaps < setting.overlaps
    /\ overlaps' = IF Beside(b) = {} THEN overlaps ELSE overlaps + 1
    /\ began' = [began EXCEPT ![b] = origin]
    /\ swapped' = swapped \ {b}
    /\ UNCHANGED <<setting, origin, copies, github, failures, restarts>>

-----------------------------------------------------------------------------
(* mirror_repo_to_github, 1: the clone *)

\* Mutant of LookForClone: the directory is taken for a clone.
LookForDirectory(b) ==
    /\ Goto(b, "look", IF source[On[b]].state = "none" THEN "clone" ELSE "fetch")
    /\ UNCHANGED <<setting, origin, copies, github, counters, history>>

LookForClone(b) ==
    /\ Goto(b, "look", IF source[On[b]].state \in {"none", "empty"} THEN "clone" ELSE "fetch")
    /\ UNCHANGED <<setting, origin, copies, github, counters, history>>

\* create_dir_all, and git clone, which refuses a directory that is not empty.
BeginClone(b) ==
    LET free == source[On[b]].state \in {"none", "empty"} IN
    /\ Goto(b, "clone", IF free THEN "cloning" ELSE "idle")
    /\ source' = [source EXCEPT ![On[b]] = IF free THEN Partial ELSE @]
    /\ UNCHANGED <<setting, origin, rewrite, github, counters, history>>

EndClone(b) ==
    /\ Goto(b, "cloning", "clear")
    /\ source' = [source EXCEPT ![On[b]] = Clone(origin)]
    /\ UNCHANGED <<setting, origin, rewrite, github, counters, history>>

\* git removes what it has created of a clone that fails.
CloneFails(b) ==
    /\ failures < setting.failures
    /\ Goto(b, "cloning", "idle")
    /\ source' = [source EXCEPT ![On[b]] = EmptyDir]
    /\ failures' = failures + 1
    /\ UNCHANGED <<setting, origin, rewrite, github, overlaps, restarts, history>>

\* What a clone has after a fetch from the repository it is a clone of.
AfterFetch(s) == Clone(IF s.branch = Foreign THEN Foreign ELSE origin)

\* fetch --prune.  What it does to an unfinished clone depends on how far that came:
\* it fails, it finds no refspec and fetches no branch, or it completes the clone.  It fails
\* where there is no clone, and where a ref is locked.
Fetch(b) ==
    /\ pc[b] = "fetch"
    /\ \/ /\ source[On[b]].state = "whole"
          /\ pc' = [pc EXCEPT ![b] = "clear"]
          /\ source' = [source EXCEPT ![On[b]] = AfterFetch(@)]
       \/ /\ source[On[b]].state = "partial"
          /\ \/ pc' = [pc EXCEPT ![b] = "idle"] /\ UNCHANGED source
             \/ pc' = [pc EXCEPT ![b] = "clear"] /\ UNCHANGED source
             \/ /\ \A c \in Beside(b) : pc[c] # "cloning"
                /\ pc' = [pc EXCEPT ![b] = "clear"]
                /\ source' = [source EXCEPT ![On[b]] = Clone(origin)]
       \/ /\ source[On[b]].state \in {"none", "empty", "locked"}
          /\ pc' = [pc EXCEPT ![b] = "idle"]
          /\ UNCHANGED source
    /\ UNCHANGED <<setting, origin, rewrite, github, counters, history>>

-----------------------------------------------------------------------------
(* 2: the copy and its rewriting *)

\* Mutant of LookForCopy: an earlier copy is kept.
KeepCopy(b) ==
    /\ Goto(b, "clear", "copy")
    /\ UNCHANGED <<setting, origin, copies, github, counters, history>>

LookForCopy(b) ==
    /\ Goto(b, "clear", IF rewrite[On[b]].there THEN "remove" ELSE "copy")
    /\ UNCHANGED <<setting, origin, copies, github, counters, history>>

\* remove_dir_all fails when another backup has removed the copy already.
RemoveCopy(b) ==
    /\ Goto(b, "remove", IF rewrite[On[b]].there THEN "copy" ELSE "idle")
    /\ rewrite' = [rewrite EXCEPT ![On[b]] = NoCopy]
    /\ UNCHANGED <<setting, origin, source, github, counters, history>>

\* cp -r puts the clone inside a directory that is there again, and leaves the rest of it.
MakeCopy(b) ==
    /\ Goto(b, "copy", IF source[On[b]].state = "none" THEN "idle" ELSE "filter")
    /\ IF rewrite[On[b]].there \/ source[On[b]].state = "none"
         THEN UNCHANGED <<rewrite, swapped>>
         ELSE /\ rewrite' = [rewrite EXCEPT ![On[b]] = CopyOf(source[On[b]].branch)]
              /\ swapped' = swapped \union {c \in Beside(b) : pc[c] \in {"find", "create", "push"}}
    /\ UNCHANGED <<setting, origin, source, github, counters, began>>

\* Mutant of Filter: the exit status of git filter-repo is not looked at.
FilterUnchecked(b) ==
    /\ Goto(b, "filter", "find")
    /\ \/ rewrite' = [rewrite EXCEPT ![On[b]].filtered = @ \/ rewrite[On[b]].there]
       \/ UNCHANGED rewrite
    /\ UNCHANGED <<setting, origin, source, github, counters, history>>

\* git filter-repo --partial rewrites the remote branches in place.
Filter(b) ==
    /\ Goto(b, "filter", IF rewrite[On[b]].there THEN "find" ELSE "idle")
    /\ rewrite' = [rewrite EXCEPT ![On[b]].filtered = rewrite[On[b]].there]
    /\ UNCHANGED <<setting, origin, source, github, counters, history>>

-----------------------------------------------------------------------------
(* 3: GitHub *)

\* ensure_github_repo: GET, and POST unless it says 200.
FindRepo(b) ==
    /\ Goto(b, "find", IF github.there THEN "push" ELSE "create")
    /\ UNCHANGED <<setting, origin, copies, github, counters, history>>

\* GitHub refuses to create a repository twice.
CreateRepo(b) ==
    /\ Goto(b, "create", IF github.there THEN "idle" ELSE "push")
    /\ github' = [github EXCEPT !.there = TRUE]
    /\ UNCHANGED <<setting, origin, copies, counters, history>>

\* rev-parse and push --force; no branch in the copy, or no copy, and nothing is pushed.
PushGithub(b) ==
    LET copy == rewrite[On[b]] IN
    /\ Goto(b, "push", "idle")
    /\ github' = IF copy.branch = 0 THEN github
                 ELSE [there |-> TRUE, branch |-> copy.branch, filtered |-> copy.filtered,
                       since |-> began[b], swapped |-> b \in swapped]
    /\ UNCHANGED <<setting, origin, copies, counters, history>>

\* Any other command or call may fail, and the backup of this repository ends.
Fails(b) ==
    /\ failures < setting.failures
    /\ pc[b] \in {"fetch", "remove", "copy", "filter", "find", "create", "push"}
    /\ pc' = [pc EXCEPT ![b] = "idle"]
    /\ failures' = failures + 1
    /\ UNCHANGED <<setting, origin, copies, github, overlaps, restarts, history>>

\* The replica dies with its backups; its work directory survives unless the container
\* is replaced.  A fetch that is killed may leave the lock of a ref.
Restart(r) ==
    /\ restarts < setting.restarts
    /\ restarts' = restarts + 1
    /\ pc' = [b \in Backups |-> IF On[b] = r THEN "idle" ELSE pc[b]]
    /\ \/ UNCHANGED copies
       \/ /\ source[r].state = "whole"
          /\ \E b \in Backups : On[b] = r /\ pc[b] = "fetch"
          /\ source' = [source EXCEPT ![r] = Locked(@.branch)]
          /\ UNCHANGED rewrite
       \/ /\ source' = [source EXCEPT ![r] = NoClone]
          /\ rewrite' = [rewrite EXCEPT ![r] = NoCopy]
    /\ UNCHANGED <<setting, origin, github, failures, overlaps, history>>

-----------------------------------------------------------------------------
(* The twin, which a backup mirrors before or after the repository *)

\* Its mirroring is beside one of the repository only if two backups of the replica overlap.
TwinMayRun(r) ==
    LET busy == \E b \in Backups : On[b] = r /\ pc[b] # "idle" IN
    /\ setting.twin
    /\ \E b \in setting.backups : On[b] = r
    /\ busy => overlaps < setting.overlaps
    /\ overlaps' = IF busy THEN overlaps + 1 ELSE overlaps

\* It clones into the directory, or fetches whatever that is a clone of.
TwinFetches(r) ==
    /\ TwinMayRun(r)
    /\ \/ /\ source[r].state \in {"none", "empty"}
          /\ source' = [source EXCEPT ![r] = Clone(Foreign)]
       \/ /\ source[r].state = "whole"
          /\ source' = [source EXCEPT ![r] = AfterFetch(@)]
    /\ UNCHANGED <<setting, origin, rewrite, github, pc, failures, restarts, history>>

\* It removes the copy, makes one and rewrites its authors, which may fail in between.
TwinCopies(r) ==
    /\ TwinMayRun(r)
    /\ source[r].state = "whole"
    /\ \E copy \in {NoCopy} \union
                    [there : {TRUE}, branch : {source[r].branch}, filtered : BOOLEAN] :
          rewrite' = [rewrite EXCEPT ![r] = copy]
    /\ swapped' = swapped \union
                    {c \in Backups : On[c] = r /\ pc[c] \in {"find", "create", "push"}}
    /\ UNCHANGED <<setting, origin, source, github, pc, failures, restarts, began>>

-----------------------------------------------------------------------------
Mirror(b) ==
    \/ LookForClone(b) \/ BeginClone(b) \/ EndClone(b) \/ Fetch(b)
    \/ LookForCopy(b) \/ RemoveCopy(b) \/ MakeCopy(b) \/ Filter(b)
    \/ FindRepo(b) \/ CreateRepo(b) \/ PushGithub(b)

Next ==
    \/ PushOrigin
    \/ \E b \in Backups : Start(b) \/ Mirror(b) \/ CloneFails(b) \/ Fails(b)
    \/ \E r \in Replicas : Restart(r) \/ TwinFetches(r) \/ TwinCopies(r)

Spec == Init /\ [][Next]_vars

\* The scheduler ticks for ever, and a backup that has begun goes on; nothing makes a
\* developer push.
FairSpec ==
    /\ Spec
    /\ \A b \in Backups : WF_vars(Start(b)) /\ WF_vars(Mirror(b))
-----------------------------------------------------------------------------
(* Properties *)

\* Every variable keeps its type; one backup of a replica at most is cloning, and it is
\* the one whose unfinished clone is there.
TypeOK ==
    /\ setting \in Settings
    /\ origin \in Contents
    /\ source \in [Replicas -> Clones]
    /\ rewrite \in [Replicas -> Rewrites]
    /\ github \in [there : BOOLEAN, branch : Branches, filtered : BOOLEAN,
                   since : Contents, swapped : BOOLEAN]
    /\ pc \in [Backups -> Steps]
    /\ \A b \in Backups : pc[b] = "cloning" =>
          source[On[b]] = Partial /\ \A c \in Beside(b) : pc[c] # "cloning"
    /\ failures \in 0 .. setting.failures
    /\ overlaps \in 0 .. setting.overlaps
    /\ restarts \in 0 .. setting.restarts
    /\ began \in [Backups -> Contents]
    /\ swapped \subseteq Backups

\* The authors of what is on GitHub are rewritten, unless another backup on the same
\* replica put a new copy in place after the one that pushed had rewritten it (the shared
\* rewrite_dir of mirror_repo_to_github; a failed rewrite never gets as far as the push).
AuthorsRewritten == github.branch # 0 => github.filtered \/ github.swapped

\* What a backup pushes is no older than the branch was when it began, whatever copies
\* earlier and concurrent backups left behind: GitHub goes back only to what a slower
\* backup, of another replica, found when it began (rewrite_dir is rebuilt each time).
\* The twin's branch, if that is what the directory holds, has no age.
NoOlderThanBegin == github.branch >= github.since

\* When pushes and faults have come to an end GitHub has the branch for good, unless every
\* replica died while it cloned or fetched and left a clone that later backups can neither
\* complete nor fetch into (.git is taken for a clone, whatever is in it), or on some
\* replica the directory is a clone of the twin, which then overwrites the branch on GitHub
\* (safe_name of mirror_repo_to_github).  What the twin has put there stays, even when the
\* directory is the repository's again, if the repository has no branch to push.
Mirrored ==
    <>[]( \/ github.branch = origin
          \/ \A b \in setting.backups : source[On[b]].state \in {"partial", "locked"}
          \/ \E b \in setting.backups : source[On[b]].branch = Foreign
          \/ github.branch = Foreign /\ origin = 0 )
=============================================================================
