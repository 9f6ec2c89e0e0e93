------------------------------ MODULE OrgMerge ------------------------------
(***************************************************************************)
(* What one job of the merge queue does to the bare repositories of an     *)
(* organisation: execute_org_merge lists the repositories that carry the   *)
(* branch, scans all of them for conflicts with main and only then squash- *)
(* merges them one after the other, deleting the branch of each.           *)
(*                                                                         *)
(* Nothing keeps developers from pushing to the same repositories, nor     *)
(* POST /repo/squash from rewriting the branch, between any two steps; and *)
(* a redelivered job may run in two consumers at once (MergeQueue).        *)
(*                                                                         *)
(* A tree is the set of edits it contains.  Edits of the same place clash, *)
(* as in git's three-way merge; histories only ever add edits, so the tree *)
(* of a clean merge is the union.  A branch is kept with its merge base.   *)
(***************************************************************************)
EXTENDS Naturals

CONSTANTS
    Repos,      \* repositories named "{org_id}-...", numbered in sorted order
    Edits,      \* changes developers may push
    Place,      \* edit -> the place in the files it changes
    Consumers,  \* threads that may run the job
    Squashes,   \* calls of POST /repo/squash
    Settings,   \* what the organisation is like, and what happens to it
    None        \* no branch, no merge base, no repository

ASSUME OrgAssumption ==
    /\ Repos \subseteq Nat
    /\ Settings \subseteq [repos : SUBSET Repos, orphans : SUBSET Repos, noMain : SUBSET Repos,
                            edits : SUBSET Edits, squashes : SUBSET Squashes,
                            faults : SUBSET {"io"}, maxRuns : Nat]
    /\ \A t \in Settings : t.noMain \subseteq t.orphans
    /\ None \notin Repos \union Consumers

VARIABLES
    setting,    \* the one of Settings this behaviour is about
    main,       \* per repository: its tip, numbered, and the tree of the tip
    branch,     \* per repository: None, or tree, merge base, own commits?
    sent,       \* per edit: the repository it was pushed to
    phase,      \* per consumer: where execute_org_merge is
    left,       \* per consumer: repositories the current loop has not visited
    cand,       \* per consumer: candidate_repos
    blocked,    \* per consumer: any_conflict
    seen,       \* per consumer: what merge read of its repository
    squash,     \* per call of squash: its phase and what it read
    runs,
    merged,     \* history, per consumer: repositories this run has merged
    excused,    \* history, per consumer: repositories something disturbed
    forfeited   \* history: edits pushed into a race, or dropped by their owner

refs    == <<main, branch>>
job     == <<phase, left, cand, blocked, seen, runs>>
history == <<merged, excused, forfeited>>
vars    == <<setting, main, branch, sent, phase, left, cand, blocked, seen, squash, runs,
             merged, excused, forfeited>>

Orphans == setting.orphans  \* repositories where the branch shares no commit with main
NoMain  == setting.noMain   \* those without a branch called main
Faults  == setting.faults   \* {"io"} when opening, reading or writing a repository can fail
MaxRuns == setting.maxRuns  \* bound: times the job is run

Trees    == SUBSET Edits
Branches == [tree : Trees, base : Trees \union {None}, own : BOOLEAN]

ASSUME NoneAssumption == \A v \in Trees \union Branches : v # None

InRepo   == {"commit", "delete"}
Phases   == InRepo \union {"idle", "list", "scan", "merge", "crashed"}
Running  == Phases \ {"idle", "crashed"}

NothingRead == [n |-> 0, ours |-> {}, theirs |-> {}]

Forget(c) == seen' = [seen EXCEPT ![c] = NothingRead]

First(S) == CHOOSE r \in S : \A q \in S : r <= q

\* The repository the current iteration of consumer c is about.
At(c) == First(left[c])

Next1(c) == left' = [left EXCEPT ![c] = @ \ {At(c)}]

\* The edits of one place; merge_trees compares base, ours and theirs there.
Of(t, p) == {e \in t : Place[e] = p}

Clean(b, ours, theirs) ==
    \A e \in Edits :
        LET p == Place[e] IN
        Of(ours, p) = Of(b, p) \/ Of(theirs, p) = Of(b, p) \/ Of(ours, p) = Of(theirs, p)

HasConflicts(r) ==
    branch[r].base # None /\ ~Clean(branch[r].base, main[r].tree, branch[r].tree)

\* check_conflicts: missing refs are errors and block the job; in
\* detect_conflicts every error, a missing merge base too, means "clean".
CheckBlocks(r) == branch[r] = None \/ r \in NoMain \/ HasConflicts(r)

\* merge gets as far as writing the merged tree.
Mergeable(r) ==
    /\ branch[r] # None
    /\ r \notin NoMain
    /\ branch[r].base # None
    /\ ~HasConflicts(r)

\* Somebody other than consumer c moves a ref of r.
Disturb(r, c) ==
    excused' = [d \in Consumers |->
                  IF d # c /\ phase[d] \in Running THEN excused[d] \union {r} ELSE excused[d]]

\* The current repository of consumer c failed, or has no merge base.
Excuse(c, failed) ==
    excused' = [excused EXCEPT ![c] = IF failed THEN @ \union {At(c)} ELSE @]

\* A merge or a squash has read the branch of r and will overwrite or delete it.
Racing(r) ==
    \/ \E c \in Consumers : phase[c] \in InRepo /\ At(c) = r
    \/ \E s \in Squashes : squash[s].phase = "read" /\ squash[s].repo = r

-----------------------------------------------------------------------------
Init ==
    /\ setting \in Settings
    /\ main = [r \in Repos |-> [n |-> 0, tree |-> {}]]
    /\ branch = [r \in Repos |-> None]
    /\ sent = [e \in Edits |-> None]
    /\ phase = [c \in Consumers |-> "idle"]
    /\ left = [c \in Consumers |-> {}]
    /\ cand = [c \in Consumers |-> {}]
    /\ blocked = [c \in Consumers |-> FALSE]
    /\ seen = [c \in Consumers |-> NothingRead]
    /\ squash = [s \in Squashes |-> [phase |-> "new", repo |-> None, tree |-> {}, base |-> {}]]
    /\ runs = 0
    /\ merged = [c \in Consumers |-> {}]
    /\ excused = [c \in Consumers |-> {}]
    /\ forfeited = {}

-----------------------------------------------------------------------------
(* Developers, through the git server: each push moves one ref atomically. *)

PushMain(r, e) ==
    /\ r \notin NoMain
    /\ sent[e] = None
    /\ sent' = [sent EXCEPT ![e] = r]
    /\ main' = [main EXCEPT ![r] = [n |-> @.n + 1, tree |-> @.tree \union {e}]]
    /\ Disturb(r, None)
    /\ UNCHANGED <<branch, job, squash, merged, forfeited>>

CreateBranch(r) ==
    /\ branch[r] = None
    /\ branch' = [branch EXCEPT ![r] =
                    IF r \in Orphans THEN [tree |-> {}, base |-> None, own |-> TRUE]
                    ELSE [tree |-> main[r].tree, base |-> main[r].tree, own |-> FALSE]]
    /\ Disturb(r, None)
    /\ UNCHANGED <<main, sent, job, squash, merged, forfeited>>

PushBranch(r, e) ==
    /\ branch[r] # None
    /\ sent[e] = None
    /\ sent' = [sent EXCEPT ![e] = r]
    /\ branch' = [branch EXCEPT ![r].tree = @ \union {e}, ![r].own = TRUE]
    /\ forfeited' = IF Racing(r) THEN forfeited \union {e} ELSE forfeited
    /\ Disturb(r, None)
    /\ UNCHANGED <<main, job, squash, merged>>

\* The developer merges main into the branch, resolving conflicts by hand.
UpdateBranch(r) ==
    /\ branch[r] # None
    /\ r \notin Orphans
    /\ branch[r].base # main[r].tree
    /\ branch' = [branch EXCEPT ![r] =
                    [tree |-> @.tree \union main[r].tree, base |-> main[r].tree, own |-> TRUE]]
    /\ Disturb(r, None)
    /\ UNCHANGED <<main, sent, job, squash, merged, forfeited>>

DropBranch(r) ==
    /\ branch[r] # None
    /\ branch' = [branch EXCEPT ![r] = None]
    /\ forfeited' = forfeited \union (branch[r].tree \ main[r].tree)
    /\ Disturb(r, None)
    /\ UNCHANGED <<main, sent, job, squash, merged>>

-----------------------------------------------------------------------------
(* execute_org_merge *)

Start(c) ==
    /\ phase[c] \in {"idle", "crashed"}
    /\ runs < MaxRuns
    /\ runs' = runs + 1
    /\ phase' = [phase EXCEPT ![c] = "list"]
    /\ left' = [left EXCEPT ![c] = setting.repos]
    /\ cand' = [cand EXCEPT ![c] = {}]
    /\ blocked' = [blocked EXCEPT ![c] = FALSE]
    /\ merged' = [merged EXCEPT ![c] = {}]
    /\ excused' = [excused EXCEPT ![c] = {}]
    /\ UNCHANGED <<refs, sent, seen, squash, forfeited>>

\* A repository that cannot be opened counts as one without the branch.
ListRepo(c) ==
    /\ phase[c] = "list"
    /\ left[c] # {}
    /\ \/ cand' = [cand EXCEPT ![c] = IF branch[At(c)] = None THEN @ ELSE @ \union {At(c)}]
       \/ "io" \in Faults /\ UNCHANGED cand
    /\ Next1(c)
    /\ UNCHANGED <<refs, sent, phase, blocked, seen, squash, runs, history>>

Listed(c) ==
    /\ phase[c] = "list"
    /\ left[c] = {}
    /\ phase' = [phase EXCEPT ![c] = IF cand[c] = {} THEN "idle" ELSE "scan"]
    /\ left' = [left EXCEPT ![c] = cand[c]]
    /\ UNCHANGED <<refs, sent, cand, blocked, seen, squash, runs, history>>

\* Mutant of ScanRepo: any_conflict keeps only the last answer.
ScanOverwrites(c) ==
    LET r == At(c) IN
    /\ phase[c] = "scan"
    /\ left[c] # {}
    /\ \/ /\ blocked' = [blocked EXCEPT ![c] = CheckBlocks(r)]
          /\ Excuse(c, r \in Orphans)
       \/ "io" \in Faults /\ blocked' = [blocked EXCEPT ![c] = TRUE] /\ Excuse(c, FALSE)
       \/ "io" \in Faults /\ blocked' = [blocked EXCEPT ![c] = FALSE] /\ Excuse(c, TRUE)
    /\ Next1(c)
    /\ UNCHANGED <<refs, sent, phase, cand, seen, squash, runs, merged, forfeited>>

\* The flag is only ever raised.  A failure to open the repository or to find
\* the refs blocks the job; one inside detect_conflicts hides the conflict.
ScanRepo(c) ==
    LET r == At(c) IN
    /\ phase[c] = "scan"
    /\ left[c] # {}
    /\ \/ /\ blocked' = [blocked EXCEPT ![c] = @ \/ CheckBlocks(r)]
          /\ Excuse(c, r \in Orphans)
       \/ "io" \in Faults /\ blocked' = [blocked EXCEPT ![c] = TRUE] /\ Excuse(c, FALSE)
       \/ "io" \in Faults /\ UNCHANGED blocked /\ Excuse(c, TRUE)
    /\ Next1(c)
    /\ UNCHANGED <<refs, sent, phase, cand, seen, squash, runs, merged, forfeited>>

Scanned(c) ==
    /\ phase[c] = "scan"
    /\ left[c] = {}
    /\ phase' = [phase EXCEPT ![c] = IF blocked[c] THEN "idle" ELSE "merge"]
    /\ left' = [left EXCEPT ![c] = IF blocked[c] THEN {} ELSE cand[c]]
    /\ UNCHANGED <<refs, sent, cand, blocked, seen, squash, runs, history>>

ReadRefs(c) ==
    LET r == At(c) IN
    /\ phase[c] = "merge"
    /\ left[c] # {}
    /\ Mergeable(r)
    /\ phase' = [phase EXCEPT ![c] = "commit"]
    /\ seen' = [seen EXCEPT ![c] =
                  [n |-> main[r].n, ours |-> main[r].tree, theirs |-> branch[r].tree]]
    /\ UNCHANGED <<refs, sent, left, cand, blocked, squash, runs, history>>

\* merge fails before its commit: logged, and on to the next repository.
SkipRepo(c) ==
    /\ phase[c] = "merge"
    /\ left[c] # {}
    /\ "io" \in Faults \/ ~Mergeable(At(c))
    /\ Excuse(c, Mergeable(At(c)))
    /\ Next1(c)
    /\ UNCHANGED <<refs, sent, phase, cand, blocked, seen, squash, runs, merged, forfeited>>

\* Mutant of CommitMain: the ref is set without looking at its old value.
CommitForced(c) ==
    LET r == At(c) IN
    /\ phase[c] = "commit"
    /\ main' = [main EXCEPT ![r] =
                  [n |-> @.n + 1, tree |-> seen[c].ours \union seen[c].theirs]]
    /\ phase' = [phase EXCEPT ![c] = "delete"]
    /\ merged' = [merged EXCEPT ![c] = @ \union {r}]
    /\ Disturb(r, c)
    /\ UNCHANGED <<branch, sent, left, cand, blocked, seen, squash, runs, forfeited>>

\* repo.commit moves refs/heads/main only from the parent it was given.
CommitMain(c) ==
    LET r == At(c) IN
    /\ phase[c] = "commit"
    /\ main[r].n = seen[c].n
    /\ main' = [main EXCEPT ![r] =
                  [n |-> @.n + 1, tree |-> seen[c].ours \union seen[c].theirs]]
    /\ phase' = [phase EXCEPT ![c] = "delete"]
    /\ merged' = [merged EXCEPT ![c] = @ \union {r}]
    /\ Disturb(r, c)
    /\ UNCHANGED <<branch, sent, left, cand, blocked, seen, squash, runs, forfeited>>

\* Mutant of CommitFails: the branch is deleted all the same.
FailsThenDeletes(c) ==
    /\ phase[c] = "commit"
    /\ "io" \in Faults \/ main[At(c)].n # seen[c].n
    /\ phase' = [phase EXCEPT ![c] = "delete"]
    /\ Excuse(c, main[At(c)].n = seen[c].n)
    /\ UNCHANGED <<refs, sent, left, cand, blocked, seen, squash, runs, merged, forfeited>>

CommitFails(c) ==
    /\ phase[c] = "commit"
    /\ "io" \in Faults \/ main[At(c)].n # seen[c].n
    /\ phase' = [phase EXCEPT ![c] = "merge"]
    /\ Excuse(c, main[At(c)].n = seen[c].n)
    /\ Next1(c)
    /\ Forget(c)
    /\ UNCHANGED <<refs, sent, cand, blocked, squash, runs, merged, forfeited>>

\* The branch is looked up again and deleted whatever it points to by now; an
\* error is only a warning.
DeleteBranch(c) ==
    LET r == At(c) IN
    /\ phase[c] = "delete"
    /\ \/ branch' = [branch EXCEPT ![r] = None] /\ Disturb(r, c)
       \/ "io" \in Faults /\ UNCHANGED <<branch, excused>>
    /\ phase' = [phase EXCEPT ![c] = "merge"]
    /\ Next1(c)
    /\ Forget(c)
    /\ UNCHANGED <<main, sent, cand, blocked, squash, runs, merged, forfeited>>

Finish(c) ==
    /\ phase[c] = "merge"
    /\ left[c] = {}
    /\ phase' = [phase EXCEPT ![c] = "idle"]
    /\ UNCHANGED <<refs, sent, left, cand, blocked, seen, squash, runs, history>>

\* The process dies; the delivery was not acknowledged and the job runs again.
Crash(c) ==
    /\ phase[c] \in Running
    /\ runs < MaxRuns
    /\ phase' = [phase EXCEPT ![c] = "crashed"]
    /\ left' = [left EXCEPT ![c] = {}]
    /\ Forget(c)
    /\ UNCHANGED <<refs, sent, cand, blocked, squash, runs, history>>

-----------------------------------------------------------------------------
(* squash_branch *)

SquashReads(s, r) ==
    /\ squash[s].phase = "new"
    /\ Mergeable(r) \/ (branch[r] # None /\ r \notin NoMain /\ HasConflicts(r))
    /\ branch[r].own
    /\ squash' = [squash EXCEPT ![s] =
                    [phase |-> "read", repo |-> r, tree |-> branch[r].tree, base |-> branch[r].base]]
    /\ UNCHANGED <<refs, sent, job, history>>

\* No branch, no main, no merge base or no commit of its own: an error reply.
SquashRefused(s, r) ==
    /\ squash[s].phase = "new"
    /\ \/ branch[r] = None
       \/ r \in NoMain
       \/ branch[r] # None /\ (branch[r].base = None \/ ~branch[r].own)
    /\ squash' = [squash EXCEPT ![s].phase = "failed"]
    /\ UNCHANGED <<refs, sent, job, history>>

\* The ref is forced, even when the branch has moved or is gone.
SquashWrites(s) ==
    LET r == squash[s].repo IN
    /\ squash[s].phase = "read"
    /\ branch' = [branch EXCEPT ![r] =
                    [tree |-> squash[s].tree, base |-> squash[s].base, own |-> TRUE]]
    /\ squash' = [squash EXCEPT ![s].phase = "done"]
    /\ Disturb(r, None)
    /\ UNCHANGED <<main, sent, job, merged, forfeited>>

-----------------------------------------------------------------------------
Developer(r) ==
    \/ \E e \in setting.edits : PushMain(r, e) \/ PushBranch(r, e)
    \/ CreateBranch(r) \/ UpdateBranch(r) \/ DropBranch(r)

Consumer(c) ==
    \/ ListRepo(c) \/ Listed(c) \/ ScanRepo(c) \/ Scanned(c)
    \/ ReadRefs(c) \/ SkipRepo(c) \/ CommitMain(c) \/ CommitFails(c)
    \/ DeleteBranch(c) \/ Finish(c)

Squash(s) ==
    \/ \E r \in setting.repos : SquashReads(s, r) \/ SquashRefused(s, r)
    \/ SquashWrites(s)

Next ==
    /\ UNCHANGED setting
    /\ \/ \E r \in setting.repos : Developer(r)
       \/ \E c \in Consumers : Start(c) \/ Consumer(c) \/ Crash(c)
       \/ \E s \in setting.squashes : Squash(s)

Spec == Init /\ [][Next]_vars
-----------------------------------------------------------------------------
(* Properties *)

\* Every variable keeps its type, and a consumer inside the merge of a
\* repository has one (execute_org_merge, merge).
TypeOK ==
    /\ setting \in Settings
    /\ main \in [Repos -> [n : Nat, tree : Trees]]
    /\ branch \in [Repos -> Branches \union {None}]
    /\ sent \in [Edits -> Repos \union {None}]
    /\ phase \in [Consumers -> Phases]
    /\ left \in [Consumers -> SUBSET Repos]
    /\ \A c \in Consumers : phase[c] \in InRepo => left[c] # {}
    /\ cand \in [Consumers -> SUBSET Repos]
    /\ blocked \in [Consumers -> BOOLEAN]
    /\ seen \in [Consumers -> [n : Nat, ours : Trees, theirs : Trees]]
    /\ squash \in [Squashes -> [phase : {"new", "read", "done", "failed"},
                                repo : Repos \union {None},
                                tree : Trees, base : Trees]]
    /\ runs \in 0 .. MaxRuns
    /\ merged \in [Consumers -> SUBSET Repos]
    /\ excused \in [Consumers -> SUBSET Repos]
    /\ forfeited \in Trees

\* A run that ends is all-or-none, but for repositories where a ref was moved
\* by somebody else during the run, where main and the branch have no merge
\* base, or where reading the repository failed: the scan of pass 1 misses no
\* other conflict and pass 2 gives up no other repository, in spite of crashes
\* and of runs of the same job in other consumers (execute_org_merge).
PartialOnlyIfDisturbed ==
    \A c \in Consumers :
        phase[c] = "idle" /\ merged[c] # {} => cand[c] \ merged[c] \subseteq excused[c]

\* No step takes an edit off main: a commit computed from an older main never
\* replaces what was pushed, or merged by another consumer, in the meantime
\* (the parent check of repo.commit in merge).
MainKeepsWork == [][\A r \in Repos : main[r].tree \subseteq main'[r].tree]_vars

\* An edit pushed to a branch reaches main or stays on the branch, through
\* failed merges, crashes, repeated runs and squashes, unless its owner dropped
\* it or it was pushed between the read and the write of a merge or a squash
\* (merge deletes the branch only after its commit; squash_branch).
LostOnlyIfRaced ==
    \A e \in Edits :
        LET r == sent[e] IN
        r # None =>
            \/ e \in main[r].tree \union forfeited
            \/ branch[r] # None /\ e \in branch[r].tree

-----------------------------------------------------------------------------
(* What a comment says of the code, refuted by the code *)

\* merge_consumer.rs:9-12: "PASS 1 - conflict scan (all-or-none gate)": the job
\* merges every candidate or none.
AllOrNone ==
    \A c \in Consumers : phase[c] = "idle" => merged[c] \in {{}, cand[c]}
=============================================================================
