----------------------------- MODULE PushWorker -----------------------------
(***************************************************************************)
(* The debounced push of the gitolite-admin working tree.                  *)
(*                                                                         *)
(* Handlers write into the working tree of their own replica and raise two *)
(* keys of a Redis shared by all replicas: the dirty flag and the debounce *)
(* timer.  A worker per replica polls the keys and, when the flag is up    *)
(* and the timer has run out, takes a Redis lock, commits and pushes its   *)
(* tree, rewrites the shared SSH principals file and lowers the flag.      *)
(*                                                                         *)
(* A tree is abstracted to the writes its files reflect.  The members of a *)
(* workspace share a list, a file that every write of a member reads,      *)
(* truncates and fills again, so that writes go missing from a tree while  *)
(* a list is rewritten, and for good when two requests rewrite one.  A     *)
(* commit has the files of a tree and a past: all writes that it or one of *)
(* its ancestors reflects.                                                 *)
(***************************************************************************)
EXTENDS Naturals, FiniteSets

CONSTANTS
    Replicas,    \* sidecar processes; each has a working tree of its own
    Writes,      \* the write requests clients may make
    Guarded,     \* those whose handler holds the admin_repo mutex over the write
    Fresh,       \* those that only create a file git does not track yet
    Lists,       \* member lists, each as the set of the writes to it
    Faults,      \* which of AllFaults can happen in this instance
    MaxRestarts, \* bound: restarts of sidecar processes
    None         \* no owner, no replica

AllFaults == {"redis",  \* a Redis call fails, or its reply is lost
              "reply",  \* the reply to the SET of the push lock is lost
              "push",   \* git push fails, or its reply is lost
              "write",  \* a file cannot be filled after it was truncated
              "sync",   \* the principals cannot be read or written
              "ttl"}    \* the cycle of a worker outlives LOCK_TTL_MS

\* The other writes to the list that a write changes, and itself.
Mates(w) == UNION {l \in Lists : w \in l}
Members  == UNION Lists

ASSUME PushAssumption ==
    /\ Guarded \subseteq Writes
    /\ Fresh \subseteq Writes
    /\ Lists \subseteq SUBSET (Writes \ Guarded)
    /\ \A w \in Fresh : Mates(w) \subseteq {w}
    /\ Faults \subseteq AllFaults
    /\ MaxRestarts \in Nat
    /\ None \notin Replicas

VARIABLES
    dirty, pending, lock,   \* the three Redis keys; the lock's uuid is its owner
    tree, staged,           \* per replica: contents of the working tree and index
    head,                   \* per replica: the commit local master points to
    remote,                 \* the commit of gitolite-admin's master on the server
    principals,             \* members in the shared principals file
    unread, gathered,       \* per replica: lists sync_principals has not read, members it found
    pc,                     \* per replica: where its push worker is
    req, home,              \* per write: phase of its request, replica serving it
    seen,                   \* per write: what its handler found in the list
    restarts,
    overran,                \* history: the lock has expired inside a cycle
    exposed                 \* history: writes some hazard of the code has touched

redis    == <<dirty, pending, lock>>
repo     == <<tree, staged, head>>
sync     == <<principals, unread, gathered>>
requests == <<req, home, seen>>
vars     == <<redis, repo, remote, sync, pc, requests, restarts, overran, exposed>>

Commits == [files : SUBSET Writes, past : SUBSET Writes]

Mutexed == {"add", "status", "commit", "push", "failed"}
Section == Mutexed \union {"mutex", "sync", "fill", "clear", "release"}
PCs     == Section \union {"idle", "window", "acquire"}
Phases  == {"new", "started", "read", "truncated", "torn", "written", "marked", "acked", "cut"}

\* The requests whose write is, or was before a loss, in a working tree.
Landed == {w \in Writes : req[w] \in {"written", "marked", "acked", "cut"}}

Pushed == remote.past

\* A push is accepted by the server only as a fast-forward.
FastForward(r) == Pushed \subseteq head[r].past

Goto(r, from, to) ==
    /\ pc[r] = from
    /\ pc' = [pc EXCEPT ![r] = to]

Advance(w, from, to) ==
    /\ req[w] = from
    /\ req' = [req EXCEPT ![w] = to]

-----------------------------------------------------------------------------
(* The hazards, as history.  A write is exposed when                       *)
(*  - it lands while its own worker is between `git add` and clear_dirty,  *)
(*    or while the worker of another replica is in a cycle;                *)
(*  - a worker of another replica begins a cycle before it is pushed;      *)
(*  - its own worker adds the tree while its list is being rewritten;      *)
(*  - its list is rewritten by a handler that had not read it, or cannot   *)
(*    be filled again;                                                     *)
(*  - the push of the commit that holds it is rejected or fails;           *)
(*  - mark_dirty fails after it, or is not reached as its client is gone;  *)
(*  - its replica restarts before its push.                                *)

AfterAdd    == {"status", "commit", "push", "sync", "fill", "clear"}
BeforeClear == AfterAdd \union {"mutex", "add"}

Overtaken(r) ==
    \/ pc[r] \in AfterAdd
    \/ \E s \in Replicas \ {r} : pc[s] \in BeforeClear

Foreign(r) == {w \in Landed \ Pushed : home[w] # r}
Local(r)   == {w \in Landed \ Pushed : home[w] = r}

\* What a handler removes from the list it rewrites although nobody asked for it.
Dropped(w) == {v \in Mates(w) \ seen[w] : v \in tree[home[w]]}

-----------------------------------------------------------------------------
Empty == [files |-> {}, past |-> {}]

Init ==
    /\ dirty = FALSE
    /\ pending = FALSE
    /\ lock = None
    /\ tree = [r \in Replicas |-> {}]
    /\ staged = [r \in Replicas |-> {}]
    /\ head = [r \in Replicas |-> Empty]
    /\ remote = Empty
    /\ principals = {}
    /\ unread = [r \in Replicas |-> Lists]
    /\ gathered = [r \in Replicas |-> {}]
    /\ pc = [r \in Replicas |-> "idle"]
    /\ req = [w \in Writes |-> "new"]
    /\ home = [w \in Writes |-> None]
    /\ seen = [w \in Writes |-> {}]
    /\ restarts = 0
    /\ overran = FALSE
    /\ exposed = {}

-----------------------------------------------------------------------------
(* Handlers *)

\* No handler has a part in what workers and restarts change.
NotTheWorker == UNCHANGED <<pending, lock, staged, head, remote, sync, pc, restarts, overran>>

\* A member or pair handler locks the mutex only to read the tree's path ...
BeginWrite(w, r) ==
    /\ w \notin Guarded
    /\ pc[r] \notin Mutexed
    /\ Advance(w, "new", "started")
    /\ home' = [home EXCEPT ![w] = r]
    /\ NotTheWorker /\ UNCHANGED <<dirty, tree, seen, exposed>>

\* ... and after dropping it reads the list ...
ReadList(w) ==
    /\ Advance(w, "started", "read")
    /\ seen' = [seen EXCEPT ![w] = {v \in Mates(w) : v \in tree[home[w]]}]
    /\ NotTheWorker /\ UNCHANGED <<dirty, tree, home, exposed>>

\* ... opens it for writing, which empties it ...
Truncate(w) ==
    /\ Advance(w, "read", "truncated")
    /\ tree' = [tree EXCEPT ![home[w]] = @ \ Mates(w)]
    /\ exposed' = exposed \union Dropped(w)
    /\ NotTheWorker /\ UNCHANGED <<dirty, home, seen>>

\* ... and writes what it had read and its own change.
Fill(w) ==
    /\ Advance(w, "truncated", "written")
    /\ tree' = [tree EXCEPT ![home[w]] = (@ \ Mates(w)) \union seen[w] \union {w}]
    /\ exposed' = exposed \union Dropped(w) \union (IF Overtaken(home[w]) THEN {w} ELSE {})
    /\ NotTheWorker /\ UNCHANGED <<dirty, home, seen>>

\* The write fails after the truncation: an error reply, and what was in the list is gone.
FillFails(w) ==
    /\ "write" \in Faults
    /\ Advance(w, "truncated", "torn")
    /\ exposed' = exposed \union seen[w] \union {w}
    /\ NotTheWorker /\ UNCHANGED <<dirty, tree, home, seen>>

\* The kubeconfig and token handlers hold the mutex over the write of a file of their own.
WriteGuarded(w, r) ==
    /\ w \in Guarded
    /\ pc[r] \notin Mutexed
    /\ Advance(w, "new", "written")
    /\ home' = [home EXCEPT ![w] = r]
    /\ tree' = [tree EXCEPT ![r] = @ \union {w}]
    /\ exposed' = IF Overtaken(r) THEN exposed \union {w} ELSE exposed
    /\ NotTheWorker /\ UNCHANGED <<dirty, seen>>

\* schedule_push: errors of Redis are logged and the request still succeeds.
MarkDirty(w) ==
    /\ Advance(w, "written", "marked")
    /\ \/ dirty' = TRUE /\ UNCHANGED exposed
       \/ "redis" \in Faults /\ UNCHANGED dirty /\ exposed' = exposed \union {w}
    /\ NotTheWorker /\ UNCHANGED <<tree, home, seen>>

SignalPending(w) ==
    /\ Advance(w, "marked", "acked")
    /\ pending' = TRUE \/ ("redis" \in Faults /\ UNCHANGED pending)
    /\ UNCHANGED <<dirty, lock, repo, remote, sync, pc, home, seen, restarts, overran, exposed>>

\* warp drops the handler of a client that disconnects at its next await.  A write that
\* has begun still runs to its end on its thread, and stays unannounced: the client of
\* such a handler leaves after it.
ClientGone(w) ==
    /\ \/ /\ req[w] \in {"started", "read"}
          /\ req' = [req EXCEPT ![w] = "new"]
          /\ home' = [home EXCEPT ![w] = None]
          /\ seen' = [seen EXCEPT ![w] = {}]
          /\ UNCHANGED exposed
       \/ /\ req[w] \in {"written", "marked"}
          /\ req' = [req EXCEPT ![w] = "cut"]
          /\ exposed' = IF req[w] = "written" THEN exposed \union {w} ELSE exposed
          /\ UNCHANGED <<home, seen>>
    /\ NotTheWorker /\ UNCHANGED <<dirty, tree>>

-----------------------------------------------------------------------------
(* The push worker *)

OnlyPc == UNCHANGED <<redis, repo, remote, sync, requests, restarts, overran, exposed>>

PollDirty(r) ==
    /\ Goto(r, "idle", IF dirty THEN "window" ELSE "idle")
    /\ OnlyPc

CheckWindow(r) ==
    /\ Goto(r, "window", IF pending THEN "idle" ELSE "acquire")
    /\ OnlyPc

\* A failed read makes the worker skip to its next tick.
SkipTick(r) ==
    /\ "redis" \in Faults
    /\ Goto(r, "window", "idle") \/ Goto(r, "acquire", "idle")
    /\ OnlyPc

\* Mutant of AcquireLock: SET without NX.
AcquireWithoutNX(r) ==
    /\ Goto(r, "acquire", "mutex")
    /\ lock' = r
    /\ exposed' = exposed \union Foreign(r)
    /\ UNCHANGED <<dirty, pending, repo, remote, sync, requests, restarts, overran>>

AcquireLock(r) ==
    /\ lock = None
    /\ Goto(r, "acquire", "mutex")
    /\ lock' = r
    /\ exposed' = exposed \union Foreign(r)
    /\ UNCHANGED <<dirty, pending, repo, remote, sync, requests, restarts, overran>>

LockContended(r) ==
    /\ lock # None
    /\ Goto(r, "acquire", "idle")
    /\ OnlyPc

\* SET NX ran but its reply was lost: nobody runs the cycle the key announces.
AcquireReplyLost(r) ==
    /\ {"redis", "reply"} \intersect Faults # {}
    /\ lock = None
    /\ Goto(r, "acquire", "idle")
    /\ lock' = r
    /\ UNCHANGED <<dirty, pending, repo, remote, sync, requests, restarts, overran, exposed>>

LockRepo(r) ==
    /\ Goto(r, "mutex", "add")
    /\ OnlyPc

\* Mutant of GitAdd: `git add -u`, which leaves new files out.
GitAddTracked(r) ==
    /\ Goto(r, "add", "status")
    /\ staged' = [staged EXCEPT ![r] = tree[r] \ (Fresh \ head[r].files)]
    /\ exposed' = exposed \union (Local(r) \ tree[r])
    /\ UNCHANGED <<redis, tree, head, remote, sync, requests, restarts, overran>>

\* The handlers of member lists do not hold the mutex: what they rewrite is missed.
GitAdd(r) ==
    /\ Goto(r, "add", "status")
    /\ staged' = [staged EXCEPT ![r] = tree[r]]
    /\ exposed' = exposed \union (Local(r) \ tree[r])
    /\ UNCHANGED <<redis, tree, head, remote, sync, requests, restarts, overran>>

CleanTree(r) == staged[r] = head[r].files /\ tree[r] = head[r].files

\* Mutant of GitStatus: a clean tree skips the principals as well as the push.
GitStatusSkipsSync(r) ==
    /\ Goto(r, "status", IF CleanTree(r) THEN "clear" ELSE "commit")
    /\ OnlyPc

\* `git status --porcelain` is empty: Ok without a push.
GitStatus(r) ==
    /\ Goto(r, "status", IF CleanTree(r) THEN "sync" ELSE "commit")
    /\ OnlyPc

GitCommit(r) ==
    /\ staged[r] # head[r].files
    /\ Goto(r, "commit", "push")
    /\ head' = [head EXCEPT ![r] = [files |-> staged[r], past |-> @.past \union staged[r]]]
    /\ UNCHANGED <<redis, tree, staged, remote, sync, requests, restarts, overran, exposed>>

\* Only files that changed after `git add` differ: `git commit` exits with 1.
NothingStaged(r) ==
    /\ staged[r] = head[r].files
    /\ Goto(r, "commit", "failed")
    /\ OnlyPc

\* Mutant of PushAccepted: `git push --force`.
PushForced(r) ==
    /\ Goto(r, "push", "sync")
    /\ remote' = head[r]
    /\ UNCHANGED <<redis, repo, sync, requests, restarts, overran, exposed>>

PushAccepted(r) ==
    /\ FastForward(r)
    /\ Goto(r, "push", "sync")
    /\ remote' = head[r]
    /\ UNCHANGED <<redis, repo, sync, requests, restarts, overran, exposed>>

PushReplyLost(r) ==
    /\ "push" \in Faults
    /\ FastForward(r)
    /\ Goto(r, "push", "failed")
    /\ remote' = head[r]
    /\ UNCHANGED <<redis, repo, sync, requests, restarts, overran, exposed>>

PushFailed(r) ==
    /\ "push" \in Faults \/ ~FastForward(r)
    /\ Goto(r, "push", "failed")
    /\ exposed' = exposed \union (head[r].past \ Pushed)
    /\ UNCHANGED <<redis, repo, remote, sync, requests, restarts, overran>>

OnlySync == UNCHANGED <<redis, repo, remote, requests, restarts, overran, exposed>>

\* The mutex is free again: lists are read one by one while handlers rewrite them.
ReadMembers(r, l) ==
    /\ Goto(r, "sync", "sync")
    /\ l \in unread[r]
    /\ unread' = [unread EXCEPT ![r] = @ \ {l}]
    /\ gathered' = [gathered EXCEPT ![r] = @ \union (tree[r] \intersect l)]
    /\ UNCHANGED principals
    /\ OnlySync

SyncOver(r) ==
    /\ unread' = [unread EXCEPT ![r] = Lists]
    /\ gathered' = [gathered EXCEPT ![r] = {}]

TruncatePrincipals(r) ==
    /\ unread[r] = {}
    /\ Goto(r, "sync", "fill")
    /\ principals' = {}
    /\ UNCHANGED <<unread, gathered>>
    /\ OnlySync

FillPrincipals(r) ==
    /\ Goto(r, "fill", "clear")
    /\ principals' = gathered[r]
    /\ SyncOver(r)
    /\ OnlySync

\* A failed sync is logged and the cycle goes on.
SyncFails(r) ==
    /\ "sync" \in Faults
    /\ Goto(r, "sync", "clear") \/ Goto(r, "fill", "clear")
    /\ SyncOver(r)
    /\ UNCHANGED principals
    /\ OnlySync

ClearDirty(r) ==
    /\ Goto(r, "clear", "release")
    /\ dirty' = FALSE \/ ("redis" \in Faults /\ UNCHANGED dirty)
    /\ UNCHANGED <<pending, lock, repo, remote, sync, requests, restarts, overran, exposed>>

\* A plain DEL, whoever owns the key; after a failed push the flag stays up.
ReleaseLock(r) ==
    /\ Goto(r, "release", "idle") \/ Goto(r, "failed", "idle")
    /\ lock' = None \/ ("redis" \in Faults /\ UNCHANGED lock)
    /\ UNCHANGED <<dirty, pending, repo, remote, sync, requests, restarts, overran, exposed>>

-----------------------------------------------------------------------------
(* Time and restarts *)

DebounceExpires ==
    /\ pending
    /\ pending' = FALSE
    /\ UNCHANGED <<dirty, lock, repo, remote, sync, pc, requests, restarts, overran, exposed>>

\* Mutant of LockExpires: SET NX without PX, the key never expires.
LockWithoutTtl == FALSE

LockExpires ==
    /\ lock # None
    /\ "ttl" \in Faults \/ pc[lock] \notin Section
    /\ lock' = None
    /\ overran' = (overran \/ pc[lock] \in Section)
    /\ UNCHANGED <<dirty, pending, repo, remote, sync, pc, requests, restarts, exposed>>

\* The phase of a request whose replica restarts.
CutOff(phase) ==
    CASE phase \in {"started", "read"}   -> "new"
      [] phase = "truncated"             -> "torn"
      [] phase \in {"written", "marked"} -> "cut"
      [] OTHER                           -> phase

\* GitoliteAdmin::init: fetch and `reset --hard` keep only untracked files of
\* an existing checkout; without one, a clone starts from the server's master.
Restart(r) ==
    /\ restarts < MaxRestarts
    /\ restarts' = restarts + 1
    /\ \E kept \in {{}, (tree[r] \ staged[r]) \intersect Fresh} :
         tree' = [tree EXCEPT ![r] = remote.files \union kept]
    /\ staged' = [staged EXCEPT ![r] = remote.files]
    /\ head' = [head EXCEPT ![r] = remote]
    /\ SyncOver(r)
    /\ pc' = [pc EXCEPT ![r] = "idle"]
    /\ req' = [w \in Writes |-> IF home[w] = r THEN CutOff(req[w]) ELSE req[w]]
    /\ home' = [w \in Writes |-> IF req'[w] = "new" THEN None ELSE home[w]]
    /\ seen' = [w \in Writes |-> IF req'[w] = "new" THEN {} ELSE seen[w]]
    /\ exposed' = exposed \union Local(r) \union {w \in Writes : req[w] # "torn" /\ req'[w] = "torn"}
    /\ UNCHANGED <<redis, remote, principals, overran>>

-----------------------------------------------------------------------------
Cycle(r) ==
    \/ LockRepo(r) \/ GitAdd(r) \/ GitStatus(r) \/ GitCommit(r) \/ NothingStaged(r)
    \/ PushAccepted(r) \/ PushReplyLost(r) \/ PushFailed(r)
    \/ \E l \in Lists : ReadMembers(r, l)
    \/ TruncatePrincipals(r) \/ FillPrincipals(r) \/ SyncFails(r)
    \/ ClearDirty(r) \/ ReleaseLock(r)

Worker(r) ==
    \/ PollDirty(r) \/ CheckWindow(r) \/ SkipTick(r)
    \/ AcquireLock(r) \/ LockContended(r) \/ AcquireReplyLost(r)
    \/ Cycle(r)

Handler(w) ==
    \/ \E r \in Replicas : BeginWrite(w, r) \/ WriteGuarded(w, r)
    \/ ReadList(w) \/ Truncate(w) \/ Fill(w) \/ FillFails(w)
    \/ MarkDirty(w) \/ SignalPending(w) \/ ClientGone(w)

Next ==
    \/ \E w \in Writes : Handler(w)
    \/ \E r \in Replicas : Worker(r)
    \/ \E r \in Replicas : Restart(r)
    \/ DebounceExpires
    \/ LockExpires

Spec == Init /\ [][Next]_vars

\* The worker task loops for ever and Redis expires keys by itself; replies to
\* the SET of the lock are not lost for ever; nothing makes a client write.
FairSpec ==
    /\ Spec
    /\ \A r \in Replicas : WF_vars(Worker(r)) /\ SF_vars(AcquireLock(r))
    /\ WF_vars(DebounceExpires)
    /\ WF_vars(LockExpires)
-----------------------------------------------------------------------------
(* Properties *)

\* Every variable keeps its type (all of the push worker's code).
TypeOK ==
    /\ dirty \in BOOLEAN
    /\ pending \in BOOLEAN
    /\ lock \in Replicas \union {None}
    /\ tree \in [Replicas -> SUBSET Writes]
    /\ staged \in [Replicas -> SUBSET Writes]
    /\ head \in [Replicas -> Commits]
    /\ remote \in Commits
    /\ principals \in SUBSET Writes
    /\ unread \in [Replicas -> SUBSET Lists]
    /\ gathered \in [Replicas -> SUBSET Writes]
    /\ pc \in [Replicas -> PCs]
    /\ req \in [Writes -> Phases]
    /\ home \in [Writes -> Replicas \union {None}]
    /\ seen \in [Writes -> SUBSET Writes]
    /\ restarts \in 0 .. MaxRestarts
    /\ overran \in BOOLEAN
    /\ exposed \in SUBSET Writes

\* Until a cycle outlives the lock's TTL, at most one replica is between taking
\* and releasing the push lock, in spite of failed pushes, lost Redis replies,
\* releases without an owner check and restarts inside a cycle
\* (spawn_push_worker, release_push_lock).
PushExclusive ==
    ~overran => \A r, s \in Replicas : pc[r] \in Section /\ pc[s] \in Section => r = s

\* The complete list of ways to lose a write: one that a client was told is
\* accepted, that never was on the server and that no later tick will push
\* (the dirty flag is down) is one of the hazards above has touched
\* (schedule_push, commit_and_push, clear_dirty, write_member_file).
StrandedOnlyIfExposed ==
    \A w \in Writes : req[w] = "acked" /\ w \notin Pushed /\ ~dirty => w \in exposed

\* Pushes implement the abstract remote: no commit published is ever dropped
\* from the server's master, nor anything published that no handler wrote, however
\* cycles overlap, fail and restart (commit_and_push pushes without --force).
Remote == INSTANCE AdminRemote WITH accepted <- Landed, published <- Pushed
ImplementsRemote == Remote!Spec

\* A write to a list whose end the dirty flag does not tell of yet.
InFlight(w) == req[w] \in {"truncated", "written"}

\* With the flag down and no cycle running, the principals file on the shared
\* volume has every member of the server's master, so that sshd refuses nobody
\* who is published; but a sync reads a list while it is rewritten, and then
\* its members are missing until the request that did so is pushed, or for
\* good when a hazard above touches that request (sync_principals).
\* redis_lock.rs:101 says "so the file always reflects the current workspace
\* membership".  It holds of one replica only.
PrincipalsCoverRemote ==
    ~dirty /\ (\A r \in Replicas : pc[r] \notin Section) =>
        \A w \in (remote.files \intersect Members) \ principals :
            \E v \in Mates(w) : v \in exposed \/ InFlight(v)

\* Every accepted write reaches the server or meets one of the hazards; no
\* combination of polling, debounce window and contended lock starves it, not
\* even a lock left by a worker that restarted inside its cycle or never heard
\* that it has it (SET with PX in try_acquire_push_lock).
AckedIsPushed ==
    \A w \in Writes : req[w] = "acked" ~> (w \in Pushed \/ w \in exposed)

-----------------------------------------------------------------------------
(* What a comment says of the code, refuted by the code *)

\* redis_lock.rs:260: after a failed push, "keep dirty so we retry next window":
\* a commit that is not on the server keeps the flag up until it is.
FailedPushRetried ==
    \A r \in Replicas : ~(head[r].past \subseteq Pushed) => dirty
=============================================================================
