# Verification of the gitolite sidecar

TLA+ models of the sidecar in `src/src`, checked with TLC and, in part, proved
with TLAPS. Source lines below are those of the commit this directory sits
beside.

## 1. The system

The sidecar is an HTTP server (Rust, tokio, warp) next to a gitolite server. Any
number of replicas run; each has a working tree of the `gitolite-admin`
repository, they share one Redis, one RabbitMQ, the volume with the bare
repositories and the file of SSH principals. `main.rs:57-157` starts the push
worker, the hourly backup, the RabbitMQ publisher, the merge consumer and the
HTTP server. The repository has no tests.

| component | code | state | operations |
|---|---|---|---|
| push worker | `redis_lock.rs`, `git.rs`, `schedule_push` in `handlers.rs` | dirty flag, debounce key and push lock in Redis; working tree, index and master of every replica; master on the server; principals file | `mark_dirty`, `signal_pending`; every few seconds: poll, wait for the window, lock, add, commit, push, sync principals, clear, unlock |
| merge queue | `merge_queue_handler.rs`, `rabbit.rs`, `merge_consumer.rs:34-123, 431-436` | `git:server:lock`, `git:merge:current`; a durable queue; one publisher and one consumer per replica | enqueue a request; consume, run, unlock, acknowledge; reconnect |
| org-wide merge | `merge_consumer.rs:131-427`; `squash_branch` in `repo_handler.rs:955-1036` | `main` and the branch of every repository of an organisation | list candidates, scan for conflicts (pass 1), squash-merge and delete the branch (pass 2); squash |
| permission registry | `permissions.rs`, member endpoints of `handlers.rs`, `handler_pair_programming.rs` | member lists, pair-programming slots, `conf/gitolite.conf`, all plain files | add, remove, add to a slot, remove from it, delete it; regenerate the conf |
| pipeline trigger | `pipeline_hook/*`, `handle_run_pipeline.rs`, the hook binary | tasks, pipelines and PipelineRuns of a Tekton namespace | select pipelines, apply tasks and pipeline, cancel earlier runs, create a run |
| trigger endpoint | `handler_trigger_pipeline.rs` | none of its own | resolve a branch, do what the hook does |
| run namespace | `pipeline_hook/kubectl.rs`, `kubectl_async.rs`, `pipeline.rs:165-311` | persistent volume, claims and secrets of a namespace; token files in gitolite-admin | ensure the volume and the claims (delete and create again unless Bound), apply the secrets; upload a token |
| migrations | `handler_create_db_taskrun.rs`, `kubectl_async.rs:124-230` | TaskRuns; `main` of the database repository | create a run; clone, migrate, commit and push; follow the log and read the status |
| file cache | `repo_handler.rs:516-746` | Redis keys by repository, ref and path | read through, expire |
| backup | `backup.rs`, `git.rs:217-482` | per replica a clone and a rewritten copy of every repository; GitHub | clone or fetch, copy, rewrite authors, force to GitHub |
| queries | `repo_handler.rs` | none of their own | diff, commits, branches, highlighting |
| wiring | `routes.rs`, `auth_*.rs`, `config.rs`, `state.rs` | none of its own | filters, tokens, configuration |

### Interactions

- Member, pair, kubeconfig and token handlers change files of the working tree
  and call `schedule_push`; the push worker of *any* replica picks the flag up
  but pushes only *its own* tree.
- The merge endpoint and the consumers share two Redis keys and one queue; a
  consumer runs `execute_org_merge` on a blocking thread, beside developers who
  push through sshd and clients who call squash.
- The post-receive hook, the trigger endpoint and run-pipeline change the same
  Tekton objects. Tekton reads them when a run, or a task of it, starts.
- The same three and the database endpoint ensure the same volume, claims and
  secrets, with what they read from gitolite-admin, its pushed master or (the
  database endpoint) the working tree, which uploads change under a mutex.
- Migrations push to a repository whose files clients read through the cache.

### What is hard here

1. *Interleaving without locks.* Registry handlers release the `admin_repo`
   mutex before they read or write (`handlers.rs:86-103`); hooks have none; the
   branch refs are moved by four kinds of writers.
2. *Locks that expire.* Both Redis locks are deleted without an owner check
   (`redis_lock.rs:82-86`, `merge_consumer.rs:431-436`) and outlive neither a
   slow push nor a slow merge.
3. *One flag for many trees*, cleared unconditionally at the end of a cycle
   (`redis_lock.rs:275`).
4. *Failure and restart between any two steps*: errors of Redis and RabbitMQ are
   logged and swallowed, warp drops handlers of clients that disconnect, a
   restart resets the working tree.
5. *At-least-once delivery* of merge jobs that may still be running.
6. *Names resolved late*: a PipelineRun executes what the cluster has by then.
7. *Check, then act on a cluster*: a claim that was read as Pending is deleted
   without a precondition, and created while the old object may still be there.
8. *Shared work directories* of backups that the scheduler starts beside others.
9. *Exit statuses that are hidden* (`|| echo`), logs and statuses read at
   different times, cached files that no push invalidates.

### What makes each component correct

- Push worker: one cycle at a time; nothing published is lost; every accepted
  write is pushed, but for a known list of hazards; the lock never wedges.
- Merge queue: one merge at a time; a lock is released by its own job; no
  accepted job is lost and none is repeated without a redelivery; jobs finish.
- Org-wide merge: all repositories or none; `main` never loses an edit, and
  neither does a branch.
- Registry: what gitolite enforces is what the lists say; an added member stays.
- Pipeline trigger: a run executes its own revision; cancelling leaves one run.
- Run namespace: a claim with data survives; the claims of a run are there, and it
  starts; it gets the token and the target its trigger read, or newer ones.
- Migrations: `main` loses no commit; who is told of success finds the models in
  `main`; who asks long enough is told the end.
- File cache: a client never sees a file go back; nothing old stays for good.
- Backup: only rewritten authors reach GitHub; it never goes back; it catches up.

Several of these do not hold as stated. The properties then say *exactly when*
they may fail, with the hazards recorded in history variables (`exposed`,
`damaged`, `excused`, `forfeited`, `crossed`, `missed`, `unlucky`, `doomed`,
`overwritten`, `retargeted`, `misled`, `abandoned`, `swapped`, `disturbed`, `hidden`): such a property claims
that the list of exceptions is complete, which no test can. For some of them a theorem
adds the other half: what the code promises without exceptions as long as the hazard
does not occur (section 4).

## 2. The modules

| module | models | checked by | proved by |
|---|---|---|---|
| `PushWorker` | the debounced push | `MCPushWorker` | `PushWorkerProofs` |
| `AdminRemote` | abstract: what the workers promise of the server's master | property `ImplementsRemote` | `PushWorkerProofs!Refinement` |
| `MergeQueue` | endpoint, broker, consumers | `MCMergeQueue` | `MergeQueueProofs` |
| `JobServer` | abstract: what the queue promises of a job, without lock and broker | property `ImplementsServer` | `MergeQueueProofs!Refinement` |
| `OrgMerge` | one job over the repositories of an organisation | `MCOrgMerge` | `OrgMergeProofs` |
| `AdminPermissions` | lists, slots, conf | `MCAdminPermissions` | `AdminPermissionsProofs` |
| `MemberLists` | abstract: how requests change member lists, without files and steps | property `ImplementsLists` | `AdminPermissionsProofs!Refinement` |
| `PipelineTrigger` | hooks, trigger endpoint, run-pipeline, Tekton | `MCPipelineTrigger` | `PipelineTriggerProofs` |
| `RunNamespace` | volume, claims and secrets of a namespace | `MCRunNamespace` | `RunNamespaceProofs` |
| `DbMigration` | the steps of migration runs, the logs endpoint | `MCMigratedFiles` | `MigratedFilesProofs` |
| `FileCache` | the file endpoints over one Redis key | `MCMigratedFiles` | `MigratedFilesProofs` |
| `MigratedFiles` | composition: migrations push what the file endpoints read; implements `FileCache` | `MCMigratedFiles` | `MigratedFilesProofs` |
| `Backup` | the hourly mirror of a repository | `MCBackup` | `BackupProofs` |

In every module a handler or a loop is a program counter (`req`, `pc`, `phase`)
and each step that touches shared state is one action; what the code does between
two awaits without touching shared state belongs to the step before.

### PushWorker

Content is the set of writes it reflects. The member requests of a workspace change one
list (`Lists`), a file of its own. `Handler(w)`: a registry handler (`BeginWrite`, mutex
released again) does `ReadList`, `Truncate` and `Fill` without the mutex, as
`read_member_file` and `write_member_file` do, so that the other members of the list
are out of the tree in between, and for good when two requests overlap (`Dropped`) or
the fill fails (`FillFails`); `WriteGuarded` is the kubeconfig or token handler, which
keeps the mutex over the write of its own file. Then `MarkDirty` and `SignalPending`;
`ClientGone` drops a handler at an await.
`Worker(r)` is one tick of `spawn_push_worker`; `Cycle(r)` is `commit_and_push`,
`sync_principals`, `clear_dirty`, `release_push_lock` command by command: `git add` copies
the tree to the index, `git status` looks for a difference (`CleanTree`), `git commit` fails
when only unstaged files differ, `git push` is refused unless it is a fast-forward. A
commit has files and a past, the writes it or an ancestor reflects: files can go back,
pasts cannot, and fast-forwards compare pasts. A commit that only restores or empties a
list has no write of its own, so in a corner the model takes for a fast-forward what git
would refuse; the properties are about writes, and hold either way.
With the mutex free again the sync reads the lists one after the other (`ReadMembers`),
beside handlers that rewrite them, then truncates and fills the principals file, or fails,
which is logged (`SyncFails`). `Restart` is `GitoliteAdmin::init` (fetch and
`reset --hard`, untracked files stay; or a fresh clone); `CutOff` is what it does to
requests. A replica that does not come up again, for a stale `index.lock` say, is one
whose worker takes no step. Faults, by constant: `redis` (a call fails, or its reply is
lost), `reply` (of the SET of the lock only), `push`, `write`, `sync`, `ttl` (a cycle
outlives the lock, which `overran` records).

`exposed` collects the writes that a hazard of the code touched: landed between
`git add` and `clear_dirty`, landed or left unpushed while another replica's
cycle clears the flag, out of the tree while `git add` copies it, dropped from a list by
another request or by a fill that failed, held by a commit whose push failed, not
announced because `mark_dirty` failed or the client left, or unpushed at a restart. The
conf file, which the same handlers write, is `AdminPermissions`'s.

### MergeQueue

`req` is the phase of `handle_merge_queue`: `AcquireLock` is `SET NX EX`,
`RecordHolder` the second `SET EX` whose result is ignored, `PublishJob` a
`basic_publish` without confirmation whose error is only logged, `Reject` the
conflict reply. `broker` says where each message is (a replica name: delivered
there, unacknowledged). `Consumer(r)` is `process_deliveries`: merge, `DEL` of
both keys, then the acknowledgement; when the channel is gone the loop
reconnects. `LockExpires` is free when the lock protects nothing any more and
counted in `overruns` when it does. `Idle` is the only state in which nothing
needs to happen, so deadlock is checked.

`JobServer` is the same without handlers, keys and messages: a job is accepted once,
begins and ends, and is finished after it has ended. Under the mapping (`Queued`,
`Running`, `Merged`, `Finished`, `Troubles`) a job is finished when its message is
acknowledged, and the troubles are a lost delivery and a merge that outlived the lock.

### OrgMerge

A tree is a set of edits; two edits of the same place conflict, as in git's
three-way merge. A branch is kept with its merge base. `ListRepo`, `ScanRepo`,
`ReadRefs`, `CommitMain`, `DeleteBranch` follow `execute_org_merge` and `merge`
repository by repository in sorted order. `CommitMain` is the compare-and-set
that libgit2's `commit` makes on `refs/heads/main`; `DeleteBranch` looks the
branch up again and deletes whatever it points to. Developers push, create,
update and drop the branch between any two steps; squash forces the branch from
a tip read earlier; a job may run in two consumers, crash and run again.

### AdminPermissions

Every file access is a step; `tokio::fs::write` is a truncation and a fill, and
two overlapping fills may leave the tail of the longer one. Before it, `create_dir_all` is
a step of its own (`MakeDir`): a request that ends there has made a workspace of a name,
and the next regeneration takes in slots it did not list before (`Left`). `regenerate_conf`
opens the directory, reads every list and slot one by one, truncates and fills
the conf. Only workspaces with a directory under `permissions/` are listed. The
users and the groups of a workspace are one list (same code). `Publish` is a push
of the working tree at any time; its own hazards are those of PushWorker. A
slot's parent directory that another deletion removes in between makes a write
fail, which is `Fails` with the `io` fault.

`MemberLists` is what a client thinks of: a call, while it is open, adds its name to a list,
removes it or deletes the list, once; then it has been applied, is answered, and changes
nothing more. One that failed may be sent again. The mapping takes a list that some request
is between truncating and filling as what it is about to be filled with (`Members`,
`Filling`) and a call as applied from the truncation on (`Call`); a list in `damaged`, which
a write was lost for, may be anything from that step on.

### PipelineTrigger

`Begin` selects pipelines by `should_trigger` (annotations, branches, ignored and
filtered paths; glob patterns stand for the sets of names they match). For each
pipeline `Ensure` (namespace, claims, secrets: no state here, they are
`RunNamespace`), `ApplyTask` per
task, `ApplyPipeline`, `ListRuns` and `CancelRun` if asked to, `CreateRun`. A
`call` is run-pipeline, which cancels nothing and skips tasks the cluster refuses.
`StartRun` and `StartTask` are Tekton's late resolution of names. A blocking
kubectl call of a client that left counts as finished when `Fails` happens.

### RunNamespace

A trigger (`Hooks`, `Calls`, `Migrations`) walks through `run` and
`trigger_pipeline`, `handle_run_pipeline` or `handle_create_db_taskrun`, one
cluster call a step: `ReadTarget` and `ReadToken` (gitolite-admin), `FindVolume` and
`ApplyVolume`, then for each claim in the order of the code the get of
`ensure_single_pvc_async` (`ClaimBound`, `ClaimUnbound`, `ClaimMissing`), the delete
(`DeleteClaim`, `DeleteNotFound`) and the create (`CreateClaim`, 409 included),
`ApplyToken`, `ApplyTarget`, `ApplyTask` and `CreateRun`. A hook that triggers several pipelines
does this once for each, with the token and target it read in the beginning
(`NextRound`). The volume controller (`Bind`, `Remove`) and Tekton (`StartRun`,
`FinishRun`) are external. A claim whose deletion has begun lingers while a run
uses it, and the volume of a deleted claim is `Released` and never bound again
(reclaim policy Retain in the code). `ApplyTask` stands for the task that deploys: it has one name for all branches, and the
placeholder in it becomes the secret name of whoever applies it (`TaskApplied`; a file that
cannot be read, or for run-pipeline applied, is skipped, `TaskSkipped`), so that a run
reads the secret which the last applied task names (`TargetSeen`).
Uploads of a token truncate and fill a file under the mutex; `ClientLeaves` frees the mutex
under the write, `UploadFails` leaves half a file and answers 500, and `Restart` starts the
server again from a new clone or in the old one, where a file that was never committed
(no token was `stored` before) survives as it is. The names of
branches, files and secrets are functions (`Written`, `Read`, `Sanitised`) whose
values in `MCRunNamespace` are those that the three conversions give. `Written` need
not be injective: `TargetsOf(b)` are all environments whose file a hook for branch b
reads. What befell a trigger's secrets and task (`overwritten`, `retargeted`, `misled`) is history.

### DbMigration, FileCache and MigratedFiles

`main` is the sequence of its commits, each standing for the models it has
migrations for. `CloneRepo`, `Migrate`, `PushMain` or `SkipPush` are the steps of
the Task; `Commits` is `git commit || echo`, which changes nothing when the message is
empty or the models are the same, and may fail for any other reason without anybody
noticing (`hidden`); `Accepted` is git's fast-forward rule. `Record` is the controller that
updates the status; a run that fails before its pod has containers (`NeverStarts`) has no
steps in its status, which reads as Unknown from then on. `Call` starts
`fetch_step_logs` and `fetch_step_status` together, `FollowLog` returns at the end
of the step, `Reply` waits for both; a client asks again until it is told an end.

`FileCache` has both file endpoints over one key: `Hit` or `Miss`, `ReadFile`,
`Store` (`SET EX`), `Reply`; an error of Redis is a miss. Its environment pushes at
any time. `MigratedFiles` puts the two together: the version of the file is the
length of `main` (`Missing` names the lengths at which the file is not there), and `ImplementsFileCache` says that under this mapping the
composition is a behaviour of `FileCache`, so that what holds of the cache with
arbitrary pushes holds with migrations.

### Backup

One repository and, in one setting, its twin (below); its branch is a number that grows with each push. `Start` is the
cron tick, `Mirror(b)` is `mirror_repo_to_github` command by command. A clone is
absent, an empty directory, unfinished (`.git` is there and may be all there is), whole, or
whole with the lock of a ref that a killed fetch left; what `fetch` does to an unfinished
one is a choice, and it fails on a locked one. A copy knows whether
its authors are rewritten. Backups of a replica share both directories, those of
all replicas share GitHub. `Restart` kills the backups of a replica and keeps, or
loses, its work directory. Directories are named by the repository with slashes replaced
(`safe_name`), so `a/b_c` and `a_b/c` have the same ones: the twin is the other such
repository, which a backup of the replica clones, fetches (`TwinFetches`) and copies
(`TwinCopies`) before or after this one, or beside it when backups overlap. `Foreign` is its
branch, of which no state is told from another.

## 3. What the runs check

| run | instance | distinct states | question |
|---|---|---|---|
| `push_faults` | 2 replicas, 2 writes, redis, push, sync and ttl faults, 1 restart, symmetry | 1.53 M | `PushExclusive`, `StrandedOnlyIfExposed`, refinement of `AdminRemote` |
| `push_live` | 1 replica, 2 writes to one list, pushes and fills fail, replies lost, lock expires, 1 restart, fair | 277 k | `AckedIsPushed`, `PrincipalsCoverRemote` |
| `push_doc_retry` | as `push_faults`, smaller | (violation) | is a failed push retried? |
| `mq_faults` | 2 replicas, 2 valid and 1 invalid request, all faults, 1 drop, 1 restart, 1 overrun, symmetry | 1.65 M | exclusion, own release, at-least-once, no repeats, refinement of `JobServer` |
| `mq_live` | 2 replicas, 2 requests, 2 drops, 1 restart, 1 overrun, fair | 258 k | jobs finish, the lock is freed, conflict replies name unfinished merges |
| `org` | 3 repositories (one an orphan without main), 2 conflicting edits, errors; or 1 repository, 2 consumers, 2 runs with crashes, 3 edits, 1 squash; symmetry | 1.93 M | partial merges and lost edits explained, main keeps everything |
| `org_doc_orphan` | 2 repositories, one without a merge base | (violation) | all or none? |
| `perm` | add, add, remove on one workspace; or first member, slot filled, slot deleted, with leaving clients; file errors, 1 retry | 820 k | published access, members kept, refinement of `MemberLists` |
| `pipe` | 3 pushes to 2 branches, 2 pipelines, a common task, unreadable tasks; or a call between 2 pushes, 1 pipeline, cluster errors, client leaves | 2.45 M | own definitions, a run survives, runs that escape cancellation |
| `namespace` | a push with 2 pipelines and a call in a new namespace, failing calls; or a push and a migration beside 2 uploads, a client leaving, failing writes; or a call beside uploads over no token, failing writes, a restart; or 2 pushes and a call for branches with like names; fair | 171 k | claims and volume kept and present, secrets and targets, runs start |
| `backup` | 2 overlapping backups, 1 failure; or a backup on each of 2 replicas, 2 restarts; or a backup beside a twin, 1 failure, 2 overlaps, 1 restart; 2 pushes; fair | 509 k | authors, order, mirror in the end |
| `migrations` | a run, its client and a developer; or 3 runs and a developer; or a run that does not commit; or a run, a developer and 2 readers; failing steps, calls and Redis; fair | 328 k | commits kept, success told truly, the end told, cache forward and fresh, refinement of `FileCache` |

A rigid variable `setting` chooses one of several instances in the initial state
(the semicolons above); a behaviour never changes it.

Deadlock is checked in the runs of the push worker and of the backup, whose loops
never stop, and of the merge queue, where only `Idle` may rest. The others model
finitely many requests or edits and do stop when all are served.

### Why the bounds are enough

The hazards are pairs of steps of two actors, at most with one restart, lost
connection or expiry between them. Two replicas (three handlers, three hooks, two
consumers and a squash) give every such pair, and every fault can happen before,
between and after the two. The bounds are: `MaxRestarts`, `MaxDrops`,
`MaxOverruns`, `MaxRetries` and `maxRuns` (1 or 2), `merges` counted to 2, one
request or edit of each kind, `tokens` (3 in all), `MaxPushes`, `overlaps`, `failures`
and `restarts` of the backup (2 at most), `failures` and `pushes` of migrations; `MaxCommits` has
room for the initial commit, all pushes and one commit of each run (`FilesAssumption`),
so no push is refused for the bound's sake. Every property has a mutant of the model that breaks
it in the same instance (a dropped guard, a forgotten reset, a wrong order of
steps; the operators marked "Mutant of"), so none holds for lack of states. What
the proofs cover holds for every value of these bounds.

### Fairness

- `PushWorker!FairSpec`: weak fairness of each worker (a task that loops for
  ever), of the debounce key and of the lock key (Redis expires keys), and strong fairness
  of `AcquireLock`: the reply to the SET is not lost each time. Nothing is
  assumed of clients: an accepted write may never be followed by another.
- `MergeQueue!FairSpec`: weak fairness of the part of a handler after its lock
  attempt (tokio runs it, unless the client leaves), of each consumer including
  delivery and reconnection, and of the lock's expiry. No client has to call, no
  replica has to restart.
- `RunNamespace!FairSpec`: weak fairness of each trigger (calls without waiting; a
  failing call ends it), of Tekton for the runs of each trigger, of the removal of a
  deleted claim, and of binding a claim *once a run waits for it* (a storage class
  may wait for the first consumer, so nothing binds claims before).
- `Backup!FairSpec`: weak fairness of the cron tick and of each backup that has
  begun. Developers need not push, and restarts are bounded by `setting`.
- `MigratedFiles!FairSpec`: weak fairness of pods and controller, of clients that have
  not been told an end, of requests that have begun and of the expiry of the key
  (every entry is stored with a TTL). Nobody has to push or to read.

The liveness runs of the push worker and of the merge queue exclude the `redis`
fault: a Redis that fails for ever starves the worker, which is no flaw of it.

## 4. What is proved

For any sets of replicas, writes, requests, hooks, lists, claims or readers, any faults
and any bounds, from the named assumptions on the constants (`PushAssumption`,
`QueueAssumption`, `OrgAssumption`, `NoneAssumption`, `PermissionsAssumption`,
`PipelineAssumption`, `NamespaceAssumption`, `BackupAssumption`, `MigrationAssumption`,
`CacheAssumption`, and `FilesAssumption` of the composition): sets are related
as the comments say, `None` is no value, bounds are naturals. The instances TLC
checks satisfy these assumptions, and TLC evaluates them. Each proof module builds an
inductive invariant from named parts (below, after "from"); type correctness is one.

Every safety property of a passing run is a theorem, and so is every refinement.
(`PrincipalsCoverRemote` is one for a single replica, which is all it is true of.)
Six more theorems (`NothingStrandedAlone`, `RunAllOrNoneUndisturbed`, `ExactOneByOne`,
`OneRunWhenSpaced`, `AuthorsWithoutOverlap`, `ForwardWithoutOverlap`) say that the exceptions
in those properties come from the hazards alone. Their hypotheses are conditions that
the code leaves to luck (how far apart requests, hooks and backups are), written beside
`Spec` as `[]`-formulas, as constant conditions, or in the conclusion; each leaves
behaviours in which everything happens that the conclusion speaks of.

`PushWorkerProofs`:

- `Exclusion`: `PushExclusive`, until a cycle outlives the TTL, from `LockOwned`: whoever is
  in a cycle owns the lock. It is needed because release and expiry look at no owner; a restart only
  makes an owner leave the section.
- `StrandedExposed`: `StrandedOnlyIfExposed` from `Contained` and `Covered`. `Covered`
  says of every landed write that it is on the server, exposed, or *on its way*: in
  its replica's tree or held by a handler that has truncated its list (`Held`), staged once
  the cycle is past `git add`, in the commit exactly while that commit is being pushed, with
  no other replica's cycle about to clear the flag, and with the flag up once it was marked.
  The property alone is not inductive: it says nothing of writes not yet acknowledged, nor
  of what the cycle holds. `Contained` (trees only hold landed writes) ties the sets together.
- `Refinement`: every behaviour of `PushWorker` is one of `AdminRemote`: a push
  only ever replaces master by a superset, made of writes some handler made.
- `PrincipalsCovered`: `PrincipalsCoverRemote` from `Synced`: with one replica each member the
  server has is in the tree (`InTree`), what a sync has read of the lists so far has it
  (`Reading`), and so has the file whenever the flag is down or about to be lowered
  (`InFile`), unless the list is being rewritten, was rewritten and the flag is up or will
  be, or was touched by a hazard; the flag is up through the cycles (`FlagUp`). It assumes a
  single replica, since each writes the file from its own tree, and no `sync` fault, since
  its failure is only logged; the run has both.
- `NothingStrandedAlone`: a single replica strands nothing by itself. While Redis, the server
  and the disk answer (the faults left are `reply`, `sync` and `ttl`), a write is lost only
  by `Hazard`: it lands after `git add` has looked, requests overlap on a list or one is
  rewriting it while `git add` copies, its client leaves before `mark_dirty`, or the replica
  restarts before the push.

`MergeQueueProofs`:

- `NoJobLost`: `AtLeastOnce` from `Accepted` (a message belongs to a queued request;
  from the release of the lock on its job has run).
- `NoRepeats`: from `Owned`: until a delivery is lost it stays with the consumer
  that works on it, and a merged job is about to be acknowledged.
- `Exclusion`, `OwnRelease`: from `Protected`: until a delivery is lost or a merge
  outlives the lock, the lock belongs to the one request with work left.
- `LiveBlocker`: `BlockerIsUnfinished`, from `Current`: a consumer deletes the
  record before it acknowledges, a handler writes it before it publishes.
- `Refinement`: every behaviour is one of `JobServer`, by the invariants above: a
  consumer begins only accepted jobs (`Accepted`), beside another or again only
  after trouble (`Protected`, `Owned`), and acknowledges what has run.

`OrgMergeProofs`:

- `NoWorkLost`: `MainKeepsWork`, a property of steps: a commit moves `main` only if its
  number is the one that was read, and by `Numbered` the tree is then also the one
  that was read, so the merged tree contains it. `Based` (outside `orphans` a branch
  has a merge base) is what makes the merge a merge.
- `LostExplained`: `LostOnlyIfRaced` from `WritesSafely`: whoever is about to write or
  to delete a branch holds, of each edit of that repository, a tree that contains it,
  or `main` has it, or it is already `forfeited`. The property alone says nothing of
  what a consumer or a squash read some steps ago.
- `PartialExplained`: `PartialOnlyIfDisturbed` from `Progress`: what each phase of a job
  knows of the candidates it has passed and of those it has left. A repository that
  stops being mergeable between the passes is in `excused` from then on.
- `RunAllOrNoneUndisturbed`: what the comment promises of every job (section 5) holds of a
  run that is alone (`OneJob`), over repositories with common histories and without
  errors (`Regular`), while nobody else moves a ref (no `Interference`). It is a theorem
  about each run by itself: a job that crashes after its first repository and runs again
  may still be partial, when a push in between makes the second one conflict.

`AdminPermissionsProofs`:

- `Published`: `AccessIsPublished` from `ConfInv`. `ReadSo`: what a regeneration has
  collected is what it should emit, of every list outside `behind`. `WritesAlone`: while
  a conf is empty its writer is alone, or everything is exposed. `Generated`: outside
  `exposed` the conf is right or some request is yet to regenerate it. `Scheduled`: the
  server has that conf, or a push is scheduled or about to be. `Listed` (a workspace
  without a directory has no list, since the directory is made first) makes the lists that
  are not read empty.
- `AddedKept`: `KeptUnlessDamaged` from `KeepsInv`: while a member is kept, each pending
  write of the list either contains it or comes after one that does; a second editor
  at the moment of a write damages the list.
- `Refinement`: every behaviour is one of `MemberLists`, from `ListsInv`: of an undamaged list
  at most one request is between truncation and fill, and who is about to truncate
  while nobody is holds the list as it is but for the one name it is about; a call that has
  been applied writes no list again.
- `ExactOneByOne`: of requests that are served one by one without errors no write is
  lost (`damaged` stays empty) and the published access is that of the registry, with no
  list excepted.

`PipelineTriggerProofs`:

- `OwnDefinitions`: `OwnDefinitionsUnlessCrossed` from `Undisturbed`: a hook that nothing
  crossed is the only active one until its runs are over, and the cluster holds what
  it has applied so far.
- `RunSurvives`: `SomeRunSurvives` from `Replaced`: while all runs of a pipeline are
  cancelled, a hook is about to create one, or one has failed. It rests on the order in
  the code, cancel first and create afterwards.
- `OneRun`: `OneRunUnlessMissed` from `Cancelling`: every run that goes on is among those
  a hook is about to cancel, or was `missed`.
- `OneRunWhenSpaced`: without errors, and with every hook beginning after the runs before
  it have started (`Spaced`), none is missed and a pipeline has one run that goes on.

`RunNamespaceProofs`:

- `BoundKept`, `NoneMissing`: from `AboutToDelete` (a claim about to be deleted is not
  bound unless `unlucky`) and `GoneIsRecreated` (of a claim that is going, or is gone
  although a trigger has provided it, somebody is about to create it again, unless
  `doomed`). `Placed` says where in its rounds a trigger is.
- `TokenNotOlder`, `TornExplained`, `TargetExplained`: from `TokenHeld`, `Torns` (where half
  a file can be: under an upload, with whoever read without the mutex, or anywhere once an
  upload was abandoned), `TargetHeld` (a target secret is foreign only if two branches share
  its name) and `TaskHeld` (a trigger that has applied its task, or has gone past it, is
  misled or the task names its secret).

`BackupProofs`:

- `Authors`: from `CopyFiltered` (past the rewriting a copy is rewritten, gone, or swapped).
- `NoOlder`: from `FetchedIsFresh` (clone and copy are, at every stage, empty or no older
  than the branch when the backup began).
- `AuthorsWithoutOverlap`: until two backups of one replica overlap nothing is swapped, so
  no author gets through, for any number of replicas.
- `ForwardWithoutOverlap`: GitHub is not given an older state of the branch (the twin's
  branch is no state of it), from `BegunAfter`: a backup
  at work has begun after GitHub got what it has. One replica is assumed, because backups
  of two replicas push in any order, overlapping or not on each.

`MigratedFilesProofs` (of the composition, which contains `DbMigration` and `FileCache`):

- `KeepsCommits`: `MainKeepsCommits` from `RepoInv`: every clone is a prefix of `main`, and
  git accepts a push only from a clone that is all of it.
- `TypeCorrect` includes that `main` stays within `MaxCommits`. It is inductive only with
  `Counted`: `main` is no longer than the first commit, the pushes of developers and one
  commit of each run that has ended and commits.
- `ToldMeansPushed`: `ToldIsPushed` from `Told`, because a status only says Completed once the
  push step is over, `main` keeps what was pushed, and a run that pushed nothing of its own
  is in `hidden`.
- `Refinement`: every step of a run or of a developer is, under `Version == Len(main)`, a
  push of `FileCache` or none, as the length only grows within the bound.
- `Forward`: `ReadsForward` from `FileInv` (`Bounded`, `Ordered`): until two readers meet or
  Redis fails, one request at a time is about to store, and what it holds and what is cached
  are as new as anything that was shown or is about to be.

Only model-checked: liveness (`AckedIsPushed`, `LockIsFreed`, `JobsFinish`,
`RunsStart`, `Mirrored`, `EndIsTold`, `EventuallyFresh`), because fairness is out of the
prover's reach. Nothing in the models is recursive. Runs do not repeat a `TypeOK` that
is proved, except where the bound on `main` is in question.

## 5. Where the code departs from its comments

Two are runs that TLC refutes:

- `redis_lock.rs:260`: after a failed push, "Release lock but keep dirty so we
  retry next window". `commit_and_push` returns Ok at `git.rs:79-82` when the tree
  is clean, which it is after the commit: the next cycle pushes nothing and lowers
  the flag (`push_doc_retry`).
- `merge_consumer.rs:9-12`: pass 1 is the "all-or-none gate". A branch without a
  merge base passes it, as does one whose scan fails, and fails in pass 2 after
  other repositories were merged (`org_doc_orphan`).

Others appear in the models as the exceptions that a property names:

- `redis_lock.rs:281` logs that the repository is clean after `clear_dirty`; a
  write that landed after `git add` is neither pushed nor flagged (`exposed`).
- `redis_lock.rs:23` calls the lock's TTL a hard cap on a push; nothing ends the
  push, only the lock goes (fault `ttl`).
- `redis_lock.rs:100-101`: the principals file "always reflects the current
  workspace membership"; each replica writes it from its own tree, so
  `PrincipalsCoverRemote` holds of a single replica and not of two, and a list that a
  request is rewriting is read empty.
- `merge_queue_handler.rs:8-9`: one merge at a time; true until the key expires
  during a merge or a job is redelivered while it runs (`Undisturbed`).
  `rabbit.rs:10-11` promises one consumer per request; the same redelivery.
- `merge_queue_handler.rs:20-21`: a conflict is a 409 that names the blocking
  request. The file's own `into_response` (195-205) drops the status code, and
  between the two `SET`s the holder is unknown; the models keep no status.
- `merge_queue_handler.rs:80`: 200 means enqueued; a failed publish is only logged.
- `merge_consumer.rs:239-240`: pass 1 excludes conflicts in pass 2; not of what is
  pushed in between (`excused`).
- `permissions.rs:176-177`: every slot is read; only those of workspaces that have
  a directory under `permissions/` (`Expected`).
- `handlers.rs:50`: "Member added"; two concurrent additions may lose one
  (`damaged`). `handler_pair_programming.rs:243`: "already has access" is said
  from the slot alone, although the conf may lack the rule (`exposed`).
- `pipeline_hook/kubectl.rs:115`: claims "exist and are Bound". They are neither
  awaited nor, after a 409 for an object on its way out, there (`doomed`); a claim that
  was bound after it was read as Pending is deleted with its data (`unlucky`).
- `kubectl_async.rs:178`: "Succeeded", "Failed", "Running", "Unknown". The reason of a
  terminated step is Completed or Error, and is passed on as it is; a run that failed before
  it had containers is Unknown for ever (`NeverStarts`).
- `handler_create_db_taskrun.rs:499`: "No changes to commit." is also what a commit
  without a message prints, or one that fails for any other reason; the run goes on and is
  reported as completed (`hidden`).
- `handler_create_db_taskrun.rs:294-296`: neither log nor status waits for the other;
  the reply waits for the end of the container, while its status was read earlier.
- `git.rs:318-320`: the copy is "always" rebuilt; a backup that overlaps replaces it
  under another one that has rewritten it, and authors get through (`swapped`).
- `yaml_transform.rs:26-29`: the deployment target is that of the run's branch;
  the transformed task has one name for all branches, and a run reads the secret of whoever
  applied it last (`crossed`, `misled`).
- `handle_run_pipeline.rs:14`: all tasks are applied; refused ones are skipped
  (`skipped`).

## 6. Not modelled

- HTTP wiring, authentication, configuration: no state.
- Repository queries (diff, commits, branches, highlighting): they only read git and
  keep nothing. Whether a reply has highlighted lines depends on the cache
  (`repo_handler.rs:569-582`); the model keeps no form of replies.
- Kubeconfig validation: `validate_tekton_kubeconfig` sends a merge-patch of the config map
  `feature-flags` to the cluster in the request (`handlers.rs:366-374, 439-451`), always with
  the same value, so that repeating it changes nothing; no modelled component reads it. The
  write that follows is in `PushWorker`.
- The text of the conf, of YAML (what is injected into tasks and pipelines) and of
  replies; glob matching; the names of repositories (the prefix `a-` also matches an
  organisation `a-b`). The one-line reading of the hook's input (`entrypoint.sh`).
- Branches `main` and `master` of a backup are pushed one after the other; the model
  has one. Repositories are backed up in turn; the model has one and, since directories can
  be shared (`git.rs:291`), its twin.
- A job of the merge queue over several runs: `AllOrNone` and `PartialOnlyIfDisturbed` are
  about one run (plan, item 1). The fate of a job whose publish failed.
- Time: TTLs and windows may expire at any moment the code does not exclude, so a
  bound on delay cannot be stated.

## 7. Plan

Done: all components that keep state, and proofs of all safety properties and
refinements. Next, in this order:

1. `MergeQueue` composed with `OrgMerge`: a redelivered job that runs beside itself, in
   place of the arbitrary second consumer that `OrgMerge` allows today.
2. What `RunNamespace` promises of triggers that are served one after the other, as
   for the registry and the hooks.
3. The pure functions of the pipeline hook (`should_trigger` with its globs, the
   injections of `yaml_transform.rs`) and of `build_conf`, against reference definitions
   over small inputs.
4. Writes that keep coming within the debounce window and put the push off without
   limit (`redis_lock.rs:221`): needs a model with time.
