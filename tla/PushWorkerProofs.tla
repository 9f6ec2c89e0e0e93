-------------------------- MODULE PushWorkerProofs --------------------------
(***************************************************************************)
(* Proofs about PushWorker for any number of replicas, writes and lists    *)
(* and any set of faults.                                                  *)
(***************************************************************************)
EXTENDS PushWorker, TLAPS

\* Trees, indexes, commits and what handlers read only hold writes that landed.
Contained ==
    /\ \A r \in Replicas : /\ tree[r] \subseteq Landed
                           /\ staged[r] \subseteq Landed
                           /\ head[r].files \subseteq head[r].past
                           /\ head[r].past \subseteq Landed
    /\ remote.files \subseteq remote.past
    /\ remote.past \subseteq Landed
    /\ \A w \in Writes : seen[w] \subseteq Landed
    /\ \A w \in Writes : req[w] # "new" => home[w] \in Replicas

\* A handler that rewrites the list of a write has it in memory.
Held(w) == \E v \in Writes : req[v] = "truncated" /\ home[v] = home[w] /\ w \in seen[v]

\* What keeps an unpushed write on its way to the server.
OnItsWay(w) ==
    /\ w \in tree[home[w]] \/ Held(w)
    /\ pc[home[w]] \in AfterAdd => w \in staged[home[w]]
    /\ w \in head[home[w]].past <=> pc[home[w]] = "push"
    /\ pc[home[w]] \notin {"sync", "fill", "clear"}
    /\ \A s \in Replicas : s # home[w] => pc[s] \notin BeforeClear
    /\ req[w] \in {"marked", "acked"} => dirty

Covered == \A w \in Landed : w \in Pushed \/ w \in exposed \/ OnItsWay(w)

\* Whoever is in a cycle owns the lock, until a cycle outlives its TTL.
LockOwned == ~overran => \A r \in Replicas : pc[r] \in Section => lock = r

-----------------------------------------------------------------------------
(* Type correctness, and what each kind of step leaves alone *)

LEMMA MatesAreWrites == \A w : Mates(w) \subseteq Writes
  BY PushAssumption DEF PushAssumption, Mates

LEMMA TypesInit == Init => TypeOK
<1>1. "idle" \in PCs /\ "new" \in Phases /\ 0 \in 0 .. MaxRestarts /\ Empty \in Commits
  BY PushAssumption DEF PushAssumption, PCs, Phases, Empty, Commits
<1>2. Init => /\ unread \in [Replicas -> SUBSET Lists] /\ gathered \in [Replicas -> SUBSET Writes]
              /\ seen \in [Writes -> SUBSET Writes] /\ head \in [Replicas -> Commits]
              /\ tree \in [Replicas -> SUBSET Writes] /\ staged \in [Replicas -> SUBSET Writes]
  BY <1>1 DEF Init
<1>3. Init => /\ pc \in [Replicas -> PCs] /\ req \in [Writes -> Phases]
              /\ home \in [Writes -> Replicas \union {None}]
  BY <1>1 DEF Init
<1>4. QED
  BY <1>1, <1>2, <1>3 DEF Init, TypeOK

HandlerMovesOnly(v) ==
    /\ UNCHANGED <<lock, staged, head, remote, sync, pc, restarts, overran>>
    /\ exposed \subseteq exposed'
    /\ dirty => dirty'
    /\ \A w \in Writes : w # v => req'[w] = req[w] /\ home'[w] = home[w] /\ seen'[w] = seen[w]
    /\ v \in Landed => v \in Landed' /\ home'[v] = home[v]

\* A request changes its own phase, home and memory, the tree of a replica, a key or the history.
LEMMA HandlerMoves ==
  ASSUME TypeOK, NEW v \in Writes, Handler(v)
  PROVE  HandlerMovesOnly(v)
<1> USE DEF NotTheWorker, Advance, Landed, TypeOK, repo
<1>1. ASSUME NEW r \in Replicas, BeginWrite(v, r) \/ WriteGuarded(v, r)
      PROVE  HandlerMovesOnly(v)
  BY <1>1 DEF BeginWrite, WriteGuarded, HandlerMovesOnly
<1>2. CASE ReadList(v) \/ Truncate(v) \/ Fill(v) \/ FillFails(v)
  BY <1>2 DEF ReadList, Truncate, Fill, FillFails, HandlerMovesOnly
<1>3. CASE MarkDirty(v) \/ SignalPending(v)
  BY <1>3 DEF MarkDirty, SignalPending, HandlerMovesOnly
<1>4. CASE ClientGone(v)
  BY <1>4 DEF ClientGone, HandlerMovesOnly
<1>5. QED
  BY <1>1, <1>2, <1>3, <1>4 DEF Handler, HandlerMovesOnly

LEMMA TypesHandler ==
  ASSUME TypeOK, NEW w \in Writes, Handler(w)
  PROVE  TypeOK'
<1> USE DEF TypeOK, Phases, repo, sync, NotTheWorker, Advance
<1>1. ASSUME NEW r \in Replicas, BeginWrite(w, r) \/ WriteGuarded(w, r)
      PROVE  TypeOK'
  BY <1>1 DEF BeginWrite, WriteGuarded
<1>2. CASE ReadList(w) \/ Truncate(w)
  <2>1. seen' \in [Writes -> SUBSET Writes]
    BY <1>2, MatesAreWrites DEF ReadList, Truncate
  <2>2. tree' \in [Replicas -> SUBSET Writes] /\ exposed' \in SUBSET Writes
    BY <1>2, MatesAreWrites DEF ReadList, Truncate, Dropped
  <2>3. QED
    BY <1>2, <2>1, <2>2 DEF ReadList, Truncate
<1>3. CASE Fill(w)
  <2>1. tree' \in [Replicas -> SUBSET Writes] /\ exposed' \in SUBSET Writes
    BY <1>3, MatesAreWrites DEF Fill, Dropped
  <2>2. QED
    BY <1>3, <2>1 DEF Fill
<1>4. CASE FillFails(w) \/ ClientGone(w)
  BY <1>4 DEF FillFails, ClientGone
<1>5. CASE MarkDirty(w) \/ SignalPending(w)
  BY <1>5 DEF MarkDirty, SignalPending
<1>6. QED
  BY <1>1, <1>2, <1>3, <1>4, <1>5 DEF Handler

\* A worker leaves the requests alone, and takes nothing from the server or the history.
LEMMA WorkerMoves ==
  ASSUME TypeOK, NEW r \in Replicas, Worker(r)
  PROVE  /\ UNCHANGED <<tree, req, home, seen, restarts, overran>>
         /\ exposed \subseteq exposed'
         /\ Pushed \subseteq Pushed'
         /\ \A s \in Replicas : s # r => pc'[s] = pc[s] /\ staged'[s] = staged[s] /\ head'[s] = head[s]
<1> USE DEF redis, repo, requests, OnlyPc, OnlySync, Goto, TypeOK, Pushed
<1>1. CASE PollDirty(r) \/ CheckWindow(r) \/ SkipTick(r) \/ LockContended(r)
  BY <1>1 DEF PollDirty, CheckWindow, SkipTick, LockContended
<1>2. CASE AcquireLock(r) \/ AcquireReplyLost(r) \/ LockRepo(r) \/ ReleaseLock(r) \/ ClearDirty(r)
  BY <1>2 DEF AcquireLock, AcquireReplyLost, LockRepo, ReleaseLock, ClearDirty
<1>3. CASE GitAdd(r) \/ GitStatus(r) \/ GitCommit(r) \/ NothingStaged(r)
  BY <1>3 DEF GitAdd, GitStatus, GitCommit, NothingStaged
<1>4. CASE PushAccepted(r) \/ PushReplyLost(r) \/ PushFailed(r)
  BY <1>4 DEF PushAccepted, PushReplyLost, PushFailed, FastForward
<1>5. CASE (\E l \in Lists : ReadMembers(r, l)) \/ TruncatePrincipals(r) \/ FillPrincipals(r) \/ SyncFails(r)
  BY <1>5 DEF ReadMembers, TruncatePrincipals, FillPrincipals, SyncFails
<1>6. QED
  BY <1>1, <1>2, <1>3, <1>4, <1>5 DEF Worker, Cycle

LEMMA TypesWorker ==
  ASSUME TypeOK, NEW r \in Replicas, Worker(r)
  PROVE  TypeOK'
<1> USE DEF TypeOK, PCs, Section, Mutexed, redis, repo, sync, requests, OnlyPc, OnlySync, Goto
<1>1. CASE PollDirty(r) \/ CheckWindow(r) \/ SkipTick(r) \/ LockContended(r)
  BY <1>1 DEF PollDirty, CheckWindow, SkipTick, LockContended
<1>2. CASE AcquireLock(r) \/ AcquireReplyLost(r) \/ ReleaseLock(r)
  BY <1>2 DEF AcquireLock, AcquireReplyLost, ReleaseLock, Foreign, Landed
<1>3. CASE LockRepo(r) \/ GitAdd(r) \/ GitStatus(r) \/ NothingStaged(r)
  BY <1>3 DEF LockRepo, GitAdd, GitStatus, NothingStaged, Local, Landed
<1>4. CASE GitCommit(r)
  <2>1. [files |-> staged[r], past |-> head[r].past \union staged[r]] \in Commits
    BY DEF Commits
  <2>2. QED
    BY <1>4, <2>1 DEF GitCommit
<1>5. CASE PushAccepted(r) \/ PushReplyLost(r) \/ PushFailed(r)
  BY <1>5 DEF PushAccepted, PushReplyLost, PushFailed, Commits
<1>6. CASE ClearDirty(r) \/ TruncatePrincipals(r)
  BY <1>6 DEF ClearDirty, TruncatePrincipals
<1>7. CASE FillPrincipals(r) \/ SyncFails(r)
  BY <1>7 DEF FillPrincipals, SyncFails, SyncOver
<1>8. ASSUME NEW l \in Lists, ReadMembers(r, l)
      PROVE  TypeOK'
  BY <1>8 DEF ReadMembers
<1>9. QED
  BY <1>1, <1>2, <1>3, <1>4, <1>5, <1>6, <1>7, <1>8 DEF Worker, Cycle

\* A restart moves the requests of its replica on and leaves the others alone.
LEMMA RestartMoves ==
  ASSUME TypeOK, NEW r \in Replicas, Restart(r), NEW w \in Writes
  PROVE  /\ home[w] # r => req'[w] = req[w]
         /\ home[w] = r => req'[w] = CutOff(req[w])
         /\ req'[w] = "new" => home'[w] = None /\ seen'[w] = {}
         /\ req'[w] # "new" => home'[w] = home[w] /\ seen'[w] = seen[w] /\ req[w] # "new"
         /\ w \in Landed <=> w \in Landed'
         /\ req'[w] \in Phases
BY DEF Restart, CutOff, Landed, TypeOK, Phases

LEMMA TypesRestart ==
  ASSUME TypeOK, NEW r \in Replicas, Restart(r)
  PROVE  TypeOK'
<1> USE PushAssumption DEF PushAssumption, TypeOK, redis
<1>1. req' \in [Writes -> Phases]
  <2>1. \A w \in Writes : req'[w] \in Phases
    BY RestartMoves
  <2>2. QED
    BY <2>1 DEF Restart
<1>2. home' \in [Writes -> Replicas \union {None}] /\ seen' \in [Writes -> SUBSET Writes]
  BY DEF Restart
<1>3. remote.files \in SUBSET Writes
  BY DEF Commits
<1>4. tree' \in [Replicas -> SUBSET Writes] /\ staged' \in [Replicas -> SUBSET Writes]
  BY <1>3 DEF Restart
<1>5. exposed' \in SUBSET Writes
  BY DEF Restart, Local, Landed
<1>6. "idle" \in PCs
  BY DEF PCs
<1>7. /\ unread' \in [Replicas -> SUBSET Lists] /\ gathered' \in [Replicas -> SUBSET Writes]
      /\ head' \in [Replicas -> Commits] /\ pc' \in [Replicas -> PCs]
  BY <1>6 DEF Restart, SyncOver
<1>8. restarts' \in 0 .. MaxRestarts
  BY DEF Restart
<1>9. QED
  BY <1>1, <1>2, <1>4, <1>5, <1>7, <1>8 DEF Restart

LEMMA TypesTime ==
  ASSUME TypeOK, DebounceExpires \/ LockExpires \/ UNCHANGED vars
  PROVE  TypeOK'
<1>1. CASE DebounceExpires \/ LockExpires
  BY <1>1 DEF TypeOK, DebounceExpires, LockExpires, repo, sync, requests, Section, Mutexed
<1>2. CASE UNCHANGED vars
  BY <1>2 DEF TypeOK, vars, redis, repo, sync, requests
<1>3. QED
  BY <1>1, <1>2

\* Every variable of the push worker keeps its type.
THEOREM TypeCorrect == Spec => []TypeOK
<1>1. TypeOK /\ [Next]_vars => TypeOK'
  BY TypesHandler, TypesWorker, TypesRestart, TypesTime DEF Next
<1>2. QED
  BY TypesInit, <1>1, PTL DEF Spec

-----------------------------------------------------------------------------
(* Mutual exclusion of the cycles *)

LEMMA LockOwnedInit == Init => LockOwned
  BY DEF Init, LockOwned, Section, Mutexed

LEMMA LockOwnedStep == TypeOK /\ LockOwned /\ [Next]_vars => LockOwned'
<1> SUFFICES ASSUME TypeOK, LockOwned, [Next]_vars, ~overran',
                    NEW s \in Replicas, pc'[s] \in Section
             PROVE  lock' = s
  BY DEF LockOwned
<1>0. /\ pc \in [Replicas -> PCs]
      /\ ~overran => \A r \in Replicas : pc[r] \in Section => lock = r
      /\ None \notin Replicas
  BY PushAssumption DEF TypeOK, LockOwned, PushAssumption
<1> USE DEF Section, Mutexed, redis, OnlyPc, OnlySync, Goto
<1>1. ASSUME NEW w \in Writes, Handler(w)
      PROVE  lock' = s
  BY <1>0, <1>1, HandlerMoves DEF HandlerMovesOnly
<1>2. ASSUME NEW r \in Replicas, Worker(r)
      PROVE  lock' = s
  <2>0. ~overran
    BY <1>2, WorkerMoves
  <2>1. CASE PollDirty(r) \/ CheckWindow(r) \/ SkipTick(r) \/ LockContended(r)
    BY <1>0, <2>0, <2>1 DEF PollDirty, CheckWindow, SkipTick, LockContended
  <2>2. CASE AcquireLock(r) \/ AcquireReplyLost(r)
    BY <1>0, <2>0, <2>2 DEF AcquireLock, AcquireReplyLost
  <2>3. CASE LockRepo(r) \/ GitAdd(r) \/ GitStatus(r) \/ GitCommit(r) \/ NothingStaged(r)
    BY <1>0, <2>0, <2>3 DEF LockRepo, GitAdd, GitStatus, GitCommit, NothingStaged
  <2>4. CASE PushAccepted(r) \/ PushReplyLost(r) \/ PushFailed(r)
    BY <1>0, <2>0, <2>4 DEF PushAccepted, PushReplyLost, PushFailed
  <2>5. CASE (\E l \in Lists : ReadMembers(r, l)) \/ TruncatePrincipals(r)
    BY <1>0, <2>0, <2>5 DEF ReadMembers, TruncatePrincipals
  <2>6. CASE FillPrincipals(r) \/ SyncFails(r) \/ ClearDirty(r)
    BY <1>0, <2>0, <2>6 DEF FillPrincipals, SyncFails, ClearDirty
  <2>7. CASE ReleaseLock(r)
    BY <1>0, <2>0, <2>7 DEF ReleaseLock
  <2>8. QED
    BY <1>2, <2>1, <2>2, <2>3, <2>4, <2>5, <2>6, <2>7 DEF Worker, Cycle
<1>3. ASSUME NEW r \in Replicas, Restart(r)
      PROVE  lock' = s
  BY <1>0, <1>3 DEF Restart
<1>4. CASE DebounceExpires \/ LockExpires
  BY <1>0, <1>4 DEF DebounceExpires, LockExpires
<1>5. CASE UNCHANGED vars
  BY <1>0, <1>5 DEF vars
<1>6. QED
  BY <1>1, <1>2, <1>3, <1>4, <1>5 DEF Next

\* At most one replica is inside a push cycle, until a cycle outlives the TTL.
THEOREM Exclusion == Spec => []PushExclusive
<1>1. LockOwned => PushExclusive
  BY DEF LockOwned, PushExclusive
<1>2. QED
  BY <1>1, LockOwnedInit, LockOwnedStep, TypeCorrect, PTL DEF Spec

-----------------------------------------------------------------------------
(* Everything a tree, an index, a commit or a handler holds has landed *)

LEMMA ContainedInit == Init => Contained
  BY DEF Init, Empty, Contained, Landed

\* No step un-lands a write.
LEMMA LandedGrows == TypeOK /\ [Next]_vars => Landed \subseteq Landed'
<1> SUFFICES ASSUME TypeOK, [Next]_vars, NEW w \in Writes, w \in Landed
             PROVE  w \in Landed'
  BY DEF Landed
<1>1. ASSUME NEW v \in Writes, Handler(v)
      PROVE  w \in Landed'
  BY <1>1, HandlerMoves DEF HandlerMovesOnly, Landed
<1>2. ASSUME NEW r \in Replicas, Worker(r)
      PROVE  w \in Landed'
  BY <1>2, WorkerMoves DEF Landed
<1>3. ASSUME NEW r \in Replicas, Restart(r)
      PROVE  w \in Landed'
  BY <1>3, RestartMoves
<1>4. CASE DebounceExpires \/ LockExpires \/ UNCHANGED vars
  BY <1>4 DEF DebounceExpires, LockExpires, vars, requests, Landed
<1>5. QED
  BY <1>1, <1>2, <1>3, <1>4 DEF Next

LEMMA ContainedHandler ==
  ASSUME TypeOK, Contained, NEW w \in Writes, Handler(w), Landed \subseteq Landed'
  PROVE  Contained'
<1>0. /\ tree \in [Replicas -> SUBSET Writes] /\ req \in [Writes -> Phases]
      /\ home \in [Writes -> Replicas \union {None}] /\ seen \in [Writes -> SUBSET Writes]
  BY DEF TypeOK
<1>1. UNCHANGED <<staged, head, remote>>
  BY HandlerMoves DEF HandlerMovesOnly
<1>2. ASSUME NEW r \in Replicas
      PROVE  tree'[r] \subseteq Landed'
  <2>1. ASSUME NEW q \in Replicas, BeginWrite(w, q) \/ WriteGuarded(w, q)
        PROVE  tree'[r] \subseteq Landed'
    BY <1>0, <2>1 DEF BeginWrite, WriteGuarded, Contained, Landed, Advance
  <2>2. CASE ReadList(w) \/ Truncate(w)
    BY <1>0, <2>2 DEF ReadList, Truncate, Contained
  <2>3. CASE Fill(w)
    <3>1. w \in Landed'
      BY <1>0, <2>3 DEF Fill, Advance, Landed
    <3>2. tree'[r] \subseteq tree[r] \union seen[w] \union {w}
      BY <1>0, <2>3 DEF Fill
    <3>3. QED
      BY <3>1, <3>2 DEF Contained
  <2>4. CASE FillFails(w) \/ MarkDirty(w) \/ SignalPending(w) \/ ClientGone(w)
    BY <2>4 DEF FillFails, MarkDirty, SignalPending, ClientGone, Contained, repo
  <2>5. QED
    BY <2>1, <2>2, <2>3, <2>4 DEF Handler
<1>3. ASSUME NEW v \in Writes
      PROVE  seen'[v] \subseteq Landed' /\ (req'[v] # "new" => home'[v] \in Replicas)
  <2>1. ASSUME NEW q \in Replicas, BeginWrite(w, q) \/ WriteGuarded(w, q)
        PROVE  seen'[v] = seen[v] /\ (req'[v] # "new" => home'[v] \in Replicas)
    BY <1>0, <2>1 DEF BeginWrite, WriteGuarded, Contained, Advance
  <2>2. CASE ReadList(w)
    <3>1. req[w] # "new"
      BY <2>2 DEF ReadList, Advance
    <3>2. seen'[v] \subseteq seen[v] \union tree[home[w]] /\ home' = home /\ home[w] \in Replicas
      BY <1>0, <2>2, <3>1 DEF ReadList, Contained
    <3>3. QED
      BY <1>0, <2>2, <3>1, <3>2 DEF ReadList, Contained, Advance
  <2>3. CASE Truncate(w) \/ Fill(w) \/ FillFails(w) \/ MarkDirty(w) \/ SignalPending(w) \/ ClientGone(w)
    BY <1>0, <2>3 DEF Truncate, Fill, FillFails, MarkDirty, SignalPending, ClientGone, Contained, Advance
  <2>4. QED
    BY <2>1, <2>2, <2>3 DEF Handler, Contained
<1>4. QED
  BY <1>1, <1>2, <1>3 DEF Contained

LEMMA ContainedWorker ==
  ASSUME TypeOK, Contained, NEW r \in Replicas, Worker(r), Landed \subseteq Landed'
  PROVE  Contained'
<1>0. /\ staged \in [Replicas -> SUBSET Writes] /\ head \in [Replicas -> Commits]
      /\ UNCHANGED <<tree, req, home, seen>>
  BY WorkerMoves DEF TypeOK
<1> USE <1>0 DEF Contained, repo
<1>1. CASE GitAdd(r)
  BY <1>1 DEF GitAdd
<1>2. CASE GitCommit(r)
  <2>1. head'[r] = [files |-> staged[r], past |-> head[r].past \union staged[r]]
    BY <1>2 DEF GitCommit
  <2>2. QED
    BY <1>2, <2>1 DEF GitCommit
<1>3. CASE PushAccepted(r) \/ PushReplyLost(r)
  BY <1>3 DEF PushAccepted, PushReplyLost
<1>4. CASE UNCHANGED <<repo, remote>>
  BY <1>4
<1>5. QED
  BY <1>1, <1>2, <1>3, <1>4
     DEF Worker, Cycle, PollDirty, CheckWindow, SkipTick, AcquireLock, LockContended, AcquireReplyLost,
         LockRepo, GitStatus, NothingStaged, PushFailed, ReadMembers, TruncatePrincipals,
         FillPrincipals, SyncFails, ClearDirty, ReleaseLock, OnlyPc, OnlySync

LEMMA ContainedStep == TypeOK /\ Contained /\ [Next]_vars => Contained'
<1> SUFFICES ASSUME TypeOK, Contained, [Next]_vars
             PROVE  Contained'
  OBVIOUS
<1>0. Landed \subseteq Landed'
  BY LandedGrows
<1>1. ASSUME NEW r \in Replicas, Restart(r)
      PROVE  Contained'
  <2>0. /\ tree \in [Replicas -> SUBSET Writes] /\ staged \in [Replicas -> SUBSET Writes]
        /\ head \in [Replicas -> Commits]
    BY DEF TypeOK
  <2>1. ASSUME NEW s \in Replicas
        PROVE  /\ tree'[s] \subseteq tree[s] \union remote.files
               /\ staged'[s] \subseteq staged[s] \union remote.files
               /\ head'[s] = head[s] \/ head'[s] = remote
    BY <1>1, <2>0 DEF Restart
  <2>2. ASSUME NEW w \in Writes
        PROVE  seen'[w] \subseteq Landed' /\ (req'[w] # "new" => home'[w] \in Replicas)
    BY <1>0, <1>1, RestartMoves DEF Contained
  <2>3. remote' = remote
    BY <1>1 DEF Restart
  <2>4. QED
    BY <1>0, <2>1, <2>2, <2>3 DEF Contained
<1>2. CASE DebounceExpires \/ LockExpires \/ UNCHANGED vars
  BY <1>0, <1>2 DEF DebounceExpires, LockExpires, vars, repo, requests, Contained
<1>3. QED
  BY <1>0, <1>1, <1>2, ContainedHandler, ContainedWorker DEF Next

-----------------------------------------------------------------------------
(* Nothing but a hazard takes an unpushed write off its way *)

LEMMA CoveredInit == Init => Covered
  BY DEF Init, Covered, Landed

\* What has landed stays in the tree or in the memory of a handler, or meets a hazard.
LEMMA StaysAround ==
  ASSUME TypeOK, Contained, NEW v \in Writes, Handler(v), NEW w \in Landed, w \notin exposed',
         w \in tree[home[w]] \/ Held(w)
  PROVE  (w \in tree[home[w]] \/ Held(w))'
<1>0. /\ w \in Writes /\ home[w] \in Replicas /\ home'[w] = home[w]
      /\ tree \in [Replicas -> SUBSET Writes] /\ req \in [Writes -> Phases]
      /\ home \in [Writes -> Replicas \union {None}] /\ seen \in [Writes -> SUBSET Writes]
      /\ \A u \in Writes : u # v => req'[u] = req[u] /\ home'[u] = home[u] /\ seen'[u] = seen[u]
  BY HandlerMoves DEF HandlerMovesOnly, Landed, Contained, TypeOK
<1> USE <1>0 DEF Held
<1>1. ASSUME NEW r \in Replicas, BeginWrite(v, r) \/ WriteGuarded(v, r)
      PROVE  (w \in tree[home[w]] \/ Held(w))'
  BY <1>1 DEF BeginWrite, WriteGuarded, Advance
<1>2. CASE ReadList(v)
  BY <1>2 DEF ReadList, Advance
<1>3. CASE Truncate(v)
  <2>1. /\ tree' = [tree EXCEPT ![home[v]] = @ \ Mates(v)]
        /\ req'[v] = "truncated" /\ home' = home /\ seen' = seen
        /\ w \notin Dropped(v)
    BY <1>3 DEF Truncate, Advance
  <2>2. CASE w \in tree[home[w]] /\ home[v] = home[w] /\ w \in Mates(v)
    BY <2>1, <2>2 DEF Dropped
  <2>3. CASE w \in tree[home[w]] /\ ~(home[v] = home[w] /\ w \in Mates(v))
    BY <2>1, <2>3
  <2>4. CASE Held(w)
    BY <1>3, <2>1, <2>4 DEF Truncate, Advance
  <2>5. QED
    BY <2>2, <2>3, <2>4
<1>4. CASE Fill(v)
  <2>1. /\ tree' = [tree EXCEPT ![home[v]] = (@ \ Mates(v)) \union seen[v] \union {v}]
        /\ home' = home /\ seen' = seen
        /\ w \notin Dropped(v)
    BY <1>4 DEF Fill
  <2>2. CASE w \in tree[home[w]]
    BY <2>1, <2>2 DEF Dropped
  <2>3. ASSUME NEW u \in Writes, req[u] = "truncated", home[u] = home[w], w \in seen[u]
        PROVE  (w \in tree[home[w]] \/ Held(w))'
    BY <2>1, <2>3
  <2>4. QED
    BY <2>2, <2>3
<1>5. CASE FillFails(v)
  BY <1>5 DEF FillFails, Advance
<1>6. CASE MarkDirty(v) \/ SignalPending(v) \/ ClientGone(v)
  BY <1>6 DEF MarkDirty, SignalPending, ClientGone, Advance, repo
<1>7. QED
  BY <1>1, <1>2, <1>3, <1>4, <1>5, <1>6 DEF Handler

\* Handlers: a write that lands outside of every cycle is on its way, and the
\* two calls of schedule_push keep it there.
LEMMA CoveredHandler ==
  ASSUME TypeOK, Contained, Covered, NEW v \in Writes, Handler(v)
  PROVE  Covered'
<1> SUFFICES ASSUME NEW w \in Writes, w \in Landed', w \notin Pushed', w \notin exposed'
             PROVE  OnItsWay(w)'
  BY DEF Covered, Landed
<1>0. /\ UNCHANGED <<pc, staged, head, remote>>
      /\ exposed \subseteq exposed'
      /\ dirty => dirty'
      /\ req \in [Writes -> Phases] /\ tree \in [Replicas -> SUBSET Writes]
      /\ home \in [Writes -> Replicas \union {None}] /\ pc \in [Replicas -> PCs]
      /\ seen \in [Writes -> SUBSET Writes]
      /\ None \notin Replicas
  BY HandlerMoves, PushAssumption DEF HandlerMovesOnly, TypeOK, PushAssumption
<1>1. CASE w \in Landed
  <2>1. OnItsWay(w) /\ home'[w] = home[w] /\ home[w] \in Replicas
    BY <1>0, <1>1, HandlerMoves DEF HandlerMovesOnly, Covered, Contained, Landed, Pushed
  <2>2. (w \in tree[home[w]] \/ Held(w))'
    BY <1>1, <2>1, StaysAround DEF OnItsWay
  <2>3. req'[w] \in {"marked", "acked"} => dirty'
    <3>1. CASE req'[w] = req[w]
      BY <1>0, <2>1, <3>1 DEF OnItsWay
    <3>2. CASE v = w /\ MarkDirty(w)
      BY <3>2 DEF MarkDirty
    <3>3. CASE v = w /\ SignalPending(w)
      BY <1>0, <2>1, <3>3 DEF SignalPending, Advance, OnItsWay
    <3>4. CASE v = w /\ ClientGone(w)
      BY <1>0, <3>4 DEF ClientGone
    <3>5. CASE v = w /\ ~MarkDirty(w) /\ ~SignalPending(w) /\ ~ClientGone(w)
      BY <1>1, <3>5 DEF Handler, BeginWrite, WriteGuarded, ReadList, Truncate, Fill, FillFails,
                        Advance, Landed
    <3>6. QED
      BY <3>1, <3>2, <3>3, <3>4, <3>5, HandlerMoves DEF HandlerMovesOnly
  <2>4. QED
    BY <1>0, <2>1, <2>2, <2>3 DEF OnItsWay
<1>2. CASE w \notin Landed
  <2>1. ASSUME NEW r \in Replicas, home'[w] = r, w \in tree'[r], ~Overtaken(r), req'[w] = "written"
        PROVE  OnItsWay(w)'
    <3>1. w \notin head[r].past
      BY <1>2 DEF Contained
    <3>2. QED
      BY <1>0, <2>1, <3>1 DEF OnItsWay, Overtaken, AfterAdd
  <2>2. v = w
    BY <1>2, HandlerMoves DEF HandlerMovesOnly, Landed
  <2>3. ASSUME NEW r \in Replicas, WriteGuarded(w, r)
        PROVE  OnItsWay(w)'
    BY <1>0, <2>1, <2>3 DEF WriteGuarded, Advance
  <2>4. CASE Fill(w)
    <3>1. home[w] \in Replicas /\ home' = home /\ req'[w] = "written"
      BY <1>0, <2>4 DEF Fill, Advance, Contained
    <3>2. w \in tree'[home[w]] /\ ~Overtaken(home[w])
      BY <1>0, <2>4, <3>1 DEF Fill
    <3>3. QED
      BY <2>1, <3>1, <3>2
  <2>5. ~Fill(w) /\ (\A r \in Replicas : ~WriteGuarded(w, r)) => FALSE
    BY <1>0, <1>2, <2>2 DEF Handler, BeginWrite, ReadList, Truncate, FillFails, MarkDirty,
         SignalPending, ClientGone, Advance, Landed
  <2>6. QED
    BY <2>3, <2>4, <2>5
<1>3. QED
  BY <1>1, <1>2

\* Worker steps: a cycle of the write's own replica takes it from the tree to
\* the server or exposes it; one of another replica finds it pushed or exposed.
LEMMA CoveredWorker ==
  ASSUME TypeOK, Contained, Covered, NEW r \in Replicas, Worker(r)
  PROVE  Covered'
<1> USE DEF redis, repo, OnlyPc, OnlySync, Goto
<1>0. /\ UNCHANGED <<tree, req, home, seen>>
      /\ exposed \subseteq exposed'
      /\ Pushed \subseteq Pushed'
  BY WorkerMoves
<1> SUFFICES ASSUME NEW w \in Writes, w \in Landed', w \notin Pushed', w \notin exposed'
             PROVE  OnItsWay(w)'
  BY DEF Covered, Landed
<1>1. /\ w \in Landed /\ w \notin Pushed /\ w \notin exposed
      /\ home[w] \in Replicas
      /\ OnItsWay(w)
  BY <1>0 DEF Landed, Covered, Contained
<1>2. /\ pc \in [Replicas -> PCs]
      /\ staged \in [Replicas -> SUBSET Writes]
      /\ head \in [Replicas -> Commits]
      /\ \A s \in Replicas : head[s].files \subseteq head[s].past
  BY DEF TypeOK, Contained
<1>h. Held(w)' <=> Held(w)
  BY <1>0 DEF Held
<1> USE <1>0, <1>1, <1>2, <1>h DEF OnItsWay
<1>3. CASE PollDirty(r) \/ CheckWindow(r) \/ SkipTick(r) \/ LockContended(r)
           \/ AcquireReplyLost(r)
  BY <1>3 DEF PollDirty, CheckWindow, SkipTick, LockContended, AcquireReplyLost,
              AfterAdd, BeforeClear
<1>4. CASE AcquireLock(r)
  <2>1. home[w] = r
    BY <1>4 DEF AcquireLock, Foreign
  <2>2. QED
    BY <1>4, <2>1 DEF AcquireLock, AfterAdd, BeforeClear
<1>5. CASE LockRepo(r)
  BY <1>5 DEF LockRepo, AfterAdd, BeforeClear
<1>6. CASE GitAdd(r)
  <2>1. home[w] = r => w \in tree[r]
    BY <1>6 DEF GitAdd, Local
  <2>2. QED
    BY <1>6, <2>1 DEF GitAdd, AfterAdd, BeforeClear
<1>7. CASE GitStatus(r)
  BY <1>7 DEF GitStatus, CleanTree, AfterAdd, BeforeClear
<1>8. CASE GitCommit(r)
  <2>1. /\ pc' = [pc EXCEPT ![r] = "push"] /\ pc[r] = "commit" /\ UNCHANGED <<staged, dirty>>
        /\ head'[r].past = head[r].past \union staged[r]
        /\ \A s \in Replicas : s # r => head'[s] = head[s]
    BY <1>8 DEF GitCommit
  <2>2. QED
    BY <2>1 DEF AfterAdd, BeforeClear
<1>9. CASE NothingStaged(r)
  BY <1>9 DEF NothingStaged, AfterAdd, BeforeClear
<1>10. CASE PushAccepted(r) \/ PushReplyLost(r) \/ PushFailed(r)
  BY <1>10 DEF PushAccepted, PushReplyLost, PushFailed, AfterAdd, BeforeClear, Pushed
<1>11. CASE (\E l \in Lists : ReadMembers(r, l)) \/ TruncatePrincipals(r)
  BY <1>11 DEF ReadMembers, TruncatePrincipals, AfterAdd, BeforeClear
<1>12. CASE FillPrincipals(r) \/ SyncFails(r)
  BY <1>12 DEF FillPrincipals, SyncFails, AfterAdd, BeforeClear
<1>13. CASE ClearDirty(r)
  BY <1>13 DEF ClearDirty, AfterAdd, BeforeClear
<1>14. CASE ReleaseLock(r)
  BY <1>14 DEF ReleaseLock, AfterAdd, BeforeClear
<1>15. QED
  BY <1>3, <1>4, <1>5, <1>6, <1>7, <1>8, <1>9, <1>10, <1>11, <1>12, <1>13, <1>14 DEF Worker, Cycle

\* A restart exposes what its replica had not pushed and touches no other's.
LEMMA CoveredRestart ==
  ASSUME TypeOK, Contained, Covered, NEW r \in Replicas, Restart(r)
  PROVE  Covered'
<1> SUFFICES ASSUME NEW w \in Writes, w \in Landed', w \notin Pushed', w \notin exposed'
             PROVE  OnItsWay(w)'
  BY DEF Covered, Landed
<1>1. /\ pc' = [pc EXCEPT ![r] = "idle"] /\ remote' = remote /\ dirty' = dirty
      /\ exposed \subseteq exposed' /\ Local(r) \subseteq exposed'
      /\ staged' = [staged EXCEPT ![r] = remote.files]
      /\ head' = [head EXCEPT ![r] = remote]
      /\ \E T : tree' = [tree EXCEPT ![r] = T]
  BY DEF Restart, redis
<1>2. /\ pc \in [Replicas -> PCs]
      /\ tree \in [Replicas -> SUBSET Writes]
      /\ staged \in [Replicas -> SUBSET Writes]
      /\ head \in [Replicas -> Commits]
  BY DEF TypeOK
<1>3. w \in Landed /\ w \notin Pushed
  BY <1>1, RestartMoves DEF Pushed
<1>4. home[w] \in Replicas /\ home[w] # r /\ OnItsWay(w)
  BY <1>1, <1>3 DEF Local, Contained, Landed, Covered
<1>5. home'[w] = home[w] /\ req'[w] = req[w]
  BY <1>3, <1>4, RestartMoves DEF Landed
<1>6. Held(w) => Held(w)'
  <2>1. ASSUME NEW v \in Writes, req[v] = "truncated", home[v] = home[w], w \in seen[v]
        PROVE  req'[v] = "truncated" /\ home'[v] = home'[w] /\ w \in seen'[v]
    BY <1>4, <1>5, <2>1, RestartMoves
  <2>2. QED
    BY <2>1 DEF Held
<1>7. QED
  BY <1>1, <1>2, <1>4, <1>5, <1>6 DEF OnItsWay, BeforeClear, AfterAdd

LEMMA CoveredStep == TypeOK /\ Contained /\ Covered /\ [Next]_vars => Covered'
<1> SUFFICES ASSUME TypeOK, Contained, Covered, [Next]_vars
             PROVE  Covered'
  OBVIOUS
<1>1. CASE DebounceExpires \/ LockExpires \/ UNCHANGED vars
  BY <1>1 DEF DebounceExpires, LockExpires, vars, redis, repo, requests, Covered, OnItsWay, Held,
              Landed, Pushed
<1>2. QED
  BY <1>1, CoveredHandler, CoveredWorker, CoveredRestart DEF Next

LEMMA Inductive == Spec => [](TypeOK /\ Contained /\ Covered)
  BY TypeCorrect, ContainedInit, ContainedStep, CoveredInit, CoveredStep, PTL DEF Spec

\* An acknowledged write that is neither pushed nor flagged has met a hazard:
\* the list of the hazards is complete for every deployment and fault.
THEOREM StrandedExposed == Spec => []StrandedOnlyIfExposed
<1>1. Contained /\ Covered => StrandedOnlyIfExposed
  BY DEF Covered, OnItsWay, StrandedOnlyIfExposed, Landed
<1>2. QED
  BY <1>1, Inductive, PTL

-----------------------------------------------------------------------------
(* Refinement *)

\* The handlers and workers implement the abstract remote: pushes publish only
\* what landed and never take a published commit back.
THEOREM Refinement == Spec => ImplementsRemote
<1>1. Init => Remote!Init
  BY DEF Init, Empty, Remote!Init, Landed, Pushed
<1>2. TypeOK /\ Contained /\ [Next]_vars => [Remote!Next]_<<Landed, Pushed>>
  <2> SUFFICES ASSUME TypeOK, Contained, [Next]_vars
               PROVE  [Remote!Next]_<<Landed, Pushed>>
    OBVIOUS
  <2>0. req \in [Writes -> Phases]
    BY DEF TypeOK
  <2>1. ASSUME NEW w \in Writes, Handler(w)
        PROVE  [Remote!Next]_<<Landed, Pushed>>
    <3>1. Pushed' = Pushed
      BY <2>1, HandlerMoves DEF HandlerMovesOnly, Pushed
    <3>2. Landed' = Landed \/ (w \notin Landed /\ Landed' = Landed \union {w})
      BY <2>0, <2>1, HandlerMoves DEF HandlerMovesOnly, Landed
    <3>3. QED
      BY <3>1, <3>2 DEF Remote!Next, Remote!Accept
  <2>2. ASSUME NEW r \in Replicas, Worker(r)
        PROVE  [Remote!Next]_<<Landed, Pushed>>
    <3>1. Landed' = Landed
      BY <2>2, WorkerMoves DEF Landed
    <3>2. Pushed' = Pushed \/ (FastForward(r) /\ Pushed' = head[r].past)
      BY <2>2 DEF Worker, Cycle, PollDirty, CheckWindow, SkipTick, AcquireLock, LockContended,
           AcquireReplyLost, LockRepo, GitAdd, GitStatus, GitCommit, NothingStaged, PushAccepted,
           PushReplyLost, PushFailed, ReadMembers, TruncatePrincipals, FillPrincipals, SyncFails,
           ClearDirty, ReleaseLock, OnlyPc, OnlySync, Pushed
    <3>3. QED
      BY <3>1, <3>2 DEF Remote!Next, Remote!Publish, Contained, FastForward
  <2>3. ASSUME NEW r \in Replicas, Restart(r)
        PROVE  UNCHANGED <<Landed, Pushed>>
    <3>1. Landed' = Landed
      BY <2>3, RestartMoves DEF Landed
    <3>2. QED
      BY <2>3, <3>1 DEF Restart, Pushed
  <2>4. CASE DebounceExpires \/ LockExpires \/ UNCHANGED vars
    BY <2>4 DEF DebounceExpires, LockExpires, vars, requests, Landed, Pushed
  <2>5. QED
    BY <2>1, <2>2, <2>3, <2>4 DEF Next
<1>3. QED
  BY <1>1, <1>2, Inductive, PTL DEF Spec, ImplementsRemote, Remote!Spec

-----------------------------------------------------------------------------
(* The principals file of a single replica *)

OneReplica == \A r, s \in Replicas : r = s

\* A member is in a set, or kept out of it by a handler that has its list open or that a
\* hazard has touched.
Touched(w)      == \E v \in Mates(w) : v \in exposed
BeingWritten(w) == \E v \in Mates(w) : req[v] = "truncated" /\ w \in seen[v]
Around(w, S)    == w \in S \/ Touched(w) \/ BeingWritten(w)

\* A list was rewritten and the flag does not tell of it yet.
Unannounced(w) == \E v \in Mates(w) : req[v] = "written" /\ v \notin Pushed

\* What is committed is around in the tree, what a sync has read of it in its memory, what
\* it wrote in the file; the flag is up through a cycle, and once it is down the file has
\* the members of the server but those a handler is still going to announce.
InTree == \A r \in Replicas : \A w \in Members :
              w \in remote.files \union head[r].files \union staged[r] => Around(w, tree[r])
FlagUp == \A r \in Replicas : pc[r] \notin {"idle", "release"} => dirty
Reading == \A r \in Replicas :
    /\ pc[r] \notin {"sync", "fill"} => unread[r] = Lists
    /\ pc[r] = "fill" => unread[r] = {}
    /\ pc[r] \in {"sync", "fill"} =>
         \A l \in Lists \ unread[r] : \A w \in remote.files \intersect l : Around(w, gathered[r])
    /\ pc[r] = "clear" => \A w \in remote.files \intersect Members : Around(w, principals)
InFile == ~dirty => \A w \in remote.files \intersect Members :
                       Around(w, principals) \/ Unannounced(w)

Synced == InTree /\ FlagUp /\ Reading /\ InFile

LEMMA MatesFacts ==
  /\ \A w \in Members : w \in Mates(w)
  /\ \A v, w : v \in Mates(w) => w \in Mates(v) /\ w \in Members /\ v \in Writes
BY PushAssumption DEF PushAssumption, Mates, Members

\* A handler keeps a member around, wherever it is, unless it lets go of the list inside
\* a cycle, and then it is touched.
LEMMA AroundHandler ==
  ASSUME OneReplica, TypeOK, Contained, NEW v \in Writes, Handler(v), NEW w \in Members, NEW S,
         Around(w, S)
  PROVE  \/ Around(w, S)'
         \/ /\ Fill(v) /\ v \in Mates(w) /\ v \notin Pushed
            /\ \A r \in Replicas : w \in tree'[r] /\ pc[r] \notin AfterAdd
<1>0. /\ req \in [Writes -> Phases] /\ tree \in [Replicas -> SUBSET Writes]
      /\ exposed \subseteq exposed'
      /\ \A u \in Writes : u # v => req'[u] = req[u] /\ home'[u] = home[u] /\ seen'[u] = seen[u]
  BY HandlerMoves DEF HandlerMovesOnly, TypeOK
<1>1. CASE w \in S \/ Touched(w)
  BY <1>0, <1>1 DEF Around, Touched
<1>2. ASSUME NEW u \in Mates(w), req[u] = "truncated", w \in seen[u], u # v
      PROVE  Around(w, S)'
  BY <1>0, <1>2, MatesFacts DEF Around, BeingWritten
<1>3. CASE v \in Mates(w) /\ req[v] = "truncated" /\ w \in seen[v]
  <2>1. Fill(v) \/ FillFails(v)
    BY <1>0, <1>3 DEF Handler, BeginWrite, WriteGuarded, ReadList, Truncate, MarkDirty, SignalPending,
                      ClientGone, Advance
  <2>2. CASE FillFails(v)
    BY <1>3, <2>2 DEF FillFails, Around, Touched
  <2>3. CASE Fill(v)
    <3>1. home[v] \in Replicas /\ (\A r \in Replicas : r = home[v])
      BY <1>3 DEF Contained, OneReplica
    <3>2. w \in tree'[home[v]]
      BY <1>0, <1>3, <2>3, <3>1 DEF Fill
    <3>3. v \notin Pushed
      BY <1>3 DEF Contained, Landed, Pushed
    <3>4. CASE Overtaken(home[v])
      BY <1>3, <2>3, <3>4 DEF Fill, Around, Touched
    <3>5. CASE ~Overtaken(home[v])
      BY <1>3, <2>3, <3>1, <3>2, <3>3, <3>5 DEF Overtaken
    <3>6. QED
      BY <3>4, <3>5
  <2>4. QED
    BY <2>1, <2>2, <2>3
<1>4. QED
  BY <1>1, <1>2, <1>3 DEF Around, BeingWritten

\* What is in the tree, or in the memory of a handler, remains so or is touched.
LEMMA InTreeHandler ==
  ASSUME OneReplica, TypeOK, Contained, NEW v \in Writes, Handler(v), NEW w \in Members,
         NEW r \in Replicas, Around(w, tree[r])
  PROVE  Around(w, tree[r])'
<1>0. /\ req \in [Writes -> Phases] /\ tree \in [Replicas -> SUBSET Writes]
      /\ exposed \subseteq exposed'
      /\ \A u \in Writes : u # v => req'[u] = req[u] /\ home'[u] = home[u] /\ seen'[u] = seen[u]
  BY HandlerMoves DEF HandlerMovesOnly, TypeOK
<1>1. Around(w, tree[r])' \/ w \in tree'[r] \/ w \in tree[r]
  <2>1. CASE w \in tree[r]
    BY <2>1
  <2>2. CASE w \notin tree[r]
    BY <1>0, <2>2, AroundHandler DEF Around, Touched, BeingWritten
  <2>3. QED
    BY <2>1, <2>2
<1>2. CASE w \in tree[r]
  <2>1. CASE Truncate(v)
    <3>1. /\ tree' = [tree EXCEPT ![home[v]] = @ \ Mates(v)]
          /\ req'[v] = "truncated" /\ seen' = seen
          /\ Dropped(v) \subseteq exposed'
      BY <1>0, <2>1 DEF Truncate, Advance
    <3>2. CASE r = home[v] /\ w \in Mates(v)
      <4>1. w \in seen[v] \/ w \in Dropped(v)
        BY <1>2, <3>2 DEF Dropped
      <4>2. w \in Mates(w) /\ v \in Mates(w)
        BY <3>2, MatesFacts
      <4>3. QED
        BY <3>1, <4>1, <4>2 DEF Around, Touched, BeingWritten
    <3>3. CASE ~(r = home[v] /\ w \in Mates(v))
      BY <1>0, <1>2, <3>1, <3>3 DEF Around
    <3>4. QED
      BY <3>2, <3>3
  <2>2. CASE Fill(v)
    <3>1. /\ tree' = [tree EXCEPT ![home[v]] = (@ \ Mates(v)) \union seen[v] \union {v}]
          /\ Dropped(v) \subseteq exposed'
      BY <2>2 DEF Fill
    <3>2. CASE r = home[v] /\ w \in Mates(v) /\ w \notin seen[v]
      <4>1. w \in Dropped(v) /\ w \in Mates(w)
        BY <1>2, <3>2, MatesFacts DEF Dropped
      <4>2. QED
        BY <3>1, <4>1 DEF Around, Touched
    <3>3. CASE ~(r = home[v] /\ w \in Mates(v) /\ w \notin seen[v])
      BY <1>0, <1>2, <3>1, <3>3 DEF Around
    <3>4. QED
      BY <3>2, <3>3
  <2>3. CASE ~Truncate(v) /\ ~Fill(v)
    <3>1. tree[r] \subseteq tree'[r]
      BY <1>0, <2>3 DEF Handler, BeginWrite, WriteGuarded, ReadList, FillFails, MarkDirty, SignalPending,
                        ClientGone, NotTheWorker, repo
    <3>2. QED
      BY <1>2, <3>1 DEF Around
  <2>4. QED
    BY <2>1, <2>2, <2>3
<1>3. QED
  BY <1>1, <1>2 DEF Around

LEMMA SyncedHandler ==
  ASSUME OneReplica, TypeOK, Contained, Synced, NEW v \in Writes, Handler(v)
  PROVE  Synced'
<1>0. /\ UNCHANGED <<staged, head, remote, principals, unread, gathered, pc>>
      /\ dirty => dirty' /\ exposed \subseteq exposed'
      /\ \A u \in Writes : u # v => req'[u] = req[u] /\ home'[u] = home[u] /\ seen'[u] = seen[u]
      /\ req \in [Writes -> Phases]
  BY HandlerMoves DEF HandlerMovesOnly, TypeOK, sync
<1>1. InTree'
  BY <1>0, InTreeHandler DEF Synced, InTree
<1>2. FlagUp'
  BY <1>0 DEF Synced, FlagUp
<1>3. Reading'
  <2>1. ASSUME NEW r \in Replicas, pc[r] \in {"sync", "fill", "clear"}, NEW S, NEW w \in Members,
               Around(w, S)
        PROVE  Around(w, S)'
    BY <2>1, AroundHandler DEF AfterAdd
  <2>2. \A l \in Lists : l \subseteq Members
    BY DEF Members
  <2>3. ASSUME NEW r \in Replicas, pc[r] \in {"sync", "fill"}
        PROVE  \A l \in Lists \ unread[r] : \A w \in remote.files \intersect l : Around(w, gathered[r])'
    <3>1. \A l \in Lists \ unread[r] : \A w \in remote.files \intersect l :
            w \in Members /\ Around(w, gathered[r])
      BY <2>2, <2>3 DEF Synced, Reading
    <3>2. QED
      BY <1>0, <2>1, <2>3, <3>1
  <2>4. ASSUME NEW r \in Replicas, pc[r] = "clear"
        PROVE  \A w \in remote.files \intersect Members : Around(w, principals)'
    BY <1>0, <2>1, <2>4 DEF Synced, Reading
  <2>5. QED
    BY <1>0, <2>3, <2>4 DEF Synced, Reading
<1>4. InFile'
  <2> SUFFICES ASSUME ~dirty', NEW w \in remote.files \intersect Members
               PROVE  Around(w, principals)' \/ Unannounced(w)'
    BY <1>0 DEF InFile
  <2>0. Pushed' = Pushed /\ (\A u \in Mates(w) : u \in Writes)
    BY <1>0, MatesFacts DEF Pushed
  <2>1. Around(w, principals) \/ Unannounced(w)
    BY <1>0 DEF Synced, InFile
  <2>2. CASE Around(w, principals)
    <3>1. Around(w, principals)' \/ (Fill(v) /\ v \in Mates(w) /\ v \notin Pushed)
      BY <1>0, <2>2, AroundHandler
    <3>2. CASE Fill(v) /\ v \in Mates(w) /\ v \notin Pushed
      <4>1. req'[v] = "written"
        BY <1>0, <3>2 DEF Fill, Advance
      <4>2. QED
        BY <2>0, <3>2, <4>1 DEF Unannounced
    <3>3. QED
      BY <3>1, <3>2
  <2>3. ASSUME NEW u \in Mates(w), req[u] = "written", u \notin Pushed
        PROVE  Around(w, principals)' \/ Unannounced(w)'
    <3>1. CASE req'[u] = "written"
      BY <2>0, <2>3, <3>1 DEF Unannounced
    <3>2. CASE req'[u] # "written"
      <4>1. u = v
        BY <1>0, <2>0, <2>3, <3>2
      <4>2. MarkDirty(v) \/ ClientGone(v)
        BY <1>0, <2>3, <3>2, <4>1 DEF Handler, BeginWrite, WriteGuarded, ReadList, Truncate, Fill,
             FillFails, SignalPending, Advance
      <4>3. v \in exposed'
        BY <2>3, <4>1, <4>2 DEF MarkDirty, ClientGone
      <4>4. QED
        BY <2>3, <4>1, <4>3 DEF Around, Touched
    <3>3. QED
      BY <3>1, <3>2
  <2>4. QED
    BY <2>1, <2>2, <2>3 DEF Unannounced
<1>5. QED
  BY <1>1, <1>2, <1>3, <1>4 DEF Synced

LEMMA SyncedWorker ==
  ASSUME OneReplica, "sync" \notin Faults, TypeOK, Contained, Synced, NEW r \in Replicas, Worker(r)
  PROVE  Synced'
<1>0. /\ UNCHANGED <<tree, req, seen>> /\ exposed \subseteq exposed'
      /\ \A s \in Replicas : s = r
      /\ staged \in [Replicas -> SUBSET Writes] /\ head \in [Replicas -> Commits]
      /\ pc \in [Replicas -> PCs] /\ gathered \in [Replicas -> SUBSET Writes]
      /\ unread \in [Replicas -> SUBSET Lists] /\ dirty \in BOOLEAN
  BY WorkerMoves DEF TypeOK, OneReplica
<1>a. \A w, S : Around(w, S) => Around(w, S)'
  BY <1>0 DEF Around, Touched, BeingWritten
<1>b. \A w, S, T : w \in S => Around(w, S)'
  BY DEF Around
<1>1. ASSUME UNCHANGED <<repo, remote, sync, pc, dirty>>
      PROVE  Synced'
  BY <1>0, <1>a, <1>1 DEF Synced, InTree, FlagUp, Reading, InFile, Unannounced, Pushed, repo, sync
<1>2. ASSUME UNCHANGED <<repo, remote, sync, dirty>>, pc[r] \notin {"sync", "fill"},
             pc'[r] \notin {"sync", "fill", "clear"}, pc'[r] \notin {"idle", "release"} => dirty
      PROVE  Synced'
  BY <1>0, <1>a, <1>2 DEF Synced, InTree, FlagUp, Reading, InFile, Unannounced, Pushed, repo, sync
<1> USE DEF redis, OnlyPc, OnlySync, Goto
<1>3. CASE PollDirty(r) \/ CheckWindow(r) \/ SkipTick(r) \/ LockContended(r) \/ LockRepo(r)
           \/ NothingStaged(r)
  BY <1>0, <1>2, <1>3 DEF PollDirty, CheckWindow, SkipTick, LockContended, LockRepo, NothingStaged,
                          Synced, FlagUp
<1>4. CASE AcquireLock(r) \/ AcquireReplyLost(r) \/ ReleaseLock(r) \/ PushFailed(r)
  BY <1>0, <1>2, <1>4 DEF AcquireLock, AcquireReplyLost, ReleaseLock, PushFailed, Synced, FlagUp
<1>5. CASE GitAdd(r)
  <2>1. /\ staged'[r] = tree[r] /\ UNCHANGED <<head, remote, sync, dirty>> /\ dirty
        /\ pc[r] = "add" /\ pc'[r] = "status"
    BY <1>0, <1>5 DEF GitAdd, Synced, FlagUp
  <2>2. InTree'
    BY <1>0, <1>a, <2>1 DEF Synced, InTree, Around
  <2>3. QED
    BY <1>0, <1>a, <2>1, <2>2 DEF Synced, FlagUp, Reading, InFile, sync
<1>6. CASE GitStatus(r)
  <2>1. /\ UNCHANGED <<staged, head, remote, sync, dirty>> /\ dirty
        /\ pc[r] = "status" /\ pc'[r] \in {"sync", "commit"} /\ unread[r] = Lists
    BY <1>0, <1>6 DEF GitStatus, Synced, FlagUp, Reading, repo
  <2>2. QED
    BY <1>0, <1>a, <2>1 DEF Synced, InTree, FlagUp, Reading, InFile, sync
<1>7. CASE GitCommit(r)
  <2>1. /\ head'[r].files = staged[r] /\ UNCHANGED <<staged, remote, sync, dirty>> /\ dirty
        /\ pc[r] = "commit" /\ pc'[r] = "push"
    BY <1>0, <1>7 DEF GitCommit, Synced, FlagUp
  <2>2. InTree'
    BY <1>0, <1>a, <2>1 DEF Synced, InTree
  <2>3. QED
    BY <1>0, <1>a, <2>1, <2>2 DEF Synced, FlagUp, Reading, InFile, sync
<1>8. CASE PushAccepted(r) \/ PushReplyLost(r)
  <2>1. /\ remote' = head[r] /\ UNCHANGED <<staged, head, sync, dirty>> /\ dirty
        /\ pc[r] = "push" /\ pc'[r] \in {"sync", "failed"} /\ unread[r] = Lists
    BY <1>0, <1>8 DEF PushAccepted, PushReplyLost, Synced, FlagUp, Reading, repo
  <2>2. InTree'
    BY <1>0, <1>a, <2>1 DEF Synced, InTree
  <2>3. QED
    BY <1>0, <1>a, <2>1, <2>2 DEF Synced, FlagUp, Reading, InFile, sync
<1>9. ASSUME NEW l \in Lists, ReadMembers(r, l)
      PROVE  Synced'
  <2>1. /\ UNCHANGED <<staged, head, remote, principals, dirty>> /\ dirty
        /\ pc[r] = "sync" /\ pc'[r] = "sync"
        /\ unread'[r] = unread[r] \ {l} /\ gathered'[r] = gathered[r] \union (tree[r] \intersect l)
    BY <1>0, <1>9 DEF ReadMembers, Synced, FlagUp, repo
  <2>2. ASSUME NEW k \in Lists \ unread'[r], NEW w \in remote.files \intersect k
        PROVE  Around(w, gathered[r])'
    <3>1. CASE k = l
      <4>1. Around(w, tree[r])
        BY <3>1 DEF Synced, InTree, Members
      <4>2. QED
        BY <1>0, <2>1, <3>1, <4>1 DEF Around, Touched, BeingWritten
    <3>2. CASE k # l
      <4>1. Around(w, gathered[r])
        BY <2>1, <3>2 DEF Synced, Reading
      <4>2. QED
        BY <1>0, <2>1, <4>1 DEF Around, Touched, BeingWritten
    <3>3. QED
      BY <3>1, <3>2
  <2>3. InTree'
    BY <1>0, <1>a, <2>1 DEF Synced, InTree
  <2>4. QED
    BY <1>0, <2>1, <2>2, <2>3 DEF Synced, FlagUp, Reading, InFile
<1>10. CASE TruncatePrincipals(r)
  <2>1. /\ UNCHANGED <<staged, head, remote, unread, gathered, dirty>> /\ dirty
        /\ pc[r] = "sync" /\ pc'[r] = "fill" /\ unread[r] = {}
    BY <1>0, <1>10 DEF TruncatePrincipals, Synced, FlagUp, repo
  <2>2. QED
    BY <1>0, <1>a, <2>1 DEF Synced, InTree, FlagUp, Reading, InFile
<1>11. CASE FillPrincipals(r)
  <2>1. /\ UNCHANGED <<staged, head, remote, dirty>> /\ dirty
        /\ pc[r] = "fill" /\ pc'[r] = "clear" /\ unread'[r] = Lists /\ principals' = gathered[r]
    BY <1>0, <1>11 DEF FillPrincipals, SyncOver, Synced, FlagUp, repo
  <2>2. \A w \in remote.files \intersect Members : Around(w, gathered[r])
    BY <2>1 DEF Synced, Reading, Members
  <2>3. \A w \in remote.files \intersect Members : Around(w, principals)'
    BY <1>0, <2>1, <2>2 DEF Around, Touched, BeingWritten
  <2>4. InTree'
    BY <1>0, <1>a, <2>1 DEF Synced, InTree
  <2>5. QED
    BY <1>0, <2>1, <2>3, <2>4 DEF Synced, FlagUp, Reading, InFile
<1>12. CASE ClearDirty(r)
  <2>1. /\ UNCHANGED <<staged, head, remote, sync>>
        /\ pc[r] = "clear" /\ pc'[r] = "release"
    BY <1>0, <1>12 DEF ClearDirty, repo
  <2>2. \A w \in remote.files \intersect Members : Around(w, principals)
    BY <2>1 DEF Synced, Reading
  <2>3. QED
    BY <1>0, <1>a, <2>1, <2>2 DEF Synced, InTree, FlagUp, Reading, InFile, sync
<1>13. ~SyncFails(r)
  BY DEF SyncFails
<1>14. QED
  BY <1>3, <1>4, <1>5, <1>6, <1>7, <1>8, <1>9, <1>10, <1>11, <1>12, <1>13 DEF Worker, Cycle

\* A restart takes the tree from the server; the handlers it cuts off are touched.
LEMMA SyncedRestart ==
  ASSUME OneReplica, TypeOK, Contained, Synced, NEW r \in Replicas, Restart(r)
  PROVE  Synced'
<1>0. /\ UNCHANGED <<dirty, remote, principals>> /\ exposed \subseteq exposed'
      /\ \A s \in Replicas : s = r
      /\ pc'[r] = "idle" /\ unread'[r] = Lists
      /\ staged'[r] = remote.files /\ head'[r] = remote /\ remote.files \subseteq tree'[r]
  BY DEF Restart, SyncOver, OneReplica, TypeOK, redis
<1>1. InTree'
  BY <1>0 DEF InTree, Around
<1>2. \A w \in Members : \A S : Around(w, S) => Around(w, S)'
  <2>1. ASSUME NEW w \in Members, NEW v \in Mates(w), req[v] = "truncated"
        PROVE  v \in exposed'
    <3>1. v \in Writes /\ home[v] = r
      BY <1>0, <2>1, MatesFacts DEF Contained
    <3>2. req'[v] = "torn"
      BY <2>1, <3>1, RestartMoves DEF CutOff
    <3>3. QED
      BY <2>1, <3>1, <3>2 DEF Restart
  <2>2. QED
    BY <1>0, <2>1 DEF Around, Touched, BeingWritten
<1>3. ASSUME NEW w \in Members, Unannounced(w)
      PROVE  \A S : Around(w, S)'
  <2>1. PICK v \in Mates(w) : req[v] = "written" /\ v \notin Pushed
    BY <1>3 DEF Unannounced
  <2>2. v \in Writes /\ home[v] = r
    BY <1>0, <2>1, MatesFacts DEF Contained
  <2>3. v \in Local(r)
    BY <2>1, <2>2 DEF Local, Landed
  <2>4. v \in exposed'
    BY <2>3 DEF Restart
  <2>5. QED
    BY <2>4 DEF Around, Touched
<1>4. InFile'
  BY <1>0, <1>2, <1>3 DEF Synced, InFile
<1>5. QED
  BY <1>0, <1>1, <1>4 DEF Synced, FlagUp, Reading

LEMMA SyncedStep ==
    ASSUME OneReplica, "sync" \notin Faults, TypeOK, Contained, Synced, [Next]_vars
    PROVE  Synced'
<1>1. CASE DebounceExpires \/ LockExpires \/ UNCHANGED vars
  <2>1. UNCHANGED <<dirty, repo, remote, sync, pc, requests, exposed>>
    BY <1>1 DEF DebounceExpires, LockExpires, vars, redis
  <2>2. \A w, S : Around(w, S)' <=> Around(w, S)
    BY <2>1 DEF Around, Touched, BeingWritten, requests
  <2>3. \A w : Unannounced(w)' <=> Unannounced(w)
    BY <2>1 DEF Unannounced, Pushed, requests
  <2>4. QED
    BY <2>1, <2>2, <2>3 DEF Synced, InTree, FlagUp, Reading, InFile, repo, sync
<1>2. QED
  BY <1>1, SyncedHandler, SyncedWorker, SyncedRestart DEF Next

\* With one replica whose syncs do not fail, the principals file has every member of the
\* server's master whenever the flag is down and no cycle runs, but for lists a sync met
\* while a request rewrote them, until that request is pushed: in spite of failed pushes and
\* writes, Redis errors, expired locks and restarts inside a cycle (sync_principals reads the
\* lists without the mutex, before clear_dirty).
THEOREM PrincipalsCovered ==
    ASSUME OneReplica, "sync" \notin Faults
    PROVE  Spec => []PrincipalsCoverRemote
<1>1. Init => Synced
  BY DEF Init, Empty, Synced, InTree, FlagUp, Reading, InFile
<1>2. TypeOK /\ Contained /\ Synced /\ [Next]_vars => Synced'
  BY SyncedStep
<1>3. Synced => PrincipalsCoverRemote
  BY DEF Synced, InFile, PrincipalsCoverRemote, Around, Touched, BeingWritten, Unannounced, InFlight
<1>4. QED
  BY <1>1, <1>2, <1>3, Inductive, PTL DEF Spec

-----------------------------------------------------------------------------
(* A single replica that is left alone *)

\* What loses a write although Redis, the server and the disk answer: it lands after `git add`
\* has looked, its client leaves before mark_dirty, its replica restarts before the push, or
\* its list is rewritten by another request that has not read it or while the worker adds it.
Hazard ==
    \/ Landed' # Landed /\ \E r \in Replicas : pc[r] \in AfterAdd
    \/ \E w \in Writes : ClientGone(w) /\ req[w] = "written"
    \/ \E r \in Replicas : Restart(r) /\ \E w \in Writes : w \in Local(r) \/ req[w] = "truncated"
    \/ \E w \in Writes : (Truncate(w) \/ Fill(w)) /\ Dropped(w) # {}
    \/ \E r \in Replicas : GitAdd(r) /\ ~(Local(r) \subseteq tree[r])

NoneExposed == exposed = {}
Nested      == \A r \in Replicas : FastForward(r)

LEMMA NestedStep == OneReplica /\ TypeOK /\ Nested /\ [Next]_vars => Nested'
<1> SUFFICES ASSUME OneReplica, TypeOK, Nested, [Next]_vars
             PROVE  Nested'
  OBVIOUS
<1>0. /\ head \in [Replicas -> Commits]
      /\ \A r, s \in Replicas : r = s
  BY DEF TypeOK, OneReplica
<1> USE <1>0 DEF Nested, FastForward, Pushed, repo
<1>1. ASSUME NEW w \in Writes, Handler(w)
      PROVE  Nested'
  BY <1>1, HandlerMoves DEF HandlerMovesOnly
<1>2. ASSUME NEW r \in Replicas, Worker(r)
      PROVE  Nested'
  <2>1. CASE GitCommit(r)
    <3>1. head'[r].past = head[r].past \union staged[r] /\ remote' = remote
      BY <2>1 DEF GitCommit
    <3>2. QED
      BY <3>1
  <2>2. CASE PushAccepted(r) \/ PushReplyLost(r)
    BY <2>2 DEF PushAccepted, PushReplyLost
  <2>3. CASE UNCHANGED <<head, remote>>
    BY <2>3
  <2>4. QED
    BY <1>2, <2>1, <2>2, <2>3
       DEF Worker, Cycle, PollDirty, CheckWindow, SkipTick, AcquireLock, LockContended, AcquireReplyLost,
           LockRepo, GitAdd, GitStatus, NothingStaged, PushFailed, ReadMembers, TruncatePrincipals,
           FillPrincipals, SyncFails, ClearDirty, ReleaseLock, OnlyPc, OnlySync
<1>3. ASSUME NEW r \in Replicas, Restart(r)
      PROVE  Nested'
  BY <1>3 DEF Restart
<1>4. CASE DebounceExpires \/ LockExpires \/ UNCHANGED vars
  BY <1>4 DEF DebounceExpires, LockExpires, vars
<1>5. QED
  BY <1>1, <1>2, <1>3, <1>4 DEF Next

LEMMA NoneExposedHandler ==
    ASSUME OneReplica, "redis" \notin Faults, "write" \notin Faults, TypeOK, Contained,
           NoneExposed, NEW w \in Writes, Handler(w), ~Hazard
    PROVE  NoneExposed'
<1>0. /\ pc \in [Replicas -> PCs] /\ req \in [Writes -> Phases]
      /\ home \in [Writes -> Replicas \union {None}]
  BY DEF TypeOK
<1> USE DEF NoneExposed
<1>1. ASSUME NEW r \in Replicas, w \notin Landed, w \in Landed'
      PROVE  ~Overtaken(r)
  <2>1. \A s \in Replicas : s = r
    BY DEF OneReplica
  <2>2. pc[r] \notin AfterAdd
    BY <1>1 DEF Hazard
  <2>3. QED
    BY <2>1, <2>2 DEF Overtaken
<1>2. ASSUME NEW r \in Replicas, WriteGuarded(w, r)
      PROVE  NoneExposed'
  <2>1. w \notin Landed /\ w \in Landed'
    BY <1>0, <1>2 DEF WriteGuarded, Advance, Landed
  <2>2. QED
    BY <1>1, <1>2, <2>1 DEF WriteGuarded
<1>3. CASE Fill(w)
  <2>1. w \notin Landed /\ w \in Landed'
    BY <1>0, <1>3 DEF Fill, Advance, Landed
  <2>2. home[w] \in Replicas
    BY <1>3 DEF Fill, Advance, Contained
  <2>3. ~Overtaken(home[w]) /\ Dropped(w) = {}
    BY <1>1, <1>3, <2>1, <2>2 DEF Hazard
  <2>4. QED
    BY <1>3, <2>3 DEF Fill
<1>4. CASE Truncate(w)
  BY <1>4 DEF Truncate, Hazard
<1>5. CASE ClientGone(w)
  BY <1>5 DEF ClientGone, Hazard
<1>6. CASE ReadList(w) \/ MarkDirty(w) \/ SignalPending(w) \/ FillFails(w)
  BY <1>6 DEF ReadList, MarkDirty, SignalPending, FillFails
<1>7. ASSUME NEW r \in Replicas, BeginWrite(w, r)
      PROVE  NoneExposed'
  BY <1>7 DEF BeginWrite
<1>8. QED
  BY <1>2, <1>3, <1>4, <1>5, <1>6, <1>7 DEF Handler

LEMMA NoneExposedStep ==
    ASSUME OneReplica, "redis" \notin Faults, "push" \notin Faults, "write" \notin Faults,
           TypeOK, Contained, Nested, NoneExposed, [Next]_vars, ~Hazard
    PROVE  NoneExposed'
<1> USE DEF NoneExposed
<1>1. ASSUME NEW r \in Replicas, Worker(r)
      PROVE  NoneExposed'
  <2>1. Foreign(r) = {}
    <3>1. \A w \in Landed : home[w] = r
      BY DEF Contained, OneReplica, Landed
    <3>2. QED
      BY <3>1 DEF Foreign
  <2>2. ~PushFailed(r)
    BY DEF PushFailed, Nested
  <2>3. GitAdd(r) => Local(r) \subseteq tree[r]
    BY DEF Hazard
  <2>4. QED
    BY <1>1, <2>1, <2>2, <2>3
       DEF Worker, Cycle, PollDirty, CheckWindow, SkipTick, AcquireLock, LockContended, AcquireReplyLost,
           LockRepo, GitAdd, GitStatus, GitCommit, NothingStaged, PushAccepted, PushReplyLost,
           ReadMembers, TruncatePrincipals, FillPrincipals, SyncFails, ClearDirty, ReleaseLock,
           OnlyPc, OnlySync
<1>2. ASSUME NEW r \in Replicas, Restart(r)
      PROVE  NoneExposed'
  <2>1. Local(r) = {} /\ \A w \in Writes : req[w] # "truncated"
    BY <1>2 DEF Hazard, Local, Landed
  <2>2. \A w \in Writes : req'[w] = "torn" => req[w] = "torn"
    BY <1>2, <2>1, RestartMoves DEF CutOff
  <2>3. QED
    BY <1>2, <2>1, <2>2 DEF Restart
<1>3. CASE DebounceExpires \/ LockExpires \/ UNCHANGED vars
  BY <1>3 DEF DebounceExpires, LockExpires, vars
<1>4. QED
  BY <1>1, <1>2, <1>3, NoneExposedHandler DEF Next

\* Every accepted write is on the server, or the flag that will push it is up.
NothingStranded == \A w \in Writes : req[w] = "acked" => w \in Pushed \/ dirty

\* A single replica strands nothing by itself: while Redis, the server and the disk answer,
\* only a write beside a cycle, requests that overlap on a list, a client that leaves or a
\* restart cost a write, even if the lock expires during cycles, replies to its SET get lost
\* and the principals cannot be written (spawn_push_worker).
THEOREM NothingStrandedAlone ==
    ASSUME OneReplica, "redis" \notin Faults, "push" \notin Faults, "write" \notin Faults
    PROVE  Spec /\ [][~Hazard]_vars => []NothingStranded
<1>1. Init => NoneExposed /\ Nested
  BY DEF Init, Empty, NoneExposed, Nested, FastForward, Pushed
<1>2. TypeOK /\ Contained /\ Nested /\ NoneExposed /\ [Next]_vars /\ [~Hazard]_vars => NoneExposed'
  <2>1. UNCHANGED vars /\ NoneExposed => NoneExposed'
    BY DEF vars, NoneExposed
  <2>2. QED
    BY <2>1, NoneExposedStep
<1>3. TypeOK /\ Nested /\ [Next]_vars => Nested'
  BY NestedStep
<1>4. StrandedOnlyIfExposed /\ NoneExposed => NothingStranded
  BY DEF StrandedOnlyIfExposed, NoneExposed, NothingStranded
<1>5. QED
  BY <1>1, <1>2, <1>3, <1>4, Inductive, StrandedExposed, PTL DEF Spec
=============================================================================
