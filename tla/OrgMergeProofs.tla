--------------------------- MODULE OrgMergeProofs ---------------------------
(***************************************************************************)
(* Proofs about OrgMerge for any repositories, edits, consumers, squashes  *)
(* and settings.                                                           *)
(***************************************************************************)
EXTENDS OrgMerge, WellFoundedInduction, TLAPS

Merging == InRepo \union {"merge"}

\* Outside Orphans a branch has a merge base with main.
Based == \A r \in Repos \ Orphans : branch[r] # None => branch[r].base # None

\* main has its number for good: a consumer that finds the one it has read finds the
\* tree it has read.
Numbered ==
    \A c \in Consumers :
        phase[c] = "commit" =>
            /\ seen[c].n <= main[At(c)].n
            /\ seen[c].n = main[At(c)].n => seen[c].ours = main[At(c)].tree

\* What is safe of the edits of r when a branch with this tree is written or deleted.
SafeWith(r, tree) ==
    \A e \in Edits : sent[e] = r => e \in main[r].tree \union forfeited \union tree

\* What a merge or a squash is about to write, or to delete, loses no edit.
WritesSafely ==
    /\ \A c \in Consumers : phase[c] = "commit" => SafeWith(At(c), seen[c].theirs)
    /\ \A c \in Consumers : phase[c] = "delete" => SafeWith(At(c), {})
    /\ \A s \in Squashes : squash[s].phase = "read" => SafeWith(squash[s].repo, squash[s].tree)

\* How far a run of the job has got, repository by repository.
ListedSo(c) == phase[c] = "list" => merged[c] = {}
ScannedSo(c) ==
    phase[c] = "scan" =>
        /\ merged[c] = {}
        /\ ~blocked[c] => \A r \in cand[c] \ left[c] : Mergeable(r) \/ r \in excused[c]
MergedSo(c) ==
    phase[c] \in Merging =>
        /\ cand[c] \subseteq left[c] \union merged[c] \union excused[c]
        /\ \A r \in left[c] : Mergeable(r) \/ r \in merged[c] \union excused[c]
InRepoSo(c) ==
    /\ phase[c] = "commit" => main[At(c)].n = seen[c].n \/ At(c) \in excused[c]
    /\ phase[c] = "delete" => At(c) \in merged[c]
EndedSo(c) == phase[c] = "idle" /\ merged[c] # {} => cand[c] \ merged[c] \subseteq excused[c]

Progress ==
    \A c \in Consumers : ListedSo(c) /\ ScannedSo(c) /\ MergedSo(c) /\ InRepoSo(c) /\ EndedSo(c)

-----------------------------------------------------------------------------
LEMMA Least ==
    ASSUME NEW S \in SUBSET Nat, S # {}
    PROVE  \E n \in S : \A m \in S : n <= m
<1>1. PICK n \in S : \A m \in S : ~(<<m, n>> \in OpToRel(<, Nat))
  BY WFMin, NatLessThanWellFounded, Zenon
<1>2. ASSUME NEW m \in S
      PROVE  n <= m
  <2>1. m \in Nat /\ n \in Nat
    OBVIOUS
  <2>2. ~(m < n)
    BY <1>1, <2>1, Zenon DEF OpToRel
  <2>3. QED
    BY <2>1, <2>2
<1>3. QED
  BY <1>2

\* A consumer that is in the middle of its loop is about one of the repositories left.
LEMMA AtIsLeft ==
    ASSUME NEW c \in Consumers, left[c] # {}, left[c] \subseteq Repos
    PROVE  At(c) \in left[c] /\ At(c) \in Repos
<1>1. left[c] \in SUBSET Nat
  BY OrgAssumption
<1>2. \E n \in left[c] : \A m \in left[c] : n <= m
  BY <1>1, Least
<1>3. QED
  BY <1>2 DEF At, First

-----------------------------------------------------------------------------
(* Type correctness *)

SquashPhases == {"new", "read", "done", "failed"}

\* The parts of TypeOK; a squash that has read a branch knows its repository.
RefsOK ==
    /\ main \in [Repos -> [n : Nat, tree : Trees]]
    /\ branch \in [Repos -> Branches \union {None}]
    /\ sent \in [Edits -> Repos \union {None}]
JobOK ==
    /\ phase \in [Consumers -> Phases]
    /\ left \in [Consumers -> SUBSET Repos]
    /\ \A c \in Consumers : phase[c] \in InRepo => left[c] # {}
    /\ cand \in [Consumers -> SUBSET Repos]
    /\ blocked \in [Consumers -> BOOLEAN]
    /\ seen \in [Consumers -> [n : Nat, ours : Trees, theirs : Trees]]
    /\ runs \in 0 .. MaxRuns
SquashOK ==
    squash \in [Squashes -> [phase : SquashPhases, repo : Repos \union {None},
                             tree : Trees, base : Trees]]
HistoryOK ==
    /\ merged \in [Consumers -> SUBSET Repos]
    /\ excused \in [Consumers -> SUBSET Repos]
    /\ forfeited \in Trees
SquashKnows == \A s \in Squashes : squash[s].phase = "read" => squash[s].repo \in Repos

LEMMA TypeParts ==
    TypeOK <=> setting \in Settings /\ RefsOK /\ JobOK /\ SquashOK /\ HistoryOK
BY DEF TypeOK, RefsOK, JobOK, SquashOK, HistoryOK, SquashPhases

LEMMA SettingOK ==
    ASSUME setting \in Settings
    PROVE  /\ setting.repos \subseteq Repos /\ setting.edits \subseteq Edits
           /\ setting.squashes \subseteq Squashes /\ MaxRuns \in Nat
           /\ NoMain \subseteq Orphans /\ Orphans \subseteq Repos
BY OrgAssumption DEF MaxRuns, NoMain, Orphans

LEMMA InitTypeOK == Init => TypeOK /\ SquashKnows
<1> SUFFICES ASSUME Init
             PROVE  TypeOK /\ SquashKnows
  OBVIOUS
<1>1. MaxRuns \in Nat
  BY SettingOK DEF Init
<1>2. RefsOK
  BY DEF Init, RefsOK, Trees
<1>3. JobOK
  BY <1>1 DEF Init, JobOK, NothingRead, Trees, Phases, InRepo
<1>4. SquashOK /\ SquashKnows
  BY DEF Init, SquashOK, SquashKnows, SquashPhases, Trees
<1>5. HistoryOK
  BY DEF Init, HistoryOK, Trees
<1>6. QED
  BY <1>2, <1>3, <1>4, <1>5, TypeParts DEF Init

\* The refs a step may move, one at a time.
LEMMA RefsStep == TypeOK /\ SquashKnows /\ [Next]_vars => RefsOK'
<1> SUFFICES ASSUME TypeOK, SquashKnows, [Next]_vars
             PROVE  RefsOK'
  OBVIOUS
<1>1. RefsOK /\ JobOK /\ SquashOK /\ setting \in Settings
  BY TypeParts
<1>2. CASE UNCHANGED <<refs, sent>>
  BY <1>1, <1>2 DEF RefsOK, refs
<1>3. ASSUME NEW r \in setting.repos, Developer(r)
      PROVE  RefsOK'
  <2>1. r \in Repos /\ setting.edits \subseteq Edits
    BY <1>1, SettingOK
  <2>2. ASSUME NEW e \in setting.edits, PushMain(r, e)
        PROVE  RefsOK'
    BY <1>1, <2>1, <2>2 DEF PushMain, RefsOK, Trees
  <2>3. ASSUME NEW e \in setting.edits, PushBranch(r, e)
        PROVE  RefsOK'
    <3>1. branch[r] \in Branches /\ sent' \in [Edits -> Repos \union {None}]
      BY <1>1, <2>1, <2>3 DEF PushBranch, RefsOK
    <3>2. [branch[r] EXCEPT !.tree = @ \union {e}, !.own = TRUE] \in Branches
      BY <2>1, <3>1 DEF Branches, Trees
    <3>3. branch' = [branch EXCEPT ![r] = [branch[r] EXCEPT !.tree = @ \union {e}, !.own = TRUE]]
      BY <1>1, <2>1, <2>3, <3>1 DEF PushBranch, RefsOK, Branches
    <3>4. QED
      BY <1>1, <2>1, <2>3, <3>1, <3>2, <3>3 DEF PushBranch, RefsOK
  <2>4. CASE CreateBranch(r)
    BY <1>1, <2>1, <2>4 DEF CreateBranch, RefsOK, Branches, Trees
  <2>5. CASE UpdateBranch(r)
    <3>1. branch[r] \in Branches
      BY <1>1, <2>1, <2>5 DEF UpdateBranch, RefsOK
    <3>2. [tree |-> branch[r].tree \union main[r].tree, base |-> main[r].tree, own |-> TRUE] \in Branches
      BY <1>1, <2>1, <3>1 DEF Branches, Trees, RefsOK
    <3>3. QED
      BY <1>1, <2>1, <2>5, <3>2 DEF UpdateBranch, RefsOK
  <2>6. CASE DropBranch(r)
    BY <1>1, <2>1, <2>6 DEF DropBranch, RefsOK
  <2>7. QED
    BY <1>3, <2>2, <2>3, <2>4, <2>5, <2>6 DEF Developer
<1>4. ASSUME NEW c \in Consumers, CommitMain(c) \/ DeleteBranch(c)
      PROVE  RefsOK'
  <2>1. left[c] # {} /\ left[c] \subseteq Repos
    BY <1>1, <1>4 DEF CommitMain, DeleteBranch, JobOK, InRepo
  <2>2. At(c) \in Repos
    BY <2>1, AtIsLeft
  <2>3. CASE CommitMain(c)
    BY <1>1, <2>2, <2>3 DEF CommitMain, RefsOK, JobOK, Trees
  <2>4. CASE DeleteBranch(c)
    BY <1>1, <2>2, <2>4 DEF DeleteBranch, RefsOK
  <2>5. QED
    BY <1>4, <2>3, <2>4
<1>5. ASSUME NEW s \in setting.squashes, SquashWrites(s)
      PROVE  RefsOK'
  <2>1. s \in Squashes
    BY <1>1, SettingOK
  <2>2. [tree |-> squash[s].tree, base |-> squash[s].base, own |-> TRUE] \in Branches
    BY <1>1, <2>1 DEF SquashOK, Branches
  <2>3. QED
    BY <1>1, <1>5, <2>1, <2>2 DEF SquashWrites, RefsOK
<1>6. QED
  BY <1>2, <1>3, <1>4, <1>5
     DEF Next, vars, Consumer, Squash, Start, Crash, ListRepo, Listed, ScanRepo, Scanned, ReadRefs, SkipRepo,
         CommitFails, Finish, SquashReads, SquashRefused, refs

\* A consumer's own step, or one of somebody else that leaves its job alone.
LEMMA JobMoves ==
    ASSUME TypeOK, [Next]_vars, NEW c \in Consumers
    PROVE  \/ Start(c) \/ Consumer(c) \/ Crash(c)
           \/ /\ phase'[c] = phase[c] /\ left'[c] = left[c] /\ cand'[c] = cand[c]
              /\ blocked'[c] = blocked[c] /\ seen'[c] = seen[c] /\ merged'[c] = merged[c]
<1>1. JobOK /\ HistoryOK
  BY TypeParts
<1>2. CASE UNCHANGED <<job, merged>>
  BY <1>2 DEF job
<1>3. ASSUME NEW d \in Consumers \ {c}, Start(d) \/ Consumer(d) \/ Crash(d)
      PROVE  /\ phase'[c] = phase[c] /\ left'[c] = left[c] /\ cand'[c] = cand[c]
             /\ blocked'[c] = blocked[c] /\ seen'[c] = seen[c] /\ merged'[c] = merged[c]
  BY <1>1, <1>3
     DEF JobOK, HistoryOK, Start, Crash, Consumer, ListRepo, Listed, ScanRepo, Scanned, ReadRefs, SkipRepo,
         CommitMain, CommitFails, DeleteBranch, Finish, Next1, Forget, history
<1>4. QED
  BY <1>2, <1>3
     DEF Next, vars, Developer, PushMain, CreateBranch, PushBranch, UpdateBranch, DropBranch,
         Squash, SquashReads, SquashRefused, SquashWrites, job, history

LEMMA JobStep == TypeOK /\ [Next]_vars => JobOK'
<1> SUFFICES ASSUME TypeOK, [Next]_vars
             PROVE  JobOK'
  OBVIOUS
<1>1. RefsOK /\ JobOK /\ setting \in Settings
  BY TypeParts
<1>2. MaxRuns \in Nat /\ setting' = setting /\ MaxRuns' = MaxRuns
  BY <1>1, SettingOK DEF Next, vars, MaxRuns
<1>3. CASE UNCHANGED job
  BY <1>1, <1>2, <1>3 DEF JobOK, job
<1>4. ASSUME NEW c \in Consumers, Start(c) \/ Consumer(c) \/ Crash(c)
      PROVE  JobOK'
  <2>0. \A d \in Consumers \ {c} : phase'[d] \in InRepo => left'[d] # {}
    BY <1>1, <1>4
       DEF JobOK, Start, Crash, Consumer, ListRepo, Listed, ScanRepo, Scanned, ReadRefs, SkipRepo,
           CommitMain, CommitFails, DeleteBranch, Finish, Next1, Forget, history
  <2>1. CASE Start(c)
    BY <1>1, <1>2, <2>0, <2>1, SettingOK DEF Start, JobOK, Phases, InRepo
  <2>2. CASE Crash(c)
    BY <1>1, <1>2, <2>0, <2>2 DEF Crash, JobOK, Phases, InRepo, Running, Forget, NothingRead, Trees
  <2>3. CASE ListRepo(c)
    <3>1. At(c) \in Repos
      BY <1>1, <2>3, AtIsLeft DEF ListRepo, JobOK
    <3>2. QED
      BY <1>1, <1>2, <2>0, <2>3, <3>1 DEF ListRepo, JobOK, Next1, InRepo
  <2>4. CASE Listed(c) \/ Scanned(c) \/ Finish(c)
    BY <1>1, <1>2, <2>0, <2>4 DEF Listed, Scanned, Finish, JobOK, Phases, InRepo
  <2>5. CASE ScanRepo(c)
    BY <1>1, <1>2, <2>0, <2>5 DEF ScanRepo, JobOK, Next1, InRepo, CheckBlocks, HasConflicts
  <2>6. CASE ReadRefs(c)
    <3>1. At(c) \in Repos /\ branch[At(c)] \in Branches
      BY <1>1, <2>6, AtIsLeft DEF ReadRefs, JobOK, RefsOK, Mergeable
    <3>2. [n |-> main[At(c)].n, ours |-> main[At(c)].tree, theirs |-> branch[At(c)].tree]
              \in [n : Nat, ours : Trees, theirs : Trees]
      BY <1>1, <3>1 DEF RefsOK, Branches
    <3>3. QED
      BY <1>1, <1>2, <2>0, <2>6, <3>2 DEF ReadRefs, JobOK, Phases, InRepo
  <2>7. CASE SkipRepo(c) \/ CommitMain(c)
    BY <1>1, <1>2, <2>0, <2>7 DEF SkipRepo, CommitMain, JobOK, Next1, Phases, InRepo
  <2>8. CASE CommitFails(c) \/ DeleteBranch(c)
    <3>1. NothingRead \in [n : Nat, ours : Trees, theirs : Trees]
      BY DEF NothingRead, Trees
    <3>2. /\ phase' = [phase EXCEPT ![c] = "merge"] /\ left' = [left EXCEPT ![c] = @ \ {At(c)}]
          /\ seen' = [seen EXCEPT ![c] = NothingRead]
          /\ cand' = cand /\ blocked' = blocked /\ runs' = runs
      BY <2>8 DEF CommitFails, DeleteBranch, Next1, Forget
    <3>3. QED
      BY <1>1, <1>2, <2>0, <3>1, <3>2 DEF JobOK, Phases, InRepo
  <2>9. QED
    BY <1>4, <2>1, <2>2, <2>3, <2>4, <2>5, <2>6, <2>7, <2>8 DEF Consumer
<1>5. QED
  BY <1>3, <1>4
     DEF Next, vars, Developer, PushMain, CreateBranch, PushBranch, UpdateBranch, DropBranch,
         Squash, SquashReads, SquashRefused, SquashWrites, job

LEMMA SquashStep == TypeOK /\ SquashKnows /\ [Next]_vars => SquashOK' /\ SquashKnows'
<1> SUFFICES ASSUME TypeOK, SquashKnows, [Next]_vars
             PROVE  SquashOK' /\ SquashKnows'
  OBVIOUS
<1>1. RefsOK /\ SquashOK /\ setting \in Settings
  BY TypeParts
<1>2. CASE UNCHANGED squash
  BY <1>1, <1>2 DEF SquashOK, SquashKnows
<1>3. ASSUME NEW s \in setting.squashes, Squash(s)
      PROVE  SquashOK' /\ SquashKnows'
  <2>1. s \in Squashes
    BY <1>1, SettingOK
  <2>2. ASSUME NEW r \in setting.repos, SquashReads(s, r)
        PROVE  SquashOK' /\ SquashKnows'
    <3>1. r \in Repos /\ branch[r] \in Branches
      BY <1>1, <2>2, SettingOK DEF SquashReads, Mergeable, RefsOK
    <3>2. branch[r].base \in Trees
      BY <2>2, <3>1 DEF SquashReads, Mergeable, HasConflicts, Branches
    <3>3. QED
      BY <1>1, <2>1, <2>2, <3>1, <3>2 DEF SquashReads, SquashOK, SquashKnows, SquashPhases, Branches
  <2>3. ASSUME NEW r \in setting.repos, SquashRefused(s, r)
        PROVE  SquashOK' /\ SquashKnows'
    BY <1>1, <2>1, <2>3 DEF SquashRefused, SquashOK, SquashKnows, SquashPhases
  <2>4. CASE SquashWrites(s)
    BY <1>1, <2>1, <2>4 DEF SquashWrites, SquashOK, SquashKnows, SquashPhases
  <2>5. QED
    BY <1>3, <2>2, <2>3, <2>4 DEF Squash
<1>4. QED
  BY <1>2, <1>3
     DEF Next, vars, Developer, PushMain, CreateBranch, PushBranch, UpdateBranch, DropBranch, job,
         Consumer, Start, Crash, ListRepo, Listed, ScanRepo, Scanned, ReadRefs, SkipRepo,
         CommitMain, CommitFails, DeleteBranch, Finish

LEMMA HistoryStep == TypeOK /\ SquashKnows /\ [Next]_vars => HistoryOK'
<1> SUFFICES ASSUME TypeOK, SquashKnows, [Next]_vars
             PROVE  HistoryOK'
  OBVIOUS
<1>1. RefsOK /\ JobOK /\ SquashOK /\ HistoryOK /\ setting \in Settings
  BY TypeParts
<1>2. CASE UNCHANGED history
  BY <1>1, <1>2 DEF HistoryOK, history
<1>3. ASSUME NEW r \in Repos, NEW d, Disturb(r, d)
      PROVE  excused' \in [Consumers -> SUBSET Repos]
  BY <1>1, <1>3 DEF Disturb, HistoryOK
<1>4. ASSUME NEW r \in setting.repos, Developer(r)
      PROVE  HistoryOK'
  <2>1. r \in Repos /\ setting.edits \subseteq Edits
    BY <1>1, SettingOK
  <2>2. merged' = merged /\ Disturb(r, None)
    BY <1>4 DEF Developer, PushMain, CreateBranch, PushBranch, UpdateBranch, DropBranch
  <2>3. forfeited' \in Trees
    <3>1. CASE DropBranch(r)
      <4>1. branch[r].tree \in Trees
        BY <1>1, <2>1, <3>1 DEF DropBranch, RefsOK, Branches
      <4>2. QED
        BY <1>1, <3>1, <4>1 DEF DropBranch, HistoryOK, Trees
    <3>2. QED
      BY <1>1, <1>4, <2>1, <3>1
         DEF Developer, PushMain, CreateBranch, PushBranch, UpdateBranch, HistoryOK, Trees
  <2>4. QED
    BY <1>1, <1>3, <2>1, <2>2, <2>3 DEF HistoryOK
<1>5. ASSUME NEW c \in Consumers, Start(c) \/ Consumer(c) \/ Crash(c)
      PROVE  HistoryOK'
  <2>1. CASE Start(c)
    BY <1>1, <2>1 DEF Start, HistoryOK
  <2>2. CASE ScanRepo(c) \/ SkipRepo(c) \/ CommitFails(c)
    <3>1. left[c] # {} /\ At(c) \in Repos
      BY <1>1, <2>2, AtIsLeft DEF ScanRepo, SkipRepo, CommitFails, JobOK, InRepo
    <3>2. excused' \in [Consumers -> SUBSET Repos]
      BY <1>1, <2>2, <3>1 DEF ScanRepo, SkipRepo, CommitFails, Excuse, HistoryOK
    <3>3. QED
      BY <1>1, <2>2, <3>2 DEF ScanRepo, SkipRepo, CommitFails, HistoryOK
  <2>3. CASE CommitMain(c) \/ DeleteBranch(c)
    <3>1. left[c] # {} /\ At(c) \in Repos
      BY <1>1, <2>3, AtIsLeft DEF CommitMain, DeleteBranch, JobOK, InRepo
    <3>2. excused' \in [Consumers -> SUBSET Repos]
      BY <1>1, <1>3, <2>3, <3>1 DEF CommitMain, DeleteBranch, HistoryOK
    <3>3. QED
      BY <1>1, <2>3, <3>1, <3>2 DEF CommitMain, DeleteBranch, HistoryOK
  <2>4. QED
    BY <1>2, <1>5, <2>1, <2>2, <2>3 DEF Consumer, Crash, ListRepo, Listed, Scanned, ReadRefs, Finish
<1>6. ASSUME NEW s \in setting.squashes, SquashWrites(s)
      PROVE  HistoryOK'
  <2>1. squash[s].repo \in Repos
    BY <1>1, <1>6, SettingOK DEF SquashWrites, SquashKnows
  <2>2. QED
    BY <1>1, <1>3, <1>6, <2>1 DEF SquashWrites, HistoryOK
<1>7. QED
  BY <1>2, <1>4, <1>5, <1>6 DEF Next, vars, Squash, SquashReads, SquashRefused, history

LEMMA TypeStep == TypeOK /\ SquashKnows /\ [Next]_vars => TypeOK' /\ SquashKnows' /\ setting' = setting
<1> SUFFICES ASSUME TypeOK, SquashKnows, [Next]_vars
             PROVE  TypeOK' /\ SquashKnows' /\ setting' = setting
  OBVIOUS
<1>1. setting' = setting /\ setting \in Settings
  BY TypeParts DEF Next, vars
<1>2. RefsOK' /\ JobOK' /\ SquashOK' /\ SquashKnows' /\ HistoryOK'
  BY RefsStep, JobStep, SquashStep, HistoryStep
<1>3. QED
  BY <1>1, <1>2 DEF TypeOK, RefsOK, JobOK, SquashOK, HistoryOK, SquashPhases

-----------------------------------------------------------------------------
(* What the others do to a run *)

\* A run is excused ever more repositories, until it starts anew.
LEMMA ExcusedGrows ==
    ASSUME TypeOK, [Next]_vars, NEW c \in Consumers
    PROVE  Start(c) \/ excused[c] \subseteq excused'[c]
<1>1. HistoryOK
  BY TypeParts
<1>2. ASSUME NEW r, NEW d, Disturb(r, d)
      PROVE  excused[c] \subseteq excused'[c]
  BY <1>2 DEF Disturb
<1>3. ASSUME NEW d \in Consumers, NEW failed, Excuse(d, failed)
      PROVE  excused[c] \subseteq excused'[c]
  BY <1>1, <1>3 DEF Excuse, HistoryOK
<1>4. CASE UNCHANGED excused
  BY <1>4
<1>5. ASSUME NEW d \in Consumers, Start(d), c # d
      PROVE  excused'[c] = excused[c]
  BY <1>1, <1>5 DEF Start, HistoryOK
<1>6. QED
  BY <1>2, <1>3, <1>4, <1>5
     DEF Next, vars, Developer, PushMain, CreateBranch, PushBranch, UpdateBranch, DropBranch,
         Consumer, Crash, ListRepo, Listed, ScanRepo, Scanned, ReadRefs, SkipRepo,
         CommitMain, CommitFails, DeleteBranch, Finish, Squash, SquashReads, SquashRefused, SquashWrites, history

\* Whoever else moves a ref of a repository excuses it for a run that goes on.
LEMMA OthersExcuse ==
    ASSUME TypeOK, SquashKnows, [Next]_vars, NEW c \in Consumers, phase[c] \in Running,
           ~(Start(c) \/ Consumer(c) \/ Crash(c)), NEW q \in Repos
    PROVE  \/ main'[q] = main[q] /\ branch'[q] = branch[q]
           \/ q \in excused'[c]
<1>1. RefsOK /\ JobOK /\ SquashOK /\ HistoryOK /\ setting \in Settings
  BY TypeParts
<1>2. CASE UNCHANGED refs
  BY <1>2 DEF refs
<1>3. ASSUME NEW r \in Repos, NEW d, d # c, Disturb(r, d),
             \A p \in Repos \ {r} : main'[p] = main[p] /\ branch'[p] = branch[p]
      PROVE  (main'[q] = main[q] /\ branch'[q] = branch[q]) \/ q \in excused'[c]
  BY <1>3 DEF Disturb
<1>4. ASSUME NEW r \in setting.repos, Developer(r)
      PROVE  (main'[q] = main[q] /\ branch'[q] = branch[q]) \/ q \in excused'[c]
  <2>1. r \in Repos
    BY <1>1, SettingOK
  <2>2. Disturb(r, None) /\ None # c
    BY <1>4, OrgAssumption DEF Developer, PushMain, CreateBranch, PushBranch, UpdateBranch, DropBranch
  <2>3. \A p \in Repos \ {r} : main'[p] = main[p] /\ branch'[p] = branch[p]
    BY <1>1, <1>4, <2>1
       DEF Developer, PushMain, CreateBranch, PushBranch, UpdateBranch, DropBranch, RefsOK
  <2>4. QED
    BY <1>3, <2>1, <2>2, <2>3
<1>5. ASSUME NEW d \in Consumers, CommitMain(d) \/ DeleteBranch(d)
      PROVE  (main'[q] = main[q] /\ branch'[q] = branch[q]) \/ q \in excused'[c]
  <2>1. At(d) \in Repos /\ d # c
    BY <1>1, <1>5, AtIsLeft DEF CommitMain, DeleteBranch, JobOK, InRepo, Consumer
  <2>2. Disturb(At(d), d) \/ UNCHANGED refs
    BY <1>5 DEF CommitMain, DeleteBranch, refs
  <2>3. \A p \in Repos \ {At(d)} : main'[p] = main[p] /\ branch'[p] = branch[p]
    BY <1>1, <1>5, <2>1 DEF CommitMain, DeleteBranch, RefsOK
  <2>4. QED
    BY <1>2, <1>3, <2>1, <2>2, <2>3
<1>6. ASSUME NEW s \in setting.squashes, SquashWrites(s)
      PROVE  (main'[q] = main[q] /\ branch'[q] = branch[q]) \/ q \in excused'[c]
  <2>1. squash[s].repo \in Repos /\ None # c
    BY <1>1, <1>6, SettingOK, OrgAssumption DEF SquashWrites, SquashKnows
  <2>2. \A p \in Repos \ {squash[s].repo} : main'[p] = main[p] /\ branch'[p] = branch[p]
    BY <1>1, <1>6, <2>1 DEF SquashWrites, RefsOK
  <2>3. QED
    BY <1>3, <1>6, <2>1, <2>2 DEF SquashWrites
<1>7. QED
  BY <1>2, <1>4, <1>5, <1>6
     DEF Next, vars, Consumer, Squash, Start, Crash, ListRepo, Listed, ScanRepo, Scanned, ReadRefs, SkipRepo,
         CommitFails, Finish, SquashReads, SquashRefused, refs

-----------------------------------------------------------------------------
(* main *)

\* main moves only forward, by one number at a time.
LEMMA MainMoves ==
    ASSUME TypeOK, Numbered, [Next]_vars, NEW r \in Repos
    PROVE  \/ main'[r] = main[r]
           \/ main'[r].n = main[r].n + 1 /\ main[r].tree \subseteq main'[r].tree
<1>1. RefsOK /\ JobOK /\ setting \in Settings
  BY TypeParts
<1>2. CASE UNCHANGED main
  BY <1>2
<1>3. ASSUME NEW q \in setting.repos, NEW e \in setting.edits, PushMain(q, e)
      PROVE  \/ main'[r] = main[r]
             \/ main'[r].n = main[r].n + 1 /\ main[r].tree \subseteq main'[r].tree
  BY <1>1, <1>3, SettingOK DEF PushMain, RefsOK
<1>4. ASSUME NEW c \in Consumers, CommitMain(c)
      PROVE  \/ main'[r] = main[r]
             \/ main'[r].n = main[r].n + 1 /\ main[r].tree \subseteq main'[r].tree
  <2>1. At(c) \in Repos /\ seen[c].ours = main[At(c)].tree
    BY <1>1, <1>4, AtIsLeft DEF CommitMain, JobOK, InRepo, Numbered
  <2>2. QED
    BY <1>1, <1>4, <2>1 DEF CommitMain, RefsOK
<1>5. QED
  BY <1>2, <1>3, <1>4
     DEF Next, vars, Developer, CreateBranch, PushBranch, UpdateBranch, DropBranch,
         Consumer, Start, Crash, ListRepo, Listed, ScanRepo, Scanned, ReadRefs, SkipRepo, CommitFails,
         DeleteBranch, Finish, Squash, SquashReads, SquashRefused, SquashWrites, refs

LEMMA NumberedStep == TypeOK /\ SquashKnows /\ Numbered /\ [Next]_vars => Numbered'
<1> SUFFICES ASSUME TypeOK, SquashKnows, Numbered, [Next]_vars, NEW c \in Consumers,
                    phase'[c] = "commit"
             PROVE  /\ seen'[c].n <= main'[At(c)'].n
                    /\ seen'[c].n = main'[At(c)'].n => seen'[c].ours = main'[At(c)'].tree
  BY DEF Numbered
<1>1. RefsOK /\ JobOK
  BY TypeParts
<1>2. CASE phase[c] = "commit"
  <2>1. left'[c] = left[c] /\ seen'[c] = seen[c]
    BY <1>1, <1>2, JobMoves
       DEF JobOK, Start, Crash, Consumer, ListRepo, Listed, ScanRepo, Scanned, ReadRefs, SkipRepo,
           CommitMain, CommitFails, DeleteBranch, Finish
  <2>2. At(c)' = At(c) /\ At(c) \in Repos
    BY <1>1, <1>2, <2>1, AtIsLeft DEF At, JobOK, InRepo
  <2>3. \/ main'[At(c)] = main[At(c)]
        \/ main'[At(c)].n = main[At(c)].n + 1
    BY <2>2, MainMoves
  <2>4. seen[c].n \in Nat /\ main[At(c)].n \in Nat
    BY <1>1, <2>2 DEF RefsOK, JobOK
  <2>5. QED
    BY <1>2, <2>1, <2>2, <2>3, <2>4 DEF Numbered
<1>3. CASE phase[c] # "commit"
  <2>1. ReadRefs(c)
    BY <1>1, <1>3, JobMoves
       DEF JobOK, Start, Crash, Consumer, ListRepo, Listed, ScanRepo, Scanned, ReadRefs, SkipRepo,
           CommitMain, CommitFails, DeleteBranch, Finish
  <2>2. At(c)' = At(c) /\ At(c) \in Repos
    BY <1>1, <2>1, AtIsLeft DEF ReadRefs, At, JobOK
  <2>3. seen'[c].n = main[At(c)].n /\ seen'[c].ours = main[At(c)].tree /\ main' = main
    BY <1>1, <2>1 DEF ReadRefs, JobOK, refs
  <2>4. QED
    BY <1>1, <2>2, <2>3 DEF RefsOK
<1>4. QED
  BY <1>2, <1>3

LEMMA BasedStep == TypeOK /\ SquashKnows /\ Based /\ [Next]_vars => Based'
<1> SUFFICES ASSUME TypeOK, SquashKnows, Based, [Next]_vars
             PROVE  Based'
  OBVIOUS
<1>1. RefsOK /\ JobOK /\ SquashOK /\ setting \in Settings
  BY TypeParts
<1>2. Orphans' = Orphans
  BY DEF Next, vars, Orphans
<1>3. \A t \in Trees : t # None
  BY NoneAssumption
<1>4. CASE UNCHANGED branch
  BY <1>2, <1>4 DEF Based
<1>5. ASSUME NEW r \in setting.repos, Developer(r)
      PROVE  Based'
  <2>1. r \in Repos /\ main[r].tree \in Trees
    BY <1>1, SettingOK DEF RefsOK
  <2>2. ASSUME NEW e \in setting.edits, PushBranch(r, e)
        PROVE  Based'
    <3>1. branch[r] \in Branches
      BY <1>1, <2>1, <2>2 DEF PushBranch, RefsOK
    <3>2. branch'[r].base = branch[r].base
      BY <1>1, <2>1, <2>2, <3>1 DEF PushBranch, RefsOK, Branches
    <3>3. QED
      BY <1>1, <1>2, <2>1, <2>2, <3>2 DEF PushBranch, Based, RefsOK
  <2>3. CASE CreateBranch(r)
    BY <1>1, <1>2, <1>3, <2>1, <2>3 DEF CreateBranch, Based, RefsOK
  <2>4. CASE UpdateBranch(r)
    BY <1>1, <1>2, <1>3, <2>1, <2>4 DEF UpdateBranch, Based, RefsOK
  <2>5. CASE DropBranch(r)
    BY <1>1, <1>2, <2>1, <2>5 DEF DropBranch, Based, RefsOK
  <2>6. QED
    BY <1>4, <1>5, <2>2, <2>3, <2>4, <2>5 DEF Developer, PushMain
<1>6. ASSUME NEW c \in Consumers, DeleteBranch(c)
      PROVE  Based'
  BY <1>1, <1>2, <1>4, <1>6 DEF DeleteBranch, Based, RefsOK
<1>7. ASSUME NEW s \in setting.squashes, SquashWrites(s)
      PROVE  Based'
  <2>1. squash[s].base \in Trees
    BY <1>1, <1>7, SettingOK DEF SquashWrites, SquashOK
  <2>2. QED
    BY <1>1, <1>2, <1>3, <1>7, <2>1 DEF SquashWrites, Based, RefsOK
<1>8. QED
  BY <1>4, <1>5, <1>6, <1>7
     DEF Next, vars, Consumer, Start, Crash, ListRepo, Listed, ScanRepo, Scanned, ReadRefs, SkipRepo,
         CommitMain, CommitFails, Finish, Squash, SquashReads, SquashRefused, refs

-----------------------------------------------------------------------------
(* Edits *)

\* What was forfeited stays so, and an edit is sent once.
LEMMA SentMoves ==
    ASSUME TypeOK, [Next]_vars
    PROVE  /\ forfeited \subseteq forfeited'
           /\ \/ sent' = sent
              \/ \E r \in Repos, e \in Edits : PushMain(r, e) \/ PushBranch(r, e)
<1>1. setting \in Settings /\ RefsOK
  BY TypeParts
<1>2. \A r \in setting.repos, e \in setting.edits : r \in Repos /\ e \in Edits
  BY <1>1, SettingOK
<1>3. QED
  BY <1>2
     DEF Next, vars, Developer, PushMain, CreateBranch, PushBranch, UpdateBranch, DropBranch,
         Consumer, Start, Crash, ListRepo, Listed, ScanRepo, Scanned, ReadRefs, SkipRepo,
         CommitMain, CommitFails, DeleteBranch, Finish, Squash, SquashReads, SquashRefused, SquashWrites, history

\* While somebody is about to write or delete the branch of r nobody adds to what is to
\* be kept: an edit pushed now is forfeited.
LEMMA SafeStays ==
    ASSUME TypeOK, Numbered, [Next]_vars, NEW r \in Repos, NEW tree, Racing(r), SafeWith(r, tree)
    PROVE  SafeWith(r, tree)'
<1>1. RefsOK
  BY TypeParts
<1>2. main[r].tree \subseteq main'[r].tree /\ forfeited \subseteq forfeited'
  BY MainMoves, SentMoves
<1>3. CASE sent' = sent
  BY <1>2, <1>3 DEF SafeWith
<1>4. ASSUME NEW q \in Repos, NEW e \in Edits, PushMain(q, e)
      PROVE  SafeWith(r, tree)'
  BY <1>1, <1>2, <1>4 DEF PushMain, SafeWith, RefsOK
<1>5. ASSUME NEW q \in Repos, NEW e \in Edits, PushBranch(q, e)
      PROVE  SafeWith(r, tree)'
  BY <1>1, <1>2, <1>5 DEF PushBranch, SafeWith, RefsOK
<1>6. QED
  BY <1>3, <1>4, <1>5, SentMoves

\* What a reader of the branch finds there, and main, hold all that is to be kept.
LEMMA SafeWhenRead ==
    ASSUME TypeOK, LostOnlyIfRaced, NEW r \in Repos, branch[r] # None
    PROVE  SafeWith(r, branch[r].tree)
BY OrgAssumption DEF LostOnlyIfRaced, SafeWith

LEMMA WritesStep ==
    TypeOK /\ SquashKnows /\ Numbered /\ WritesSafely /\ LostOnlyIfRaced /\ [Next]_vars
        => WritesSafely'
<1> SUFFICES ASSUME TypeOK, SquashKnows, Numbered, WritesSafely, LostOnlyIfRaced, [Next]_vars
             PROVE  WritesSafely'
  OBVIOUS
<1>1. RefsOK /\ JobOK /\ SquashOK /\ setting \in Settings
  BY TypeParts
<1>2. ASSUME NEW c \in Consumers, phase'[c] \in InRepo, phase[c] = phase'[c]
      PROVE  /\ phase'[c] = "commit" => SafeWith(At(c), seen[c].theirs)'
             /\ phase'[c] = "delete" => SafeWith(At(c), {})'
  <2>1. left'[c] = left[c] /\ seen'[c] = seen[c]
    BY <1>1, <1>2, JobMoves
       DEF JobOK, Start, Crash, Consumer, ListRepo, Listed, ScanRepo, Scanned, ReadRefs, SkipRepo,
           CommitMain, CommitFails, DeleteBranch, Finish, InRepo
  <2>2. At(c)' = At(c) /\ At(c) \in Repos /\ Racing(At(c))
    BY <1>1, <1>2, <2>1, AtIsLeft DEF At, JobOK, Racing
  <2>3. CASE phase[c] = "commit"
    <3>1. SafeWith(At(c), seen[c].theirs)
      BY <2>3 DEF WritesSafely
    <3>2. \A e \in Edits : sent'[e] = At(c) => e \in main'[At(c)].tree \union forfeited' \union seen[c].theirs
      BY <2>2, <3>1, SafeStays DEF SafeWith
    <3>3. QED
      BY <1>2, <2>1, <2>2, <2>3, <3>2 DEF SafeWith
  <2>4. CASE phase[c] = "delete"
    <3>1. SafeWith(At(c), {})
      BY <2>4 DEF WritesSafely
    <3>2. \A e \in Edits : sent'[e] = At(c) => e \in main'[At(c)].tree \union forfeited' \union {}
      BY <2>2, <3>1, SafeStays DEF SafeWith
    <3>3. QED
      BY <1>2, <2>1, <2>2, <2>4, <3>2 DEF SafeWith
  <2>5. QED
    BY <1>2, <2>3, <2>4 DEF InRepo
<1>3. ASSUME NEW c \in Consumers, phase'[c] = "commit", phase[c] # "commit"
      PROVE  SafeWith(At(c), seen[c].theirs)'
  <2>1. ReadRefs(c)
    BY <1>1, <1>3, JobMoves
       DEF JobOK, Start, Crash, Consumer, ListRepo, Listed, ScanRepo, Scanned, ReadRefs, SkipRepo,
           CommitMain, CommitFails, DeleteBranch, Finish
  <2>2. At(c)' = At(c) /\ At(c) \in Repos
    BY <1>1, <2>1, AtIsLeft DEF ReadRefs, At, JobOK
  <2>3. seen'[c].theirs = branch[At(c)].tree /\ sent' = sent /\ main' = main /\ forfeited' = forfeited
    BY <1>1, <2>1 DEF ReadRefs, JobOK, refs, history
  <2>4. SafeWith(At(c), branch[At(c)].tree)
    BY <2>1, <2>2, SafeWhenRead DEF ReadRefs, Mergeable
  <2>5. QED
    BY <2>2, <2>3, <2>4 DEF SafeWith
<1>4. ASSUME NEW c \in Consumers, phase'[c] = "delete", phase[c] # "delete"
      PROVE  SafeWith(At(c), {})'
  <2>1. CommitMain(c)
    BY <1>1, <1>4, JobMoves
       DEF JobOK, Start, Crash, Consumer, ListRepo, Listed, ScanRepo, Scanned, ReadRefs, SkipRepo,
           CommitMain, CommitFails, DeleteBranch, Finish
  <2>2. At(c)' = At(c) /\ At(c) \in Repos
    BY <1>1, <2>1, AtIsLeft DEF CommitMain, At, JobOK, InRepo
  <2>3. main'[At(c)].tree = main[At(c)].tree \union seen[c].theirs
    BY <1>1, <2>1, <2>2 DEF CommitMain, RefsOK, Numbered
  <2>4. SafeWith(At(c), seen[c].theirs) /\ sent' = sent /\ forfeited' = forfeited
    BY <2>1 DEF CommitMain, WritesSafely
  <2>5. QED
    BY <2>2, <2>3, <2>4 DEF SafeWith
<1>5. ASSUME NEW s \in Squashes, squash'[s].phase = "read"
      PROVE  SafeWith(squash[s].repo, squash[s].tree)'
  <2>1. CASE squash'[s] = squash[s]
    <3>1. squash[s].repo \in Repos /\ Racing(squash[s].repo) /\ SafeWith(squash[s].repo, squash[s].tree)
      BY <1>5, <2>1 DEF SquashKnows, Racing, WritesSafely
    <3>2. \A e \in Edits : sent'[e] = squash[s].repo
              => e \in main'[squash[s].repo].tree \union forfeited' \union squash[s].tree
      BY <3>1, SafeStays DEF SafeWith
    <3>3. QED
      BY <2>1, <3>2 DEF SafeWith
  <2>2. ASSUME NEW r \in setting.repos, SquashReads(s, r)
        PROVE  SafeWith(squash[s].repo, squash[s].tree)'
    <3>1. r \in Repos /\ branch[r] # None
      BY <1>1, <2>2, SettingOK DEF SquashReads, Mergeable
    <3>2. squash'[s].repo = r /\ squash'[s].tree = branch[r].tree /\ sent' = sent /\ main' = main
          /\ forfeited' = forfeited
      BY <1>1, <2>2 DEF SquashReads, SquashOK, refs, history
    <3>3. QED
      BY <3>1, <3>2, SafeWhenRead DEF SafeWith
  <2>3. squash'[s] = squash[s] \/ \E r \in setting.repos : SquashReads(s, r)
    <3>1. UNCHANGED squash \/ \E t \in setting.squashes : Squash(t)
      BY DEF Next, vars, Developer, PushMain, CreateBranch, PushBranch, UpdateBranch, DropBranch, job,
             Consumer, Start, Crash, ListRepo, Listed, ScanRepo, Scanned, ReadRefs, SkipRepo,
             CommitMain, CommitFails, DeleteBranch, Finish
    <3>2. ASSUME NEW t \in setting.squashes, Squash(t), t # s
          PROVE  squash'[s] = squash[s]
      BY <1>1, <3>2 DEF Squash, SquashReads, SquashRefused, SquashWrites, SquashOK
    <3>3. ASSUME NEW r \in setting.repos, SquashRefused(s, r)
          PROVE  FALSE
      BY <1>1, <1>5, <3>3 DEF SquashRefused, SquashOK
    <3>4. CASE SquashWrites(s)
      BY <1>1, <1>5, <3>4 DEF SquashWrites, SquashOK
    <3>5. QED
      BY <3>1, <3>2, <3>3, <3>4 DEF Squash
  <2>4. QED
    BY <2>1, <2>2, <2>3
<1>6. QED
  BY <1>2, <1>3, <1>4, <1>5 DEF WritesSafely, InRepo

LEMMA LostStep ==
    TypeOK /\ SquashKnows /\ Numbered /\ WritesSafely /\ LostOnlyIfRaced /\ [Next]_vars
        => LostOnlyIfRaced'
<1> SUFFICES ASSUME TypeOK, SquashKnows, Numbered, WritesSafely, LostOnlyIfRaced, [Next]_vars
             PROVE  LostOnlyIfRaced'
  OBVIOUS
<1> SUFFICES ASSUME NEW e \in Edits, NEW r \in Repos, sent'[e] = r
             PROVE  \/ e \in main'[r].tree \union forfeited'
                    \/ branch'[r] # None /\ e \in branch'[r].tree
  <2>1. RefsOK'
    BY RefsStep
  <2>2. \A e \in Edits : sent'[e] \in Repos \union {None}
    BY <2>1 DEF RefsOK
  <2>3. QED
    BY <2>2 DEF LostOnlyIfRaced
<1>1. RefsOK /\ JobOK /\ SquashOK /\ setting \in Settings /\ r # None
  BY TypeParts, OrgAssumption
<1>2. main[r].tree \subseteq main'[r].tree /\ forfeited \subseteq forfeited'
  BY MainMoves, SentMoves
<1>3. ASSUME NEW q \in Repos, NEW d \in Edits, PushMain(q, d) \/ PushBranch(q, d), e = d
      PROVE  \/ e \in main'[r].tree \union forfeited'
             \/ branch'[r] # None /\ e \in branch'[r].tree
  <2>1. q = r
    BY <1>1, <1>3 DEF PushMain, PushBranch, RefsOK
  <2>2. CASE PushMain(q, d)
    BY <1>1, <1>3, <2>1, <2>2 DEF PushMain, RefsOK
  <2>3. CASE PushBranch(q, d)
    <3>1. branch[r] \in Branches /\ branch' = [branch EXCEPT ![r].tree = @ \union {e}, ![r].own = TRUE]
      BY <1>1, <1>3, <2>1, <2>3 DEF PushBranch, RefsOK
    <3>2. e \in branch'[r].tree /\ branch'[r] \in Branches
      BY <1>1, <3>1 DEF RefsOK, Branches, Trees
    <3>3. QED
      BY <3>2, NoneAssumption
  <2>4. QED
    BY <1>3, <2>2, <2>3
<1>4. CASE sent[e] # r
  BY ZenonT(60), <1>1, <1>3, <1>4, SentMoves DEF PushMain, PushBranch, RefsOK
<1>5. CASE sent[e] = r
  <2>1. \/ e \in main[r].tree \union forfeited
        \/ branch[r] # None /\ e \in branch[r].tree
    BY <1>1, <1>5 DEF LostOnlyIfRaced
  <2>2. CASE branch'[r] = branch[r] \/ e \in main[r].tree \union forfeited
    BY <1>2, <2>1, <2>2
  <2>3. ASSUME branch[r] # None, e \in branch[r].tree, branch'[r] # branch[r],
               e \notin main[r].tree \union forfeited
        PROVE  \/ e \in main'[r].tree \union forfeited'
               \/ branch'[r] # None /\ e \in branch'[r].tree
    <3>1. ASSUME NEW q \in setting.repos, Developer(q)
          PROVE  \/ e \in forfeited'
                 \/ branch'[r] # None /\ e \in branch'[r].tree
      <4>1. q \in Repos /\ branch[r] \in Branches
        BY <1>1, <2>3, SettingOK DEF RefsOK
      <4>2. ASSUME NEW d \in setting.edits, PushBranch(q, d)
            PROVE  branch'[r] # None /\ e \in branch'[r].tree
        <5>1. q = r /\ branch' = [branch EXCEPT ![r].tree = @ \union {d}, ![r].own = TRUE]
          BY <1>1, <2>3, <4>1, <4>2 DEF PushBranch, RefsOK
        <5>2. d \in Edits
          BY <1>1, SettingOK
        <5>3. e \in branch'[r].tree /\ branch'[r] \in Branches
          BY <1>1, <2>3, <4>1, <5>1, <5>2 DEF RefsOK, Branches, Trees
        <5>4. QED
          BY <5>3, NoneAssumption
      <4>3. CASE CreateBranch(q)
        BY <1>1, <2>3, <4>1, <4>3 DEF CreateBranch, RefsOK
      <4>4. CASE UpdateBranch(q)
        <5>1. q = r /\ branch'[r] = [tree |-> branch[r].tree \union main[r].tree, base |-> main[r].tree,
                                     own |-> TRUE]
          BY <1>1, <2>3, <4>1, <4>4 DEF UpdateBranch, RefsOK
        <5>2. branch'[r] \in Branches
          BY <1>1, <4>1, <5>1 DEF RefsOK, Branches, Trees
        <5>3. e \in branch'[r].tree
          BY <2>3, <5>1
        <5>4. branch'[r] # None
          BY <5>2, NoneAssumption
        <5>5. QED
          BY <5>3, <5>4
      <4>5. CASE DropBranch(q)
        BY <1>1, <2>3, <4>1, <4>5 DEF DropBranch, RefsOK
      <4>6. QED
        BY <2>3, <3>1, <4>2, <4>3, <4>4, <4>5 DEF Developer, PushMain
    <3>2. ASSUME NEW c \in Consumers, DeleteBranch(c)
          PROVE  FALSE
      <4>1. At(c) = r
        BY <1>1, <2>3, <3>2 DEF DeleteBranch, RefsOK
      <4>2. QED
        BY <1>5, <2>3, <3>2, <4>1 DEF DeleteBranch, WritesSafely, SafeWith
    <3>3. ASSUME NEW s \in setting.squashes, SquashWrites(s)
          PROVE  branch'[r] # None /\ e \in branch'[r].tree
      <4>1. s \in Squashes /\ squash[s].repo = r
        BY <1>1, <2>3, <3>3, SettingOK DEF SquashWrites, RefsOK
      <4>2. branch'[r] = [tree |-> squash[s].tree, base |-> squash[s].base, own |-> TRUE]
        BY <1>1, <3>3, <4>1 DEF SquashWrites, RefsOK
      <4>3. branch'[r] \in Branches
        BY <1>1, <4>1, <4>2 DEF SquashOK, Branches
      <4>4. e \in squash[s].tree
        BY <1>5, <2>3, <3>3, <4>1 DEF SquashWrites, WritesSafely, SafeWith
      <4>5. e \in branch'[r].tree
        BY <4>2, <4>4
      <4>6. branch'[r] # None
        BY <4>3, NoneAssumption
      <4>7. QED
        BY <4>5, <4>6
    <3>4. QED
      BY <2>3, <3>1, <3>2, <3>3
         DEF Next, vars, Consumer, Start, Crash, ListRepo, Listed, ScanRepo, Scanned, ReadRefs, SkipRepo,
             CommitMain, CommitFails, Finish, Squash, SquashReads, SquashRefused, refs
  <2>4. QED
    BY <2>1, <2>2, <2>3
<1>6. QED
  BY <1>4, <1>5

-----------------------------------------------------------------------------
(* The two passes *)

\* A repository nobody has touched is as mergeable as before.
LEMMA MergeableStays ==
    ASSUME NEW r, main'[r] = main[r], branch'[r] = branch[r], setting' = setting, Mergeable(r)
    PROVE  Mergeable(r)'
BY DEF Mergeable, HasConflicts, NoMain

\* What pass 1 lets through can be merged.
LEMMA ClearedIsMergeable ==
    ASSUME Based, NEW r \in Repos, ~CheckBlocks(r)
    PROVE  r \in Orphans \/ Mergeable(r)
BY DEF CheckBlocks, Mergeable, Based

LEMMA ProgressStep == TypeOK /\ SquashKnows /\ Based /\ Numbered /\ Progress /\ [Next]_vars => Progress'
<1> SUFFICES ASSUME TypeOK, SquashKnows, Based, Numbered, Progress, [Next]_vars, NEW c \in Consumers
             PROVE  (ListedSo(c) /\ ScannedSo(c) /\ MergedSo(c) /\ InRepoSo(c) /\ EndedSo(c))'
  BY DEF Progress
<1>1. RefsOK /\ JobOK /\ HistoryOK /\ setting \in Settings /\ setting' = setting
  BY TypeParts, TypeStep
<1>2. ListedSo(c) /\ ScannedSo(c) /\ MergedSo(c) /\ InRepoSo(c) /\ EndedSo(c)
  BY DEF Progress
<1>3. CASE ~(Start(c) \/ Consumer(c) \/ Crash(c))
  <2>1. /\ phase'[c] = phase[c] /\ left'[c] = left[c] /\ cand'[c] = cand[c]
        /\ blocked'[c] = blocked[c] /\ seen'[c] = seen[c] /\ merged'[c] = merged[c]
        /\ At(c)' = At(c)
    BY <1>3, JobMoves DEF At
  <2>2. excused[c] \subseteq excused'[c]
    BY <1>3, ExcusedGrows
  <2>3. \A r \in Repos : phase[c] \in Running /\ Mergeable(r) => Mergeable(r)' \/ r \in excused'[c]
    BY <1>1, <1>3, OthersExcuse, MergeableStays
  <2>4. cand[c] \subseteq Repos /\ left[c] \subseteq Repos
    BY <1>1 DEF JobOK
  <2>5. ListedSo(c)' /\ EndedSo(c)'
    BY <1>2, <2>1, <2>2 DEF ListedSo, EndedSo
  <2>6. ScannedSo(c)'
    BY <1>2, <2>1, <2>2, <2>3, <2>4 DEF ScannedSo, Running, Phases
  <2>7. MergedSo(c)'
    BY <1>2, <2>1, <2>2, <2>3, <2>4 DEF MergedSo, Merging, Running, Phases, InRepo
  <2>8. InRepoSo(c)'
    <3>1. phase[c] \in InRepo => At(c) \in Repos
      BY <1>1, <2>4, AtIsLeft DEF JobOK
    <3>2. phase[c] = "commit" => main'[At(c)] = main[At(c)] \/ At(c) \in excused'[c]
      BY <1>3, <3>1, OthersExcuse DEF Running, Phases, InRepo
    <3>3. QED
      BY <1>2, <2>1, <2>2, <3>2 DEF InRepoSo
  <2>9. QED
    BY <2>5, <2>6, <2>7, <2>8
<1>4. CASE Start(c) \/ ListRepo(c) \/ Crash(c)
  BY <1>1, <1>2, <1>4
     DEF Start, ListRepo, Crash, JobOK, HistoryOK, ListedSo, ScannedSo, MergedSo, InRepoSo, EndedSo, Merging,
         InRepo, Running, Phases, history
<1>5. CASE Listed(c)
  BY <1>1, <1>2, <1>5
     DEF Listed, JobOK, HistoryOK, ListedSo, ScannedSo, MergedSo, InRepoSo, EndedSo, Merging, InRepo, history
<1>6. CASE ScanRepo(c)
  <2>1. At(c) \in Repos /\ At(c) \in left[c]
    BY <1>1, <1>6, AtIsLeft DEF ScanRepo, JobOK
  <2>2. /\ phase'[c] = "scan" /\ cand'[c] = cand[c] /\ merged'[c] = {} /\ left'[c] = left[c] \ {At(c)}
        /\ main' = main /\ branch' = branch /\ excused[c] \subseteq excused'[c]
        /\ \/ blocked'[c] = (blocked[c] \/ CheckBlocks(At(c))) /\ (At(c) \in Orphans => At(c) \in excused'[c])
           \/ blocked'[c] = TRUE
           \/ blocked'[c] = blocked[c] /\ At(c) \in excused'[c]
    BY <1>1, <1>2, <1>6 DEF ScanRepo, Next1, Excuse, JobOK, HistoryOK, refs, ScannedSo
  <2>3. blocked[c] \in BOOLEAN /\ blocked'[c] \in BOOLEAN
    BY <1>1, JobStep DEF JobOK
  <2>4. ~blocked'[c] => ~blocked[c] /\ (Mergeable(At(c)) \/ At(c) \in excused'[c])
    BY <2>1, <2>2, <2>3, ClearedIsMergeable
  <2>5. \A r \in Repos : Mergeable(r) => Mergeable(r)'
    BY <1>1, <2>2, MergeableStays
  <2>6. cand[c] \subseteq Repos
    BY <1>1 DEF JobOK
  <2>7. ScannedSo(c)'
    BY <1>2, <1>6, <2>1, <2>2, <2>4, <2>5, <2>6 DEF ScannedSo, ScanRepo
  <2>8. QED
    BY <2>2, <2>7 DEF ListedSo, MergedSo, InRepoSo, EndedSo, Merging, InRepo
<1>7. CASE Scanned(c)
  <2>1. /\ merged[c] = {} /\ left[c] = {} /\ phase[c] = "scan"
        /\ ~blocked[c] => \A r \in cand[c] : Mergeable(r) \/ r \in excused[c]
    BY <1>2, <1>7 DEF Scanned, ScannedSo
  <2>2. /\ cand' = cand /\ merged' = merged /\ excused' = excused /\ main' = main /\ branch' = branch
        /\ phase'[c] = IF blocked[c] THEN "idle" ELSE "merge"
        /\ left'[c] = IF blocked[c] THEN {} ELSE cand[c]
    BY <1>1, <1>7 DEF Scanned, JobOK, refs, history
  <2>3. \A r \in Repos : Mergeable(r) => Mergeable(r)'
    BY <1>1, <2>2, MergeableStays
  <2>4. cand[c] \subseteq Repos
    BY <1>1 DEF JobOK
  <2>5. QED
    BY <2>1, <2>2, <2>3, <2>4 DEF ListedSo, ScannedSo, MergedSo, InRepoSo, EndedSo, Merging, InRepo
<1>8. CASE ReadRefs(c)
  <2>1. At(c) \in Repos /\ At(c)' = At(c)
    BY <1>1, <1>8, AtIsLeft DEF ReadRefs, At, JobOK
  <2>2. /\ cand' = cand /\ merged' = merged /\ excused' = excused /\ main' = main /\ branch' = branch
        /\ phase[c] = "merge" /\ phase'[c] = "commit" /\ left' = left /\ seen'[c].n = main[At(c)].n
    BY <1>1, <1>8 DEF ReadRefs, JobOK, refs, history
  <2>3. \A r \in Repos : Mergeable(r) => Mergeable(r)'
    BY <1>1, <2>2, MergeableStays
  <2>4. left[c] \subseteq Repos
    BY <1>1 DEF JobOK
  <2>5. QED
    BY <1>2, <2>1, <2>2, <2>3, <2>4 DEF ListedSo, ScannedSo, MergedSo, InRepoSo, EndedSo, Merging, InRepo
<1>9. CASE SkipRepo(c) \/ CommitFails(c)
  <2>1. At(c) \in Repos /\ At(c) \in left[c] /\ left[c] \subseteq Repos
    BY <1>1, <1>9, AtIsLeft DEF SkipRepo, CommitFails, JobOK, InRepo
  <2>2. /\ cand' = cand /\ merged' = merged /\ main' = main /\ branch' = branch
        /\ phase[c] \in Merging /\ phase'[c] = "merge" /\ left'[c] = left[c] \ {At(c)}
        /\ excused[c] \subseteq excused'[c]
    BY <1>1, <1>9 DEF SkipRepo, CommitFails, JobOK, HistoryOK, Next1, Excuse, refs, Merging, InRepo
  <2>3. \A r \in Repos : Mergeable(r) => Mergeable(r)'
    BY <1>1, <2>2, MergeableStays
  <2>4. At(c) \in merged[c] \union excused'[c]
    <3>1. CASE SkipRepo(c)
      BY <1>1, <1>2, <2>1, <2>2, <3>1 DEF SkipRepo, Excuse, MergedSo, HistoryOK
    <3>2. CASE CommitFails(c)
      BY <1>1, <1>2, <2>1, <2>2, <3>2 DEF CommitFails, Excuse, InRepoSo, HistoryOK
    <3>3. QED
      BY <1>9, <3>1, <3>2
  <2>5. QED
    BY <1>2, <2>1, <2>2, <2>3, <2>4 DEF ListedSo, ScannedSo, MergedSo, InRepoSo, EndedSo, Merging, InRepo
<1>10. CASE CommitMain(c)
  <2>1. At(c) \in Repos /\ left[c] \subseteq Repos /\ At(c)' = At(c)
    BY <1>1, <1>10, AtIsLeft DEF CommitMain, At, JobOK, InRepo
  <2>2. /\ cand' = cand /\ merged'[c] = merged[c] \union {At(c)} /\ branch' = branch
        /\ \A r \in Repos \ {At(c)} : main'[r] = main[r]
        /\ phase[c] \in Merging /\ phase'[c] = "delete" /\ left' = left
        /\ excused[c] \subseteq excused'[c]
    BY <1>1, <1>10, <2>1 DEF CommitMain, JobOK, RefsOK, HistoryOK, Disturb, Merging, InRepo
  <2>3. \A r \in Repos \ {At(c)} : Mergeable(r) => Mergeable(r)'
    BY <1>1, <2>2, MergeableStays
  <2>4. QED
    BY <1>2, <2>1, <2>2, <2>3 DEF ListedSo, ScannedSo, MergedSo, InRepoSo, EndedSo, Merging, InRepo
<1>11. CASE DeleteBranch(c)
  <2>1. At(c) \in Repos /\ left[c] \subseteq Repos
    BY <1>1, <1>11, AtIsLeft DEF DeleteBranch, JobOK, InRepo
  <2>2. /\ cand' = cand /\ merged' = merged /\ main' = main
        /\ \A r \in Repos \ {At(c)} : branch'[r] = branch[r]
        /\ phase[c] = "delete" /\ phase'[c] = "merge" /\ left'[c] = left[c] \ {At(c)}
        /\ excused[c] \subseteq excused'[c]
    BY <1>1, <1>11, <2>1 DEF DeleteBranch, JobOK, RefsOK, HistoryOK, Disturb, Next1
  <2>3. \A r \in Repos \ {At(c)} : Mergeable(r) => Mergeable(r)'
    BY <1>1, <2>2, MergeableStays
  <2>4. At(c) \in merged[c]
    BY <1>2, <2>2 DEF InRepoSo
  <2>5. QED
    BY <1>2, <2>1, <2>2, <2>3, <2>4 DEF ListedSo, ScannedSo, MergedSo, InRepoSo, EndedSo, Merging, InRepo
<1>12. CASE Finish(c)
  BY <1>1, <1>2, <1>12
     DEF Finish, JobOK, ListedSo, ScannedSo, MergedSo, InRepoSo, EndedSo, Merging, InRepo, history
<1>13. QED
  BY <1>3, <1>4, <1>5, <1>6, <1>7, <1>8, <1>9, <1>10, <1>11, <1>12 DEF Consumer

-----------------------------------------------------------------------------
IInv == TypeOK /\ SquashKnows /\ Based /\ Numbered /\ WritesSafely /\ LostOnlyIfRaced /\ Progress

LEMMA InitIInv == Init => IInv
<1> SUFFICES ASSUME Init
             PROVE  IInv
  OBVIOUS
<1>1. TypeOK /\ SquashKnows
  BY InitTypeOK
<1>2. Based /\ LostOnlyIfRaced
  BY DEF Init, Based, LostOnlyIfRaced
<1>3. Numbered /\ WritesSafely /\ Progress
  BY DEF Init, Numbered, WritesSafely, Progress, ListedSo, ScannedSo, MergedSo, InRepoSo, EndedSo, Merging, InRepo
<1>4. QED
  BY <1>1, <1>2, <1>3 DEF IInv

LEMMA Inductive == Spec => []IInv
<1>1. IInv /\ [Next]_vars => IInv'
  BY TypeStep, BasedStep, NumberedStep, WritesStep, LostStep, ProgressStep DEF IInv
<1>2. QED
  BY InitIInv, <1>1, PTL DEF Spec

-----------------------------------------------------------------------------
(* Theorems *)

\* Every variable keeps its type, for any repositories, edits, consumers and squashes.
THEOREM TypeCorrect == Spec => []TypeOK
<1>1. IInv => TypeOK
  BY DEF IInv
<1>2. QED
  BY Inductive, <1>1, PTL

\* However many consumers run the job and developers push, no commit to main loses what
\* main had (the parent check of repo.commit in merge).
THEOREM NoWorkLost == Spec => MainKeepsWork
<1>1. IInv /\ [Next]_vars => [\A r \in Repos : main[r].tree \subseteq main'[r].tree]_vars
  BY MainMoves DEF IInv
<1>2. QED
  BY Inductive, <1>1, PTL DEF Spec, MainKeepsWork

\* A run that ends merged all its candidates or none, but for those something disturbed:
\* the list of disturbances is complete (execute_org_merge).
THEOREM PartialExplained == Spec => []PartialOnlyIfDisturbed
<1>1. IInv => PartialOnlyIfDisturbed
  BY DEF IInv, Progress, EndedSo, PartialOnlyIfDisturbed
<1>2. QED
  BY Inductive, <1>1, PTL

\* An edit pushed to a branch is lost only to its owner or to a push inside the read-write
\* interval of a merge or a squash, for any number of both (merge, squash_branch).
THEOREM LostExplained == Spec => []LostOnlyIfRaced
<1>1. IInv => LostOnlyIfRaced
  BY DEF IInv
<1>2. QED
  BY Inductive, <1>1, PTL

-----------------------------------------------------------------------------
(* A run that nobody disturbs *)

\* What the job has no power over: a repository that shares no history with its branch or
\* has no main, an error of the file system, a second consumer at the same time ...
Regular == Orphans = {} /\ Faults = {}
OneJob  == \A c, d \in Consumers : phase[c] \in Running /\ phase[d] \in Running => c = d

\* ... and refs that somebody else moves while it runs.
Interference ==
    /\ \E c \in Consumers : phase[c] \in Running
    /\ (\E r \in setting.repos : Developer(r)) \/ (\E s \in setting.squashes : SquashWrites(s))

NoneExcused == \A c \in Consumers : excused[c] = {}

\* A run merges none but its candidates.
FromCandidates ==
    \A c \in Consumers : merged[c] \subseteq cand[c] /\ (phase[c] \in Merging => left[c] \subseteq cand[c])

LEMMA NoneExcusedStep ==
    ASSUME TypeOK, Regular, OneJob, NoneExcused, [Next]_vars, ~Interference
    PROVE  NoneExcused'
<1>0. HistoryOK /\ JobOK
  BY TypeParts
<1> USE DEF NoneExcused
<1>1. CASE UNCHANGED excused
  BY <1>1
<1>2. ASSUME NEW r, NEW d, Disturb(r, d), \A c \in Consumers : c # d => phase[c] \notin Running
      PROVE  NoneExcused'
  BY <1>2 DEF Disturb
<1>3. ASSUME NEW c \in Consumers, Excuse(c, FALSE)
      PROVE  NoneExcused'
  BY <1>0, <1>3 DEF Excuse, HistoryOK
<1>4. ASSUME (\E r \in setting.repos : Developer(r)) \/ (\E s \in setting.squashes : SquashWrites(s))
      PROVE  NoneExcused'
  <2>1. \A c \in Consumers : phase[c] \notin Running
    BY <1>4 DEF Interference
  <2>2. \E r : Disturb(r, None)
    BY <1>4 DEF Developer, PushMain, CreateBranch, PushBranch, UpdateBranch, DropBranch, SquashWrites
  <2>3. QED
    BY <1>2, <2>1, <2>2
<1>5. ASSUME NEW c \in Consumers, Start(c)
      PROVE  NoneExcused'
  BY <1>0, <1>5 DEF Start, HistoryOK
<1>6. ASSUME NEW c \in Consumers, CommitMain(c) \/ DeleteBranch(c)
      PROVE  NoneExcused'
  <2>1. \A d \in Consumers : d # c => phase[d] \notin Running
    BY <1>6 DEF CommitMain, DeleteBranch, OneJob, Running, Phases, InRepo
  <2>2. CASE Disturb(At(c), c)
    BY <1>2, <2>1, <2>2
  <2>3. QED
    BY <1>1, <1>6, <2>2 DEF CommitMain, DeleteBranch
<1>7. ASSUME NEW c \in Consumers, ScanRepo(c)
      PROVE  NoneExcused'
  <2>1. Excuse(c, At(c) \in Orphans) /\ (At(c) \in Orphans) = FALSE
    BY <1>7 DEF ScanRepo, Regular
  <2>2. Excuse(c, FALSE)
    BY <2>1 DEF Excuse
  <2>3. QED
    BY <1>3, <2>2
<1>8. ASSUME NEW c \in Consumers, SkipRepo(c)
      PROVE  NoneExcused'
  <2>1. Excuse(c, Mergeable(At(c))) /\ ~Mergeable(At(c))
    BY <1>8 DEF SkipRepo, Regular
  <2>2. Excuse(c, FALSE)
    BY <2>1 DEF Excuse
  <2>3. QED
    BY <1>3, <2>2
<1>9. ASSUME NEW c \in Consumers, CommitFails(c)
      PROVE  NoneExcused'
  <2>1. Excuse(c, main[At(c)].n = seen[c].n) /\ main[At(c)].n # seen[c].n
    BY <1>9 DEF CommitFails, Regular
  <2>2. Excuse(c, FALSE)
    BY <2>1 DEF Excuse
  <2>3. QED
    BY <1>3, <2>2
<1>10. ASSUME NEW c \in Consumers,
              \/ ListRepo(c) \/ Listed(c) \/ Scanned(c) \/ ReadRefs(c) \/ Finish(c) \/ Crash(c)
       PROVE  NoneExcused'
  BY <1>1, <1>10 DEF ListRepo, Listed, Scanned, ReadRefs, Finish, Crash, history
<1>11. ASSUME NEW s \in Squashes, NEW r, SquashReads(s, r) \/ SquashRefused(s, r)
       PROVE  NoneExcused'
  BY <1>1, <1>11 DEF SquashReads, SquashRefused, history
<1>12. CASE UNCHANGED vars
  BY <1>1, <1>12 DEF vars
<1>13. setting.squashes \subseteq Squashes
  BY SettingOK DEF TypeOK
<1>14. QED
  BY <1>4, <1>5, <1>6, <1>7, <1>8, <1>9, <1>10, <1>11, <1>12, <1>13 DEF Next, Consumer, Squash

LEMMA FromCandidatesStep == TypeOK /\ FromCandidates /\ [Next]_vars => FromCandidates'
<1> SUFFICES ASSUME TypeOK, FromCandidates, [Next]_vars, NEW c \in Consumers
             PROVE  merged'[c] \subseteq cand'[c] /\ (phase'[c] \in Merging => left'[c] \subseteq cand'[c])
  BY DEF FromCandidates
<1>0. HistoryOK /\ JobOK
  BY TypeParts
<1>1. merged[c] \subseteq cand[c] /\ (phase[c] \in Merging => left[c] \subseteq cand[c])
  BY DEF FromCandidates
<1> USE <1>0, <1>1 DEF HistoryOK, JobOK, Merging, InRepo, Next1, history
<1>2. CASE Start(c)
  BY <1>2 DEF Start
<1>3. CASE Crash(c)
  BY <1>3 DEF Crash
<1>4. CASE ListRepo(c) \/ Listed(c)
  BY <1>4 DEF ListRepo, Listed
<1>5. CASE ScanRepo(c) \/ Scanned(c)
  BY <1>5 DEF ScanRepo, Scanned
<1>6. CASE ReadRefs(c) \/ SkipRepo(c) \/ CommitFails(c) \/ DeleteBranch(c) \/ Finish(c)
  BY <1>6 DEF ReadRefs, SkipRepo, CommitFails, DeleteBranch, Finish
<1>7. CASE CommitMain(c)
  <2>1. At(c) \in left[c]
    BY <1>7, AtIsLeft DEF CommitMain
  <2>2. QED
    BY <1>7, <2>1 DEF CommitMain
<1>8. CASE /\ phase'[c] = phase[c] /\ left'[c] = left[c] /\ cand'[c] = cand[c] /\ merged'[c] = merged[c]
  BY <1>8
<1>9. QED
  BY <1>2, <1>3, <1>4, <1>5, <1>6, <1>7, <1>8, JobMoves DEF Consumer

\* The gate is one where it can be, run by run: a run that is alone, over repositories with
\* common histories, and during which nobody else moves a ref, merges all its candidates or
\* none if it ends, whatever their conflicts (merge_consumer.rs:9-12, which promises it of
\* all).  Nothing is said of a job that takes several runs: what one merged before it
\* crashed is no candidate of the next, which a push in between may block.
THEOREM RunAllOrNoneUndisturbed ==
    Spec /\ []Regular /\ []OneJob /\ [][~Interference]_vars => []AllOrNone
<1>1. Init => NoneExcused /\ FromCandidates
  BY DEF Init, NoneExcused, FromCandidates, Merging, InRepo
<1>2. IInv /\ Regular /\ OneJob /\ NoneExcused /\ [Next]_vars /\ [~Interference]_vars => NoneExcused'
  <2>1. UNCHANGED vars /\ NoneExcused => NoneExcused'
    BY DEF vars, NoneExcused
  <2>2. QED
    BY <2>1, NoneExcusedStep DEF IInv
<1>3. IInv /\ FromCandidates /\ [Next]_vars => FromCandidates'
  BY FromCandidatesStep DEF IInv
<1>4. PartialOnlyIfDisturbed /\ NoneExcused /\ FromCandidates => AllOrNone
  BY DEF PartialOnlyIfDisturbed, NoneExcused, FromCandidates, AllOrNone
<1>5. QED
  BY <1>1, <1>2, <1>3, <1>4, Inductive, PartialExplained, PTL DEF Spec
=============================================================================
