---------------------------- MODULE BackupProofs ----------------------------
(***************************************************************************)
(* Proofs about Backup for any number of replicas, overlapping backups,    *)
(* pushes, failures and restarts.                                          *)
(***************************************************************************)
EXTENDS Backup, TLAPS

Fetched  == {"clear", "remove", "copy", "filter", "find", "create", "push"}
Cleared  == {"copy", "filter", "find", "create", "push"}
Filtered == {"find", "create", "push"}

\* A backup that is past its rewriting finds the copy rewritten, or gone, or has had
\* it swapped.
CopyFiltered ==
    \A b \in Backups : pc[b] \in Filtered =>
        rewrite[On[b]].filtered \/ ~rewrite[On[b]].there \/ b \in swapped

\* The clone a backup has fetched, and the copy it has made room for, hold no branch
\* or one that is no older than the branch was when the backup began.
FetchedIsFresh ==
    \A b \in Backups :
        /\ began[b] <= origin
        /\ pc[b] \in Fetched => source[On[b]].branch = 0 \/ began[b] <= source[On[b]].branch
        /\ pc[b] \in Cleared => rewrite[On[b]].branch = 0 \/ began[b] <= rewrite[On[b]].branch

IInv == TypeOK /\ CopyFiltered /\ FetchedIsFresh /\ AuthorsRewritten /\ NoOlderThanBegin

-----------------------------------------------------------------------------
\* What a clone and a copy can be.
LEMMA CloneShape ==
    ASSUME NEW s \in Clones
    PROVE  /\ s.branch \in Branches
           /\ s = Partial \/ s.state \in {"none", "empty", "whole", "locked"}
<1>1. 0 \in Branches
  BY BackupAssumption DEF Contents, Branches
<1>2. QED
  BY <1>1 DEF Clones, NoClone, EmptyDir, Partial, Clone, Locked

LEMMA CopyShape ==
    ASSUME NEW c \in Rewrites
    PROVE  /\ c.branch \in Branches
           /\ c.filtered \in BOOLEAN
           /\ c.there \in BOOLEAN
           /\ ~c.there => c = NoCopy /\ c.branch = 0
           /\ c.there => [c EXCEPT !.filtered = TRUE] \in Rewrites
<1>1. 0 \in Branches
  BY BackupAssumption DEF Contents, Branches
<1>2. CASE c = NoCopy
  BY <1>1, <1>2 DEF NoCopy
<1>3. CASE c \in [there : {TRUE}, branch : Branches, filtered : BOOLEAN]
  BY <1>3 DEF Rewrites
<1>4. QED
  BY <1>2, <1>3 DEF Rewrites

LEMMA Members ==
    /\ NoClone \in Clones /\ EmptyDir \in Clones /\ Partial \in Clones
    /\ \A v \in Branches : Clone(v) \in Clones /\ Locked(v) \in Clones
    /\ NoCopy \in Rewrites
    /\ \A v \in Branches : CopyOf(v) \in Rewrites
BY DEF Clones, Rewrites, CopyOf

\* The copy the twin makes or leaves is of what the directory holds.
LEMMA TwinsCopy ==
    ASSUME TypeOK, NEW r \in Replicas, TwinCopies(r)
    PROVE  /\ rewrite'[r].branch \in {0, source[r].branch}
           /\ \A s \in Replicas \ {r} : rewrite'[s] = rewrite[s]
<1>1. PICK copy \in {NoCopy} \union
                    [there : {TRUE}, branch : {source[r].branch}, filtered : BOOLEAN] :
         rewrite' = [rewrite EXCEPT ![r] = copy]
  BY DEF TwinCopies
<1>2. rewrite'[r] = copy /\ \A s \in Replicas \ {r} : rewrite'[s] = rewrite[s]
  BY <1>1 DEF TypeOK
<1>3. copy.branch \in {0, source[r].branch}
  <2>1. CASE copy = NoCopy
    BY <2>1 DEF NoCopy
  <2>2. CASE copy \in [there : {TRUE}, branch : {source[r].branch}, filtered : BOOLEAN]
    BY <2>2
  <2>3. QED
    BY <2>1, <2>2
<1>4. QED
  BY <1>2, <1>3

\* A fetch brings the branch as it is in gitolite, or the twin's.
LEMMA FetchBrings ==
    ASSUME NEW s, origin \in Contents
    PROVE  /\ AfterFetch(s).branch \in {origin, Foreign}
           /\ AfterFetch(s) \in Clones
<1>1. origin \in Branches /\ Foreign \in Branches
  BY DEF Branches
<1>2. AfterFetch(s) \in {Clone(origin), Clone(Foreign)}
  BY DEF AfterFetch
<1>3. QED
  BY <1>1, <1>2, Members DEF Clone

LEMMA InitIInv == Init => IInv
<1> SUFFICES ASSUME Init
             PROVE  IInv
  OBVIOUS
<1>1. 0 \in Contents /\ 0 \in Branches /\ origin \in Contents /\ "idle" \in Steps
  BY BackupAssumption DEF Init, Contents, Branches, Steps
<1>2. setting \in [backups : SUBSET Backups, twin : BOOLEAN, failures : Nat, overlaps : Nat, restarts : Nat]
  BY BackupAssumption DEF Init
<1>3. 0 \in 0 .. setting.failures /\ 0 \in 0 .. setting.overlaps /\ 0 \in 0 .. setting.restarts
  BY <1>2
<1>4. TypeOK
  BY <1>1, <1>3, Members DEF Init, TypeOK
<1>5. CopyFiltered /\ FetchedIsFresh
  BY <1>1 DEF Init, CopyFiltered, FetchedIsFresh, Fetched, Cleared, Filtered, Contents
<1>6. AuthorsRewritten /\ NoOlderThanBegin
  BY DEF Init, AuthorsRewritten, NoOlderThanBegin
<1>7. QED
  BY <1>4, <1>5, <1>6 DEF IInv

-----------------------------------------------------------------------------
(* Type correctness *)

\* Who is cloning.
Alone ==
    \A b \in Backups : pc[b] = "cloning" =>
        source[On[b]] = Partial /\ \A c \in Beside(b) : pc[c] # "cloning"

LEMMA TypeStep == TypeOK /\ [Next]_vars => TypeOK'
<1> SUFFICES ASSUME TypeOK, [Next]_vars
             PROVE  TypeOK'
  OBVIOUS
<1>0. /\ On \in [Backups -> Replicas]
      /\ setting \in [backups : SUBSET Backups, twin : BOOLEAN, failures : Nat, overlaps : Nat, restarts : Nat]
  BY BackupAssumption DEF TypeOK
<1> USE <1>0, Members DEF TypeOK, Goto, copies, counters, history
<1>a. origin \in Branches
  BY DEF Branches
<1>1. CASE PushOrigin
  <2>1. origin' \in Contents
    BY <1>1, BackupAssumption DEF PushOrigin, Contents
  <2>2. QED
    BY <1>1, <2>1 DEF PushOrigin, Beside
<1>2. ASSUME NEW b \in Backups, Start(b)
      PROVE  TypeOK'
  <2>1. overlaps' \in 0 .. setting.overlaps
    BY <1>2 DEF Start
  <2>2. QED
    BY <1>2, <2>1 DEF Start, Steps, Beside
<1>3. ASSUME NEW b \in Backups, LookForClone(b) \/ LookForCopy(b) \/ FindRepo(b)
      PROVE  TypeOK'
  BY <1>3 DEF LookForClone, LookForCopy, FindRepo, Steps, Beside
<1>4. ASSUME NEW b \in Backups, BeginClone(b)
      PROVE  TypeOK'
  <2>1. CASE source[On[b]].state \in {"none", "empty"}
    <3>1. \A c \in Backups : On[c] = On[b] => pc[c] # "cloning"
      BY <2>1 DEF Partial
    <3>2. source' = [source EXCEPT ![On[b]] = Partial] /\ pc' = [pc EXCEPT ![b] = "cloning"]
      BY <1>4, <2>1 DEF BeginClone
    <3>3. Alone'
      BY <3>1, <3>2 DEF Alone, Beside
    <3>4. QED
      BY <1>4, <3>2, <3>3 DEF BeginClone, Alone, Steps
  <2>2. CASE source[On[b]].state \notin {"none", "empty"}
    <3>1. source' = source /\ pc' = [pc EXCEPT ![b] = "idle"]
      BY <1>4, <2>2 DEF BeginClone
    <3>2. QED
      BY <1>4, <3>1 DEF BeginClone, Steps, Beside
  <2>3. QED
    BY <2>1, <2>2
<1>5. ASSUME NEW b \in Backups, EndClone(b) \/ CloneFails(b)
      PROVE  TypeOK'
  <2>1. pc[b] = "cloning" /\ \A c \in Backups \ {b} : On[c] = On[b] => pc[c] # "cloning"
    BY <1>5 DEF EndClone, CloneFails, Beside
  <2>2. /\ pc' = [pc EXCEPT ![b] = "clear"] \/ pc' = [pc EXCEPT ![b] = "idle"]
        /\ \E s \in Clones : source' = [source EXCEPT ![On[b]] = s]
    BY <1>5, <1>a DEF EndClone, CloneFails
  <2>3. Alone'
    BY <2>1, <2>2 DEF Alone, Beside
  <2>4. failures' \in 0 .. setting.failures
    BY <1>5 DEF EndClone, CloneFails
  <2>5. source' \in [Replicas -> Clones] /\ pc' \in [Backups -> Steps]
    BY <2>2 DEF Steps
  <2>6. QED
    BY <1>5, <2>3, <2>4, <2>5 DEF EndClone, CloneFails, Alone
<1>6. ASSUME NEW b \in Backups, Fetch(b)
      PROVE  TypeOK'
  <2>1. /\ pc' = [pc EXCEPT ![b] = "clear"] \/ pc' = [pc EXCEPT ![b] = "idle"]
        /\ UNCHANGED <<setting, origin, rewrite, github, failures, overlaps, restarts, began, swapped>>
    BY <1>6 DEF Fetch
  <2>2. CASE UNCHANGED source
    BY <2>1, <2>2 DEF Steps, Beside
  <2>3. CASE /\ \E s \in Clones : source' = [source EXCEPT ![On[b]] = s]
             /\ source[On[b]].state = "whole" \/ \A c \in Beside(b) : pc[c] # "cloning"
    <3>1. pc[b] = "fetch"
      BY <1>6 DEF Fetch
    <3>2. \A c \in Backups : On[c] = On[b] => pc[c] # "cloning"
      BY <2>3, <3>1 DEF Partial, Beside
    <3>3. Alone'
      BY <2>1, <2>3, <3>2 DEF Alone, Beside
    <3>4. source' \in [Replicas -> Clones] /\ pc' \in [Backups -> Steps]
      BY <2>1, <2>3 DEF Steps
    <3>5. QED
      BY <2>1, <3>3, <3>4 DEF Alone
  <2>4. CASE source' = [source EXCEPT ![On[b]] = AfterFetch(@)] /\ source[On[b]].state = "whole"
    BY <2>3, <2>4, FetchBrings
  <2>5. CASE /\ source' = [source EXCEPT ![On[b]] = Clone(origin)]
             /\ \A c \in Beside(b) : pc[c] # "cloning"
    BY <2>3, <2>5, <1>a
  <2>6. QED
    BY <1>6, <2>2, <2>4, <2>5 DEF Fetch
<1>7. ASSUME NEW b \in Backups, RemoveCopy(b) \/ MakeCopy(b) \/ Filter(b)
      PROVE  TypeOK'
  <2>1. /\ \E s \in Steps \ {"cloning"} : pc' = [pc EXCEPT ![b] = s]
        /\ UNCHANGED <<setting, origin, source, github, failures, overlaps, restarts, began>>
    BY <1>7 DEF RemoveCopy, MakeCopy, Filter, Steps
  <2>2. rewrite' \in [Replicas -> Rewrites]
    <3>1. CASE RemoveCopy(b)
      BY <3>1 DEF RemoveCopy
    <3>2. CASE MakeCopy(b)
      <4>1. source[On[b]].branch \in Branches
        BY CloneShape
      <4>2. QED
        BY <3>2, <4>1 DEF MakeCopy
    <3>3. CASE Filter(b)
      <4>1. CASE rewrite[On[b]].there
        BY <3>3, <4>1, CopyShape DEF Filter
      <4>2. CASE ~rewrite[On[b]].there
        <5>1. rewrite[On[b]] = NoCopy
          BY <4>2, CopyShape
        <5>2. rewrite' = rewrite
          BY <3>3, <4>2, <5>1 DEF Filter, NoCopy
        <5>3. QED
          BY <5>2
      <4>3. QED
        BY <4>1, <4>2
    <3>4. QED
      BY <1>7, <3>1, <3>2, <3>3
  <2>3. swapped' \subseteq Backups
    BY <1>7 DEF RemoveCopy, MakeCopy, Filter, Beside
  <2>4. Alone'
    BY <2>1 DEF Alone, Beside
  <2>5. QED
    BY <2>1, <2>2, <2>3, <2>4 DEF Alone
<1>8. ASSUME NEW b \in Backups, CreateRepo(b)
      PROVE  TypeOK'
  BY <1>8 DEF CreateRepo, Steps, Beside
<1>9. ASSUME NEW b \in Backups, PushGithub(b)
      PROVE  TypeOK'
  <2>1. rewrite[On[b]].branch \in Branches /\ rewrite[On[b]].filtered \in BOOLEAN
    BY CopyShape
  <2>2. github' \in [there : BOOLEAN, branch : Branches, filtered : BOOLEAN,
                     since : Contents, swapped : BOOLEAN]
    BY <1>9, <2>1 DEF PushGithub
  <2>3. QED
    BY <1>9, <2>2 DEF PushGithub, Steps, Beside
<1>10. ASSUME NEW b \in Backups, Fails(b)
       PROVE  TypeOK'
  <2>1. failures' \in 0 .. setting.failures
    BY <1>10 DEF Fails
  <2>2. QED
    BY <1>10, <2>1 DEF Fails, Steps, Beside
<1>11. ASSUME NEW r \in Replicas, Restart(r)
       PROVE  TypeOK'
  <2>1. restarts' \in 0 .. setting.restarts
    BY <1>11 DEF Restart
  <2>2. source' \in [Replicas -> Clones] /\ rewrite' \in [Replicas -> Rewrites]
    BY <1>11, CloneShape DEF Restart
  <2>3. Alone'
    BY <1>11 DEF Restart, Alone, Beside
  <2>4. pc' \in [Backups -> Steps]
    BY <1>11 DEF Restart, Steps
  <2>5. QED
    BY <1>11, <2>1, <2>2, <2>3, <2>4 DEF Restart, Alone
<1>12. CASE UNCHANGED vars
  BY <1>12 DEF vars, Beside
<1>13. ASSUME NEW r \in Replicas, TwinMayRun(r)
       PROVE  overlaps' \in 0 .. setting.overlaps
  BY <1>13 DEF TwinMayRun
<1>14. ASSUME NEW r \in Replicas, TwinFetches(r)
       PROVE  TypeOK'
  <2>1. /\ UNCHANGED <<setting, origin, rewrite, github, pc, failures, restarts, began, swapped>>
        /\ overlaps' \in 0 .. setting.overlaps
        /\ source[r].state \in {"none", "empty", "whole"}
    BY <1>13, <1>14 DEF TwinFetches
  <2>2. \E s \in Clones : source' = [source EXCEPT ![r] = s]
    BY <1>14, FetchBrings DEF TwinFetches, Branches
  <2>3. \A c \in Backups : On[c] = r => pc[c] # "cloning"
    BY <2>1 DEF Partial
  <2>4. Alone'
    BY <2>1, <2>2, <2>3 DEF Alone, Beside
  <2>5. QED
    BY <2>1, <2>2, <2>4 DEF Alone
<1>15. ASSUME NEW r \in Replicas, TwinCopies(r)
       PROVE  TypeOK'
  <2>1. /\ UNCHANGED <<setting, origin, source, github, pc, failures, restarts, began>>
        /\ overlaps' \in 0 .. setting.overlaps
        /\ swapped' \subseteq Backups
    BY <1>13, <1>15 DEF TwinCopies
  <2>2. rewrite' \in [Replicas -> Rewrites]
    BY <1>15, CloneShape DEF TwinCopies, Rewrites
  <2>3. Alone'
    BY <2>1 DEF Alone, Beside
  <2>4. QED
    BY <2>1, <2>2, <2>3 DEF Alone
<1>16. QED
  BY <1>1, <1>2, <1>3, <1>4, <1>5, <1>6, <1>7, <1>8, <1>9, <1>10, <1>11, <1>12, <1>14, <1>15
     DEF Next, Mirror

-----------------------------------------------------------------------------
(* Authors *)

LEMMA FilteredStep == TypeOK /\ CopyFiltered /\ [Next]_vars => CopyFiltered'
<1> SUFFICES ASSUME TypeOK, CopyFiltered, [Next]_vars
             PROVE  CopyFiltered'
  OBVIOUS
<1>0. On \in [Backups -> Replicas]
  BY BackupAssumption
<1> USE <1>0 DEF TypeOK, CopyFiltered, Filtered, Goto, copies, counters, history
<1>1. ASSUME UNCHANGED <<rewrite, swapped>>,
             \A b \in Backups : pc'[b] \in Filtered => pc[b] \in Filtered
      PROVE  CopyFiltered'
  BY <1>1
<1>2. CASE PushOrigin
  BY <1>1, <1>2 DEF PushOrigin
<1>3. ASSUME NEW b \in Backups, Start(b)
      PROVE  CopyFiltered'
  BY <1>3 DEF Start
<1>4. ASSUME NEW b \in Backups,
             \/ LookForClone(b) \/ BeginClone(b) \/ EndClone(b) \/ CloneFails(b) \/ Fetch(b)
             \/ LookForCopy(b) \/ FindRepo(b) \/ CreateRepo(b) \/ PushGithub(b) \/ Fails(b)
      PROVE  CopyFiltered'
  <2>1. UNCHANGED <<rewrite, swapped>>
    BY <1>4 DEF LookForClone, BeginClone, EndClone, CloneFails, Fetch, LookForCopy, FindRepo,
                CreateRepo, PushGithub, Fails
  <2>2. /\ pc[b] \in Filtered \/ pc'[b] \notin Filtered
        /\ \A c \in Backups \ {b} : pc'[c] = pc[c]
    BY <1>4 DEF LookForClone, BeginClone, EndClone, CloneFails, Fetch, LookForCopy, FindRepo,
                CreateRepo, PushGithub, Fails
  <2>3. QED
    BY <1>1, <2>1, <2>2
<1>5. ASSUME NEW b \in Backups, RemoveCopy(b)
      PROVE  CopyFiltered'
  <2>1. pc'[b] \notin Filtered /\ \A c \in Backups \ {b} : pc'[c] = pc[c]
    BY <1>5 DEF RemoveCopy
  <2>2. ~rewrite'[On[b]].there
    BY <1>5 DEF RemoveCopy, NoCopy
  <2>3. QED
    BY <1>5, <2>1, <2>2 DEF RemoveCopy
<1>6. ASSUME NEW b \in Backups, MakeCopy(b)
      PROVE  CopyFiltered'
  <2>1. pc'[b] \notin Filtered /\ \A c \in Backups \ {b} : pc'[c] = pc[c]
    BY <1>6 DEF MakeCopy
  <2>2. CASE UNCHANGED <<rewrite, swapped>>
    BY <1>1, <2>1, <2>2
  <2>3. CASE /\ \A r \in Replicas \ {On[b]} : rewrite'[r] = rewrite[r]
             /\ swapped' = swapped \union {c \in Beside(b) : pc[c] \in {"find", "create", "push"}}
    BY <2>1, <2>3 DEF Beside
  <2>4. QED
    BY <1>6, <2>2, <2>3 DEF MakeCopy
<1>7. ASSUME NEW b \in Backups, Filter(b)
      PROVE  CopyFiltered'
  <2>1. /\ rewrite'[On[b]].filtered = rewrite[On[b]].there
        /\ rewrite'[On[b]].there = rewrite[On[b]].there
        /\ \A r \in Replicas \ {On[b]} : rewrite'[r] = rewrite[r]
    BY <1>7, CopyShape DEF Filter, Rewrites, NoCopy
  <2>2. /\ pc'[b] \in Filtered => rewrite[On[b]].there
        /\ \A c \in Backups \ {b} : pc'[c] = pc[c]
        /\ swapped' = swapped
    BY <1>7 DEF Filter
  <2>3. QED
    BY <2>1, <2>2
<1>8. ASSUME NEW r \in Replicas, Restart(r)
      PROVE  CopyFiltered'
  BY <1>8 DEF Restart
<1>9. ASSUME NEW r \in Replicas, TwinFetches(r)
      PROVE  CopyFiltered'
  BY <1>1, <1>9 DEF TwinFetches
<1>10. ASSUME NEW r \in Replicas, TwinCopies(r)
       PROVE  CopyFiltered'
  <2>1. /\ pc' = pc
        /\ \A s \in Replicas \ {r} : rewrite'[s] = rewrite[s]
        /\ swapped' = swapped \union {c \in Backups : On[c] = r /\ pc[c] \in Filtered}
    BY <1>10 DEF TwinCopies
  <2>2. QED
    BY <2>1
<1>11. CASE UNCHANGED vars
  BY <1>1, <1>11 DEF vars
<1>12. QED
  BY <1>2, <1>3, <1>4, <1>5, <1>6, <1>7, <1>8, <1>9, <1>10, <1>11 DEF Next, Mirror

\* Only a push changes what GitHub has.
LEMMA GithubStep ==
    ASSUME TypeOK, [Next]_vars
    PROVE  \/ UNCHANGED <<github.branch, github.filtered, github.since, github.swapped>>
           \/ \E b \in Backups :
                 /\ pc[b] = "push"
                 /\ rewrite[On[b]].branch # 0
                 /\ github'.branch = rewrite[On[b]].branch
                 /\ github'.filtered = rewrite[On[b]].filtered
                 /\ github'.since = began[b]
                 /\ github'.swapped = (b \in swapped)
<1> USE DEF TypeOK, Goto, copies, counters, history
<1>1. ASSUME NEW b \in Backups, CreateRepo(b)
      PROVE  UNCHANGED <<github.branch, github.filtered, github.since, github.swapped>>
  BY <1>1 DEF CreateRepo
<1>2. ASSUME NEW b \in Backups, PushGithub(b), rewrite[On[b]].branch # 0
      PROVE  /\ pc[b] = "push"
             /\ github'.branch = rewrite[On[b]].branch
             /\ github'.filtered = rewrite[On[b]].filtered
             /\ github'.since = began[b]
             /\ github'.swapped = (b \in swapped)
  BY <1>2 DEF PushGithub
<1>3. ASSUME NEW b \in Backups, PushGithub(b), rewrite[On[b]].branch = 0
      PROVE  github' = github
  BY <1>3 DEF PushGithub
<1>4. ASSUME NEW b \in Backups, \/ Start(b) \/ CloneFails(b) \/ Fails(b)
                                \/ Mirror(b) /\ ~CreateRepo(b) /\ ~PushGithub(b)
      PROVE  github' = github
  BY <1>4 DEF Start, CloneFails, Fails, Mirror, LookForClone, BeginClone, EndClone, Fetch,
              LookForCopy, RemoveCopy, MakeCopy, Filter, FindRepo
<1>5. ASSUME \/ PushOrigin \/ UNCHANGED vars
             \/ \E r \in Replicas : Restart(r) \/ TwinFetches(r) \/ TwinCopies(r)
      PROVE  github' = github
  BY <1>5 DEF PushOrigin, Restart, TwinFetches, TwinCopies, vars
<1>6. QED
  BY <1>1, <1>2, <1>3, <1>4, <1>5 DEF Next, Mirror

LEMMA AuthorsStep ==
    TypeOK /\ CopyFiltered /\ AuthorsRewritten /\ [Next]_vars => AuthorsRewritten'
<1> SUFFICES ASSUME TypeOK, CopyFiltered, AuthorsRewritten, [Next]_vars
             PROVE  AuthorsRewritten'
  OBVIOUS
<1>1. CASE UNCHANGED <<github.branch, github.filtered, github.since, github.swapped>>
  BY <1>1 DEF AuthorsRewritten
<1>2. ASSUME NEW b \in Backups,
             pc[b] = "push", rewrite[On[b]].branch # 0,
             github'.filtered = rewrite[On[b]].filtered,
             github'.swapped = (b \in swapped)
      PROVE  AuthorsRewritten'
  <2>1. rewrite[On[b]] \in Rewrites
    BY BackupAssumption DEF TypeOK
  <2>2. rewrite[On[b]].there
    BY <1>2, <2>1, CopyShape
  <2>3. QED
    BY <1>2, <2>2 DEF CopyFiltered, Filtered, AuthorsRewritten
<1>3. QED
  BY <1>1, <1>2, GithubStep

-----------------------------------------------------------------------------
(* Freshness *)

LEMMA FreshStep == TypeOK /\ FetchedIsFresh /\ [Next]_vars => FetchedIsFresh'
<1> SUFFICES ASSUME TypeOK, FetchedIsFresh, [Next]_vars
             PROVE  FetchedIsFresh'
  OBVIOUS
<1>0. /\ On \in [Backups -> Replicas]
      /\ origin \in Nat
      /\ \A b \in Backups : began[b] \in Nat
      /\ \A r \in Replicas : source[r].branch \in Nat /\ rewrite[r].branch \in Nat
      /\ Foreign \in Nat /\ \A b \in Backups : began[b] < Foreign
  <2>1. \A v \in Branches : v \in Nat
    BY BackupAssumption DEF Contents, Branches, Foreign
  <2>2. \A r \in Replicas : source[r].branch \in Branches /\ rewrite[r].branch \in Branches
    BY CloneShape, CopyShape DEF TypeOK
  <2>3. QED
    BY <2>1, <2>2, BackupAssumption DEF TypeOK, Contents, Foreign
<1> USE <1>0 DEF TypeOK, FetchedIsFresh, Fetched, Cleared, Goto, copies, counters, history
\* The copies and backups of other replicas are as before, and so are those of this one,
\* but for a clone that is gone or new.
<1>1. ASSUME NEW b \in Backups,
             UNCHANGED <<origin, rewrite, began>>,
             \A c \in Backups \ {b} : pc'[c] = pc[c],
             \A r \in Replicas \ {On[b]} : source'[r] = source[r],
             \/ source'[On[b]] = source[On[b]] /\ (pc'[b] \in Fetched => pc[b] \in Fetched)
             \/ source'[On[b]].branch \in {0, origin, Foreign},
             pc'[b] \in Cleared => pc[b] \in Cleared \/ rewrite[On[b]].branch = 0
      PROVE  FetchedIsFresh'
  BY <1>1
<1>2. CASE PushOrigin
  <2>1. origin' = origin + 1 /\ UNCHANGED <<source, rewrite, pc, began>>
    BY <1>2 DEF PushOrigin
  <2>2. QED
    BY <2>1
<1>3. ASSUME NEW b \in Backups, Start(b)
      PROVE  FetchedIsFresh'
  <2>1. /\ UNCHANGED <<origin, source, rewrite>>
        /\ pc'[b] = "look" /\ began'[b] = origin
        /\ \A c \in Backups \ {b} : pc'[c] = pc[c] /\ began'[c] = began[c]
    BY <1>3 DEF Start
  <2>2. QED
    BY <2>1
<1>4. ASSUME NEW b \in Backups, BeginClone(b) \/ EndClone(b) \/ CloneFails(b)
      PROVE  FetchedIsFresh'
  <2>1. /\ UNCHANGED <<origin, rewrite, began>>
        /\ \A c \in Backups \ {b} : pc'[c] = pc[c]
        /\ \A r \in Replicas \ {On[b]} : source'[r] = source[r]
        /\ pc'[b] \notin Cleared
    BY <1>4 DEF BeginClone, EndClone, CloneFails
  <2>2. \/ source'[On[b]] = source[On[b]] /\ pc'[b] \notin Fetched
        \/ source'[On[b]].branch \in {0, origin, Foreign}
    BY <1>4 DEF BeginClone, EndClone, CloneFails, Partial, EmptyDir, Clone
  <2>3. QED
    BY <1>1, <2>1, <2>2
<1>5. ASSUME NEW b \in Backups, Fetch(b)
      PROVE  FetchedIsFresh'
  <2>1. /\ UNCHANGED <<origin, rewrite, began>>
        /\ \A c \in Backups \ {b} : pc'[c] = pc[c]
        /\ \A r \in Replicas \ {On[b]} : source'[r] = source[r]
        /\ pc'[b] \notin Cleared
    BY <1>5 DEF Fetch
  <2>2. \/ source'[On[b]] = source[On[b]] /\ pc'[b] \notin Fetched
        \/ source'[On[b]].branch \in {0, origin, Foreign}
    <3>1. source[On[b]].state = "partial" => source[On[b]].branch = 0
      BY CloneShape DEF Partial
    <3>2. AfterFetch(source[On[b]]).branch \in {origin, Foreign} /\ Clone(origin).branch = origin
      BY FetchBrings DEF Clone
    <3>3. QED
      BY <1>5, <3>1, <3>2 DEF Fetch
  <2>3. QED
    BY <1>1, <2>1, <2>2
<1>6. ASSUME NEW b \in Backups,
             \/ LookForClone(b) \/ LookForCopy(b) \/ FindRepo(b) \/ CreateRepo(b)
             \/ PushGithub(b) \/ Fails(b)
      PROVE  FetchedIsFresh'
  <2>1. /\ UNCHANGED <<origin, source, rewrite, began>>
        /\ \A c \in Backups \ {b} : pc'[c] = pc[c]
        /\ pc'[b] \in Fetched => pc[b] \in Fetched
    BY <1>6 DEF LookForClone, LookForCopy, FindRepo, CreateRepo, PushGithub, Fails
  <2>2. pc'[b] \in Cleared => pc[b] \in Cleared \/ ~rewrite[On[b]].there
    BY <1>6 DEF LookForClone, LookForCopy, FindRepo, CreateRepo, PushGithub, Fails
  <2>3. ~rewrite[On[b]].there => rewrite[On[b]].branch = 0
    BY CopyShape
  <2>4. QED
    BY <1>1, <2>1, <2>2, <2>3
<1>7. ASSUME NEW b \in Backups, RemoveCopy(b)
      PROVE  FetchedIsFresh'
  <2>1. /\ UNCHANGED <<origin, source, began>>
        /\ \A c \in Backups \ {b} : pc'[c] = pc[c]
        /\ pc[b] \in Fetched
        /\ rewrite'[On[b]].branch = 0
        /\ \A r \in Replicas \ {On[b]} : rewrite'[r] = rewrite[r]
    BY <1>7 DEF RemoveCopy, NoCopy
  <2>2. QED
    BY <2>1
<1>8. ASSUME NEW b \in Backups, MakeCopy(b)
      PROVE  FetchedIsFresh'
  <2>1. /\ UNCHANGED <<origin, source, began>>
        /\ pc[b] = "copy"
        /\ \A c \in Backups \ {b} : pc'[c] = pc[c]
        /\ rewrite'[On[b]].branch \in {rewrite[On[b]].branch, source[On[b]].branch}
        /\ \A r \in Replicas \ {On[b]} : rewrite'[r] = rewrite[r]
    BY <1>8 DEF MakeCopy, CopyOf
  <2>2. QED
    BY <2>1
<1>9. ASSUME NEW b \in Backups, Filter(b)
      PROVE  FetchedIsFresh'
  <2>1. /\ UNCHANGED <<origin, source, began>>
        /\ pc[b] = "filter"
        /\ \A c \in Backups \ {b} : pc'[c] = pc[c]
        /\ rewrite'[On[b]].branch = rewrite[On[b]].branch
        /\ \A r \in Replicas \ {On[b]} : rewrite'[r] = rewrite[r]
    BY <1>9, CopyShape DEF Filter, Rewrites, NoCopy
  <2>2. QED
    BY <2>1
<1>10. ASSUME NEW r \in Replicas, Restart(r)
       PROVE  FetchedIsFresh'
  <2>1. /\ UNCHANGED <<origin, began>>
        /\ \A c \in Backups : On[c] = r => pc'[c] = "idle"
        /\ \A c \in Backups : On[c] # r => pc'[c] = pc[c]
        /\ \A s \in Replicas \ {r} : source'[s] = source[s] /\ rewrite'[s] = rewrite[s]
    BY <1>10 DEF Restart
  <2>2. QED
    BY <2>1
<1>11. ASSUME NEW r \in Replicas, TwinFetches(r)
       PROVE  FetchedIsFresh'
  <2>1. /\ UNCHANGED <<origin, rewrite, pc, began>>
        /\ \A s \in Replicas \ {r} : source'[s] = source[s]
    BY <1>11 DEF TwinFetches
  <2>2. source'[r].branch \in {origin, Foreign}
    BY <1>11, FetchBrings DEF TwinFetches, Clone
  <2>3. QED
    BY <2>1, <2>2
<1>12. ASSUME NEW r \in Replicas, TwinCopies(r)
       PROVE  FetchedIsFresh'
  <2>1. UNCHANGED <<origin, source, pc, began>>
    BY <1>12 DEF TwinCopies
  <2>2. /\ rewrite'[r].branch \in {0, source[r].branch}
        /\ \A s \in Replicas \ {r} : rewrite'[s] = rewrite[s]
    BY <1>12, TwinsCopy
  <2>3. QED
    BY <2>1, <2>2
<1>13. CASE UNCHANGED vars
  BY <1>13 DEF vars
<1>14. QED
  BY <1>2, <1>3, <1>4, <1>5, <1>6, <1>7, <1>8, <1>9, <1>10, <1>11, <1>12, <1>13 DEF Next, Mirror

LEMMA NoOlderStep ==
    TypeOK /\ FetchedIsFresh /\ NoOlderThanBegin /\ [Next]_vars => NoOlderThanBegin'
<1> SUFFICES ASSUME TypeOK, FetchedIsFresh, NoOlderThanBegin, [Next]_vars
             PROVE  NoOlderThanBegin'
  OBVIOUS
<1>1. CASE UNCHANGED <<github.branch, github.filtered, github.since, github.swapped>>
  BY <1>1 DEF NoOlderThanBegin
<1>2. ASSUME NEW b \in Backups,
             pc[b] = "push", rewrite[On[b]].branch # 0,
             github'.branch = rewrite[On[b]].branch,
             github'.since = began[b]
      PROVE  NoOlderThanBegin'
  BY <1>2 DEF FetchedIsFresh, Cleared, NoOlderThanBegin
<1>3. QED
  BY <1>1, <1>2, GithubStep

LEMMA Inductive == Spec => []IInv
<1>1. IInv /\ [Next]_vars => IInv'
  BY TypeStep, FilteredStep, FreshStep, AuthorsStep, NoOlderStep DEF IInv
<1>2. QED
  BY InitIInv, <1>1, PTL DEF Spec

-----------------------------------------------------------------------------
(* Theorems *)

\* Every variable keeps its type, and at most one backup of a replica is cloning
\* (mirror_repo_to_github).
THEOREM TypeCorrect == Spec => []TypeOK
<1>1. IInv => TypeOK
  BY DEF IInv
<1>2. QED
  BY Inductive, <1>1, PTL

\* What is on GitHub has its authors rewritten or was swapped by an overlapping backup,
\* for any number of replicas, backups, failures and restarts.
THEOREM Authors == Spec => []AuthorsRewritten
<1>1. IInv => AuthorsRewritten
  BY DEF IInv
<1>2. QED
  BY Inductive, <1>1, PTL

\* No backup pushes anything older than the branch was when it began, whatever clones and
\* copies other backups, failures and restarts have left behind.
THEOREM NoOlder == Spec => []NoOlderThanBegin
<1>1. IInv => NoOlderThanBegin
  BY DEF IInv
<1>2. QED
  BY Inductive, <1>1, PTL

-----------------------------------------------------------------------------
(* Without overlaps *)

\* As long as no backup has begun beside another one of its replica, each has the work
\* directory to itself and no copy is swapped.
WithoutOverlap ==
    overlaps = 0 =>
        /\ \A b, c \in Backups : b # c /\ On[b] = On[c] => pc[b] = "idle" \/ pc[c] = "idle"
        /\ swapped = {}
        /\ ~github.swapped

LEMMA WithoutOverlapStep == TypeOK /\ WithoutOverlap /\ [Next]_vars => WithoutOverlap'
<1> SUFFICES ASSUME TypeOK, WithoutOverlap, [Next]_vars, overlaps' = 0
             PROVE  WithoutOverlap'
  BY DEF WithoutOverlap
<1>0. On \in [Backups -> Replicas] /\ overlaps \in Nat
  BY BackupAssumption DEF TypeOK
<1> USE <1>0 DEF TypeOK, WithoutOverlap, Goto, copies, counters, history
<1>1. ASSUME UNCHANGED <<swapped, overlaps>>, github'.swapped = github.swapped,
             \A b \in Backups : pc[b] = "idle" => pc'[b] = "idle"
      PROVE  WithoutOverlap'
  BY <1>1
<1>2. CASE PushOrigin
  BY <1>2 DEF PushOrigin
<1>3. ASSUME NEW b \in Backups, Start(b)
      PROVE  WithoutOverlap'
  <2>1. Beside(b) = {} /\ overlaps = 0
    BY <1>3 DEF Start
  <2>2. \A c \in Backups \ {b} : On[c] = On[b] => pc'[c] = "idle"
    BY <1>3, <2>1 DEF Start, Beside
  <2>3. QED
    BY <1>3, <2>1, <2>2 DEF Start
<1>4. ASSUME NEW b \in Backups,
             \/ LookForClone(b) \/ BeginClone(b) \/ EndClone(b) \/ CloneFails(b) \/ Fetch(b)
             \/ LookForCopy(b) \/ RemoveCopy(b) \/ Filter(b) \/ FindRepo(b) \/ CreateRepo(b) \/ Fails(b)
      PROVE  WithoutOverlap'
  <2>1. UNCHANGED <<swapped, overlaps>> /\ github'.swapped = github.swapped
    BY <1>4 DEF LookForClone, BeginClone, EndClone, CloneFails, Fetch, LookForCopy, RemoveCopy, Filter,
                FindRepo, CreateRepo, Fails
  <2>2. pc[b] # "idle" /\ \A c \in Backups \ {b} : pc'[c] = pc[c]
    BY <1>4 DEF LookForClone, BeginClone, EndClone, CloneFails, Fetch, LookForCopy, RemoveCopy, Filter,
                FindRepo, CreateRepo, Fails
  <2>3. QED
    BY <1>1, <2>1, <2>2
<1>5. ASSUME NEW b \in Backups, MakeCopy(b)
      PROVE  WithoutOverlap'
  <2>1. pc[b] = "copy" /\ UNCHANGED <<github, overlaps>> /\ \A c \in Backups \ {b} : pc'[c] = pc[c]
    BY <1>5 DEF MakeCopy
  <2>2. Beside(b) = {}
    BY <2>1 DEF Beside
  <2>3. swapped' = swapped
    BY <1>5, <2>2 DEF MakeCopy
  <2>4. QED
    BY <1>1, <2>1, <2>3
<1>6. ASSUME NEW b \in Backups, PushGithub(b)
      PROVE  WithoutOverlap'
  <2>1. pc'[b] = "idle" /\ (\A c \in Backups \ {b} : pc'[c] = pc[c]) /\ UNCHANGED <<swapped, overlaps>>
    BY <1>6 DEF PushGithub
  <2>2. ~github'.swapped
    BY <1>6, <2>1 DEF PushGithub
  <2>3. QED
    BY <2>1, <2>2
<1>7. ASSUME NEW r \in Replicas, Restart(r)
      PROVE  WithoutOverlap'
  BY <1>7 DEF Restart
<1>8. ASSUME NEW r \in Replicas, TwinFetches(r) \/ TwinCopies(r)
      PROVE  WithoutOverlap'
  <2>1. overlaps = 0 /\ \A c \in Backups : On[c] = r => pc[c] = "idle"
    <3>1. TwinMayRun(r)
      BY <1>8 DEF TwinFetches, TwinCopies
    <3>2. ASSUME \E c \in Backups : On[c] = r /\ pc[c] # "idle"
          PROVE  FALSE
      <4>1. overlaps' = overlaps + 1
        BY <3>1, <3>2 DEF TwinMayRun
      <4>2. QED
        BY <4>1
    <3>3. QED
      BY <3>1, <3>2 DEF TwinMayRun
  <2>2. UNCHANGED <<github, pc, swapped>>
    BY <1>8, <2>1 DEF TwinFetches, TwinCopies
  <2>3. QED
    BY <2>1, <2>2
<1>9. CASE UNCHANGED vars
  BY <1>1, <1>9 DEF vars
<1>10. QED
  BY <1>2, <1>3, <1>4, <1>5, <1>6, <1>7, <1>8, <1>9 DEF Next, Mirror

\* No author has got through, as long as no backups of a replica have overlapped.
NoAuthorsWithoutOverlap == overlaps = 0 /\ github.branch # 0 => github.filtered

\* Until backups of one replica overlap, no author gets through to GitHub, however many
\* replicas back up, fail and restart: the shared rewrite_dir of mirror_repo_to_github is
\* the only way.
THEOREM AuthorsWithoutOverlap == Spec => []NoAuthorsWithoutOverlap
<1>1. Init => WithoutOverlap
  BY DEF Init, WithoutOverlap
<1>2. IInv /\ WithoutOverlap /\ [Next]_vars => WithoutOverlap'
  BY WithoutOverlapStep DEF IInv
<1>3. IInv /\ WithoutOverlap => NoAuthorsWithoutOverlap
  BY DEF IInv, AuthorsRewritten, WithoutOverlap, NoAuthorsWithoutOverlap
<1>4. QED
  BY <1>1, <1>2, <1>3, Inductive, PTL DEF Spec

\* Nothing of the repository is newer than the branch in gitolite.
NoneNewer ==
    /\ github.branch <= origin \/ github.branch = Foreign
    /\ \A r \in Replicas :
          /\ source[r].branch <= origin \/ source[r].branch = Foreign
          /\ rewrite[r].branch <= origin \/ rewrite[r].branch = Foreign

\* A backup that is at work has begun after GitHub got what it has of the repository.
BegunAfter ==
    overlaps = 0 =>
        \A b \in Backups : pc[b] # "idle" => github.branch <= began[b] \/ github.branch = Foreign

LEMMA Numbers ==
    ASSUME TypeOK
    PROVE  /\ origin \in Nat /\ github.branch \in Nat /\ overlaps \in Nat
           /\ \A b \in Backups : began[b] \in Nat
           /\ \A r \in Replicas : source[r].branch \in Nat /\ rewrite[r].branch \in Nat
<1>1. (\A v \in Branches : v \in Nat) /\ (\A v \in Contents : v \in Branches)
  BY BackupAssumption DEF Contents, Branches, Foreign
<1>2. \A r \in Replicas : source[r].branch \in Branches /\ rewrite[r].branch \in Branches
  BY CloneShape, CopyShape DEF TypeOK
<1>3. QED
  BY <1>1, <1>2 DEF TypeOK

LEMMA NoneNewerStep == TypeOK /\ NoneNewer /\ [Next]_vars => NoneNewer'
<1> SUFFICES ASSUME TypeOK, NoneNewer, [Next]_vars
             PROVE  NoneNewer'
  OBVIOUS
<1>0. /\ origin \in Nat /\ github.branch \in Nat
      /\ \A r \in Replicas : source[r].branch \in Nat /\ rewrite[r].branch \in Nat
      /\ On \in [Backups -> Replicas]
  BY Numbers, BackupAssumption
<1> USE <1>0 DEF TypeOK, NoneNewer, Goto, copies, counters, history
<1>1. ASSUME origin' = origin \/ origin' = origin + 1, github'.branch = github.branch,
             \A r \in Replicas : source'[r].branch \in {0, source[r].branch, origin, Foreign},
             \A r \in Replicas : rewrite'[r].branch \in {0, rewrite[r].branch, source[r].branch}
      PROVE  NoneNewer'
  BY <1>1
<1>2. ASSUME PushOrigin \/ UNCHANGED vars
      PROVE  NoneNewer'
  BY <1>1, <1>2 DEF PushOrigin, vars
<1>3. ASSUME NEW b \in Backups, BeginClone(b) \/ EndClone(b) \/ CloneFails(b) \/ Fetch(b)
      PROVE  NoneNewer'
  <2>1. UNCHANGED <<origin, rewrite, github>>
    BY <1>3 DEF BeginClone, EndClone, CloneFails, Fetch
  <2>2. \A r \in Replicas :
            source'[r] \in {source[r], Partial, EmptyDir, Clone(origin), AfterFetch(source[r])}
    BY <1>3 DEF BeginClone, EndClone, CloneFails, Fetch
  <2>3. /\ Partial.branch = 0 /\ EmptyDir.branch = 0 /\ Clone(origin).branch = origin
        /\ \A r \in Replicas : AfterFetch(source[r]).branch \in {origin, Foreign}
    BY FetchBrings DEF Partial, EmptyDir, Clone
  <2>4. QED
    BY <1>1, <2>1, <2>2, <2>3
<1>4. ASSUME NEW b \in Backups, RemoveCopy(b) \/ MakeCopy(b) \/ Filter(b)
      PROVE  NoneNewer'
  <2>1. UNCHANGED <<origin, source, github>>
    BY <1>4 DEF RemoveCopy, MakeCopy, Filter
  <2>2. \A r \in Replicas : rewrite'[r].branch \in {0, rewrite[r].branch, source[r].branch}
    <3>1. CASE RemoveCopy(b)
      BY <3>1 DEF RemoveCopy, NoCopy
    <3>2. CASE MakeCopy(b)
      BY <3>2 DEF MakeCopy, CopyOf
    <3>3. CASE Filter(b)
      <4>1. rewrite'[On[b]].branch = rewrite[On[b]].branch
        BY <3>3, CopyShape DEF Filter, Rewrites, NoCopy
      <4>2. QED
        BY <3>3, <4>1 DEF Filter
    <3>4. QED
      BY <1>4, <3>1, <3>2, <3>3
  <2>3. QED
    BY <1>1, <2>1, <2>2
<1>5. ASSUME NEW b \in Backups,
             \/ Start(b) \/ LookForClone(b) \/ LookForCopy(b) \/ FindRepo(b) \/ CreateRepo(b) \/ Fails(b)
      PROVE  NoneNewer'
  BY <1>1, <1>5 DEF Start, LookForClone, LookForCopy, FindRepo, CreateRepo, Fails
<1>6. ASSUME NEW b \in Backups, PushGithub(b)
      PROVE  NoneNewer'
  BY <1>6 DEF PushGithub
<1>7. ASSUME NEW r \in Replicas, Restart(r)
      PROVE  NoneNewer'
  <2>1. UNCHANGED <<origin, github>>
    BY <1>7 DEF Restart
  <2>2. \A s \in Replicas : /\ source'[s] \in {source[s], Locked(source[s].branch), NoClone}
                           /\ rewrite'[s] \in {rewrite[s], NoCopy}
    <3>1. CASE UNCHANGED copies
      BY <3>1
    <3>2. CASE source' = [source EXCEPT ![r] = Locked(@.branch)] /\ UNCHANGED rewrite
      BY <3>2
    <3>3. CASE /\ source' = [source EXCEPT ![r] = NoClone]
               /\ rewrite' = [rewrite EXCEPT ![r] = NoCopy]
      BY <3>3
    <3>4. QED
      BY <1>7, <3>1, <3>2, <3>3 DEF Restart
  <2>3. /\ \A s \in Replicas : Locked(source[s].branch).branch = source[s].branch
        /\ NoClone.branch = 0 /\ NoCopy.branch = 0
    BY DEF Locked, NoClone, NoCopy
  <2>4. QED
    BY <1>1, <2>1, <2>2, <2>3
<1>8. ASSUME NEW r \in Replicas, TwinFetches(r)
      PROVE  NoneNewer'
  <2>1. UNCHANGED <<origin, rewrite, github>>
    BY <1>8 DEF TwinFetches
  <2>2. \A s \in Replicas : source'[s] \in {source[s], Clone(Foreign), AfterFetch(source[s])}
    <3>1. CASE source' = [source EXCEPT ![r] = Clone(Foreign)]
      BY <3>1
    <3>2. CASE source' = [source EXCEPT ![r] = AfterFetch(@)]
      BY <3>2
    <3>3. QED
      BY <1>8, <3>1, <3>2 DEF TwinFetches
  <2>3. /\ Clone(Foreign).branch = Foreign
        /\ \A s \in Replicas : AfterFetch(source[s]).branch \in {origin, Foreign}
    BY FetchBrings DEF Clone
  <2>4. QED
    BY <1>1, <2>1, <2>2, <2>3
<1>a. ASSUME NEW r \in Replicas, TwinCopies(r)
      PROVE  NoneNewer'
  <2>1. UNCHANGED <<origin, source, github>>
    BY <1>a DEF TwinCopies
  <2>2. \A s \in Replicas : rewrite'[s].branch \in {0, rewrite[s].branch, source[s].branch}
    BY <1>a, TwinsCopy
  <2>3. QED
    BY <1>1, <2>1, <2>2
<1>9. QED
  BY <1>2, <1>3, <1>4, <1>5, <1>6, <1>7, <1>8, <1>a DEF Next, Mirror

LEMMA PcMoves ==
    ASSUME TypeOK, [Next]_vars
    PROVE  \/ \A c \in Backups : pc'[c] # "idle" => pc[c] # "idle" /\ began'[c] = began[c]
           \/ \E b \in Backups :
                 /\ began'[b] = origin /\ UNCHANGED github
                 /\ \A c \in Backups \ {b} : pc'[c] = pc[c] /\ began'[c] = began[c]
<1> USE DEF TypeOK, Goto, copies, counters, history
<1>1. ASSUME NEW b \in Backups, Start(b)
      PROVE  /\ began'[b] = origin /\ UNCHANGED github
             /\ \A c \in Backups \ {b} : pc'[c] = pc[c] /\ began'[c] = began[c]
  BY <1>1 DEF Start
<1>2. ASSUME NEW b \in Backups, Mirror(b) \/ CloneFails(b) \/ Fails(b)
      PROVE  pc[b] # "idle" /\ UNCHANGED began /\ \A c \in Backups \ {b} : pc'[c] = pc[c]
  BY <1>2 DEF Mirror, LookForClone, BeginClone, EndClone, CloneFails, Fetch, LookForCopy, RemoveCopy,
              MakeCopy, Filter, FindRepo, CreateRepo, PushGithub, Fails
<1>3. ASSUME \/ PushOrigin \/ UNCHANGED vars
             \/ \E r \in Replicas : Restart(r) \/ TwinFetches(r) \/ TwinCopies(r)
      PROVE  UNCHANGED began /\ \A c \in Backups : pc'[c] # "idle" => pc'[c] = pc[c]
  BY <1>3 DEF PushOrigin, Restart, TwinFetches, TwinCopies, vars
<1>4. QED
  BY <1>1, <1>2, <1>3 DEF Next

\* As long as no backups have overlapped, what GitHub has of the branch is not replaced by
\* an older state of it.
NeverBack ==
    [][overlaps' = 0 => github'.branch >= github.branch \/ github.branch = Foreign]_vars

OneReplica == \A r, s \in Replicas : r = s

LEMMA ForwardStep ==
    ASSUME OneReplica, TypeOK, FetchedIsFresh, WithoutOverlap, WithoutOverlap', NoneNewer, BegunAfter,
           [Next]_vars, overlaps' = 0
    PROVE  /\ overlaps = 0 /\ BegunAfter'
           /\ github'.branch >= github.branch \/ github.branch = Foreign
<1>0. /\ origin \in Nat /\ github.branch \in Nat /\ overlaps \in Nat
      /\ \A b \in Backups : began[b] \in Nat
      /\ \A r \in Replicas : source[r].branch \in Nat /\ rewrite[r].branch \in Nat
      /\ \A b, c \in Backups : On[b] \in Replicas /\ On[b] = On[c]
  BY Numbers, BackupAssumption DEF OneReplica
<1>1. overlaps = 0
  <2>1. ASSUME NEW b \in Backups, Start(b)
        PROVE  overlaps' \in {overlaps, overlaps + 1}
    BY <2>1 DEF Start
  <2>2. ASSUME NEW b \in Backups, Mirror(b) \/ CloneFails(b) \/ Fails(b)
        PROVE  overlaps' = overlaps
    BY <2>2 DEF Mirror, LookForClone, BeginClone, EndClone, CloneFails, Fetch, LookForCopy, RemoveCopy,
                MakeCopy, Filter, FindRepo, CreateRepo, PushGithub, Fails, counters
  <2>3. ASSUME \/ PushOrigin \/ UNCHANGED vars
               \/ \E r \in Replicas : Restart(r) \/ TwinFetches(r) \/ TwinCopies(r)
        PROVE  overlaps' \in {overlaps, overlaps + 1}
    BY <2>3 DEF PushOrigin, Restart, TwinFetches, TwinCopies, TwinMayRun, vars, counters
  <2>4. overlaps' \in {overlaps, overlaps + 1}
    BY <2>1, <2>2, <2>3 DEF Next
  <2>5. QED
    BY <1>0, <2>4
<1>2. CASE github'.branch = github.branch
  <2>1. BegunAfter'
    BY <1>0, <1>1, <1>2, PcMoves DEF BegunAfter, NoneNewer
  <2>2. QED
    BY <1>0, <1>1, <1>2, <2>1
<1>3. ASSUME NEW b \in Backups, pc[b] = "push", rewrite[On[b]].branch # 0,
             github'.branch = rewrite[On[b]].branch, pc'[b] = "idle",
             \A c \in Backups \ {b} : pc'[c] = pc[c]
      PROVE  /\ BegunAfter'
             /\ github'.branch >= github.branch \/ github.branch = Foreign
  <2>1. /\ began[b] <= rewrite[On[b]].branch
        /\ github.branch <= began[b] \/ github.branch = Foreign
    BY <1>1, <1>3 DEF FetchedIsFresh, Cleared, BegunAfter
  <2>2. \A c \in Backups : pc'[c] = "idle"
    BY <1>0, <1>1, <1>3 DEF WithoutOverlap
  <2>3. QED
    BY <1>0, <1>3, <2>1, <2>2 DEF BegunAfter
<1>4. ASSUME UNCHANGED <<github.branch, github.filtered, github.since, github.swapped>>
      PROVE  github'.branch = github.branch
  BY <1>4
<1>5. ASSUME NEW b \in Backups, PushGithub(b), rewrite[On[b]].branch # 0
      PROVE  /\ pc[b] = "push" /\ github'.branch = rewrite[On[b]].branch /\ pc'[b] = "idle"
             /\ \A c \in Backups \ {b} : pc'[c] = pc[c]
  BY <1>5 DEF PushGithub, Goto, TypeOK
<1>6. (\E b \in Backups : PushGithub(b) /\ rewrite[On[b]].branch # 0) \/ github'.branch = github.branch
  BY DEF Next, Mirror, PushOrigin, Start, LookForClone, BeginClone, EndClone, CloneFails, Fetch, LookForCopy,
         RemoveCopy, MakeCopy, Filter, FindRepo, CreateRepo, PushGithub, Fails, Restart,
         TwinFetches, TwinCopies, vars, TypeOK
<1>7. QED
  BY <1>1, <1>2, <1>3, <1>5, <1>6

\* The mirror of a single replica goes forward: the branch on GitHub is never replaced by
\* an older state of it until backups overlap, whatever fails and whenever the replica restarts
\* (the schedule of backup.rs is all that keeps them apart).
THEOREM ForwardWithoutOverlap ==
    ASSUME OneReplica
    PROVE  Spec => NeverBack
<1>1. Init => WithoutOverlap /\ NoneNewer /\ BegunAfter
  <2>1. Init => origin \in Nat
    BY BackupAssumption DEF Init, Contents
  <2>2. QED
    BY <2>1 DEF Init, WithoutOverlap, NoneNewer, BegunAfter, NoClone, NoCopy
<1>2. IInv /\ WithoutOverlap /\ [Next]_vars => WithoutOverlap'
  BY WithoutOverlapStep DEF IInv
<1>3. IInv /\ NoneNewer /\ [Next]_vars => NoneNewer'
  BY NoneNewerStep DEF IInv
<1>4. IInv /\ WithoutOverlap /\ WithoutOverlap' /\ NoneNewer /\ BegunAfter /\ [Next]_vars
        => /\ BegunAfter'
           /\ overlaps' = 0 => github'.branch >= github.branch \/ github.branch = Foreign
  <2>1. overlaps' # 0 => BegunAfter'
    BY DEF BegunAfter
  <2>2. QED
    BY <2>1, ForwardStep DEF IInv
<1>5. QED
  BY <1>1, <1>2, <1>3, <1>4, Inductive, PTL DEF Spec, NeverBack
=============================================================================
