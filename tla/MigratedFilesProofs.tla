------------------------ MODULE MigratedFilesProofs ------------------------
(***************************************************************************)
(* Proofs about MigratedFiles for any number of runs, developers, calls,   *)
(* clients of the file endpoints and commits.                              *)
(*                                                                         *)
(* The runs, the developers and the calls keep RepoInv whatever the file   *)
(* endpoints do.  What is left of main, seen through the number of its     *)
(* commits, is the environment of FileCache, so FileInv, which is proved   *)
(* of FileCache's own steps, holds of the file endpoints here.             *)
(***************************************************************************)
EXTENDS MigratedFiles, SequenceTheorems, FiniteSetTheorems, TLAPS

-----------------------------------------------------------------------------
(* FileCache, at the number of commits on main *)

\* Nothing is newer than the repository, and no request began after something
\* newer than what has been shown.
Bounded ==
    /\ cache.content <= Version
    /\ shown <= Version
    /\ \A q \in Readers : since[q] <= shown
    /\ \A q \in Readers : content[q] <= Version

\* Until readers get in each other's way or Redis fails one request at a time is
\* about to store; what it holds, and what is cached, is as new as anything that
\* has been shown or is about to be.
Ordered ==
    ~disturbed =>
        /\ \A q, p \in Readers : pc[q] = "store" /\ pc[p] = "store" => q = p
        /\ \A q \in Readers : pc[q] = "store" =>
              /\ shown <= content[q]
              /\ cache.there => cache.content <= content[q]
              /\ \A p \in Readers : pc[p] = "reply" => content[p] <= content[q]
        /\ cache.there =>
              /\ shown <= cache.content
              /\ \A p \in Readers : pc[p] = "reply" => content[p] <= cache.content
        /\ \A q \in Readers : pc[q] \in {"store", "reply", "done"} => since[q] <= content[q]

FileInv == File!TypeOK /\ Bounded /\ Ordered

-----------------------------------------------------------------------------
LEMMA CacheShape ==
    ASSUME File!TypeOK
    PROVE  /\ cache.there \in BOOLEAN
           /\ cache.content \in 0 .. MaxCommits
           /\ cache.there => cache.content \notin Missing
<1>1. CASE cache = File!Empty
  BY <1>1, FilesAssumption DEF File!Empty, File!CacheAssumption
<1>2. CASE cache \in [there : {TRUE}, content : File!Versions \ Missing, expires : BOOLEAN]
  BY <1>2 DEF File!Versions
<1>3. QED
  BY <1>1, <1>2 DEF File!TypeOK

LEMMA InitFile == File!Init => FileInv
<1> SUFFICES ASSUME File!Init
             PROVE  FileInv
  OBVIOUS
<1>1. cache.content = 0 /\ cache.there = FALSE
  BY DEF File!Init, File!Empty
<1>2. File!TypeOK
  <2>1. cache = File!Empty /\ 0 \in File!Versions /\ "new" \in File!Steps
    BY FilesAssumption DEF File!CacheAssumption, File!Init, File!Versions, File!Steps, File!Idle
  <2>2. \A q \in Readers : pc[q] = "new"
    BY DEF File!Init
  <2>3. QED
    BY <2>1, <2>2 DEF File!Init, File!TypeOK
<1>3. Bounded
  BY <1>1, FilesAssumption DEF File!CacheAssumption, File!Init, Bounded, File!Versions
<1>4. Ordered
  BY <1>1 DEF File!Init, Ordered
<1>5. QED
  BY <1>2, <1>3, <1>4 DEF FileInv

LEMMA FileTypeStep == File!TypeOK /\ [File!Next]_(File!vars) => File!TypeOK'
<1> SUFFICES ASSUME File!TypeOK, [File!Next]_(File!vars)
             PROVE  File!TypeOK'
  OBVIOUS
<1> USE FilesAssumption DEF File!CacheAssumption, File!TypeOK, File!Versions, File!Steps,
                            File!Idle, File!Empty, File!Goto
<1>1. ASSUME NEW q \in Readers, File!Begin(q)
      PROVE  File!TypeOK'
  BY <1>1 DEF File!Begin
<1>2. ASSUME NEW q \in Readers, File!Hit(q)
      PROVE  File!TypeOK'
  BY <1>2, CacheShape DEF File!Hit
<1>3. ASSUME NEW q \in Readers, File!Miss(q) \/ File!LookupFails(q)
      PROVE  File!TypeOK'
  BY <1>3 DEF File!Miss, File!LookupFails
<1>4. ASSUME NEW q \in Readers, File!ReadFile(q)
      PROVE  File!TypeOK'
  <2>1. /\ UNCHANGED <<Version, cache, shown, since>>
        /\ content' = [content EXCEPT ![q] = Version]
        /\ \E s \in {"notfound", "store"} :
              pc' = [pc EXCEPT ![q] = s] /\ (s = "store" => Version \notin Missing)
    BY <1>4 DEF File!ReadFile
  <2>2. disturbed' \in BOOLEAN
    BY <1>4 DEF File!ReadFile
  <2>3. pc' \in [Readers -> File!Steps] /\ content' \in [Readers -> File!Versions]
    BY <2>1
  <2>4. \A p \in Readers : pc'[p] \in {"store", "reply", "done"} => content'[p] \notin Missing
    BY <2>1
  <2>5. QED
    BY <2>1, <2>2, <2>3, <2>4
<1>5. ASSUME NEW q \in Readers, File!Store(q) \/ File!StoreFails(q)
      PROVE  File!TypeOK'
  <2>1. pc[q] = "store"
    BY <1>5 DEF File!Store, File!StoreFails
  <2>2. File!Entry(q) \in [there : {TRUE}, content : File!Versions \ Missing, expires : BOOLEAN]
    BY <2>1 DEF File!Entry
  <2>3. /\ UNCHANGED <<Version, content, shown, since>>
        /\ pc' = [pc EXCEPT ![q] = "reply"]
        /\ cache' \in {cache, File!Entry(q)}
        /\ disturbed' \in BOOLEAN
    BY <1>5 DEF File!Store, File!StoreFails
  <2>4. \/ cache' = File!Empty
        \/ cache' \in [there : {TRUE}, content : File!Versions \ Missing, expires : BOOLEAN]
    <3>1. CASE cache' = cache
      BY <3>1
    <3>2. CASE cache' = File!Entry(q)
      BY <2>2, <3>2, Zenon
    <3>3. QED
      BY <2>3, <3>1, <3>2
  <2>5. pc' \in [Readers -> File!Steps]
    BY <2>3
  <2>6. \A p \in Readers : pc'[p] \in {"store", "reply", "done"} => content'[p] \notin Missing
    BY <2>1, <2>3
  <2>7. QED
    BY <2>3, <2>4, <2>5, <2>6
<1>6. ASSUME NEW q \in Readers, File!Reply(q)
      PROVE  File!TypeOK'
  BY <1>6 DEF File!Reply
<1>7. CASE File!Push
  <2>1. Version' \in File!Versions
    BY <1>7 DEF File!Push
  <2>2. QED
    BY <1>7, <2>1 DEF File!Push
<1>8. CASE File!Expire
  BY <1>8 DEF File!Expire
<1>9. CASE UNCHANGED File!vars
  BY <1>9 DEF File!vars
<1>10. QED
  BY <1>1, <1>2, <1>3, <1>4, <1>5, <1>6, <1>7, <1>8, <1>9 DEF File!Next, File!Serve

LEMMA FileBoundedStep == File!TypeOK /\ Bounded /\ [File!Next]_(File!vars) => Bounded'
<1> SUFFICES ASSUME File!TypeOK, Bounded, [File!Next]_(File!vars)
             PROVE  Bounded'
  OBVIOUS
<1>0. cache.content \in Nat
  BY CacheShape, FilesAssumption DEF File!CacheAssumption
<1> USE FilesAssumption DEF File!CacheAssumption, File!TypeOK, Bounded, File!Versions, File!Goto
<1>1. ASSUME NEW q \in Readers, File!Begin(q)
      PROVE  Bounded'
  BY <1>1 DEF File!Begin
<1>2. ASSUME NEW q \in Readers, File!Hit(q)
      PROVE  Bounded'
  BY <1>0, <1>2 DEF File!Hit
<1>3. ASSUME NEW q \in Readers, File!Miss(q) \/ File!LookupFails(q)
      PROVE  Bounded'
  BY <1>3 DEF File!Miss, File!LookupFails
<1>4. ASSUME NEW q \in Readers, File!ReadFile(q)
      PROVE  Bounded'
  BY <1>4 DEF File!ReadFile
<1>5. ASSUME NEW q \in Readers, File!Store(q) \/ File!StoreFails(q)
      PROVE  Bounded'
  BY <1>5 DEF File!Store, File!StoreFails, File!Entry
<1>6. ASSUME NEW q \in Readers, File!Reply(q)
      PROVE  Bounded'
  BY <1>6 DEF File!Reply
<1>7. CASE File!Push
  <2>1. Version \in Nat /\ Version' = Version + 1
    BY <1>7 DEF File!Push
  <2>2. shown \in Nat /\ \A q \in Readers : content[q] \in Nat
    OBVIOUS
  <2>3. QED
    BY <1>0, <1>7, <2>1, <2>2 DEF File!Push
<1>8. CASE File!Expire
  <2>1. cache'.content = 0
    BY <1>8 DEF File!Expire, File!Empty
  <2>2. Version \in Nat
    OBVIOUS
  <2>3. QED
    BY <1>8, <2>1, <2>2 DEF File!Expire
<1>9. CASE UNCHANGED File!vars
  BY <1>9 DEF File!vars
<1>10. QED
  BY <1>1, <1>2, <1>3, <1>4, <1>5, <1>6, <1>7, <1>8, <1>9 DEF File!Next, File!Serve

LEMMA FileOrderedStep == FileInv /\ [File!Next]_(File!vars) => Ordered'
<1> SUFFICES ASSUME FileInv, [File!Next]_(File!vars), ~disturbed'
             PROVE  Ordered'
  BY DEF Ordered
<1>0. cache.there \in BOOLEAN /\ cache.content \in Nat
  BY CacheShape, FilesAssumption DEF File!CacheAssumption, FileInv
<1> USE <1>0, FilesAssumption DEF File!CacheAssumption, FileInv, File!TypeOK, Bounded, Ordered,
                                  File!Versions, File!Goto
<1>1. ASSUME NEW q \in Readers, File!Begin(q)
      PROVE  Ordered'
  BY <1>1 DEF File!Begin
<1>2. ASSUME NEW q \in Readers, File!Hit(q)
      PROVE  Ordered'
  BY <1>2 DEF File!Hit
<1>3. ASSUME NEW q \in Readers, File!Miss(q) \/ File!LookupFails(q)
      PROVE  Ordered'
  BY <1>3 DEF File!Miss, File!LookupFails
<1>4. ASSUME NEW q \in Readers, File!ReadFile(q)
      PROVE  Ordered'
  <2>1. ~disturbed /\ \A p \in Readers \ {q} : pc[p] # "store"
    BY <1>4 DEF File!ReadFile
  <2>2. /\ pc[q] = "read"
        /\ content'[q] = Version
        /\ \A p \in Readers \ {q} : pc'[p] = pc[p] /\ content'[p] = content[p]
        /\ pc'[q] \in {"store", "notfound"}
        /\ shown' = shown /\ cache' = cache /\ since' = since
    BY <1>4 DEF File!ReadFile
  <2>3. /\ Version \in Nat /\ shown \in Nat
        /\ \A p \in Readers : content[p] \in Nat /\ since[p] \in Nat
    OBVIOUS
  <2>4. \A p, s \in Readers : pc'[p] = "store" /\ pc'[s] = "store" => p = s
    BY <2>1, <2>2
  <2>5. ASSUME NEW p \in Readers, pc'[p] = "store"
        PROVE  /\ shown' <= content'[p]
               /\ cache'.there => cache'.content <= content'[p]
               /\ \A s \in Readers : pc'[s] = "reply" => content'[s] <= content'[p]
    <3>1. p = q
      BY <2>1, <2>2, <2>5
    <3>2. QED
      BY <3>1, <2>2, <2>3
  <2>6. cache'.there =>
              /\ shown' <= cache'.content
              /\ \A p \in Readers : pc'[p] = "reply" => content'[p] <= cache'.content
    BY <2>1, <2>2
  <2>7. \A p \in Readers : pc'[p] \in {"store", "reply", "done"} => since'[p] <= content'[p]
    BY <2>1, <2>2, <2>3
  <2>8. QED
    BY <2>4, <2>5, <2>6, <2>7
<1>5. ASSUME NEW q \in Readers, File!Store(q) \/ File!StoreFails(q)
      PROVE  Ordered'
  BY <1>5 DEF File!Store, File!StoreFails, File!Entry
<1>6. ASSUME NEW q \in Readers, File!Reply(q)
      PROVE  Ordered'
  BY <1>6 DEF File!Reply
<1>7. CASE File!Push
  BY <1>7 DEF File!Push
<1>8. CASE File!Expire
  <2>1. cache'.there = FALSE
    BY <1>8 DEF File!Expire, File!Empty
  <2>2. QED
    BY <1>8, <2>1 DEF File!Expire
<1>9. CASE UNCHANGED File!vars
  BY <1>9 DEF File!vars
<1>10. QED
  BY <1>1, <1>2, <1>3, <1>4, <1>5, <1>6, <1>7, <1>8, <1>9 DEF File!Next, File!Serve

-----------------------------------------------------------------------------
(* Commits and prefixes *)

LEMMA PrefixOfItself ==
    ASSUME NEW S, NEW s \in Seq(S)
    PROVE  IsPrefix(s, s)
BY LenProperties DEF IsPrefix

\* A prefix stays one when a commit is added.
LEMMA PrefixOfAppend ==
    ASSUME NEW S, NEW s \in Seq(S), NEW u \in Seq(S), NEW x \in S, IsPrefix(s, u)
    PROVE  IsPrefix(s, Append(u, x))
<1>1. Len(s) \in Nat /\ Len(u) \in Nat /\ Len(s) <= Len(u) /\ Len(Append(u, x)) = Len(u) + 1
  BY LenProperties DEF IsPrefix
<1>2. \A i \in 1 .. Len(u) : Append(u, x)[i] = u[i]
  BY <1>1
<1>3. SubSeq(Append(u, x), 1, Len(s)) = SubSeq(u, 1, Len(s))
  BY <1>1, <1>2
<1>4. QED
  BY <1>1, <1>3 DEF IsPrefix

\* A commit that is added is there, with all that was there before.
LEMMA RangeOfAppend ==
    ASSUME NEW S, NEW s \in Seq(S), NEW x \in S
    PROVE  Range(s) \union {x} \subseteq Range(Append(s, x))
<1>1. Len(s) \in Nat /\ DOMAIN s = 1 .. Len(s)
  BY LenProperties
<1>2. Append(s, x) \in Seq(S) /\ Len(Append(s, x)) = Len(s) + 1
  BY <1>1
<1>3. DOMAIN Append(s, x) = 1 .. Len(s) + 1
  BY <1>2, LenProperties
<1>4. Append(s, x)[Len(s) + 1] = x /\ \A i \in 1 .. Len(s) : Append(s, x)[i] = s[i]
  BY <1>1
<1>5. QED
  BY <1>1, <1>3, <1>4 DEF Range

-----------------------------------------------------------------------------
(* What a step does to main *)

\* A commit that was made is counted: the initial one, those of developers and one of each
\* run that has ended.
Counted ==
    Len(main) <= 1 + pushes + Cardinality({t \in Named(setting) : step[t] \in Ended})

\* The types without the bound on main, and without those of the file cache.
RepoOK ==
    /\ setting \in Settings
    /\ main \in Seq(Models)
    /\ step \in [Runs -> Steps]
    /\ clone \in [Runs -> Seq(Models)]
    /\ failures \in 0 .. setting.failures
    /\ pushes \in 0 .. setting.pushes
    /\ hidden \subseteq Committing

ClonesOK == \A t \in Runs : IsPrefix(clone[t], main)

CallsOK ==
    /\ recorded \in [Runs -> Statuses]
    /\ logs \in [Clients -> {"idle", "opening", "open", "whole", "part", "error"}]
    /\ status \in [Clients -> Statuses \union {"idle", "reading", "error"}]
    /\ \A c \in Clients : logs[c] = "idle" <=> status[c] = "idle"
    /\ told \in [Clients -> Statuses \union {"nothing", "error"}]

LEMMA TypeParts ==
    TypeOK <=> RepoOK /\ ClonesOK /\ CallsOK /\ Len(main) <= MaxCommits /\ File!TypeOK
BY DEF TypeOK, RepoOK, ClonesOK, CallsOK

LEMMA SettingOK ==
    ASSUME setting \in Settings
    PROVE  /\ setting.runs \subseteq Runs /\ setting.clients \subseteq Clients
           /\ setting.readers \subseteq Readers
           /\ setting.failures \in Nat /\ setting.pushes \in Nat
           /\ Named(setting) \subseteq Runs /\ IsFiniteSet(Named(setting))
           /\ Cardinality(Named(setting)) \in Nat
           /\ 1 + setting.pushes + Cardinality(Named(setting)) <= MaxCommits
           /\ MaxCommits \in Nat
<1>1. /\ setting.runs \subseteq Runs /\ setting.clients \subseteq Clients
      /\ setting.failures \in Nat /\ setting.pushes \in Nat
  BY MigrationAssumption
<1>2. /\ setting.readers \subseteq Readers /\ IsFiniteSet(Runs)
      /\ 1 + setting.pushes + Cardinality(Named(setting)) <= MaxCommits
      /\ MaxCommits \in Nat
  BY FilesAssumption DEF File!CacheAssumption
<1>3. Named(setting) \in SUBSET Runs
  BY <1>1 DEF Named
<1>4. IsFiniteSet(Named(setting)) /\ Cardinality(Named(setting)) \in Nat
  BY <1>2, <1>3, FS_Subset, FS_CardinalityType
<1>5. QED
  BY <1>1, <1>2, <1>3, <1>4

LEMMA SchemaType ==
    ASSUME NEW s \in Seq(Models)
    PROVE  /\ Schema(s) \in Models
           /\ s # <<>> => Schema(s) \in Range(s)
           /\ s = <<>> => Schema(s) = NoModels
<1>1. CASE s = <<>>
  BY <1>1 DEF Schema, Models
<1>2. CASE s # <<>>
  <2>1. Len(s) \in 1 .. Len(s) /\ DOMAIN s = 1 .. Len(s)
    BY <1>2, LenProperties, EmptySeq
  <2>2. s[Len(s)] \in Models
    BY <2>1, ElementOfSeq
  <2>3. Schema(s) = s[Len(s)]
    BY <1>2 DEF Schema, Last
  <2>4. QED
    BY <1>2, <2>1, <2>2, <2>3 DEF Range
<1>3. QED
  BY <1>1, <1>2

\* An accepted push leaves main alone or adds the models of the run, and main has them
\* unless a commit failed that had something to commit.
LEMMA AcceptedPush ==
    ASSUME RepoOK, NEW t \in Runs, NEW h \in Commits(t), Accepted(t, h)
    PROVE  /\ h = main \/ (t \notin Unnamed /\ h = Append(main, Asked[t]))
           /\ Asked[t] \in Range(h) \/ (h = clone[t] /\ Schema(h) # Asked[t])
<1>1. clone[t] = main /\ main \in Seq(Models)
  BY DEF Accepted, RepoOK
<1>2. Asked[t] \in Models /\ Asked[t] # NoModels
  BY MigrationAssumption DEF Models
<1>3. h = main \/ (t \notin Unnamed /\ h = Append(main, Asked[t]))
  BY <1>1 DEF Commits
<1>4. CASE h = main /\ Schema(main) = Asked[t]
  <2>1. main # <<>>
    BY <1>1, <1>2, <1>4, SchemaType
  <2>2. QED
    BY <1>1, <1>3, <1>4, <2>1, SchemaType
<1>5. CASE h = main /\ Schema(main) # Asked[t]
  BY <1>1, <1>3, <1>5
<1>6. CASE h = Append(main, Asked[t])
  BY <1>1, <1>2, <1>3, <1>6, RangeOfAppend
<1>7. QED
  BY <1>3, <1>4, <1>5, <1>6

\* A run's step moves it alone.  main stays, or takes the commit of a run that ends with it.
LEMMA RunMoves ==
    ASSUME RepoOK, NEW t \in Runs, Taskrun(t)
    PROVE  /\ step' = [step EXCEPT ![t] = step'[t]]
           /\ step[t] \notin Ended /\ step'[t] \in Steps
           /\ \/ main' = main
              \/ /\ t \in Committing \ Unnamed /\ step'[t] \in Ended
                 /\ main' = Append(main, Asked[t])
           /\ step'[t] = "done" /\ t \in Committing
                => Asked[t] \in Range(main') \/ t \in hidden'
           /\ hidden \subseteq hidden' /\ hidden' \subseteq Committing
           /\ clone' = clone \/ (clone' = [clone EXCEPT ![t] = main] /\ main' = main)
           /\ failures' \in 0 .. setting.failures
<1>0. step \in [Runs -> Steps] /\ failures \in 0 .. setting.failures /\ setting.failures \in Nat
      /\ hidden \subseteq Committing
  BY SettingOK DEF RepoOK
<1> USE <1>0 DEF Goto, Steps, Ended
<1>1. CASE StartPod(t) \/ NeverStarts(t) \/ Migrate(t) \/ SkipPush(t)
  BY <1>1 DEF StartPod, NeverStarts, Migrate, SkipPush
<1>2. CASE CloneRepo(t)
  BY <1>2 DEF CloneRepo
<1>3. CASE PushMain(t)
  <2>1. PICK h \in Commits(t) :
            /\ Goto(t, "push", IF Accepted(t, h) THEN "done" ELSE "failed")
            /\ main' = IF Accepted(t, h) THEN h ELSE main
            /\ NoteHidden(t, h)
    BY <1>3 DEF PushMain
  <2>2. /\ t \in Committing /\ step[t] = "push" /\ clone' = clone /\ failures' = failures
        /\ step' = [step EXCEPT ![t] = IF Accepted(t, h) THEN "done" ELSE "failed"]
    BY <1>3, <2>1 DEF PushMain
  <2>3. step'[t] = IF Accepted(t, h) THEN "done" ELSE "failed"
    BY <2>2
  <2>4. /\ hidden \subseteq hidden' /\ hidden' \subseteq Committing
        /\ h = clone[t] /\ Schema(h) # Asked[t] => t \in hidden'
    BY <2>1, <2>2 DEF NoteHidden
  <2>5. CASE Accepted(t, h)
    <3>1. main' = h /\ step'[t] = "done"
      BY <2>1, <2>3, <2>5
    <3>2. /\ h = main \/ (t \notin Unnamed /\ h = Append(main, Asked[t]))
          /\ Asked[t] \in Range(h) \/ (h = clone[t] /\ Schema(h) # Asked[t])
      BY <2>5, AcceptedPush
    <3>3. QED
      BY <2>2, <2>4, <3>1, <3>2
  <2>6. CASE ~Accepted(t, h)
    BY <2>1, <2>2, <2>3, <2>4, <2>6
  <2>7. QED
    BY <2>5, <2>6
<1>4. CASE StepFails(t)
  <2>1. /\ step[t] \notin Ended /\ step' = [step EXCEPT ![t] = "failed"]
        /\ \/ main' = main
           \/ t \in Committing /\ \E h \in Commits(t) : Accepted(t, h) /\ main' = h
        /\ clone' = clone /\ hidden' = hidden
        /\ failures < setting.failures /\ failures' = failures + 1
    BY <1>4 DEF StepFails
  <2>2. step'[t] = "failed"
    BY <2>1
  <2>3. main' = main \/ (t \in Committing \ Unnamed /\ main' = Append(main, Asked[t]))
    BY <2>1, AcceptedPush
  <2>4. QED
    BY <2>1, <2>2, <2>3
<1>5. QED
  BY <1>1, <1>2, <1>3, <1>4 DEF Taskrun

LEMMA RepoMoves ==
    ASSUME RepoOK, [Next]_vars
    PROVE  \/ \E t \in setting.runs : /\ Taskrun(t)
                                      /\ UNCHANGED <<setting, recorded, calls, pushes, reading>>
           \/ Develop
           \/ /\ \/ \E t \in setting.runs : Record(t) /\ UNCHANGED calls
                 \/ \E c \in setting.clients : Logs(c) /\ recorded' = recorded
                 \/ UNCHANGED <<recorded, calls, failures>>
              /\ UNCHANGED <<setting, main, step, clone, pushes, hidden>>
<1>1. ASSUME NEW t \in setting.runs, Run(t)
      PROVE  Taskrun(t) /\ UNCHANGED <<setting, recorded, calls, pushes, reading>>
  BY <1>1, Zenon DEF Run
<1>2. ASSUME NEW t \in setting.runs, Status(t)
      PROVE  Record(t) /\ UNCHANGED <<setting, main, step, clone, pushes, hidden, calls>>
  BY <1>2 DEF Status, Record
<1>3. ASSUME NEW c \in setting.clients, Ask(c)
      PROVE  /\ Logs(c) /\ recorded' = recorded
             /\ UNCHANGED <<setting, main, step, clone, pushes, hidden>>
  BY <1>3 DEF Ask, migration
<1>4. CASE Expire \/ (\E q \in setting.readers : Begin(q) \/ Serve(q)) \/ UNCHANGED vars
  BY <1>4 DEF Begin, Serve, Expire, vars, migrationVars, calls
<1>5. QED
  BY <1>1, <1>2, <1>3, <1>4, Zenon DEF Next

\* What a step does to main: nothing, the commit of a developer or that of one run.
LEMMA MainMoves ==
    ASSUME RepoOK, [Next]_vars
    PROVE  \/ main' = main
           \/ \E m \in Models : main' = Append(main, m)
<1>1. ASSUME NEW t \in setting.runs, Taskrun(t)
      PROVE  main' = main \/ main' = Append(main, Asked[t])
  BY <1>1, SettingOK, RunMoves DEF RepoOK
<1>2. \A t \in setting.runs : Asked[t] \in Models
  BY SettingOK DEF RepoOK, Models
<1>3. Develop => main' = Append(main, Schema(main)) /\ Schema(main) \in Models
  BY SchemaType DEF Develop, DeveloperPushes, RepoOK
<1>4. QED
  BY <1>1, <1>2, <1>3, RepoMoves

LEMMA RepoStep == RepoOK /\ [Next]_vars => RepoOK' /\ setting' = setting
<1> SUFFICES ASSUME RepoOK, [Next]_vars
             PROVE  RepoOK' /\ setting' = setting
  OBVIOUS
<1>1. main' \in Seq(Models)
  <2>1. main \in Seq(Models)
    BY DEF RepoOK
  <2>2. QED
    BY <2>1, MainMoves
<1> USE DEF RepoOK
<1>2. ASSUME NEW t \in setting.runs, Taskrun(t),
             UNCHANGED <<setting, recorded, calls, pushes, reading>>
      PROVE  RepoOK' /\ setting' = setting
  <2>1. t \in Runs
    BY SettingOK
  <2>2. step' \in [Runs -> Steps] /\ clone' \in [Runs -> Seq(Models)]
    BY <1>2, <2>1, RunMoves
  <2>3. failures' \in 0 .. setting.failures /\ hidden' \subseteq Committing
    BY <1>2, <2>1, RunMoves
  <2>4. QED
    BY <1>1, <1>2, <2>2, <2>3
<1>3. ASSUME Develop
      PROVE  RepoOK' /\ setting' = setting
  BY <1>1, <1>3, SettingOK DEF Develop, DeveloperPushes, migration
<1>4. ASSUME UNCHANGED <<setting, main, step, clone, pushes, hidden>>,
             \/ \E t \in setting.runs : Record(t) /\ UNCHANGED calls
             \/ \E c \in setting.clients : Logs(c) /\ recorded' = recorded
             \/ UNCHANGED <<recorded, calls, failures>>
      PROVE  RepoOK' /\ setting' = setting
  <2>1. failures' = failures \/ (failures < setting.failures /\ failures' = failures + 1)
    BY <1>4 DEF Record, Logs, Call, OpenLog, FollowLog, ReadStatus, CallFails, Reply
  <2>2. failures' \in 0 .. setting.failures
    BY <2>1, SettingOK
  <2>3. QED
    BY <1>4, <2>2
<1>5. QED
  BY <1>2, <1>3, <1>4, RepoMoves

LEMMA ClonesStep == RepoOK /\ ClonesOK /\ [Next]_vars => ClonesOK'
<1> SUFFICES ASSUME RepoOK, ClonesOK, [Next]_vars, NEW t \in Runs
             PROVE  IsPrefix(clone'[t], main')
  BY DEF ClonesOK
<1>1. main \in Seq(Models) /\ clone \in [Runs -> Seq(Models)]
  BY DEF RepoOK
<1>2. clone'[t] = clone[t] \/ (clone'[t] = main /\ main' = main)
  <2>1. ASSUME NEW u \in setting.runs, Taskrun(u)
        PROVE  clone' = clone \/ (clone' = [clone EXCEPT ![u] = main] /\ main' = main)
    BY <2>1, SettingOK, RunMoves DEF RepoOK
  <2>2. Develop => clone' = clone
    BY DEF Develop, DeveloperPushes, migration
  <2>3. QED
    BY <1>1, <2>1, <2>2, RepoMoves
<1>3. IsPrefix(clone[t], main')
  BY <1>1, MainMoves, PrefixOfAppend DEF ClonesOK
<1>4. QED
  BY <1>1, <1>2, <1>3, PrefixOfItself

\* A commit comes with a developer's push or the end of a run.
LEMMA CountedStep == RepoOK /\ Counted /\ [Next]_vars => Counted'
<1> SUFFICES ASSUME RepoOK, Counted, [Next]_vars
             PROVE  Counted'
  OBVIOUS
<1> DEFINE Spent == {t \in Named(setting) : step[t] \in Ended}
<1>1. /\ Len(main) \in Nat /\ pushes \in Nat
      /\ Len(main) <= 1 + pushes + Cardinality(Spent)
      /\ setting' = setting /\ step \in [Runs -> Steps] /\ step' \in [Runs -> Steps]
  BY RepoStep, LenProperties DEF RepoOK, Counted
<1>2. /\ Named(setting) \subseteq Runs /\ IsFiniteSet(Named(setting))
      /\ Named(setting)' = Named(setting)
  BY <1>1, SettingOK DEF RepoOK, Named
<1>3. Spent \in SUBSET Named(setting) /\ Spent' \in SUBSET Named(setting)
  BY <1>2
<1>4. /\ IsFiniteSet(Spent) /\ IsFiniteSet(Spent')
      /\ Cardinality(Spent) \in Nat /\ Cardinality(Spent') \in Nat
  BY <1>2, <1>3, FS_Subset, FS_CardinalityType
<1>5. Spent \subseteq Spent'
  <2>1. ASSUME NEW t \in Spent
        PROVE  step'[t] = step[t]
    <3>1. t \in Runs /\ step[t] \in Ended
      BY <1>2
    <3>2. ASSUME NEW u \in setting.runs, Taskrun(u)
          PROVE  step'[t] = step[t]
      <4>1. u \in Runs /\ step[u] \notin Ended /\ step' = [step EXCEPT ![u] = step'[u]]
        BY <3>2, SettingOK, RunMoves DEF RepoOK
      <4>2. QED
        BY <1>1, <3>1, <4>1
    <3>3. Develop => step' = step
      BY DEF Develop, DeveloperPushes, migration
    <3>4. QED
      BY <3>2, <3>3, RepoMoves
  <2>2. QED
    BY <1>2, <2>1
<1>6. Cardinality(Spent) <= Cardinality(Spent')
  BY <1>4, <1>5, FS_Subset
<1>7. Spent' = {t \in Named(setting)' : step'[t] \in Ended}
  OBVIOUS
<1>8. ASSUME NEW t \in setting.runs, Taskrun(t), pushes' = pushes
      PROVE  Counted'
  <2>1. t \in Runs
    BY <1>1, SettingOK DEF RepoOK
  <2>2. CASE main' = main
    BY <1>1, <1>4, <1>6, <1>8, <2>2 DEF Counted
  <2>3. CASE t \in Committing \ Unnamed /\ step'[t] \in Ended /\ main' = Append(main, Asked[t])
    <3>1. t \in Named(setting) /\ step[t] \notin Ended
      BY <1>8, <2>1, <2>3, RunMoves DEF Named
    <3>2. t \notin Spent /\ Spent \union {t} \in SUBSET Spent'
      BY <1>2, <1>5, <2>3, <3>1
    <3>3. Cardinality(Spent \union {t}) = Cardinality(Spent) + 1
      BY <1>4, <3>2, FS_AddElement
    <3>4. Cardinality(Spent \union {t}) <= Cardinality(Spent')
      BY <1>4, <3>2, FS_Subset
    <3>5. Len(main') = Len(main) + 1
      BY <2>3 DEF RepoOK
    <3>6. QED
      BY <1>1, <1>4, <1>8, <3>3, <3>4, <3>5 DEF Counted
  <2>4. QED
    BY <1>8, <2>1, <2>2, <2>3, RunMoves
<1>9. ASSUME Develop
      PROVE  Counted'
  <2>1. Len(main') = Len(main) + 1 /\ pushes' = pushes + 1
    BY <1>9 DEF Develop, DeveloperPushes, RepoOK
  <2>2. QED
    BY <1>1, <1>4, <1>6, <2>1 DEF Counted
<1>10. ASSUME main' = main, pushes' = pushes
       PROVE  Counted'
  BY <1>1, <1>4, <1>6, <1>10 DEF Counted
<1>11. QED
  BY <1>8, <1>9, <1>10, RepoMoves

\* So main stays within the bound.
WithinBound == Len(main) \in 0 .. MaxCommits

LEMMA Bound == RepoOK /\ Counted => WithinBound
<1> SUFFICES ASSUME RepoOK, Counted
             PROVE  WithinBound
  OBVIOUS
<1> DEFINE Spent == {t \in Named(setting) : step[t] \in Ended}
<1>1. /\ IsFiniteSet(Named(setting)) /\ Cardinality(Named(setting)) \in Nat
      /\ 1 + setting.pushes + Cardinality(Named(setting)) <= MaxCommits
      /\ setting.pushes \in Nat /\ MaxCommits \in Nat
  BY SettingOK DEF RepoOK
<1>2. Spent \in SUBSET Named(setting)
  OBVIOUS
<1>3. Cardinality(Spent) \in Nat /\ Cardinality(Spent) <= Cardinality(Named(setting))
  BY <1>1, <1>2, FS_Subset, FS_CardinalityType
<1>4. /\ Len(main) \in Nat /\ pushes \in 0 .. setting.pushes
      /\ Len(main) <= 1 + pushes + Cardinality(Spent)
  BY LenProperties DEF RepoOK, Counted
<1>5. QED
  BY <1>1, <1>3, <1>4 DEF WithinBound

-----------------------------------------------------------------------------
(* Runs, what is recorded of them and what clients are told *)

\* A run that is done has its models in main, or had a commit that failed; it is
\* recorded as completed only when it is done, and only what is recorded reaches a
\* client.
DonePushed   ==
    \A t \in Committing : step[t] = "done" => Asked[t] \in Range(main) \/ t \in hidden
RecordedDone == \A t \in Runs : recorded[t] = "Completed" => step[t] = "done"
ToldRecorded ==
    \A c \in Clients :
        "Completed" \in {status[c], told[c]} => recorded[Follows[c]] = "Completed"

Told == DonePushed /\ RecordedDone /\ ToldRecorded

\* What main has stays there.
LEMMA MainKeeps ==
    ASSUME RepoOK, [Next]_vars
    PROVE  IsPrefix(main, main') /\ Range(main) \subseteq Range(main')
<1>1. main \in Seq(Models)
  BY DEF RepoOK
<1>2. CASE main' = main
  BY <1>1, <1>2, PrefixOfItself
<1>3. ASSUME NEW m \in Models, main' = Append(main, m)
      PROVE  IsPrefix(main, main') /\ Range(main) \subseteq Range(main')
  BY <1>1, <1>3, PrefixOfItself, PrefixOfAppend, RangeOfAppend
<1>4. QED
  BY <1>2, <1>3, MainMoves

LEMMA CallsStep == RepoOK /\ CallsOK /\ [Next]_vars => CallsOK'
<1> SUFFICES ASSUME RepoOK, CallsOK, [Next]_vars
             PROVE  CallsOK'
  OBVIOUS
<1> USE DEF CallsOK
<1>1. ASSUME UNCHANGED <<recorded, calls>>
      PROVE  CallsOK'
  BY <1>1 DEF calls
<1>2. ASSUME NEW t \in setting.runs, Record(t), UNCHANGED calls
      PROVE  CallsOK'
  <2>1. recorded' \in [Runs -> Statuses]
    BY <1>2 DEF Record, Statuses
  <2>2. QED
    BY <1>2, <2>1 DEF calls
<1>3. ASSUME NEW c \in setting.clients, Logs(c), recorded' = recorded
      PROVE  CallsOK'
  <2>0. c \in Clients /\ Follows[c] \in Runs
    BY SettingOK, MigrationAssumption DEF RepoOK
  <2> USE <1>3, <2>0 DEF Statuses
  <2>1. CASE Call(c)
    BY <2>1 DEF Call
  <2>2. CASE OpenLog(c) \/ FollowLog(c)
    BY <2>2 DEF OpenLog, FollowLog
  <2>3. CASE ReadStatus(c) \/ CallFails(c)
    BY <2>3 DEF ReadStatus, CallFails
  <2>4. CASE Reply(c)
    BY <2>4 DEF Reply
  <2>5. QED
    BY <2>1, <2>2, <2>3, <2>4 DEF Logs
<1>4. Develop => UNCHANGED <<recorded, calls>>
  BY DEF Develop, DeveloperPushes, migration
<1>5. QED
  BY <1>1, <1>2, <1>3, <1>4, RepoMoves

LEMMA ToldStep == RepoOK /\ CallsOK /\ Told /\ [Next]_vars => Told'
<1> SUFFICES ASSUME RepoOK, CallsOK, Told, [Next]_vars
             PROVE  Told'
  OBVIOUS
<1>1. /\ step \in [Runs -> Steps] /\ recorded \in [Runs -> Statuses]
      /\ Range(main) \subseteq Range(main')
      /\ Committing \subseteq Runs /\ Follows \in [Clients -> Runs]
      /\ status \in [Clients -> Statuses \union {"idle", "reading", "error"}]
      /\ told \in [Clients -> Statuses \union {"nothing", "error"}]
  BY MainKeeps, MigrationAssumption DEF RepoOK, CallsOK
<1> USE DEF Told
<1>2. ASSUME NEW t \in setting.runs, Taskrun(t), UNCHANGED <<recorded, calls>>
      PROVE  Told'
  <2>1. /\ t \in Runs /\ step[t] # "done"
        /\ step' = [step EXCEPT ![t] = step'[t]]
        /\ step'[t] = "done" /\ t \in Committing => Asked[t] \in Range(main') \/ t \in hidden'
        /\ hidden \subseteq hidden'
    BY <1>2, SettingOK, RunMoves DEF RepoOK, Ended
  <2>2. DonePushed'
    BY <1>1, <2>1 DEF DonePushed
  <2>3. RecordedDone'
    BY <1>1, <1>2, <2>1 DEF RecordedDone
  <2>4. ToldRecorded'
    BY <1>2 DEF ToldRecorded, calls
  <2>5. QED
    BY <2>2, <2>3, <2>4
<1>3. ASSUME UNCHANGED <<step, recorded, calls, hidden>>
      PROVE  Told'
  BY <1>1, <1>3 DEF DonePushed, RecordedDone, ToldRecorded, calls
<1>4. ASSUME NEW t \in setting.runs, Record(t), UNCHANGED <<main, step, calls, hidden>>
      PROVE  Told'
  <2>1. /\ recorded' = [recorded EXCEPT ![t] = recorded'[t]]
        /\ recorded'[t] = "Completed" <=> step[t] = "done"
    <3>1. t \in Runs /\ step[t] \in Steps
      BY <1>1, SettingOK DEF RepoOK
    <3>2. QED
      BY <1>1, <1>4, <3>1 DEF Record, Steps, Ended
  <2>2. RecordedDone'
    BY <1>1, <1>4, <2>1 DEF RecordedDone
  <2>3. \A u \in Runs : recorded[u] = "Completed" => recorded'[u] = "Completed"
    BY <1>1, <2>1 DEF RecordedDone
  <2>4. ToldRecorded'
    BY <1>1, <1>4, <2>3 DEF ToldRecorded, calls
  <2>5. QED
    BY <1>4, <2>2, <2>4 DEF DonePushed
<1>5. ASSUME NEW c \in setting.clients, Logs(c), UNCHANGED <<main, step, recorded, hidden>>
      PROVE  Told'
  <2>0. c \in Clients
    BY SettingOK DEF RepoOK
  <2>1. ToldRecorded'
    <3> USE <1>1, <1>5, <2>0 DEF ToldRecorded
    <3>1. CASE Call(c) \/ OpenLog(c) \/ FollowLog(c) \/ CallFails(c)
      BY <3>1 DEF Call, OpenLog, FollowLog, CallFails
    <3>2. CASE ReadStatus(c)
      BY <3>2 DEF ReadStatus
    <3>3. CASE Reply(c)
      BY <3>3 DEF Reply
    <3>4. QED
      BY <3>1, <3>2, <3>3 DEF Logs
  <2>2. QED
    BY <1>5, <2>1 DEF DonePushed, RecordedDone
<1>6. Develop => UNCHANGED <<step, recorded, calls, hidden>>
  BY DEF Develop, DeveloperPushes, migration
<1>7. QED
  BY <1>2, <1>3, <1>4, <1>5, <1>6, RepoMoves

-----------------------------------------------------------------------------
(* The file endpoints see pushes and nothing else *)

LEMMA InitFileView == ViewInit => File!Init
<1> SUFFICES ASSUME ViewInit
             PROVE  File!Init
  OBVIOUS
<1>1. setting \in Settings /\ main \in {<<>>, <<NoModels>>}
  BY DEF ViewInit, Init
<1>2. MaxCommits \in Nat /\ 1 <= MaxCommits
  BY <1>1, SettingOK
<1>3. Version \in 0 .. MaxCommits
  BY <1>1, <1>2 DEF Version
<1>4. QED
  BY <1>3 DEF ViewInit, File!Init, File!Versions

\* Every step is one of the file cache's, or leaves all that it has as it is.
LEMMA FileStep == RepoOK /\ WithinBound' /\ [Next]_vars => [File!Next]_(File!vars)
<1> SUFFICES ASSUME RepoOK, WithinBound', [Next]_vars
             PROVE  [File!Next]_(File!vars)
  OBVIOUS
<1>1. ASSUME UNCHANGED reading
      PROVE  [File!Next]_(File!vars)
  <2>1. UNCHANGED <<cache, pc, content, shown, since, disturbed>>
    BY <1>1 DEF reading
  <2>2. CASE main' = main
    BY <2>1, <2>2 DEF File!vars, Version
  <2>3. ASSUME NEW m \in Models, main' = Append(main, m)
        PROVE  File!Push
    <3>1. Len(main) \in Nat /\ Len(main') = Len(main) + 1
      BY <2>3, LenProperties DEF RepoOK
    <3>2. MaxCommits \in Nat /\ Len(main') <= MaxCommits
      BY SettingOK DEF RepoOK, WithinBound
    <3>3. QED
      BY <2>1, <3>1, <3>2 DEF File!Push, Version
  <2>4. QED
    BY <2>2, <2>3, MainMoves DEF File!Next
<1>2. ASSUME NEW q \in setting.readers, Begin(q) \/ Serve(q)
      PROVE  File!Next
  <2>1. q \in Readers
    BY SettingOK DEF RepoOK
  <2>2. QED
    BY <1>2, <2>1 DEF Begin, Serve, File!Next
<1>3. Expire => File!Next
  BY DEF Expire, File!Next
<1>4. \/ \E t \in setting.runs : Run(t) \/ Status(t)
      \/ Develop
      \/ \E c \in setting.clients : Ask(c)
      \/ UNCHANGED vars
      => UNCHANGED reading
  BY DEF Run, Status, Develop, Ask, vars
<1>5. QED
  BY <1>1, <1>2, <1>3, <1>4 DEF Next

-----------------------------------------------------------------------------
(* The inductive invariant *)

RepoInv == RepoOK /\ ClonesOK /\ CallsOK /\ Counted /\ Told

LEMMA InitRepoInv == ViewInit => RepoInv
<1> SUFFICES ASSUME ViewInit
             PROVE  RepoInv
  OBVIOUS
<1> USE DEF ViewInit, Init
<1>1. /\ setting \in Settings /\ setting.failures \in Nat /\ setting.pushes \in Nat
      /\ IsFiniteSet(Named(setting))
  BY SettingOK
<1>2. main \in Seq(Models) /\ <<>> \in Seq(Models) /\ Len(main) <= 1
  <2>1. NoModels \in Models
    BY DEF Models
  <2>2. CASE main = <<>>
    BY <2>2
  <2>3. CASE main = <<NoModels>>
    BY <2>1, <2>3
  <2>4. QED
    BY <2>2, <2>3
<1>3. RepoOK
  BY <1>1, <1>2 DEF RepoOK, Steps, Ended
<1>4. ClonesOK
  <2>1. Len(<<>>) = 0 /\ Len(main) \in Nat
    BY <1>2, LenProperties
  <2>2. SubSeq(main, 1, 0) = <<>> /\ SubSeq(<<>>, 1, 0) = <<>>
    BY SubSeqEmpty
  <2>3. IsPrefix(<<>>, main)
    BY <2>1, <2>2 DEF IsPrefix
  <2>4. QED
    BY <2>3 DEF ClonesOK
<1>5. CallsOK
  BY DEF CallsOK, Statuses
<1>6. Counted
  <2>1. {t \in Named(setting) : step[t] \in Ended} \in SUBSET Named(setting)
    OBVIOUS
  <2>2. Cardinality({t \in Named(setting) : step[t] \in Ended}) \in Nat
    BY <1>1, <2>1, FS_Subset, FS_CardinalityType
  <2>3. QED
    BY <1>2, <2>2, LenProperties DEF Counted
<1>7. Told
  BY MigrationAssumption DEF Told, DonePushed, RecordedDone, ToldRecorded
<1>8. QED
  BY <1>3, <1>4, <1>5, <1>6, <1>7 DEF RepoInv

LEMMA RepoInductive == Spec => [](RepoInv /\ WithinBound)
<1>1. ViewInit => RepoInv
  BY InitRepoInv
<1>2. RepoInv /\ [Next]_vars => RepoInv'
  BY RepoStep, ClonesStep, CallsStep, CountedStep, ToldStep DEF RepoInv
<1>3. RepoInv => WithinBound
  BY Bound DEF RepoInv
<1>4. QED
  BY <1>1, <1>2, <1>3, PTL DEF Spec

-----------------------------------------------------------------------------
(* Theorems *)

\* The file endpoints see main as the environment FileCache describes, whatever runs and
\* developers do: a commit is a push to the cache, any other step of theirs nothing.
THEOREM Refinement == Spec => ImplementsFileCache
<1>1. ViewInit => File!Init
  BY InitFileView
<1>2. RepoInv /\ WithinBound' /\ [Next]_vars => [File!Next]_(File!vars)
  BY FileStep DEF RepoInv
<1>3. QED
  BY <1>1, <1>2, RepoInductive, PTL DEF Spec, ImplementsFileCache, File!Spec

LEMMA FileInductive == Spec => []FileInv
<1>1. File!Init => FileInv
  BY InitFile
<1>2. FileInv /\ [File!Next]_(File!vars) => FileInv'
  BY FileTypeStep, FileBoundedStep, FileOrderedStep DEF FileInv
<1>3. QED
  BY <1>1, <1>2, Refinement, PTL DEF ImplementsFileCache, File!Spec

\* Every variable of the runs, the calls and the file endpoints keeps its type, every clone
\* is a prefix of main, and only content that was there is cached or shown.
THEOREM TypeCorrect == Spec => []TypeOK
<1>1. RepoInv /\ WithinBound /\ FileInv => TypeOK
  <2> SUFFICES ASSUME RepoInv, WithinBound, FileInv
               PROVE  TypeOK
    OBVIOUS
  <2>1. Len(main) <= MaxCommits
    BY SettingOK DEF WithinBound, RepoInv, RepoOK
  <2>2. QED
    BY <2>1, TypeParts DEF RepoInv, FileInv
<1>2. QED
  BY <1>1, RepoInductive, FileInductive, PTL

\* No commit is ever taken off main, for any number of runs and developers that push from
\* clones of different age (git push origin main of the commit-and-push step).
THEOREM KeepsCommits == Spec => MainKeepsCommits
<1>1. RepoInv /\ [Next]_vars => [IsPrefix(main, main')]_vars
  BY MainKeeps DEF RepoInv
<1>2. QED
  BY <1>1, RepoInductive, PTL DEF Spec, MainKeepsCommits

\* Whoever is told that the last step of a committing run was completed finds the models of
\* that run in main, for any runs, developers, failures and clients: a git commit that
\* fails, which `|| echo` hides, is the only exception (fetch_step_status).
THEOREM ToldMeansPushed == Spec => []ToldIsPushed
<1>1. RepoInv => ToldIsPushed
  BY MigrationAssumption DEF RepoInv, Told, DonePushed, RecordedDone, ToldRecorded, ToldIsPushed
<1>2. QED
  BY <1>1, RepoInductive, PTL

\* No client sees the file go back, for any number of clients and commits, unless one
\* read while another was between its read and its store, or Redis failed.
THEOREM Forward == Spec => []ReadsForward
<1>1. FileInv => ReadsForward
  BY FilesAssumption DEF FileInv, File!TypeOK, Ordered, ReadsForward, File!ReadsForward,
                         File!Versions, File!CacheAssumption
<1>2. QED
  BY <1>1, FileInductive, PTL
=============================================================================
