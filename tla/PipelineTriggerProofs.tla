------------------------ MODULE PipelineTriggerProofs ------------------------
(***************************************************************************)
(* Proofs about PipelineTrigger for any hooks, pipelines, tasks, branches  *)
(* and faults.                                                             *)
(***************************************************************************)
EXTENDS PipelineTrigger, WellFoundedInduction, TLAPS

InLoop == {"ensure", "tasks", "pipeline", "list", "patch", "create"}

Missed(h, p) == <<h, p>> \in missed

\* A hook creates one run per pipeline, and none before it has started.
CreatesOnce ==
    \A h \in Hooks :
        /\ \A p \in todo[h] : state[h][p] = "none"
        /\ pc[h] \in {"new", "shared"} => \A p \in Pipelines : state[h][p] = "none"

\* A hook that nothing crossed has the namespace for itself until its runs are over, and
\* finds there what it has applied.
Alone(h) == \A g \in Hooks \ {h} : ~Active(g)
AllApplied(h, S) == \A t \in S \ skipped[h] : task[t] = TaskFrom(h)
Undisturbed ==
    \A h \in Hooks \ crossed :
        /\ Active(h) => Alone(h)
        /\ pc[h] = "tasks" => AllApplied(h, Tasks \ left[h])
        /\ pc[h] \in {"pipeline", "list", "patch", "create"} => AllApplied(h, Tasks)
        /\ pc[h] \in {"list", "patch", "create"} => pipe[Current(h)] = h
        /\ \A p \in Pipelines :
              Live(h, p) => Alone(h) /\ pipe[p] = h /\ AllApplied(h, Tasks)

\* While all runs of a pipeline are cancelled some hook is about to create one, or one
\* has failed.
Replaced ==
    \A p \in Pipelines :
        \/ \A h \in Hooks : state[h][p] = "none"
        \/ \E h \in Hooks : state[h][p] \notin {"none", "cancelled"}
        \/ \E h \in Hooks : pc[h] \in {"patch", "create"} /\ Current(h) = p
        \/ \E h \in Hooks : pc[h] = "failed"

\* A hook that cancels has missed, or is yet to cancel, every other run that goes on.
Unmissed(h) == {g \in Hooks : Live(g, Current(h)) /\ ~Missed(g, Current(h))}
PatchesSo(h) ==
    pc[h] = "patch" =>
        /\ \A g \in victims[h] : state[g][Current(h)] \notin {"none", "created"}
        /\ Unmissed(h) \subseteq victims[h]
Cancelling ==
    \A h \in Hooks :
        /\ pc[h] \in {"list", "patch"} => Cancels(h)
        /\ PatchesSo(h)
        /\ pc[h] = "create" /\ Cancels(h) => Unmissed(h) = {}

-----------------------------------------------------------------------------
LEMMA Least ==
    ASSUME NEW S \in SUBSET Nat, S # {}
    PROVE  \E n \in S : \A m \in S : n <= m
<1>1. PICK n \in S : \A m \in S : ~(<<m, n>> \in OpToRel(<, Nat))
  BY WFMin, NatLessThanWellFounded, Zenon
<1>2. ASSUME NEW m \in S
      PROVE  n <= m
  <2>1. m \in Nat /\ n \in Nat
    OBVIOUS
  <2>2. ~(m < n)
    BY <1>1, <2>1, Zenon DEF OpToRel
  <2>3. QED
    BY <2>1, <2>2
<1>3. QED
  BY <1>2

\* The first of some pipelines, or tasks, is one of them.
LEMMA FirstIsOne ==
    ASSUME NEW S, S # {}, S \subseteq Pipelines \/ S \subseteq Tasks
    PROVE  First(S) \in S
<1>1. S \in SUBSET Nat
  BY PipelineAssumption
<1>2. \E n \in S : \A m \in S : n <= m
  BY <1>1, Least
<1>3. QED
  BY <1>2 DEF First

-----------------------------------------------------------------------------
(* Type correctness *)

\* The parts of TypeOK.
ClusterOK ==
    /\ task \in [Tasks -> TaskDefs \union {None}]
    /\ pipe \in [Pipelines -> Hooks \union {None}]
HooksOK ==
    /\ pc \in [Hooks -> Steps]
    /\ todo \in [Hooks -> SUBSET Pipelines]
    /\ \A h \in Hooks : Active(h) /\ pc[h] # "shared" => todo[h] # {}
    /\ left \in [Hooks -> SUBSET Tasks]
    /\ victims \in [Hooks -> SUBSET Hooks]
RunsOK ==
    /\ state \in [Hooks -> [Pipelines -> Phases]]
    /\ ranPipe \in [Hooks -> [Pipelines -> Hooks \union {None}]]
    /\ ranTask \in [Hooks -> [Pipelines -> [Tasks -> TaskDefs \union {None}]]]
HistoryOK ==
    /\ skipped \in [Hooks -> SUBSET Tasks]
    /\ crossed \subseteq Hooks
    /\ missed \subseteq Hooks \X Pipelines

LEMMA TypeParts == TypeOK <=> setting \in Settings /\ ClusterOK /\ HooksOK /\ RunsOK /\ HistoryOK
BY DEF TypeOK, ClusterOK, HooksOK, RunsOK, HistoryOK

LEMMA SettingOK ==
    ASSUME setting \in Settings
    PROVE  /\ Request \in [Hooks -> [kind : {"push", "call"}, branch : Branches,
                                     changed : SUBSET Files, named : Pipelines]]
           /\ setting.pipelines \subseteq Pipelines /\ Common \subseteq Tasks
           /\ \A h \in Hooks : Branch(h) \in Branches /\ Selected(h) \subseteq Pipelines
BY PipelineAssumption DEF Request, Common, Branch, Selected, IsCall

LEMMA InitTypeOK == Init => TypeOK
<1> SUFFICES ASSUME Init
             PROVE  TypeOK
  OBVIOUS
<1>1. ClusterOK
  BY DEF Init, ClusterOK
<1>2. HooksOK
  BY DEF Init, HooksOK, Steps, Active
<1>3. RunsOK
  BY DEF Init, RunsOK, Phases
<1>4. HistoryOK
  BY DEF Init, HistoryOK
<1>5. QED
  BY <1>1, <1>2, <1>3, <1>4, TypeParts DEF Init

\* What the current iterations of a hook are about.
LEMMA CurrentIsOne ==
    ASSUME TypeOK, NEW h \in Hooks
    PROVE  /\ pc[h] \in InLoop => Current(h) \in todo[h] /\ Current(h) \in Pipelines
           /\ left[h] # {} => TaskOf(h) \in left[h] /\ TaskOf(h) \in Tasks
<1>1. HooksOK
  BY TypeParts
<1>2. pc[h] \in InLoop => todo[h] # {}
  BY <1>1 DEF HooksOK, InLoop, Active
<1>3. QED
  BY <1>1, <1>2, FirstIsOne DEF HooksOK, Current, TaskOf

LEMMA ClusterStep == TypeOK /\ [Next]_vars => ClusterOK'
<1> SUFFICES ASSUME TypeOK, [Next]_vars
             PROVE  ClusterOK'
  OBVIOUS
<1>1. ClusterOK /\ setting \in Settings
  BY TypeParts
<1>2. CASE UNCHANGED cluster
  BY <1>1, <1>2 DEF ClusterOK, cluster
<1>3. ASSUME NEW h \in Hooks, ApplyShared(h) \/ ApplyTask(h)
      PROVE  ClusterOK'
  <2>1. TaskFrom(h) \in TaskDefs /\ SharedFrom(h) \in TaskDefs
    BY <1>1, SettingOK DEF TaskFrom, SharedFrom, TaskDefs
  <2>2. CASE ApplyShared(h)
    BY <1>1, <2>1, <2>2 DEF ApplyShared, ClusterOK
  <2>3. CASE ApplyTask(h)
    BY <1>1, <2>1, <2>3 DEF ApplyTask, ClusterOK
  <2>4. QED
    BY <1>3, <2>2, <2>3
<1>4. ASSUME NEW h \in Hooks, ApplyPipeline(h)
      PROVE  ClusterOK'
  BY <1>1, <1>4 DEF ApplyPipeline, ClusterOK
<1>5. QED
  BY <1>2, <1>3, <1>4
     DEF Next, vars, cluster, Hook, Tekton, Begin, SharedApplied, Ensure, SkipTask, TasksApplied, ListRuns, CancelRun,
         RunsCancelled, CreateRun, Fails, StartRun, StartTask, FinishRun

\* The steps of a hook, and what they do to its own place in the loops.
LEMMA HookMoves ==
    ASSUME TypeOK, [Next]_vars, NEW h \in Hooks
    PROVE  \/ Hook(h)
           \/ /\ pc'[h] = pc[h] /\ todo'[h] = todo[h] /\ left'[h] = left[h]
              /\ victims'[h] = victims[h] /\ skipped'[h] = skipped[h]
<1>1. HooksOK /\ HistoryOK
  BY TypeParts
<1>2. ASSUME NEW g \in Hooks, Hook(g), g # h
      PROVE  /\ pc'[h] = pc[h] /\ todo'[h] = todo[h] /\ left'[h] = left[h]
             /\ victims'[h] = victims[h] /\ skipped'[h] = skipped[h]
  BY <1>1, <1>2
     DEF HooksOK, HistoryOK, Hook, Begin, ApplyShared, SharedApplied, Ensure, ApplyTask, SkipTask, TasksApplied,
         ApplyPipeline, ListRuns, CancelRun, RunsCancelled, CreateRun, Fails, Proceed, Goto, history
<1>3. ASSUME NEW g \in Hooks, NEW p \in Pipelines, Tekton(g, p)
      PROVE  UNCHANGED <<pc, todo, left, victims, skipped>>
  BY <1>3 DEF Tekton, StartRun, StartTask, FinishRun, hook, history
<1>4. QED
  BY <1>2, <1>3 DEF Next, vars

LEMMA HooksStep == TypeOK /\ [Next]_vars => HooksOK'
<1> SUFFICES ASSUME TypeOK, [Next]_vars
             PROVE  HooksOK'
  OBVIOUS
<1>1. HooksOK /\ setting \in Settings
  BY TypeParts
<1>2. CASE UNCHANGED hook
  BY <1>1, <1>2 DEF HooksOK, hook, Active
<1>3. ASSUME NEW h \in Hooks, Hook(h)
      PROVE  HooksOK'
  <2>1. \A g \in Hooks \ {h} : pc'[g] = pc[g] /\ todo'[g] = todo[g]
    BY <1>1, <1>3
       DEF HooksOK, Hook, Begin, ApplyShared, SharedApplied, Ensure, ApplyTask, SkipTask, TasksApplied,
           ApplyPipeline, ListRuns, CancelRun, RunsCancelled, CreateRun, Fails, Proceed, Goto, history
  <2>2. ASSUME pc' \in [Hooks -> Steps], todo' \in [Hooks -> SUBSET Pipelines],
               left' \in [Hooks -> SUBSET Tasks], victims' \in [Hooks -> SUBSET Hooks],
               pc'[h] \in InLoop => todo'[h] # {}
        PROVE  HooksOK'
    BY <1>1, <2>1, <2>2 DEF HooksOK, Active, Steps, InLoop
  <2>3. CASE Begin(h)
    BY <1>1, <2>2, <2>3, SettingOK DEF Begin, Goto, HooksOK, Steps, InLoop
  <2>4. CASE ApplyShared(h) \/ SharedApplied(h)
    BY <1>1, <2>2, <2>4 DEF ApplyShared, SharedApplied, Goto, HooksOK, Steps, InLoop
  <2>5. CASE Ensure(h) \/ TasksApplied(h) \/ ApplyTask(h) \/ SkipTask(h)
    BY <1>1, <2>2, <2>5 DEF Ensure, TasksApplied, ApplyTask, SkipTask, Goto, HooksOK, Steps, InLoop, Active
  <2>6. CASE ApplyPipeline(h) \/ RunsCancelled(h) \/ CreateRun(h)
    <3>1. PICK step \in {"pipeline", "patch", "create"} : Proceed(h, step)
      BY <2>6 DEF ApplyPipeline, RunsCancelled, CreateRun
    <3>2. pc' \in [Hooks -> Steps] /\ todo' \in [Hooks -> SUBSET Pipelines]
      BY <1>1, <3>1 DEF Proceed, Following, Goto, HooksOK, Steps
    <3>3. pc'[h] \in InLoop => todo'[h] # {}
      BY <1>1, <3>1 DEF Proceed, Following, Goto, HooksOK, Active, InLoop
    <3>4. QED
      BY <1>1, <2>2, <2>6, <3>2, <3>3 DEF ApplyPipeline, RunsCancelled, CreateRun, HooksOK
  <2>7. CASE ListRuns(h)
    BY <1>1, <2>2, <2>7 DEF ListRuns, Goto, HooksOK, Steps, InLoop, Active
  <2>8. ASSUME NEW g \in Hooks, CancelRun(h, g)
        PROVE  HooksOK'
    BY <1>1, <2>2, <2>8 DEF CancelRun, HooksOK, InLoop, Active
  <2>9. CASE Fails(h)
    BY <1>1, <2>2, <2>9 DEF Fails, HooksOK, Steps, InLoop
  <2>10. QED
    BY <1>3, <2>3, <2>4, <2>5, <2>6, <2>7, <2>8, <2>9 DEF Hook
<1>4. QED
  BY <1>2, <1>3 DEF Next, vars, Tekton, StartRun, StartTask, FinishRun, hook

\* What a step does to the runs: one is created by its hook, cancelled, or moved on by Tekton.
LEMMA StateMoves ==
    ASSUME TypeOK, [Next]_vars
    PROVE  \/ state' = state
           \/ \E h \in Hooks :
                 /\ pc[h] = "create" /\ Hook(h)
                 /\ state' = [state EXCEPT ![h][Current(h)] = "created"]
                 /\ missed' = missed \union
                       (IF \E g \in Hooks \ {h} : Active(g) THEN {<<h, Current(h)>>} ELSE {})
           \/ \E h, g \in Hooks :
                 /\ CancelRun(h, g)
                 /\ state' = [state EXCEPT ![g][Current(h)] = IF @ = "running" THEN "cancelled" ELSE @]
           \/ \E h \in Hooks, p \in Pipelines : StartRun(h, p) \/ FinishRun(h, p)
<1>1. ASSUME NEW h \in Hooks, CreateRun(h) \/ (Fails(h) /\ pc[h] = "create" /\ Created(h))
      PROVE  /\ pc[h] = "create" /\ Hook(h)
             /\ state' = [state EXCEPT ![h][Current(h)] = "created"]
             /\ missed' = missed \union
                   (IF \E g \in Hooks \ {h} : Active(g) THEN {<<h, Current(h)>>} ELSE {})
  BY <1>1 DEF CreateRun, Created, Misses, Hook, Proceed, Goto
<1>2. QED
  BY ZenonT(60), <1>1
     DEF Next, vars, Hook, Tekton, Begin, ApplyShared, SharedApplied, Ensure, ApplyTask, SkipTask, TasksApplied,
         ApplyPipeline, ListRuns, CancelRun, RunsCancelled, Fails, StartTask, tekton, history

LEMMA RunsStep == TypeOK /\ [Next]_vars => RunsOK'
<1> SUFFICES ASSUME TypeOK, [Next]_vars
             PROVE  RunsOK'
  OBVIOUS
<1>1. RunsOK /\ ClusterOK
  BY TypeParts
<1>2. state' \in [Hooks -> [Pipelines -> Phases]]
  <2>1. \A h \in Hooks, p \in Pipelines : StartRun(h, p) \/ FinishRun(h, p)
            => \E v \in Phases : state' = [state EXCEPT ![h][p] = v]
    BY DEF StartRun, FinishRun, Phases
  <2>2. ASSUME NEW h \in Hooks, NEW p, NEW v \in Phases, state' = [state EXCEPT ![h][p] = v]
        PROVE  state' \in [Hooks -> [Pipelines -> Phases]]
    BY <1>1, <2>2 DEF RunsOK
  <2>3. ASSUME NEW h \in Hooks, NEW g \in Hooks,
               state' = [state EXCEPT ![g][Current(h)] = IF @ = "running" THEN "cancelled" ELSE @]
        PROVE  state' \in [Hooks -> [Pipelines -> Phases]]
    BY <1>1, <2>3 DEF RunsOK, Phases
  <2>4. "created" \in Phases
    BY DEF Phases
  <2>5. QED
    BY <1>1, <2>1, <2>2, <2>3, <2>4, StateMoves DEF RunsOK
<1>3. /\ ranPipe' \in [Hooks -> [Pipelines -> Hooks \union {None}]]
      /\ ranTask' \in [Hooks -> [Pipelines -> [Tasks -> TaskDefs \union {None}]]]
  <2>1. ASSUME NEW h \in Hooks, NEW p \in Pipelines, StartRun(h, p)
        PROVE  ranPipe' \in [Hooks -> [Pipelines -> Hooks \union {None}]] /\ ranTask' = ranTask
    <3>1. pipe[p] \in Hooks \union {None}
      BY <1>1 DEF ClusterOK
    <3>2. QED
      BY <1>1, <2>1, <3>1 DEF StartRun, RunsOK
  <2>2. ASSUME NEW h \in Hooks, NEW p \in Pipelines, NEW t \in Tasks, StartTask(h, p, t)
        PROVE  ranTask' \in [Hooks -> [Pipelines -> [Tasks -> TaskDefs \union {None}]]] /\ ranPipe' = ranPipe
    <3>1. task[t] \in TaskDefs \union {None}
      BY <1>1 DEF ClusterOK
    <3>2. [ranTask[h] EXCEPT ![p][t] = task[t]] \in [Pipelines -> [Tasks -> TaskDefs \union {None}]]
      BY <1>1, <3>1 DEF RunsOK
    <3>3. ranTask' = [ranTask EXCEPT ![h] = [ranTask[h] EXCEPT ![p][t] = task[t]]]
      BY <1>1, <2>2 DEF StartTask, RunsOK
    <3>4. QED
      BY <1>1, <2>2, <3>2, <3>3 DEF StartTask, RunsOK
  <2>3. QED
    BY <1>1, <2>1, <2>2
       DEF RunsOK, Next, vars, Hook, Tekton, Begin, ApplyShared, SharedApplied, Ensure, ApplyTask, SkipTask,
           TasksApplied, ApplyPipeline, ListRuns, CancelRun, RunsCancelled, CreateRun, Fails, FinishRun, tekton
<1>4. QED
  BY <1>2, <1>3 DEF RunsOK

LEMMA HistoryStep == TypeOK /\ [Next]_vars => HistoryOK' /\ crossed \subseteq crossed' /\ missed \subseteq missed'
<1> SUFFICES ASSUME TypeOK, [Next]_vars
             PROVE  HistoryOK' /\ crossed \subseteq crossed' /\ missed \subseteq missed'
  OBVIOUS
<1>1. HooksOK /\ HistoryOK
  BY TypeParts
<1>2. crossed \subseteq crossed' /\ crossed' \subseteq Hooks
  BY <1>1
     DEF HistoryOK, Next, vars, Hook, Tekton, Begin, ApplyShared, SharedApplied, Ensure, ApplyTask, SkipTask,
         TasksApplied, ApplyPipeline, ListRuns, CancelRun, RunsCancelled, CreateRun, Fails,
         StartRun, StartTask, FinishRun, history
<1>3. skipped' \in [Hooks -> SUBSET Tasks]
  <2>1. ASSUME NEW h \in Hooks, SkipTask(h)
        PROVE  skipped' \in [Hooks -> SUBSET Tasks]
    BY <1>1, <2>1, CurrentIsOne DEF SkipTask, HistoryOK
  <2>2. QED
    BY <1>1, <2>1
       DEF HistoryOK, Next, vars, Hook, Tekton, Begin, ApplyShared, SharedApplied, Ensure, ApplyTask,
           TasksApplied, ApplyPipeline, ListRuns, CancelRun, RunsCancelled, CreateRun, Fails,
           StartRun, StartTask, FinishRun, history
<1>4. missed \subseteq missed' /\ missed' \subseteq Hooks \X Pipelines
  <2>1. ASSUME NEW h \in Hooks, pc[h] \in InLoop, NEW S \in SUBSET Hooks, Misses(h, S)
        PROVE  missed \subseteq missed' /\ missed' \subseteq Hooks \X Pipelines
    BY <1>1, <2>1, CurrentIsOne DEF Misses, HistoryOK
  <2>2. ASSUME NEW h \in Hooks, ListRuns(h) \/ CreateRun(h) \/ Fails(h)
        PROVE  missed \subseteq missed' /\ missed' \subseteq Hooks \X Pipelines
    <3>1. UNCHANGED missed \/ \E S \in SUBSET Hooks : pc[h] \in InLoop /\ Misses(h, S)
      BY <2>2 DEF ListRuns, CreateRun, Fails, Created, Proceed, Goto, InLoop
    <3>2. QED
      BY <1>1, <2>1, <3>1 DEF HistoryOK
  <2>3. ASSUME NEW h \in Hooks, NEW g \in Hooks, CancelRun(h, g)
        PROVE  missed \subseteq missed' /\ missed' \subseteq Hooks \X Pipelines
    BY <1>1, <2>1, <2>3 DEF CancelRun, InLoop, HistoryOK
  <2>4. QED
    BY <1>1, <2>2, <2>3
       DEF HistoryOK, Next, vars, Hook, Tekton, Begin, ApplyShared, SharedApplied, Ensure, ApplyTask, SkipTask,
           TasksApplied, ApplyPipeline, RunsCancelled, StartRun, StartTask, FinishRun, history
<1>5. QED
  BY <1>2, <1>3, <1>4 DEF HistoryOK

LEMMA TypeStep == TypeOK /\ [Next]_vars => TypeOK' /\ setting' = setting
<1> SUFFICES ASSUME TypeOK, [Next]_vars
             PROVE  TypeOK' /\ setting' = setting
  OBVIOUS
<1>1. setting' = setting /\ setting \in Settings
  BY TypeParts DEF Next, vars
<1>2. ClusterOK' /\ HooksOK' /\ RunsOK' /\ HistoryOK'
  BY ClusterStep, HooksStep, RunsStep, HistoryStep
<1>3. QED
  BY <1>1, <1>2 DEF TypeOK, ClusterOK, HooksOK, RunsOK, HistoryOK

-----------------------------------------------------------------------------
(* The runs of a hook *)

\* StateMoves, run by run: a run is created only by its own hook, which then is done
\* with its pipeline, and comes alive in no other way.
LEMMA RunMoves ==
    ASSUME TypeOK, [Next]_vars, NEW h \in Hooks, NEW p \in Pipelines
    PROVE  \/ state'[h][p] = state[h][p]
           \/ /\ state'[h][p] = "created" /\ pc[h] = "create" /\ Hook(h) /\ p = Current(h)
              /\ (\E g \in Hooks \ {h} : Active(g)) => <<h, p>> \in missed'
           \/ /\ state[h][p] = "running" /\ state'[h][p] = "cancelled"
              /\ \E g \in Hooks : CancelRun(g, h) /\ p = Current(g)
           \/ state[h][p] = "created" /\ state'[h][p] = "running" /\ StartRun(h, p)
           \/ state[h][p] = "running" /\ state'[h][p] = "finished"
<1>1. RunsOK
  BY TypeParts
<1>2. ASSUME NEW g \in Hooks, pc[g] = "create", Hook(g),
             state' = [state EXCEPT ![g][Current(g)] = "created"],
             missed' = missed \union
                   (IF \E f \in Hooks \ {g} : Active(f) THEN {<<g, Current(g)>>} ELSE {}),
             state'[h][p] # state[h][p]
      PROVE  /\ state'[h][p] = "created" /\ pc[h] = "create" /\ Hook(h) /\ p = Current(h)
             /\ (\E f \in Hooks \ {h} : Active(f)) => <<h, p>> \in missed'
  <2>1. g = h /\ p = Current(h)
    BY <1>1, <1>2 DEF RunsOK
  <2>2. QED
    BY <1>1, <1>2, <2>1 DEF RunsOK
<1>3. ASSUME NEW f \in Hooks, NEW g \in Hooks, CancelRun(f, g), state'[h][p] # state[h][p],
             state' = [state EXCEPT ![g][Current(f)] = IF @ = "running" THEN "cancelled" ELSE @]
      PROVE  /\ state[h][p] = "running" /\ state'[h][p] = "cancelled"
             /\ CancelRun(f, h) /\ p = Current(f)
  <2>1. g = h /\ p = Current(f)
    BY <1>1, <1>3 DEF RunsOK
  <2>2. QED
    BY <1>1, <1>3, <2>1 DEF RunsOK
<1>4. ASSUME NEW g \in Hooks, NEW q \in Pipelines, StartRun(g, q) \/ FinishRun(g, q), state'[h][p] # state[h][p]
      PROVE  \/ state[h][p] = "created" /\ state'[h][p] = "running" /\ StartRun(h, p)
             \/ state[h][p] = "running" /\ state'[h][p] = "finished"
  <2>1. CASE StartRun(g, q)
    <3>1. g = h /\ p = q
      BY <1>1, <1>4, <2>1 DEF RunsOK, StartRun
    <3>2. QED
      BY <1>1, <1>4, <2>1, <3>1 DEF RunsOK, StartRun
  <2>2. CASE FinishRun(g, q)
    <3>1. g = h /\ p = q
      BY <1>1, <1>4, <2>2 DEF RunsOK, FinishRun
    <3>2. QED
      BY <1>1, <1>4, <2>2, <3>1 DEF RunsOK, FinishRun
  <2>3. QED
    BY <1>4, <2>1, <2>2
<1>5. QED
  BY <1>2, <1>3, <1>4, StateMoves

\* A hook that goes from "create" is done with its pipeline.
LEMMA DoneWithIt ==
    ASSUME TypeOK, NEW h \in Hooks, Hook(h), pc[h] = "create"
    PROVE  todo'[h] \subseteq todo[h] \ {Current(h)} /\ pc'[h] \in {"ensure", "done", "failed"}
<1>1. HooksOK
  BY TypeParts
<1>2. CreateRun(h) \/ Fails(h)
  BY DEF Hook, Begin, ApplyShared, SharedApplied, Ensure, ApplyTask, SkipTask, TasksApplied,
         ApplyPipeline, ListRuns, CancelRun, RunsCancelled, Proceed, Goto
<1>3. CASE CreateRun(h)
  BY <1>1, <1>3 DEF CreateRun, Proceed, Following, Goto, HooksOK
<1>4. CASE Fails(h)
  BY <1>1, <1>4 DEF Fails, HooksOK
<1>5. QED
  BY <1>2, <1>3, <1>4

LEMMA CreatesOnceStep == TypeOK /\ CreatesOnce /\ [Next]_vars => CreatesOnce'
<1> SUFFICES ASSUME TypeOK, CreatesOnce, [Next]_vars, NEW h \in Hooks
             PROVE  /\ \A p \in todo'[h] : state'[h][p] = "none"
                    /\ pc'[h] \in {"new", "shared"} => \A p \in Pipelines : state'[h][p] = "none"
  BY DEF CreatesOnce
<1>1. HooksOK /\ HooksOK' /\ setting \in Settings
  BY TypeParts, HooksStep
<1>2. \A p \in Pipelines : state[h][p] = "none" => state'[h][p] = "none" \/ (pc[h] = "create" /\ Hook(h) /\ p = Current(h))
  BY RunMoves
<1>3. pc[h] = "new" \/ todo'[h] \subseteq todo[h]
  <2>1. ASSUME NEW step, Proceed(h, step)
        PROVE  todo'[h] \subseteq todo[h]
    BY <1>1, <2>1 DEF Proceed, HooksOK
  <2>2. QED
    BY <1>1, <2>1, HookMoves
       DEF HooksOK, Hook, Begin, ApplyShared, SharedApplied, Ensure, ApplyTask, SkipTask, TasksApplied,
           ApplyPipeline, ListRuns, CancelRun, RunsCancelled, CreateRun, Fails, Goto
<1>4. pc'[h] \in {"new", "shared"} => pc[h] \in {"new", "shared"}
  BY <1>1, HookMoves
     DEF HooksOK, Hook, Begin, ApplyShared, SharedApplied, Ensure, ApplyTask, SkipTask, TasksApplied,
         ApplyPipeline, ListRuns, CancelRun, RunsCancelled, CreateRun, Fails, Proceed, Following, Goto
<1>5. \A p \in todo'[h] : p \in Pipelines /\ state[h][p] = "none"
  BY <1>1, <1>3 DEF CreatesOnce, HooksOK
<1>6. pc[h] = "create" /\ Hook(h) => Current(h) \notin todo'[h]
  BY DoneWithIt
<1>7. QED
  BY <1>1, <1>2, <1>4, <1>5, <1>6 DEF CreatesOnce

-----------------------------------------------------------------------------
(* Definitions *)

\* Only a hook's own steps change what the cluster has of tasks and pipelines.
LEMMA ClusterMoves ==
    ASSUME TypeOK, [Next]_vars
    PROVE  \/ task' = task /\ pipe' = pipe
           \/ \E h \in Hooks :
                 /\ Active(h) /\ Hook(h)
                 /\ ApplyShared(h) \/ ApplyTask(h) \/ ApplyPipeline(h)
<1>1. ASSUME NEW h \in Hooks, ApplyShared(h) \/ ApplyTask(h) \/ ApplyPipeline(h)
      PROVE  Active(h) /\ Hook(h)
  <2>1. pc[h] \in {"shared", "tasks", "pipeline"}
    BY <1>1 DEF ApplyShared, ApplyTask, ApplyPipeline, Proceed, Goto
  <2>2. QED
    BY <1>1, <2>1 DEF Active, Hook
<1>2. ASSUME NEW h \in Hooks, Hook(h), ~(ApplyShared(h) \/ ApplyTask(h) \/ ApplyPipeline(h))
      PROVE  task' = task /\ pipe' = pipe
  <2>1. CASE Begin(h) \/ SharedApplied(h) \/ Ensure(h) \/ SkipTask(h) \/ TasksApplied(h)
    BY <2>1 DEF Begin, SharedApplied, Ensure, SkipTask, TasksApplied, cluster
  <2>2. CASE ListRuns(h) \/ (\E g \in Hooks : CancelRun(h, g)) \/ RunsCancelled(h)
    BY <2>2 DEF ListRuns, CancelRun, RunsCancelled, cluster
  <2>3. CASE CreateRun(h) \/ Fails(h)
    BY <2>3 DEF CreateRun, Fails, cluster
  <2>4. QED
    BY <1>2, <2>1, <2>2, <2>3 DEF Hook
<1>3. ASSUME NEW h \in Hooks, NEW p \in Pipelines, Tekton(h, p)
      PROVE  task' = task /\ pipe' = pipe
  BY <1>3 DEF Tekton, StartRun, StartTask, FinishRun, cluster
<1>4. CASE UNCHANGED vars
  BY <1>4 DEF vars, cluster
<1>5. QED
  BY <1>1, <1>2, <1>3, <1>4 DEF Next

\* What an uncrossed hook has applied it keeps, also while it repeats itself.
LEMMA AppliedStays ==
    ASSUME TypeOK, [Next]_vars, NEW h \in Hooks, NEW S \in SUBSET Tasks,
           Alone(h), ~ApplyShared(h), AllApplied(h, S)
    PROVE  AllApplied(h, S)'
<1>1. ClusterOK /\ HistoryOK /\ HooksOK
  BY TypeParts
<1>2. \A g \in Hooks : Active(g) => g = h
  BY DEF Alone
<1>3. skipped[h] \subseteq skipped'[h]
  BY <1>1, HookMoves
     DEF HistoryOK, Hook, Begin, ApplyShared, SharedApplied, Ensure, ApplyTask, SkipTask, TasksApplied,
         ApplyPipeline, ListRuns, CancelRun, RunsCancelled, CreateRun, Fails, history
<1>4. TaskFrom(h)' = TaskFrom(h)
  BY TypeStep DEF TaskFrom, Branch, Request
<1>5. \A t \in S : task[t] = TaskFrom(h) => task'[t] = TaskFrom(h)
  BY <1>1, <1>2, ClusterMoves DEF ClusterOK, ApplyTask, ApplyPipeline
<1>6. QED
  BY <1>3, <1>4, <1>5 DEF AllApplied

LEMMA PipeStays ==
    ASSUME TypeOK, [Next]_vars, NEW h \in Hooks, NEW p \in Pipelines, Alone(h), pipe[p] = h
    PROVE  pipe'[p] = h
<1>1. ClusterOK
  BY TypeParts
<1>2. \A g \in Hooks : Active(g) => g = h
  BY DEF Alone
<1>3. QED
  BY <1>1, <1>2, ClusterMoves DEF ClusterOK, ApplyTask, ApplyShared, ApplyPipeline

\* A hook that begins crosses all that are not done, and is crossed by the active ones.
LEMMA AloneStays ==
    ASSUME TypeOK, CreatesOnce, Undisturbed, [Next]_vars, NEW h \in Hooks \ crossed', 
           Active(h)' \/ \E p \in Pipelines : Live(h, p)'
    PROVE  /\ Alone(h)'
           /\ Active(h) \/ (\E p \in Pipelines : Live(h, p)) => Alone(h)
<1>1. HooksOK /\ HistoryOK
  BY TypeParts
<1>2. h \notin crossed
  BY HistoryStep
<1>3. Active(h) \/ (\E p \in Pipelines : Live(h, p)) => Alone(h)
  BY <1>2 DEF Undisturbed
<1>4. \A g \in Hooks \ {h} : ~Active(g) /\ Active(g)' => Begin(g)
  BY <1>1, HookMoves
     DEF HooksOK, Active, Hook, ApplyShared, SharedApplied, Ensure, ApplyTask, SkipTask, TasksApplied,
         ApplyPipeline, ListRuns, CancelRun, RunsCancelled, CreateRun, Fails, Proceed, Goto
<1>5. CASE Active(h) \/ \E p \in Pipelines : Live(h, p)
  <2>1. \A g \in Hooks \ {h} : ~Begin(g)
    BY <1>5 DEF Begin
  <2>2. QED
    BY <1>3, <1>4, <1>5, <2>1 DEF Alone
<1>6. CASE ~Active(h) /\ \A p \in Pipelines : ~Live(h, p)
  <2>1. \A p \in Pipelines : Live(h, p)' => Hook(h) /\ pc[h] = "create"
    BY <1>6, RunMoves DEF Live
  <2>2. Active(h)'
    BY <1>6, <2>1 DEF Active
  <2>3. Begin(h)
    BY <1>1, <1>6, <2>2, HookMoves
       DEF HooksOK, Active, Hook, ApplyShared, SharedApplied, Ensure, ApplyTask, SkipTask, TasksApplied,
           ApplyPipeline, ListRuns, CancelRun, RunsCancelled, CreateRun, Fails, Proceed, Goto
  <2>4. \A g \in Hooks \ {h} : pc'[g] = pc[g] /\ ~Active(g)
    BY <1>1, <2>3 DEF Begin, Goto, HooksOK
  <2>5. QED
    BY <1>6, <2>4 DEF Alone, Active
<1>7. QED
  BY <1>3, <1>5, <1>6

LEMMA UndisturbedStep == TypeOK /\ CreatesOnce /\ Undisturbed /\ [Next]_vars => Undisturbed'
<1> SUFFICES ASSUME TypeOK, CreatesOnce, Undisturbed, [Next]_vars, NEW h \in Hooks \ crossed'
             PROVE  /\ Active(h)' => Alone(h)'
                    /\ pc'[h] = "tasks" => AllApplied(h, Tasks \ left[h])'
                    /\ pc'[h] \in {"pipeline", "list", "patch", "create"} => AllApplied(h, Tasks)'
                    /\ pc'[h] \in {"list", "patch", "create"} => pipe'[Current(h)'] = h
                    /\ \A p \in Pipelines :
                          Live(h, p)' => Alone(h)' /\ pipe'[p] = h /\ AllApplied(h, Tasks)'
  BY DEF Undisturbed
<1>1. ClusterOK /\ HooksOK /\ HistoryOK /\ h \notin crossed
  BY TypeParts, HistoryStep
<1>2. Active(h)' => Alone(h)'
  BY AloneStays
<1>3. ApplyShared(h) => pc'[h] = "shared" /\ \A p \in Pipelines : ~Live(h, p) /\ ~Live(h, p)'
  <2>1. ApplyShared(h) => pc[h] = "shared" /\ pc' = pc /\ state' = state
    BY DEF ApplyShared, tekton
  <2>2. QED
    BY <2>1 DEF CreatesOnce, Live
<1>4. ASSUME pc'[h] = "tasks"
      PROVE  AllApplied(h, Tasks \ left[h])'
  <2>1. CASE pc[h] = "tasks"
    <3>1. Alone(h) /\ AllApplied(h, Tasks \ left[h])
      BY <1>1, <2>1 DEF Undisturbed, Active
    <3>2. \A t \in (Tasks \ left[h]) \ skipped'[h] : task'[t] = TaskFrom(h)
      BY <1>3, <1>4, <3>1, AppliedStays, TypeStep DEF AllApplied, TaskFrom, Branch, Request
    <3>3. TaskFrom(h)' = TaskFrom(h)
      BY TypeStep DEF TaskFrom, Branch, Request
    <3>4. CASE ApplyTask(h)
      <4>1. left'[h] = left[h] \ {TaskOf(h)} /\ TaskOf(h) \in Tasks /\ task'[TaskOf(h)] = TaskFrom(h)
        BY <1>1, <3>4, CurrentIsOne DEF ApplyTask, HooksOK, ClusterOK
      <4>2. QED
        BY <3>2, <3>3, <4>1 DEF AllApplied
    <3>5. CASE SkipTask(h)
      <4>1. left'[h] = left[h] \ {TaskOf(h)} /\ TaskOf(h) \in skipped'[h]
        BY <1>1, <3>5 DEF SkipTask, HooksOK, HistoryOK
      <4>2. QED
        BY <3>2, <3>3, <4>1 DEF AllApplied
    <3>6. CASE ~ApplyTask(h) /\ ~SkipTask(h)
      <4>1. left'[h] = left[h]
        BY <1>1, <1>4, <2>1, <3>6, HookMoves
           DEF HooksOK, Hook, Begin, ApplyShared, SharedApplied, Ensure, TasksApplied,
               ApplyPipeline, ListRuns, CancelRun, RunsCancelled, CreateRun, Fails, Proceed, Following, Goto
      <4>2. QED
        BY <3>2, <3>3, <4>1 DEF AllApplied
    <3>7. QED
      BY <3>4, <3>5, <3>6
  <2>2. CASE pc[h] # "tasks"
    <3>1. left'[h] = Tasks
      BY <1>1, <1>4, <2>2, HookMoves
         DEF HooksOK, Hook, Begin, ApplyShared, SharedApplied, Ensure, ApplyTask, SkipTask, TasksApplied,
             ApplyPipeline, ListRuns, CancelRun, RunsCancelled, CreateRun, Fails, Proceed, Following, Goto
    <3>2. QED
      BY <3>1 DEF AllApplied
  <2>3. QED
    BY <2>1, <2>2
<1>5. ASSUME pc'[h] \in {"pipeline", "list", "patch", "create"}
      PROVE  AllApplied(h, Tasks)'
  <2>1. \/ pc[h] \in {"pipeline", "list", "patch", "create"}
        \/ pc[h] = "tasks" /\ left[h] = {}
    BY ZenonT(60), <1>1, <1>5, HookMoves
       DEF HooksOK, Hook, Begin, ApplyShared, SharedApplied, Ensure, ApplyTask, SkipTask, TasksApplied,
           ApplyPipeline, ListRuns, CancelRun, RunsCancelled, CreateRun, Fails, Proceed, Following, Goto
  <2>2. Alone(h) /\ AllApplied(h, Tasks)
    BY <1>1, <2>1 DEF Undisturbed, Active
  <2>3. QED
    BY <1>3, <1>5, <2>2, AppliedStays
<1>6. ASSUME pc'[h] \in {"list", "patch", "create"}
      PROVE  pipe'[Current(h)'] = h
  <2>1. CASE ApplyPipeline(h)
    <3>1. Current(h) \in Pipelines /\ todo'[h] = todo[h]
      BY <1>1, <1>6, <2>1, CurrentIsOne DEF ApplyPipeline, Proceed, Goto, HooksOK, InLoop
    <3>2. QED
      BY <1>1, <2>1, <3>1 DEF ApplyPipeline, ClusterOK, Current
  <2>2. CASE ~ApplyPipeline(h)
    <3>1. pc[h] \in {"list", "patch", "create"} /\ todo'[h] = todo[h]
      BY <1>1, <1>6, <2>2, HookMoves
         DEF HooksOK, Hook, Begin, ApplyShared, SharedApplied, Ensure, ApplyTask, SkipTask, TasksApplied,
             ListRuns, CancelRun, RunsCancelled, CreateRun, Fails, Proceed, Following, Goto
    <3>2. Current(h)' = Current(h) /\ Current(h) \in Pipelines /\ Alone(h) /\ pipe[Current(h)] = h
      BY <1>1, <3>1, CurrentIsOne DEF Undisturbed, Active, Current, InLoop
    <3>3. QED
      BY <3>2, PipeStays
  <2>3. QED
    BY <2>1, <2>2
<1>7. ASSUME NEW p \in Pipelines, Live(h, p)'
      PROVE  Alone(h)' /\ pipe'[p] = h /\ AllApplied(h, Tasks)'
  <2>1. \/ Live(h, p)
        \/ pc[h] = "create" /\ Hook(h) /\ p = Current(h)
    BY <1>7, RunMoves DEF Live
  <2>2. Alone(h) /\ pipe[p] = h /\ AllApplied(h, Tasks)
    BY <1>1, <2>1 DEF Undisturbed, Active
  <2>3. QED
    BY <1>3, <1>7, <2>2, AloneStays, PipeStays, AppliedStays
<1>8. QED
  BY <1>2, <1>4, <1>5, <1>6, <1>7

LEMMA OwnStep ==
    TypeOK /\ Undisturbed /\ OwnDefinitionsUnlessCrossed /\ [Next]_vars => OwnDefinitionsUnlessCrossed'
<1> SUFFICES ASSUME TypeOK, Undisturbed, OwnDefinitionsUnlessCrossed, [Next]_vars,
                    NEW h \in Hooks \ crossed', NEW p \in Pipelines
             PROVE  /\ state'[h][p] \notin {"none", "created"} => ranPipe'[h][p] = h
                    /\ \A t \in Tasks \ skipped'[h] : ranTask'[h][p][t] \in {None, TaskFrom(h)'}
  BY DEF OwnDefinitionsUnlessCrossed
<1>1. RunsOK /\ HistoryOK /\ h \notin crossed
  BY TypeParts, HistoryStep
<1>2. TaskFrom(h)' = TaskFrom(h)
  BY TypeStep DEF TaskFrom, Branch, Request
<1>3. skipped[h] \subseteq skipped'[h]
  BY <1>1, HookMoves
     DEF HistoryOK, Hook, Begin, ApplyShared, SharedApplied, Ensure, ApplyTask, SkipTask, TasksApplied,
         ApplyPipeline, ListRuns, CancelRun, RunsCancelled, CreateRun, Fails, history
<1>4. /\ state[h][p] \notin {"none", "created"} => ranPipe[h][p] = h
      /\ \A t \in Tasks \ skipped[h] : ranTask[h][p][t] \in {None, TaskFrom(h)}
  BY <1>1 DEF OwnDefinitionsUnlessCrossed
<1>5. \A t \in Tasks \ skipped'[h] : ranTask'[h][p][t] \in {None, TaskFrom(h)}
  <2>1. CASE ranTask' = ranTask
    BY <1>3, <1>4, <2>1
  <2>2. ASSUME NEW g \in Hooks, NEW q \in Pipelines, NEW t \in Tasks, StartTask(g, q, t)
        PROVE  \A u \in Tasks \ skipped'[h] : ranTask'[h][p][u] \in {None, TaskFrom(h)}
    <3>1. CASE g = h /\ q = p
      <4>1. t \notin skipped[h] => task[t] = TaskFrom(h)
        BY <1>1, <2>2, <3>1 DEF StartTask, Undisturbed, Live, AllApplied
      <4>2. \A u \in Tasks : ranTask'[h][p][u] = IF u = t THEN task[t] ELSE ranTask[h][p][u]
        BY <1>1, <2>2, <3>1 DEF StartTask, RunsOK
      <4>3. QED
        BY <1>3, <1>4, <4>1, <4>2
    <3>2. CASE ~(g = h /\ q = p)
      <4>1. ranTask'[h][p] = ranTask[h][p]
        BY <1>1, <2>2, <3>2 DEF StartTask, RunsOK
      <4>2. QED
        BY <1>3, <1>4, <4>1
    <3>3. QED
      BY <3>1, <3>2
  <2>3. QED
    BY <2>1, <2>2
       DEF Next, vars, Hook, Tekton, Begin, ApplyShared, SharedApplied, Ensure, ApplyTask, SkipTask,
           TasksApplied, ApplyPipeline, ListRuns, CancelRun, RunsCancelled, CreateRun, Fails, StartRun, FinishRun,
           tekton
<1>6. state'[h][p] \notin {"none", "created"} => ranPipe'[h][p] = h
  <2>1. CASE StartRun(h, p)
    BY ZenonT(60), <1>1, <2>1 DEF StartRun, Undisturbed, Live, RunsOK
  <2>2. CASE ~StartRun(h, p)
    <3>1. ASSUME NEW g \in Hooks, NEW q \in Pipelines, StartRun(g, q)
          PROVE  ranPipe'[h][p] = ranPipe[h][p]
      BY <1>1, <2>2, <3>1 DEF StartRun, RunsOK
    <3>2. ranPipe'[h][p] = ranPipe[h][p]
      BY <3>1
         DEF Next, vars, Hook, Tekton, Begin, ApplyShared, SharedApplied, Ensure, ApplyTask, SkipTask,
             TasksApplied, ApplyPipeline, ListRuns, CancelRun, RunsCancelled, CreateRun, Fails, StartTask, FinishRun,
             tekton
    <3>3. state'[h][p] \notin {"none", "created"} => state[h][p] \notin {"none", "created"}
      BY <2>2, RunMoves
    <3>4. QED
      BY <1>4, <3>2, <3>3
  <2>3. QED
    BY <2>1, <2>2
<1>7. QED
  BY <1>2, <1>5, <1>6

-----------------------------------------------------------------------------
(* Cancelling *)

\* From the list of runs to the creation of its own a hook stays with its pipeline.
LEMMA StaysWithIt ==
    ASSUME TypeOK, [Next]_vars, NEW h \in Hooks, pc[h] \in {"list", "patch", "create"}
    PROVE  \/ /\ pc'[h] = pc[h] /\ todo'[h] = todo[h]
              /\ \/ victims'[h] = victims[h]
                 \/ \E g \in victims[h] : CancelRun(h, g) /\ victims'[h] = victims[h] \ {g}
           \/ pc[h] = "list" /\ pc'[h] = "patch" /\ todo'[h] = todo[h] /\ ListRuns(h)
           \/ /\ pc[h] = "patch" /\ pc'[h] = "create" /\ todo'[h] = todo[h] /\ victims[h] = {}
              /\ state' = state
           \/ pc[h] = "create" /\ Hook(h)
           \/ pc'[h] = "failed"
<1>1. HooksOK
  BY TypeParts
<1>2. CASE Hook(h)
  <2>1. CASE RunsCancelled(h)
    BY <1>1, <2>1 DEF RunsCancelled, Proceed, Following, Goto, HooksOK, tekton
  <2>2. CASE ListRuns(h)
    BY <1>1, <2>2 DEF ListRuns, Goto, HooksOK
  <2>3. ASSUME NEW g \in Hooks, CancelRun(h, g)
        PROVE  /\ pc' = pc /\ todo' = todo /\ g \in victims[h] /\ victims'[h] = victims[h] \ {g}
    BY <1>1, <2>3 DEF CancelRun, HooksOK
  <2>4. CASE Fails(h)
    BY <1>1, <2>4 DEF Fails, HooksOK
  <2>5. QED
    BY <1>2, <2>1, <2>2, <2>3, <2>4
       DEF Hook, Begin, ApplyShared, SharedApplied, Ensure, ApplyTask, SkipTask, TasksApplied,
           ApplyPipeline, CreateRun, Proceed, Goto
<1>3. QED
  BY <1>2, HookMoves

LEMMA ReplacedStep == TypeOK /\ Replaced /\ [Next]_vars => Replaced'
<1> SUFFICES ASSUME TypeOK, Replaced, [Next]_vars, NEW p \in Pipelines
             PROVE  \/ \A h \in Hooks : state'[h][p] = "none"
                    \/ \E h \in Hooks : state'[h][p] \notin {"none", "cancelled"}
                    \/ \E h \in Hooks : pc'[h] \in {"patch", "create"} /\ Current(h)' = p
                    \/ \E h \in Hooks : pc'[h] = "failed"
  BY DEF Replaced
<1>1. HooksOK /\ RunsOK
  BY TypeParts
<1>2. ASSUME NEW h \in Hooks, state[h][p] # state'[h][p]
      PROVE  \/ state'[h][p] \notin {"none", "cancelled"}
             \/ \E g \in Hooks : pc'[g] \in {"patch", "create"} /\ Current(g)' = p
  <2>1. ASSUME NEW g \in Hooks, CancelRun(g, h), p = Current(g)
        PROVE  pc'[g] \in {"patch", "create"} /\ Current(g)' = p
    BY <2>1 DEF CancelRun, Current
  <2>2. QED
    BY <1>2, <2>1, RunMoves
<1>3. CASE \A h \in Hooks : state'[h][p] = state[h][p]
  <2>1. ASSUME NEW h \in Hooks, pc[h] \in {"patch", "create"}, Current(h) = p
        PROVE  \/ \E g \in Hooks : state'[g][p] \notin {"none", "cancelled"}
               \/ pc'[h] \in {"patch", "create"} /\ Current(h)' = p
               \/ pc'[h] = "failed"
    <3>1. CASE pc'[h] \in {"patch", "create"} /\ todo'[h] = todo[h]
      BY <2>1, <3>1 DEF Current
    <3>2. CASE pc[h] = "create" /\ Hook(h)
      <4>1. CreateRun(h) \/ Fails(h)
        BY <3>2
           DEF Hook, Begin, ApplyShared, SharedApplied, Ensure, ApplyTask, SkipTask, TasksApplied,
               ApplyPipeline, ListRuns, CancelRun, RunsCancelled, Proceed, Goto
      <4>2. CASE CreateRun(h)
        BY <1>1, <2>1, <4>2 DEF CreateRun, Created, RunsOK
      <4>3. CASE Fails(h)
        BY <1>1, <4>3 DEF Fails, HooksOK
      <4>4. QED
        BY <4>1, <4>2, <4>3
    <3>3. QED
      BY <2>1, <3>1, <3>2, StaysWithIt
  <2>2. ASSUME NEW h \in Hooks, pc[h] = "failed"
        PROVE  pc'[h] = "failed"
    BY <1>1, <2>2, HookMoves
       DEF HooksOK, Active, Hook, Begin, ApplyShared, SharedApplied, Ensure, ApplyTask, SkipTask, TasksApplied,
           ApplyPipeline, ListRuns, CancelRun, RunsCancelled, CreateRun, Fails, Proceed, Goto
  <2>3. QED
    BY <1>3, <2>1, <2>2 DEF Replaced
<1>4. QED
  BY <1>2, <1>3

\* While a hook stays with its pipeline every new run of it escapes.
LEMMA NoneAppears ==
    ASSUME TypeOK, [Next]_vars, NEW h \in Hooks, pc[h] \in {"patch", "create"}, todo'[h] = todo[h]
    PROVE  Unmissed(h)' \subseteq Unmissed(h) \union {h}
<1>1. Current(h)' = Current(h) /\ Current(h) \in Pipelines /\ Active(h)
  BY CurrentIsOne DEF Current, InLoop, Active
<1>2. missed \subseteq missed'
  BY HistoryStep
<1>3. ASSUME NEW g \in Hooks \ {h}, Live(g, Current(h))', ~(<<g, Current(h)>> \in missed')
      PROVE  Live(g, Current(h))
  <2>1. state'[g][Current(h)] \in {"created", "running"}
    BY <1>1, <1>3 DEF Live
  <2>2. QED
    BY <1>1, <1>3, <2>1, RunMoves DEF Live
<1>4. QED
  BY <1>1, <1>2, <1>3 DEF Unmissed, Missed, Live

LEMMA CancellingStep == TypeOK /\ CreatesOnce /\ Cancelling /\ [Next]_vars => Cancelling'
<1> SUFFICES ASSUME TypeOK, CreatesOnce, Cancelling, [Next]_vars, NEW h \in Hooks
             PROVE  /\ pc'[h] \in {"list", "patch"} => Cancels(h)'
                    /\ PatchesSo(h)'
                    /\ pc'[h] = "create" /\ Cancels(h)' => Unmissed(h)' = {}
  BY DEF Cancelling
<1>1. HooksOK /\ RunsOK /\ missed \subseteq missed' /\ setting' = setting
  BY TypeParts, HistoryStep, TypeStep
<1>2. todo'[h] = todo[h] => Current(h)' = Current(h) /\ Cancels(h)' = Cancels(h)
  BY <1>1 DEF Current, Cancels, IsCall, Request
<1>3. pc[h] \in {"list", "patch", "create"} => Current(h) \in Pipelines /\ state[h][Current(h)] = "none"
  BY CurrentIsOne DEF CreatesOnce, InLoop
<1>4. ASSUME pc[h] \in {"patch", "create"}, todo'[h] = todo[h], pc'[h] \in {"patch", "create"}
      PROVE  h \notin Unmissed(h)'
  <2>1. pc[h] = "create" /\ Hook(h) => FALSE
    BY <1>4, DoneWithIt
  <2>2. state'[h][Current(h)] = "none"
    <3>1. Current(h) \in Pipelines /\ state[h][Current(h)] = "none"
      BY <1>3, <1>4
    <3>2. ASSUME NEW p \in Pipelines, state[h][p] = "none"
          PROVE  state'[h][p] = "none"
      BY <2>1, <3>2, RunMoves
    <3>3. QED
      BY <3>1, <3>2, Zenon
  <2>3. QED
    BY <1>2, <1>4, <2>2 DEF Unmissed, Live
<1>5. CASE pc[h] = "patch" /\ pc'[h] = "patch" /\ todo'[h] = todo[h]
  <2>1. Unmissed(h)' \subseteq Unmissed(h) /\ Unmissed(h) \subseteq victims[h]
    BY <1>4, <1>5, NoneAppears DEF Cancelling, PatchesSo
  <2>2. Unmissed(h)' \subseteq victims'[h]
    <3>1. ASSUME NEW g \in victims[h], CancelRun(h, g)
          PROVE  g \notin Unmissed(h)'
      <4>1. g \in Hooks /\ state[g][Current(h)] \notin {"none", "created"}
        BY <1>1, <1>5, <3>1 DEF Cancelling, PatchesSo, HooksOK
      <4>2. \/ state'[g][Current(h)] \notin {"created", "running"}
            \/ <<g, Current(h)>> \in missed'
        BY <1>1, <1>3, <1>5, <3>1, <4>1 DEF CancelRun, Misses, RunsOK
      <4>3. QED
        BY <1>2, <1>5, <4>2 DEF Unmissed, Live, Missed
    <3>2. QED
      BY <1>5, <2>1, <3>1, StaysWithIt
  <2>3. \A g \in victims'[h] : state'[g][Current(h)] \notin {"none", "created"}
    <3>1. victims'[h] \subseteq victims[h] /\ victims[h] \subseteq Hooks
      BY <1>1, <1>5, StaysWithIt DEF HooksOK
    <3>2. ASSUME NEW g \in victims[h], pc[g] = "create", Current(h) = Current(g)
          PROVE  FALSE
      <4>1. g \in Hooks /\ state[g][Current(g)] = "none"
        BY <3>1, <3>2, CurrentIsOne DEF CreatesOnce, InLoop
      <4>2. QED
        BY <1>5, <3>2, <4>1 DEF Cancelling, PatchesSo
    <3>3. QED
      BY <1>3, <1>5, <3>1, <3>2, RunMoves DEF Cancelling, PatchesSo
  <2>4. PatchesSo(h)'
    BY <1>2, <1>5, <2>2, <2>3 DEF PatchesSo
  <2>5. QED
    BY <1>2, <1>5, <2>4 DEF Cancelling
<1>6. CASE pc[h] \in {"patch", "create"} /\ pc'[h] = "create" /\ todo'[h] = todo[h]
  <2>1. Unmissed(h)' \subseteq Unmissed(h)
    BY <1>4, <1>6, NoneAppears
  <2>2. pc[h] = "patch" => victims[h] = {}
    BY <1>6, StaysWithIt
  <2>3. QED
    BY <1>2, <1>6, <2>1, <2>2 DEF Cancelling, PatchesSo
<1>7. CASE ListRuns(h)
  <2>1. /\ pc[h] = "list" /\ pc'[h] = "patch" /\ todo'[h] = todo[h] /\ state' = state
        /\ victims'[h] = {g \in Hooks : state[g][Current(h)] = "running"}
        /\ missed' = missed \union {<<g, Current(h)>> : g \in {g \in Hooks : state[g][Current(h)] = "created"}}
    BY <1>1, <1>7 DEF ListRuns, Goto, Misses, HooksOK, tekton
  <2>2. QED
    BY <1>2, <2>1 DEF Cancelling, PatchesSo, Unmissed, Live, Missed
<1>8. CASE pc[h] = "list" /\ pc'[h] = "list" /\ todo'[h] = todo[h]
  BY <1>2, <1>8 DEF Cancelling, PatchesSo
<1>9. CASE ApplyPipeline(h)
  <2>1. pc[h] = "pipeline" /\ pc'[h] = (IF Cancels(h) THEN "list" ELSE "create") /\ todo'[h] = todo[h]
    BY <1>1, <1>9 DEF ApplyPipeline, Proceed, Following, Goto, HooksOK
  <2>2. QED
    BY <1>2, <2>1 DEF PatchesSo
<1>10. CASE pc'[h] \notin {"list", "patch", "create"}
  BY <1>10 DEF PatchesSo
<1>11. CASE pc[h] \notin {"list", "patch", "create"} /\ ~ApplyPipeline(h)
  <2>1. pc'[h] \notin {"list", "patch", "create"}
    BY <1>1, <1>11, HookMoves
       DEF HooksOK, Hook, Begin, ApplyShared, SharedApplied, Ensure, ApplyTask, SkipTask, TasksApplied,
           ListRuns, CancelRun, RunsCancelled, CreateRun, Fails, Proceed, Goto
  <2>2. QED
    BY <1>10, <2>1
<1>12. QED
  BY <1>5, <1>6, <1>7, <1>8, <1>9, <1>10, <1>11, StaysWithIt, DoneWithIt

LEMMA OneRunStep ==
    TypeOK /\ CreatesOnce /\ Cancelling /\ OneRunUnlessMissed /\ [Next]_vars => OneRunUnlessMissed'
<1> SUFFICES ASSUME TypeOK, CreatesOnce, Cancelling, OneRunUnlessMissed, [Next]_vars,
                    NEW p \in Pipelines, NEW g \in Hooks, NEW h \in Hooks, Definition[p].cancelPrevious, g # h,
                    state'[g][p] \in {"created", "running"}, state'[h][p] \in {"created", "running"},
                    ~(<<g, p>> \in missed'), ~(<<h, p>> \in missed'), ~IsCall(g), ~IsCall(h)
             PROVE  FALSE
  BY TypeStep DEF OneRunUnlessMissed, Live, IsCall, Request
<1>1. missed \subseteq missed'
  BY HistoryStep
<1>2. ~(Live(g, p) /\ Live(h, p))
  BY <1>1 DEF OneRunUnlessMissed
<1>3. ASSUME NEW f \in {g, h}, NEW k \in {g, h} \ {f}, ~Live(f, p)
      PROVE  FALSE
  <2>1. pc[f] = "create" /\ p = Current(f)
    BY <1>3, RunMoves DEF Live
  <2>2. Active(f) /\ Cancels(f)
    BY <2>1 DEF Active, Cancels
  <2>3. Live(k, p)
    <3>1. CASE ~Live(k, p)
      <4>1. pc[k] = "create" /\ ((\E d \in Hooks \ {k} : Active(d)) => <<k, p>> \in missed')
        BY <1>3, <3>1, RunMoves DEF Live
      <4>2. QED
        BY <2>2, <4>1
    <3>2. QED
      BY <3>1
  <2>4. <<k, p>> \in missed
    BY <2>1, <2>2, <2>3 DEF Cancelling, Unmissed, Missed
  <2>5. QED
    BY <1>1, <2>4
<1>4. QED
  BY <1>2, <1>3

-----------------------------------------------------------------------------
IInv ==
    /\ TypeOK /\ CreatesOnce /\ Undisturbed /\ OwnDefinitionsUnlessCrossed
    /\ Replaced /\ Cancelling /\ OneRunUnlessMissed

LEMMA InitIInv == Init => IInv
<1> SUFFICES ASSUME Init
             PROVE  IInv
  OBVIOUS
<1>1. TypeOK
  BY InitTypeOK
<1>2. \A h \in Hooks : /\ pc[h] = "new" /\ todo[h] = {}
                       /\ \A p \in Pipelines : state[h][p] = "none" /\ ~Live(h, p)
                                               /\ \A t \in Tasks : ranTask[h][p][t] = None
  BY DEF Init, Live
<1>3. CreatesOnce /\ Replaced
  BY <1>2 DEF CreatesOnce, Replaced
<1>4. Undisturbed /\ Cancelling
  BY <1>2 DEF Undisturbed, Cancelling, PatchesSo, Active
<1>5. OwnDefinitionsUnlessCrossed /\ OneRunUnlessMissed
  BY <1>2 DEF OwnDefinitionsUnlessCrossed, OneRunUnlessMissed
<1>6. QED
  BY <1>1, <1>3, <1>4, <1>5 DEF IInv

LEMMA Inductive == Spec => []IInv
<1>1. IInv /\ [Next]_vars => IInv'
  BY TypeStep, CreatesOnceStep, UndisturbedStep, OwnStep, ReplacedStep, CancellingStep, OneRunStep DEF IInv
<1>2. QED
  BY InitIInv, <1>1, PTL DEF Spec

-----------------------------------------------------------------------------
(* Theorems *)

\* Every variable keeps its type, for any hooks, pipelines, tasks and branches.
THEOREM TypeCorrect == Spec => []TypeOK
<1>1. IInv => TypeOK
  BY DEF IInv
<1>2. QED
  BY Inductive, <1>1, PTL

\* A run mixes in no definition of another revision unless another hook crossed its own, for
\* any number of concurrent hooks, pipelines and tasks (trigger_pipeline).
THEOREM OwnDefinitions == Spec => []OwnDefinitionsUnlessCrossed
<1>1. IInv => OwnDefinitionsUnlessCrossed
  BY DEF IInv
<1>2. QED
  BY Inductive, <1>1, PTL

\* The list of ways for a run to escape a cancellation is complete
\* (cancel_running_pipeline_runs).
THEOREM OneRun == Spec => []OneRunUnlessMissed
<1>1. IInv => OneRunUnlessMissed
  BY DEF IInv
<1>2. QED
  BY Inductive, <1>1, PTL

\* However many hooks cancel each other's runs, one run of each pipeline survives unless a
\* hook fails between its cancelling and its creating (trigger_pipeline).
THEOREM RunSurvives == Spec => []SomeRunSurvives
<1>1. IInv => SomeRunSurvives
  BY DEF IInv, Replaced, SomeRunSurvives
<1>2. QED
  BY Inductive, <1>1, PTL

-----------------------------------------------------------------------------
(* One hook after the other *)

\* While a hook is active no other is, and Tekton has started the runs of those before it.
Spaced ==
    \A h \in Hooks : Active(h) =>
        \A g \in Hooks \ {h} : ~Active(g) /\ \A p \in Pipelines : state[g][p] # "created"

Reliable == Faults = {}

NoneMissed == missed = {}

LEMMA NoneMissedStep ==
    ASSUME TypeOK, CreatesOnce, Spaced, Reliable, NoneMissed, [Next]_vars
    PROVE  NoneMissed'
<1>1. ASSUME NEW h \in Hooks, ListRuns(h)
      PROVE  NoneMissed'
  <2>1. Active(h) /\ todo[h] # {} /\ todo[h] \subseteq Pipelines
    BY <1>1 DEF ListRuns, Goto, Active, TypeOK
  <2>2. Current(h) \in todo[h]
    BY <2>1, FirstIsOne DEF Current
  <2>3. \A g \in Hooks : state[g][Current(h)] # "created"
    BY <2>1, <2>2 DEF Spaced, CreatesOnce
  <2>4. QED
    BY <1>1, <2>3 DEF ListRuns, Misses, NoneMissed
<1>2. ASSUME NEW h \in Hooks, NEW g \in Hooks, CancelRun(h, g)
      PROVE  NoneMissed'
  BY <1>2 DEF CancelRun, Reliable, NoneMissed
<1>3. ASSUME NEW h \in Hooks, CreateRun(h)
      PROVE  NoneMissed'
  <2>1. Active(h)
    BY <1>3 DEF CreateRun, Proceed, Goto, Active
  <2>2. \A g \in Hooks \ {h} : ~Active(g)
    BY <2>1 DEF Spaced
  <2>3. QED
    BY <1>3, <2>2 DEF CreateRun, Created, Misses, NoneMissed
<1>4. \A h \in Hooks : ~Fails(h)
  BY DEF Fails, Reliable
<1>5. ASSUME NEW h \in Hooks,
             \/ Begin(h) \/ ApplyShared(h) \/ SharedApplied(h) \/ Ensure(h) \/ ApplyTask(h) \/ SkipTask(h)
             \/ TasksApplied(h) \/ ApplyPipeline(h) \/ RunsCancelled(h)
      PROVE  NoneMissed'
  BY <1>5 DEF Begin, ApplyShared, SharedApplied, Ensure, ApplyTask, SkipTask, TasksApplied, ApplyPipeline,
              RunsCancelled, history, NoneMissed
<1>6. ASSUME NEW h \in Hooks, NEW p \in Pipelines, Tekton(h, p)
      PROVE  NoneMissed'
  BY <1>6 DEF Tekton, StartRun, StartTask, FinishRun, history, NoneMissed
<1>7. CASE UNCHANGED vars
  BY <1>7 DEF vars, NoneMissed
<1>8. QED
  BY <1>1, <1>2, <1>3, <1>4, <1>5, <1>6, <1>7 DEF Next, Hook

\* At most one run of a cancel-previous pipeline goes on, those of run-pipeline aside.
OneRunOnly ==
    \A p \in Pipelines, g, h \in Hooks :
        Definition[p].cancelPrevious /\ g # h /\ Live(g, p) /\ Live(h, p) => IsCall(g) \/ IsCall(h)

\* The cancellation is exact when hooks follow each other far enough apart: without errors,
\* and with every hook beginning after the runs before it have started, no run escapes
\* cancel_running_pipeline_runs, whatever branches and pipelines the hooks are about.
THEOREM OneRunWhenSpaced == Spec /\ []Spaced /\ []Reliable => []OneRunOnly
<1>1. Init => NoneMissed
  BY DEF Init, NoneMissed
<1>2. IInv /\ Spaced /\ Reliable /\ NoneMissed /\ [Next]_vars => NoneMissed'
  BY NoneMissedStep DEF IInv
<1>3. IInv /\ NoneMissed => OneRunOnly
  BY DEF IInv, OneRunUnlessMissed, NoneMissed, OneRunOnly
<1>4. QED
  BY <1>1, <1>2, <1>3, Inductive, PTL DEF Spec
=============================================================================
