--------------------------- MODULE PipelineTrigger ---------------------------
(***************************************************************************)
(* How pushes and API calls start the Tekton pipelines of one repository.  *)
(*                                                                         *)
(* The post-receive hook of a push and POST /repo/trigger-pipeline both    *)
(* execute pipeline::run: it selects the pipelines of the revision and for *)
(* each of them re-applies all tasks and the pipeline to the repository's  *)
(* namespace, cancels earlier runs if asked to, and creates a PipelineRun. *)
(* POST /repo/run-pipeline does the same for one named pipeline with its   *)
(* own code.  All share the objects of that namespace and run in separate  *)
(* processes or threads without any lock.                                  *)
(*                                                                         *)
(* Tekton, which is external, resolves names only when it gets to them:    *)
(* the pipeline when a run starts, each task when its turn comes.          *)
(***************************************************************************)
EXTENDS Naturals, FiniteSets

CONSTANTS
    Hooks,      \* executions, each for one revision of the repository
    Settings,   \* what started them, and what the cluster and the commits are like
    Pipelines,  \* pipeline files, numbered in sorted order
    Definition, \* pipeline -> its annotations
    Tasks,      \* task files, numbered in sorted order
    Branches,
    Files,
    None

AllFaults == {"kube",    \* a call of the Kubernetes API fails, or its reply is lost
              "read",    \* a task file cannot be read from the commit
              "client"}  \* a client of run-pipeline disconnects

ASSUME PipelineAssumption ==
    /\ Pipelines \subseteq Nat
    /\ Tasks \subseteq Nat
    /\ None \notin Hooks \union Branches \union Pipelines
    /\ Settings \subseteq
          [request : [Hooks -> [kind : {"push", "call"}, branch : Branches,
                                changed : SUBSET Files, named : Pipelines]],
           pipelines : SUBSET Pipelines, common : SUBSET Tasks, faults : SUBSET AllFaults]
    /\ \A p \in Pipelines :
          Definition[p] \in [enabled : BOOLEAN, branches : SUBSET Branches,
                            ignored : SUBSET Files, filter : {None} \union SUBSET Files,
                            cancelPrevious : BOOLEAN]

VARIABLES
    setting,   \* the one of Settings this behaviour is about
    task,      \* per task: the definition the cluster has, None before the first
    pipe,      \* per pipeline: the hook whose revision the cluster has
    pc,        \* per hook: where trigger_pipeline is
    todo,      \* per hook: selected pipelines it has not finished
    left,      \* per hook: tasks its loop has not visited
    victims,   \* per hook: hooks whose runs it has listed and not yet cancelled
    state,     \* per hook and pipeline: phase of the PipelineRun it created
    ranPipe,   \* per hook and pipeline: whose pipeline that run executes
    ranTask,   \* per hook, pipeline and task: the definition that run executed
    skipped,   \* history, per hook: tasks it left out with a warning
    crossed,   \* history: hooks during which, or during whose runs, another was active
    missed     \* history: runs that escaped a cancellation

cluster == <<task, pipe>>
hook    == <<pc, todo, left, victims>>
tekton  == <<state, ranPipe, ranTask>>
history == <<skipped, crossed, missed>>
vars    == <<setting, task, pipe, pc, todo, left, victims, state, ranPipe, ranTask,
             skipped, crossed, missed>>

Request == setting.request
Common  == setting.common     \* tasks that declare a namespace of their own
Faults  == setting.faults     \* which of AllFaults can happen

Steps  == {"new", "shared", "ensure", "tasks", "pipeline", "list", "patch", "create",
           "done", "failed"}
Active(h) == pc[h] \notin {"new", "done", "failed"}
Phases == {"none", "created", "running", "finished", "cancelled"}
Live(h, p) == state[h][p] \in {"created", "running"}

First(S) == CHOOSE x \in S : \A y \in S : x <= y

Branch(h) == Request[h].branch
IsCall(h) == Request[h].kind = "call"

\* The pipeline and the task of the current iterations of hook h.
Current(h) == First(todo[h])
TaskOf(h)  == First(left[h])

\* A task as transformed for hook h: its revision, and the branch whose
\* deployment-target secret replaced the placeholder.
TaskFrom(h) == [by |-> h, target |-> Branch(h)]
SharedFrom(h) == [by |-> h, target |-> None]
TaskDefs == [by : Hooks, target : Branches \union {None}]

-----------------------------------------------------------------------------
(* Selection.  Patterns stand for the names that glob_matches lets through. *)

\* should_trigger: no trigger branch means never; an empty push is not "all
\* ignored" but matches no filter.
ShouldTrigger(p, h) ==
    LET d == Definition[p]  changed == Request[h].changed IN
    /\ d.enabled
    /\ Branch(h) \in d.branches
    /\ ~(changed # {} /\ changed \subseteq d.ignored)
    /\ d.filter # None => changed \intersect d.filter # {}

\* POST /repo/run-pipeline asks no annotation.
Selected(h) ==
    IF IsCall(h) THEN {Request[h].named}
    ELSE {p \in setting.pipelines : ShouldTrigger(p, h)}

-----------------------------------------------------------------------------
Init ==
    /\ setting \in Settings
    /\ task = [t \in Tasks |-> None]
    /\ pipe = [p \in Pipelines |-> None]
    /\ pc = [h \in Hooks |-> "new"]
    /\ todo = [h \in Hooks |-> {}]
    /\ left = [h \in Hooks |-> {}]
    /\ victims = [h \in Hooks |-> {}]
    /\ state = [h \in Hooks |-> [p \in Pipelines |-> "none"]]
    /\ ranPipe = [h \in Hooks |-> [p \in Pipelines |-> None]]
    /\ ranTask = [h \in Hooks |-> [p \in Pipelines |-> [t \in Tasks |-> None]]]
    /\ skipped = [h \in Hooks |-> {}]
    /\ crossed = {}
    /\ missed = {}

Goto(h, from, to) ==
    /\ pc[h] = from
    /\ pc' = [pc EXCEPT ![h] = to]

-----------------------------------------------------------------------------
(* pipeline::run and handle_run_pipeline *)

Begin(h) ==
    /\ Goto(h, "new", IF Selected(h) # {} THEN "ensure"
                      ELSE IF Tasks # {} THEN "shared" ELSE "done")
    /\ todo' = [todo EXCEPT ![h] = Selected(h)]
    /\ left' = [left EXCEPT ![h] = IF Selected(h) = {} THEN Tasks ELSE {}]
    /\ crossed' = crossed
         \union {g \in Hooks \ {h} : Active(g) \/ \E p \in Pipelines : Live(g, p)}
         \union (IF \E g \in Hooks \ {h} : Active(g) THEN {h} ELSE {})
    /\ UNCHANGED <<cluster, victims, tekton, skipped, missed>>

\* Nothing selected: the tasks are applied without a deployment target, those
\* without a namespace to `default`, where no run looks for them.
ApplyShared(h) ==
    LET t == TaskOf(h) IN
    /\ pc[h] = "shared"
    /\ left[h] # {}
    /\ \/ task' = [task EXCEPT ![t] = IF t \in Common THEN SharedFrom(h) ELSE @]
       \/ "read" \in Faults /\ UNCHANGED task
    /\ left' = [left EXCEPT ![h] = @ \ {t}]
    /\ UNCHANGED <<pipe, pc, todo, victims, tekton, history>>

SharedApplied(h) ==
    /\ left[h] = {}
    /\ Goto(h, "shared", "done")
    /\ UNCHANGED <<cluster, todo, left, victims, tekton, history>>

\* Steps 12a to 12e: namespace, volumes, secrets and built-in tasks.  All are
\* idempotent and none is changed by what the revision says.
Ensure(h) ==
    /\ Goto(h, "ensure", "tasks")
    /\ left' = [left EXCEPT ![h] = Tasks]
    /\ UNCHANGED <<cluster, todo, victims, tekton, skipped, crossed, missed>>

\* Mutant of ApplyTask: a task the cluster already has is not applied again.
ApplyTaskOnce(h) ==
    LET t == TaskOf(h) IN
    /\ pc[h] = "tasks"
    /\ left[h] # {}
    /\ task' = [task EXCEPT ![t] = IF @ = None THEN TaskFrom(h) ELSE @]
    /\ left' = [left EXCEPT ![h] = @ \ {t}]
    /\ UNCHANGED <<pipe, pc, todo, victims, tekton, skipped, crossed, missed>>

ApplyTask(h) ==
    LET t == TaskOf(h) IN
    /\ pc[h] = "tasks"
    /\ left[h] # {}
    /\ task' = [task EXCEPT ![t] = TaskFrom(h)]
    /\ left' = [left EXCEPT ![h] = @ \ {t}]
    /\ UNCHANGED <<pipe, pc, todo, victims, tekton, skipped, crossed, missed>>

\* A task that cannot be read is skipped; run-pipeline also skips one that the
\* cluster refuses.
SkipTask(h) ==
    /\ pc[h] = "tasks"
    /\ left[h] # {}
    /\ "read" \in Faults \/ ("kube" \in Faults /\ IsCall(h))
    /\ skipped' = [skipped EXCEPT ![h] = @ \union {TaskOf(h)}]
    /\ left' = [left EXCEPT ![h] = @ \ {TaskOf(h)}]
    /\ UNCHANGED <<cluster, pc, todo, victims, tekton, crossed, missed>>

TasksApplied(h) ==
    /\ left[h] = {}
    /\ Goto(h, "tasks", "pipeline")
    /\ UNCHANGED <<cluster, todo, left, victims, tekton, history>>

Cancels(h) == ~IsCall(h) /\ Definition[Current(h)].cancelPrevious

\* Mutant of Following: earlier runs are cancelled after the new one is created.
CreateThenCancel(h, step) ==
    IF step = "pipeline" THEN "create"
    ELSE IF step = "create" /\ Cancels(h) THEN "list"
    ELSE IF todo[h] \ {Current(h)} # {} THEN "ensure" ELSE "done"

\* The step after `step` for the current pipeline.
Following(h, step) ==
    IF step = "pipeline" /\ Cancels(h) THEN "list"
    ELSE IF step \in {"pipeline", "patch"} THEN "create"
    ELSE IF todo[h] \ {Current(h)} # {} THEN "ensure" ELSE "done"

\* Once its last step is taken a pipeline leaves the loop of run.
Proceed(h, step) ==
    LET next == Following(h, step) IN
    /\ Goto(h, step, next)
    /\ todo' = [todo EXCEPT ![h] =
                  IF next \in {"ensure", "done"} THEN @ \ {Current(h)} ELSE @]

ApplyPipeline(h) ==
    /\ Proceed(h, "pipeline")
    /\ pipe' = [pipe EXCEPT ![Current(h)] = h]
    /\ UNCHANGED <<task, left, victims, tekton, history>>

\* The runs of the hooks in S escape hook h.
Misses(h, S) == missed' = missed \union {<<g, Current(h)>> : g \in S}

\* Mutant of ListRuns: only runs of the same branch are selected.
ListOwnBranch(h) ==
    /\ Goto(h, "list", "patch")
    /\ victims' = [victims EXCEPT ![h] =
                     {g \in Hooks : state[g][Current(h)] = "running" /\ Branch(g) = Branch(h)}]
    /\ Misses(h, {g \in Hooks : state[g][Current(h)] = "created"})
    /\ UNCHANGED <<cluster, todo, left, tekton, skipped, crossed>>

\* cancel_running_pipeline_runs selects by repository and pipeline, whatever the
\* branch, and keeps the runs whose first condition is exactly "Running".
ListRuns(h) ==
    /\ Goto(h, "list", "patch")
    /\ victims' = [victims EXCEPT ![h] = {g \in Hooks : state[g][Current(h)] = "running"}]
    /\ Misses(h, {g \in Hooks : state[g][Current(h)] = "created"})
    /\ UNCHANGED <<cluster, todo, left, tekton, skipped, crossed>>

\* A patch that fails is only a warning.
CancelRun(h, g) ==
    /\ pc[h] = "patch"
    /\ g \in victims[h]
    /\ victims' = [victims EXCEPT ![h] = @ \ {g}]
    /\ \/ /\ state' = [state EXCEPT ![g][Current(h)] = IF @ = "running" THEN "cancelled" ELSE @]
          /\ UNCHANGED missed
       \/ /\ "kube" \in Faults
          /\ Misses(h, {g})
          /\ UNCHANGED state
    /\ UNCHANGED <<cluster, pc, todo, left, ranPipe, ranTask, skipped, crossed>>

RunsCancelled(h) ==
    /\ victims[h] = {}
    /\ Proceed(h, "patch")
    /\ UNCHANGED <<cluster, left, victims, tekton, history>>

\* The run appears, while hooks that have listed the runs will not see it.
Created(h) ==
    /\ state' = [state EXCEPT ![h][Current(h)] = "created"]
    /\ Misses(h, IF \E g \in Hooks \ {h} : Active(g) THEN {h} ELSE {})

CreateRun(h) ==
    /\ Proceed(h, "create")
    /\ Created(h)
    /\ UNCHANGED <<cluster, left, victims, ranPipe, ranTask, skipped, crossed>>

\* An error ends the hook: later pipelines are not triggered and the runs of
\* earlier ones are not reported.  So does a client that leaves run-pipeline,
\* between any two steps.  A run may have been created all the same.
Fails(h) ==
    /\ Active(h)
    /\ \/ "kube" \in Faults /\ pc[h] # "patch" /\ ~(IsCall(h) /\ pc[h] = "tasks")
       \/ "client" \in Faults /\ IsCall(h)
    /\ \/ UNCHANGED <<state, missed>>
       \/ pc[h] = "create" /\ Created(h)
    /\ pc' = [pc EXCEPT ![h] = "failed"]
    /\ todo' = [todo EXCEPT ![h] = {}]
    /\ left' = [left EXCEPT ![h] = {}]
    /\ UNCHANGED <<cluster, victims, ranPipe, ranTask, skipped, crossed>>

-----------------------------------------------------------------------------
(* Tekton *)

StartRun(h, p) ==
    /\ state[h][p] = "created"
    /\ state' = [state EXCEPT ![h][p] = "running"]
    /\ ranPipe' = [ranPipe EXCEPT ![h][p] = pipe[p]]
    /\ UNCHANGED <<cluster, hook, ranTask, history>>

StartTask(h, p, t) ==
    /\ state[h][p] = "running"
    /\ ranTask[h][p][t] = None
    /\ task[t] # None
    /\ ranTask' = [ranTask EXCEPT ![h][p][t] = task[t]]
    /\ UNCHANGED <<cluster, hook, state, ranPipe, history>>

\* A run may end at any time: by success, by a failing task or a missing one.
FinishRun(h, p) ==
    /\ state[h][p] = "running"
    /\ state' = [state EXCEPT ![h][p] = "finished"]
    /\ UNCHANGED <<cluster, hook, ranPipe, ranTask, history>>

-----------------------------------------------------------------------------
Hook(h) ==
    \/ Begin(h) \/ ApplyShared(h) \/ SharedApplied(h)
    \/ Ensure(h) \/ ApplyTask(h) \/ SkipTask(h) \/ TasksApplied(h) \/ ApplyPipeline(h)
    \/ ListRuns(h) \/ (\E g \in Hooks : CancelRun(h, g)) \/ RunsCancelled(h)
    \/ CreateRun(h) \/ Fails(h)

Tekton(h, p) ==
    \/ StartRun(h, p) \/ (\E t \in Tasks : StartTask(h, p, t)) \/ FinishRun(h, p)

Next ==
    /\ UNCHANGED setting
    /\ \/ \E h \in Hooks : Hook(h)
       \/ \E h \in Hooks, p \in Pipelines : Tekton(h, p)

Spec == Init /\ [][Next]_vars
-----------------------------------------------------------------------------
(* Properties *)

\* Every variable keeps its type, and a hook inside the steps of a pipeline has
\* one (run, trigger_pipeline).
TypeOK ==
    /\ setting \in Settings
    /\ task \in [Tasks -> TaskDefs \union {None}]
    /\ pipe \in [Pipelines -> Hooks \union {None}]
    /\ pc \in [Hooks -> Steps]
    /\ todo \in [Hooks -> SUBSET Pipelines]
    /\ \A h \in Hooks : Active(h) /\ pc[h] # "shared" => todo[h] # {}
    /\ left \in [Hooks -> SUBSET Tasks]
    /\ victims \in [Hooks -> SUBSET Hooks]
    /\ state \in [Hooks -> [Pipelines -> Phases]]
    /\ ranPipe \in [Hooks -> [Pipelines -> Hooks \union {None}]]
    /\ ranTask \in [Hooks -> [Pipelines -> [Tasks -> TaskDefs \union {None}]]]
    /\ skipped \in [Hooks -> SUBSET Tasks]
    /\ crossed \subseteq Hooks
    /\ missed \subseteq Hooks \X Pipelines

\* A run executes the pipeline and the tasks of the revision it was created for,
\* with its own branch's deployment target, unless another hook was active
\* between the start of its hook and its end, or a task was skipped: no step of
\* the hook itself, however it repeats and fails, mixes revisions
\* (trigger_pipeline applies all definitions before it creates the run).
OwnDefinitionsUnlessCrossed ==
    \A h \in Hooks \ crossed, p \in Pipelines :
        /\ state[h][p] \notin {"none", "created"} => ranPipe[h][p] = h
        /\ \A t \in Tasks \ skipped[h] : ranTask[h][p][t] \in {None, TaskFrom(h)}

\* Two runs of a cancel-previous pipeline are there at the same time only if one
\* of them escaped: it was not "Running" yet when a later hook looked, its
\* cancellation failed, it was created while another hook was active, or by
\* run-pipeline, which cancels nothing (cancel_running_pipeline_runs).
OneRunUnlessMissed ==
    \A p \in Pipelines, g, h \in Hooks :
        /\ Definition[p].cancelPrevious
        /\ g # h /\ Live(g, p) /\ Live(h, p)
        => (<<g, p>> \in missed \/ <<h, p>> \in missed \/ IsCall(g) \/ IsCall(h))

\* Cancelling never empties the field: when the hooks are done and none failed,
\* a pipeline that had runs has one that nobody cancelled, however the hooks
\* overlapped (a hook cancels before it creates its own run).
SomeRunSurvives ==
    (\A h \in Hooks : pc[h] \in {"new", "done"}) =>
        \A p \in Pipelines :
            (\E h \in Hooks : state[h][p] # "none")
            => \E h \in Hooks : state[h][p] \notin {"none", "cancelled"}
=============================================================================
