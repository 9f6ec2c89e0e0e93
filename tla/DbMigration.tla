----------------------------- MODULE DbMigration -----------------------------
(***************************************************************************)
(* Database migrations of one workspace, after their TaskRuns have been    *)
(* created (RunNamespace has the steps of the endpoint up to that point),  *)
(* and the endpoint that tells clients how far a run has come.             *)
(*                                                                         *)
(* A run clones main of the database repository, generates migrations for  *)
(* the models of its request on top of those it finds and, if it is asked  *)
(* to, commits them and pushes.  Runs share nothing but the repository,    *)
(* to which developers push as well.  The endpoint follows the log of a    *)
(* step until its container exits and, at the same time, reads the status  *)
(* that the Tekton controller has recorded so far.                         *)
(*                                                                         *)
(* main is the sequence of its commits, each the models it has migrations  *)
(* for; nobody but a forced push takes a commit off it.                    *)
(***************************************************************************)
EXTENDS Naturals, Sequences, SequencesExt

CONSTANTS
    Runs,        \* TaskRuns
    Asked,       \* run -> the models of its request
    Committing,  \* runs with commit = true
    Unnamed,     \* those without a commit message
    Clients,     \* clients that ask for the last step of a run until it has ended
    Follows,     \* client -> its run
    NoModels,    \* the models of a repository without commits
    Settings     \* who is there, and bounds on failing steps and calls and on developers

ASSUME MigrationAssumption ==
    /\ Unnamed \subseteq Committing /\ Committing \subseteq Runs
    /\ NoModels \notin {Asked[t] : t \in Runs}
    /\ Follows \in [Clients -> Runs]
    /\ \A s \in Settings : /\ s.runs \subseteq Runs /\ s.clients \subseteq Clients
                           /\ s.failures \in Nat /\ s.pushes \in Nat

VARIABLES
    setting,
    main,      \* the branch main in the bare repository
    step,      \* per run: where it is
    clone,     \* per run: main as it has cloned it
    recorded,  \* per run: the status of its last step that the controller has recorded
    logs,      \* per client: what its call has of the log
    status,    \* per client: the status its call has read
    told,      \* per client: the last reply
    failures,  \* steps and calls that have failed
    pushes,    \* commits developers have pushed
    hidden     \* history: runs with a change whose git commit failed

migration == <<step, clone, recorded, hidden>>
calls     == <<logs, status, told>>
migrationVars ==
    <<setting, main, step, clone, recorded, logs, status, told, failures, pushes, hidden>>

\* A run that is "unstarted" has ended before it had containers.
Ended    == {"done", "failed", "unstarted"}
Steps    == Ended \union {"created", "clone", "migrate", "push"}
Statuses == {"Unknown", "Running", "Completed", "Error"}
Final    == {"Completed", "Error"}
Models   == {Asked[t] : t \in Runs} \union {NoModels}

Schema(h) == IF h = <<>> THEN NoModels ELSE Last(h)

Init ==
    /\ setting \in Settings
    /\ main \in {<<>>, <<NoModels>>}
    /\ step = [t \in Runs |-> "created"]
    /\ clone = [t \in Runs |-> <<>>]
    /\ recorded = [t \in Runs |-> "Unknown"]
    /\ logs = [c \in Clients |-> "idle"]
    /\ status = [c \in Clients |-> "idle"]
    /\ told = [c \in Clients |-> "nothing"]
    /\ failures = 0
    /\ pushes = 0
    /\ hidden = {}

Goto(t, from, to) ==
    /\ step[t] = from
    /\ step' = [step EXCEPT ![t] = to]

-----------------------------------------------------------------------------
(* The steps of a run *)

\* The pod is there, and init-credentials runs.
StartPod(t) ==
    /\ Goto(t, "created", "clone")
    /\ UNCHANGED <<main, clone, failures, hidden>>

\* The run fails, or is over time, before the pod has containers.
NeverStarts(t) ==
    /\ failures < setting.failures
    /\ failures' = failures + 1
    /\ Goto(t, "created", "unstarted")
    /\ UNCHANGED <<main, clone, hidden>>

CloneRepo(t) ==
    /\ Goto(t, "clone", "migrate")
    /\ clone' = [clone EXCEPT ![t] = main]
    /\ UNCHANGED <<main, failures, hidden>>

\* render-from-file and makemigrations change the files of the clone.
Migrate(t) ==
    /\ Goto(t, "migrate", "push")
    /\ UNCHANGED <<main, clone, failures, hidden>>

\* What `git commit || echo` can make of the clone: without a message or a change the
\* commit fails, and it may fail for reasons of its own; nobody looks at that.
Commits(t) ==
    {clone[t]} \union IF t \in Unnamed \/ Schema(clone[t]) = Asked[t] THEN {}
                      ELSE {Append(clone[t], Asked[t])}

NoteHidden(t, h) ==
    hidden' = IF h = clone[t] /\ Schema(h) # Asked[t] THEN hidden \union {t} ELSE hidden

\* The server takes a push of h that adds to what it has, or changes nothing; a
\* repository without commits has no main to push.
Accepted(t, h) == clone[t] = main /\ h # <<>>

\* Mutants of PushMain: the push is forced; its exit status is not looked at.
PushForced(t) ==
    /\ t \in Committing
    /\ Goto(t, "push", "done")
    /\ \E h \in Commits(t) : main' = h /\ NoteHidden(t, h)
    /\ UNCHANGED <<clone, failures>>

PushUnchecked(t) ==
    /\ t \in Committing
    /\ Goto(t, "push", "done")
    /\ \E h \in Commits(t) :
          main' = (IF Accepted(t, h) THEN h ELSE main) /\ NoteHidden(t, h)
    /\ UNCHANGED <<clone, failures>>

PushMain(t) ==
    /\ t \in Committing
    /\ \E h \in Commits(t) :
          /\ Goto(t, "push", IF Accepted(t, h) THEN "done" ELSE "failed")
          /\ main' = IF Accepted(t, h) THEN h ELSE main
          /\ NoteHidden(t, h)
    /\ UNCHANGED <<clone, failures>>

\* commit=false: the generated migrations go with the volumes of the run.
SkipPush(t) ==
    /\ t \notin Committing
    /\ Goto(t, "push", "done")
    /\ UNCHANGED <<main, clone, failures, hidden>>

\* set -e: a command that fails, but for git commit, ends its step, and Tekton skips the
\* others.  A push may have reached the server.
StepFails(t) ==
    /\ step[t] \in {"clone", "migrate", "push"}
    /\ failures < setting.failures
    /\ failures' = failures + 1
    /\ step' = [step EXCEPT ![t] = "failed"]
    /\ \/ UNCHANGED main
       \/ /\ step[t] = "push" /\ t \in Committing
          /\ \E h \in Commits(t) : Accepted(t, h) /\ main' = h
    /\ UNCHANGED <<clone, hidden>>

Taskrun(t) ==
    \/ StartPod(t) \/ NeverStarts(t) \/ CloneRepo(t) \/ Migrate(t)
    \/ PushMain(t) \/ SkipPush(t) \/ StepFails(t)

\* The controller notices how far the last step is; its container starts with the pod.
\* A run that never had containers has no steps in its status.
Record(t) ==
    /\ recorded' = [recorded EXCEPT ![t] =
                        CASE step[t] \in {"created", "unstarted"} -> "Unknown"
                          [] step[t] = "done"   -> "Completed"
                          [] step[t] = "failed" -> "Error"
                          [] OTHER              -> "Running"]
    /\ recorded' # recorded
    /\ UNCHANGED <<main, step, clone, failures, hidden>>

\* A commit that leaves the models alone.
DeveloperPushes ==
    /\ pushes < setting.pushes
    /\ pushes' = pushes + 1
    /\ main' = Append(main, Schema(main))
    /\ UNCHANGED <<migration, failures>>

-----------------------------------------------------------------------------
(* handle_db_taskrun_logs: fetch_step_logs and fetch_step_status, joined *)

Call(c) ==
    /\ logs[c] = "idle" /\ status[c] = "idle"
    /\ told[c] \notin Final
    /\ logs' = [logs EXCEPT ![c] = "opening"]
    /\ status' = [status EXCEPT ![c] = "reading"]
    /\ UNCHANGED <<told, failures>>

\* Without containers there is no log to open; the reply says so.
OpenLog(c) ==
    LET containers == step[Follows[c]] \notin {"created", "unstarted"} IN
    /\ logs[c] = "opening"
    /\ logs' = [logs EXCEPT ![c] = IF containers THEN "open" ELSE "error"]
    /\ UNCHANGED <<status, told, failures>>

\* Mutant of FollowLog: the end of a step that has failed is not noticed.
FollowUntilSuccess(c) ==
    /\ logs[c] = "open"
    /\ step[Follows[c]] = "done"
    /\ logs' = [logs EXCEPT ![c] = "whole"]
    /\ UNCHANGED <<status, told, failures>>

FollowLog(c) ==
    /\ logs[c] = "open"
    /\ step[Follows[c]] \in Ended
    /\ logs' = [logs EXCEPT ![c] = "whole"]
    /\ UNCHANGED <<status, told, failures>>

ReadStatus(c) ==
    /\ status[c] = "reading"
    /\ status' = [status EXCEPT ![c] = recorded[Follows[c]]]
    /\ UNCHANGED <<logs, told, failures>>

\* A stream that breaks is returned as far as it came; a call that fails is told in
\* place of its answer.
CallFails(c) ==
    /\ failures < setting.failures
    /\ failures' = failures + 1
    /\ \/ /\ logs[c] \in {"opening", "open"}
          /\ logs' = [logs EXCEPT ![c] = IF @ = "open" THEN "part" ELSE "error"]
          /\ UNCHANGED status
       \/ /\ status[c] = "reading"
          /\ status' = [status EXCEPT ![c] = "error"]
          /\ UNCHANGED logs
    /\ UNCHANGED told

\* tokio::join waits for both.  The client calls again until it is told that the step
\* has ended.
Reply(c) ==
    /\ logs[c] \in {"whole", "part", "error"}
    /\ status[c] \notin {"idle", "reading"}
    /\ told' = [told EXCEPT ![c] = status[c]]
    /\ logs' = [logs EXCEPT ![c] = "idle"]
    /\ status' = [status EXCEPT ![c] = "idle"]
    /\ UNCHANGED failures

Logs(c) == Call(c) \/ OpenLog(c) \/ FollowLog(c) \/ ReadStatus(c) \/ CallFails(c) \/ Reply(c)
=============================================================================
