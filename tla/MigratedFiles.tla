---------------------------- MODULE MigratedFiles ----------------------------
(***************************************************************************)
(* Database migrations, and clients that read what they have committed:    *)
(* the cache of a file of the database repository at main.  Its content is *)
(* the number of commits on main, some of which leave no such file behind; *)
(* before the first one there is none.                                     *)
(***************************************************************************)
EXTENDS DbMigration, FiniteSets

CONSTANTS
    Readers,     \* clients of the file endpoints
    MaxCommits,  \* the number of commits main can have
    Missing      \* the numbers of commits after which the file is not there

VARIABLES cache, pc, content, shown, since, disturbed

Version == Len(main)

File == INSTANCE FileCache WITH Requests <- Readers, MaxPushes <- MaxCommits,
                                Faults <- {"redis"}, version <- Version

\* The runs that can add a commit.
Named(s) == s.runs \cap (Committing \ Unnamed)

\* The initial commit, what developers push and one commit of each run fit into the bound.
ASSUME FilesAssumption ==
    /\ File!CacheAssumption /\ 0 \in Missing
    /\ IsFiniteSet(Runs)
    /\ \A s \in Settings : /\ s.readers \subseteq Readers
                           /\ 1 + s.pushes + Cardinality(Named(s)) <= MaxCommits

reading == <<cache, pc, content, shown, since, disturbed>>
vars    == <<migrationVars, reading>>

ViewInit ==
    /\ Init
    /\ cache = File!Empty
    /\ pc = [q \in Readers |-> "new"]
    /\ content = [q \in Readers |-> 0]
    /\ shown = 0
    /\ since = [q \in Readers |-> 0]
    /\ disturbed = FALSE

\* Commits reach main behind the back of the cache.
Run(t)    == Taskrun(t) /\ UNCHANGED <<setting, recorded, calls, pushes, reading>>
Develop   == DeveloperPushes /\ UNCHANGED <<setting, calls, reading>>
Status(t) == Record(t) /\ UNCHANGED <<setting, calls, pushes, reading>>
Ask(c)    == Logs(c) /\ UNCHANGED <<setting, main, migration, pushes, reading>>
Serve(q)  == UNCHANGED migrationVars /\ File!Serve(q)
Begin(q)  == UNCHANGED migrationVars /\ File!Begin(q)
Expire    == UNCHANGED migrationVars /\ File!Expire

Next ==
    \/ \E t \in setting.runs : Run(t) \/ Status(t)
    \/ Develop
    \/ \E c \in setting.clients : Ask(c)
    \/ \E q \in setting.readers : Begin(q) \/ Serve(q)
    \/ Expire

Spec == ViewInit /\ [][Next]_vars

\* Pods and the controller make progress, a client that has been told of no end asks
\* again, handlers that have begun go on, and Redis expires keys; nobody has to push or to
\* read a file.
FairSpec ==
    /\ Spec
    /\ \A t \in Runs : WF_vars(t \in setting.runs /\ Run(t)) /\ WF_vars(Status(t))
    /\ \A c \in Clients : WF_vars(c \in setting.clients /\ Ask(c))
    /\ \A q \in Readers : WF_vars(Serve(q))
    /\ WF_vars(Expire)
-----------------------------------------------------------------------------
(* Properties *)

\* Every variable keeps its type; what is cached or shown was there when it was read, and
\* a call whose client is not waiting has ended in both halves (handle_db_taskrun_logs).
TypeOK ==
    /\ setting \in Settings
    /\ main \in Seq(Models) /\ Len(main) <= MaxCommits
    /\ step \in [Runs -> Steps]
    /\ clone \in [Runs -> Seq(Models)] /\ \A t \in Runs : IsPrefix(clone[t], main)
    /\ recorded \in [Runs -> Statuses]
    /\ logs \in [Clients -> {"idle", "opening", "open", "whole", "part", "error"}]
    /\ status \in [Clients -> Statuses \union {"idle", "reading", "error"}]
    /\ \A c \in Clients : logs[c] = "idle" <=> status[c] = "idle"
    /\ told \in [Clients -> Statuses \union {"nothing", "error"}]
    /\ failures \in 0 .. setting.failures
    /\ pushes \in 0 .. setting.pushes
    /\ hidden \subseteq Committing
    /\ File!TypeOK

\* No commit is ever taken off main, whichever runs and developers push at the same
\* time from clones of different age (git push origin main of the commit-and-push step).
MainKeepsCommits == [][IsPrefix(main, main')]_vars

\* A client that is told that the last step of a committing run was completed finds the
\* models of that run in main, however late its clone was and whoever pushed meanwhile,
\* unless the run's git commit failed, without a message or for any other reason:
\* `|| echo "No changes to commit."` hides that (commit-and-push; fetch_step_status).
ToldIsPushed ==
    \A c \in Clients :
        told[c] = "Completed" /\ Follows[c] \in Committing
        => Asked[Follows[c]] \in Range(main) \/ Follows[c] \in hidden

\* A client that asks again until it is told an end is told one, and it is how the run
\* ended: no call waits for a container that has ended, however it ended (fetch_step_logs
\* follows the log).  Of a run that ended without containers no end is ever told: its
\* status has no steps, and the reply stays "Unknown" (fetch_step_status).
EndIsTold ==
    \A c \in Clients :
        c \in setting.clients ~>
            \/ step[Follows[c]] = "done" /\ told[c] = "Completed"
            \/ step[Follows[c]] = "failed" /\ told[c] = "Error"
            \/ step[Follows[c]] = "unstarted"

\* The file endpoints see main as the environment that FileCache describes: what the
\* runs and developers do to main is, to the cache, a push or nothing.
ImplementsFileCache == File!Spec

\* A client never sees the file go back, unless a request read the repository while
\* another was between its read and its store, or Redis failed (handle_file_content).
ReadsForward == File!ReadsForward

\* When the commits are over the cache has nothing old for good (no hit renews a key).
EventuallyFresh == File!EventuallyFresh
=============================================================================
