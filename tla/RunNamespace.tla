---------------------------- MODULE RunNamespace ----------------------------
(***************************************************************************)
(* What a trigger provides for its runs in their namespace: the persistent *)
(* volume, the claims and the secrets.                                     *)
(*                                                                         *)
(* A trigger is an execution of the post-receive hook or of the trigger    *)
(* endpoint (Hooks), of run-pipeline (Calls) or of the database endpoint   *)
(* (Migrations).  It reads the token, and a hook the deployment target,    *)
(* from gitolite-admin; then, once for each run it creates, it ensures the *)
(* volume and, one after the other, the claims (a claim that is Bound is   *)
(* kept, any other is deleted and created again), applies the secrets and  *)
(* the task that deploys, and creates the run.  That task, one for all     *)
(* branches of the namespace, refers to a target secret by the name of     *)
(* whoever applied it last.  A migration wants claims of its own, which    *)
(* its runs do not mount, no target and no task of the repository.         *)
(*                                                                         *)
(* The cluster, which is external, binds claims, lets a deleted claim      *)
(* linger until nothing uses it, refuses to create an object that is still *)
(* there (409), and retains the volume of a deleted claim as Released: no  *)
(* claim is ever bound to it again.                                        *)
(***************************************************************************)
EXTENDS Integers

CONSTANTS
    Hooks, Calls, Migrations,
    Rounds,     \* trigger -> number of runs it creates
    Branch,     \* hook or call -> the branch of its runs
    Branches,
    Environment,\* branch -> the environment users upload a target for
    Written,    \* environment -> the file an upload writes (sanitise_filename)
    Read,       \* branch -> the file a hook reads
    Sanitised,  \* branch -> sanitize_secret_name
    Mounted,    \* the claims that runs mount, numbered in the order of the code
    Static,     \* those for the one persistent volume of the namespace
    Own,        \* the claims of migrations
    Settings    \* who is there, and what may happen (see Init)

Triggers     == Hooks \union Calls \union Migrations
Pipelines    == Hooks \union Calls
Claims       == Mounted \union Own
Environments == {Environment[b] : b \in Branches}
SecretNames  == {Sanitised[b] : b \in Branches}

ASSUME NamespaceAssumption ==
    /\ \A h \in Triggers : Rounds[h] \in Nat \ {0}
    /\ \A h \in Pipelines : Branch[h] \in Branches
    /\ Mounted \union Own \subseteq Nat
    /\ Mounted # {} /\ Own # {} /\ Mounted \intersect Own = {}
    /\ Pipelines \intersect Migrations = {}
    /\ Static \subseteq Mounted
    /\ Settings \subseteq [triggers : SUBSET Triggers, established : BOOLEAN, stored : BOOLEAN,
                            targets : SUBSET Environments, tokens : Nat \ {0},
                            faults : SUBSET {"kube", "leave", "io", "restart"}]

VARIABLES
    setting,
    phase,     \* per claim: its status, or "absent"
    deleting,  \* claims with a deletion timestamp
    volume,    \* the persistent volume
    secret,    \* the token and, per name, the target in the secrets, and the name of the
               \* target secret in the task that deploys, a set of at most one
    tree,      \* the token in the working tree of gitolite-admin
    head,      \* the token in its pushed master
    upload,    \* the handler that uploads a token: "idle", "writing", "left"
    issued,    \* the number of tokens uploaded so far, the names of tokens
    pc,        \* per trigger: the next call it makes
    left,      \* per trigger: claims it has not ensured in this round
    round,     \* per trigger: runs it has created
    token,     \* per trigger: the token it has read
    target,    \* per trigger: the target it has read, a set of at most one
    run,       \* per trigger and round: phase of the run
    seen,      \* per trigger and round: the secrets the run has started with
    unlucky,   \* history: claims bound while a trigger was about to delete them
    doomed,    \* history: claims deleted by a trigger that did not recreate them
    overwritten, \* history: triggers whose token, once applied, was replaced by an older one
    retargeted,  \* history: hooks whose target, once applied, was by another branch's
    misled,      \* history: triggers whose task was skipped or, once applied, replaced by one
                 \* that refers to another secret
    abandoned    \* history: an upload was left half-way by its client, by an error or by the
                 \* death of its process

cluster  == <<phase, deleting, volume>>
admin    == <<tree, head, upload, issued>>
reading  == <<token, target>>
runs     == <<run, seen>>
claimed  == <<unlucky, doomed>>
replaced == <<overwritten, retargeted, misled>>
vars     == <<setting, phase, deleting, volume, secret, tree, head, upload, issued, pc, left,
               round, token, target, run, seen, unlucky, doomed, overwritten, retargeted,
              misled, abandoned>>

Torn == -1   \* a file that has been truncated and not yet filled
None == 0    \* nothing read, no file, or no secret

Tokens    == {Torn, None} \union 1 .. issued

Ends      == {"done", "failed"}
Steps     == Ends \union {"target", "token", "volume", "apply", "get", "delete", "create",
                          "recreate", "secret", "deploy", "task", "run"}
Active(h) == pc[h] \notin Ends
Wanted(h) == IF h \in Migrations THEN Own ELSE Mounted

\* The claim trigger h is about.
At(h) == CHOOSE n \in left[h] : \A m \in left[h] : n <= m

\* The namespace is new, or earlier triggers have established everything in it.  A first
\* token has been uploaded and pushed, or none was ever.
Init ==
    /\ setting \in Settings
    /\ phase = [n \in Claims |-> IF setting.established THEN "Bound" ELSE "absent"]
    /\ deleting = {}
    /\ volume = IF setting.established THEN "Bound" ELSE "absent"
    /\ issued = IF setting.stored THEN 1 ELSE 0
    /\ secret \in [token : {IF setting.established THEN issued ELSE None},
                   target : {[n \in SecretNames |-> {}]},
                   task : IF setting.established THEN {{n} : n \in SecretNames} ELSE {{}}]
    /\ tree = issued /\ head = issued /\ upload = "idle"
    /\ pc = [h \in Triggers |-> IF h \notin setting.triggers THEN "done"
                                ELSE IF h \in Hooks THEN "target" ELSE "token"]
    /\ left = [h \in Triggers |-> Wanted(h)]
    /\ round = [h \in Triggers |-> 0]
    /\ token = [h \in Triggers |-> None]
    /\ target = [h \in Triggers |-> {}]
    /\ run = [h \in Triggers |-> [i \in 1 .. Rounds[h] |-> "none"]]
    /\ seen = [h \in Triggers |-> [i \in 1 .. Rounds[h] |-> [token |-> None, target |-> {}]]]
    /\ unlucky = {} /\ doomed = {}
    /\ overwritten = {} /\ retargeted = {} /\ misled = {}
    /\ abandoned = FALSE

Goto(h, from, to) ==
    /\ pc[h] = from
    /\ pc' = [pc EXCEPT ![h] = to]

-----------------------------------------------------------------------------
(* Reading gitolite-admin *)

\* The targets that uploads write to the file a hook for branch b reads.
TargetsOf(b) == {e \in Environments : Written[e] = Read[b]}

\* The file has the target that was uploaded last.
ReadTarget(h) ==
    LET uploaded == setting.targets \intersect TargetsOf(Branch[h]) IN
    /\ Goto(h, "target", "token")
    /\ \E t \in SUBSET uploaded :
          /\ t = {} <=> uploaded = {}
          /\ \A d, e \in t : d = e
          /\ target' = [target EXCEPT ![h] = t]
    /\ UNCHANGED <<left, round, token, secret, replaced>>

\* The database endpoint reads its working tree and releases the mutex before it
\* does; the others read what is pushed.  Without a file the trigger gives up.
ReadToken(h) ==
    LET held == IF h \in Migrations THEN tree ELSE head IN
    /\ Goto(h, "token", IF held = None THEN "failed"
                        ELSE IF h \in Migrations THEN "get" ELSE "volume")
    /\ token' = [token EXCEPT ![h] = held]
    /\ UNCHANGED <<left, round, target, secret, replaced>>

-----------------------------------------------------------------------------
(* ensure_buildah_pv *)

\* Mutant of FindVolume: the volume is taken for granted.
AssumeVolume(h) ==
    /\ Goto(h, "volume", "get")
    /\ UNCHANGED <<left, cluster, claimed>>

FindVolume(h) ==
    /\ Goto(h, "volume", IF volume = "absent" THEN "apply" ELSE "get")
    /\ UNCHANGED <<left, cluster, claimed>>

\* Server-side apply leaves a volume that has appeared in between as it is.
VolumeApplied == volume' = IF volume = "absent" THEN "Available" ELSE volume

ApplyVolume(h) ==
    /\ Goto(h, "apply", "get")
    /\ VolumeApplied
    /\ UNCHANGED <<left, phase, deleting, claimed>>

-----------------------------------------------------------------------------
(* ensure_single_pvc_async, and ensure_single_pvc of the database endpoint *)

\* Trigger h is done with the claim it is about.
Ensured(h) ==
    /\ left' = [left EXCEPT ![h] = @ \ {At(h)}]
    /\ pc' = [pc EXCEPT ![h] = IF left[h] = {At(h)} THEN "secret" ELSE "get"]

\* Mutant of ClaimBound: a Bound claim is recreated like any other.
BoundRecreated(h) ==
    /\ Goto(h, "get", "delete")
    /\ phase[At(h)] = "Bound"
    /\ UNCHANGED <<left, cluster, claimed>>

\* The status says Bound, be the claim about to go or not.
ClaimBound(h) ==
    /\ pc[h] = "get"
    /\ phase[At(h)] = "Bound"
    /\ Ensured(h)
    /\ UNCHANGED <<cluster, claimed>>

ClaimUnbound(h) ==
    /\ Goto(h, "get", "delete")
    /\ phase[At(h)] = "Pending"
    /\ UNCHANGED <<left, cluster, claimed>>

ClaimMissing(h) ==
    /\ Goto(h, "get", "create")
    /\ phase[At(h)] = "absent"
    /\ UNCHANGED <<left, cluster, claimed>>

\* Mutant of DeleteClaim: the next claim is taken up at once.
DeleteAndLeave(h) ==
    /\ pc[h] = "delete"
    /\ phase[At(h)] # "absent"
    /\ deleting' = deleting \union {At(h)}
    /\ Ensured(h)
    /\ UNCHANGED <<phase, volume, claimed>>

\* No precondition on the status that was read: the claim is deleted as it is now.
DeleteClaim(h) ==
    /\ Goto(h, "delete", "recreate")
    /\ phase[At(h)] # "absent"
    /\ deleting' = deleting \union {At(h)}
    /\ UNCHANGED <<left, phase, volume, claimed>>

\* 404: the claim is gone already, and the trigger gives up.
DeleteNotFound(h) ==
    /\ Goto(h, "delete", "failed")
    /\ phase[At(h)] = "absent"
    /\ UNCHANGED <<left, cluster, claimed>>

\* An object that is still there, even one on its way out, answers 409.
ClaimCreated(h) ==
    phase' = [phase EXCEPT ![At(h)] = IF @ = "absent" THEN "Pending" ELSE @]

CreateClaim(h) ==
    /\ pc[h] \in {"create", "recreate"}
    /\ ClaimCreated(h)
    /\ doomed' = IF pc[h] = "recreate" /\ At(h) \in deleting
                   THEN doomed \union {At(h)} ELSE doomed
    /\ Ensured(h)
    /\ UNCHANGED <<deleting, volume, unlucky>>

-----------------------------------------------------------------------------
(* ensure_ginger_token_secret, ensure_deployment_target_secret, transform_task *)

TokenGiven(h)  == round[h] > 0 \/ pc[h] \in {"deploy", "task", "run"}
TargetGiven(h) == round[h] > 0 \/ pc[h] \in {"task", "run"}
TaskGiven(h)   == round[h] > 0 \/ pc[h] = "run"

\* A forced server-side apply: the last one wins, whatever it read.
TokenApplied(h) ==
    /\ secret' = [secret EXCEPT !.token = token[h]]
    /\ overwritten' = overwritten \union {g \in Triggers : TokenGiven(g) /\ token[g] > token[h]}
    /\ UNCHANGED <<retargeted, misled>>

AfterToken(h) == IF h \in Hooks THEN "deploy" ELSE IF h \in Calls THEN "task" ELSE "run"

\* Mutant of ApplyToken: a secret that is there already is left alone.
ApplyTokenOnce(h) ==
    /\ Goto(h, "secret", AfterToken(h))
    /\ IF secret.token = None THEN TokenApplied(h) ELSE UNCHANGED <<secret, replaced>>
    /\ UNCHANGED <<left, round, reading>>

ApplyToken(h) ==
    /\ Goto(h, "secret", AfterToken(h))
    /\ TokenApplied(h)
    /\ UNCHANGED <<left, round, reading>>

\* Mutant of SecretName: one secret for all branches.
OneSecret(b) == Sanitised[CHOOSE d \in Branches : TRUE]

SecretName(b) == Sanitised[b]

\* Without a target the secret is left as it is.
TargetApplied(h) ==
    /\ secret' = IF target[h] = {} THEN secret
                 ELSE [secret EXCEPT !.target[SecretName(Branch[h])] = target[h]]
    /\ retargeted' = IF target[h] = {} THEN retargeted
                     ELSE retargeted \union
                            {g \in Hooks : /\ TargetGiven(g)
                                           /\ Branch[g] # Branch[h]
                                           /\ Sanitised[Branch[g]] = Sanitised[Branch[h]]}
    /\ UNCHANGED <<overwritten, misled>>

ApplyTarget(h) ==
    /\ Goto(h, "deploy", "task")
    /\ TargetApplied(h)
    /\ UNCHANGED <<left, round, reading>>

\* The task has the same name in all branches; the placeholder in it becomes the name of the
\* secret of this trigger's branch.
TaskApplied(h) ==
    /\ secret' = [secret EXCEPT !.task = {SecretName(Branch[h])}]
    /\ misled' = misled \union {g \in Pipelines : /\ TaskGiven(g)
                                                /\ SecretName(Branch[g]) # SecretName(Branch[h])}
    /\ UNCHANGED <<overwritten, retargeted>>

\* A file that cannot be read is skipped with a warning, and by run-pipeline also one whose
\* application fails; the run is created all the same.
TaskSkipped(h) ==
    /\ "kube" \in setting.faults
    /\ misled' = misled \union {h}
    /\ UNCHANGED <<secret, overwritten, retargeted>>

ApplyTask(h) ==
    /\ Goto(h, "task", "run")
    /\ TaskApplied(h) \/ TaskSkipped(h)
    /\ UNCHANGED <<left, round, reading>>

-----------------------------------------------------------------------------
(* The rest of trigger_pipeline, handle_run_pipeline, handle_create_db_taskrun *)

\* A hook goes on with the next pipeline it triggers, with what it has read.
NextRound(h) ==
    LET last == round[h] + 1 = Rounds[h] IN
    /\ Goto(h, "run", IF last THEN "done" ELSE "volume")
    /\ left' = [left EXCEPT ![h] = IF last THEN {} ELSE Wanted(h)]
    /\ round' = [round EXCEPT ![h] = @ + 1]

CreateRun(h) ==
    /\ NextRound(h)
    /\ run' = [run EXCEPT ![h][round[h] + 1] = "created"]
    /\ UNCHANGED <<reading, secret, replaced, seen>>

\* An error of any call ends the trigger, and so does, for the endpoints, a client that leaves
\* or the death of the process; the call may have had its effect.
Fails(h) ==
    /\ \/ "kube" \in setting.faults
       \/ h \notin Hooks /\ {"leave", "restart"} \intersect setting.faults # {}
    /\ Active(h)
    /\ pc' = [pc EXCEPT ![h] = "failed"]
    /\ \/ UNCHANGED <<cluster, secret, replaced>>
       \/ /\ pc[h] = "apply" /\ VolumeApplied
          /\ UNCHANGED <<phase, deleting, secret, replaced>>
       \/ /\ pc[h] = "delete" /\ phase[At(h)] # "absent"
          /\ deleting' = deleting \union {At(h)}
          /\ UNCHANGED <<phase, volume, secret, replaced>>
       \/ /\ pc[h] \in {"create", "recreate"} /\ ClaimCreated(h)
          /\ UNCHANGED <<deleting, volume, secret, replaced>>
       \/ pc[h] = "secret" /\ TokenApplied(h) /\ UNCHANGED cluster
       \/ pc[h] = "deploy" /\ TargetApplied(h) /\ UNCHANGED cluster
       \/ pc[h] = "task" /\ TaskApplied(h) /\ UNCHANGED cluster
    /\ doomed' = IF \/ pc[h] = "delete" /\ deleting' # deleting
                    \/ /\ pc[h] = "recreate"
                       /\ At(h) \in deleting \/ phase'[At(h)] = "absent"
                   THEN doomed \union {At(h)} ELSE doomed
    /\ UNCHANGED <<left, round, reading, runs, unlucky>>

-----------------------------------------------------------------------------
(* The cluster *)

Bind(n) ==
    /\ phase[n] = "Pending"
    /\ n \notin deleting
    /\ n \in Static => volume = "Available"
    /\ phase' = [phase EXCEPT ![n] = "Bound"]
    /\ volume' = IF n \in Static THEN "Bound" ELSE volume
    /\ unlucky' = IF \E h \in Triggers : pc[h] = "delete" /\ At(h) = n
                    THEN unlucky \union {n} ELSE unlucky
    /\ UNCHANGED <<deleting, runs, doomed>>

InUse(n) == n \in Mounted /\ \E h \in Pipelines : \E i \in 1 .. Rounds[h] : run[h][i] = "running"

Remove(n) ==
    /\ n \in deleting
    /\ ~InUse(n)
    /\ phase' = [phase EXCEPT ![n] = "absent"]
    /\ deleting' = deleting \ {n}
    /\ volume' = IF n \in Static /\ phase[n] = "Bound" THEN "Released" ELSE volume
    /\ UNCHANGED <<runs, claimed>>

\* The target in the secret that the task refers to, whoever applied it.
TargetSeen(h) == IF h \in Pipelines THEN UNION {secret.target[n] : n \in secret.task} ELSE {}

\* The pods of a run wait for its claims, and read the secrets.
StartRun(h, i) ==
    /\ run[h][i] = "created"
    /\ h \in Pipelines => \A n \in Mounted : phase[n] = "Bound" /\ n \notin deleting
    /\ run' = [run EXCEPT ![h][i] = "running"]
    /\ seen' = [seen EXCEPT ![h][i] = [token |-> secret.token, target |-> TargetSeen(h)]]
    /\ UNCHANGED <<cluster, claimed>>

FinishRun(h, i) ==
    /\ run[h][i] = "running"
    /\ run' = [run EXCEPT ![h][i] = "finished"]
    /\ UNCHANGED <<seen, cluster, claimed>>

-----------------------------------------------------------------------------
(* Uploads of a token, and the push worker *)

\* write_pipeline_token, under the mutex: the file is truncated and then filled.
BeginUpload ==
    /\ upload = "idle"
    /\ issued < setting.tokens
    /\ upload' = "writing"
    /\ tree' = Torn
    /\ issued' = issued + 1
    /\ UNCHANGED <<head, abandoned>>

\* The client has left: the mutex is free, the write goes on in its thread.
ClientLeaves ==
    /\ "leave" \in setting.faults
    /\ upload = "writing"
    /\ upload' = "left"
    /\ abandoned' = TRUE
    /\ UNCHANGED <<tree, head, issued>>

FinishUpload ==
    /\ upload \in {"writing", "left"}
    /\ upload' = "idle"
    /\ tree' = issued
    /\ UNCHANGED <<head, issued, abandoned>>

\* The write fails after the file was truncated: the handler answers 500 and frees the mutex.
UploadFails ==
    /\ "io" \in setting.faults
    /\ upload \in {"writing", "left"}
    /\ upload' = "idle"
    /\ abandoned' = TRUE
    /\ UNCHANGED <<tree, head, issued>>

\* The server dies, and with it its handlers and the upload; it starts from a new clone, or in
\* the old one, where reset --hard keeps a file that was never committed.
Restart ==
    /\ "restart" \in setting.faults
    /\ \A h \in Calls \union Migrations : ~Active(h)
    /\ upload' = "idle"
    /\ abandoned' = (abandoned \/ upload # "idle")
    /\ tree' \in {head, IF head = None THEN tree ELSE head}
    /\ UNCHANGED <<head, issued>>

\* Mutant of Push: the worker does not take the mutex.
PushAnyTime ==
    /\ head' = tree
    /\ UNCHANGED <<tree, upload, issued, abandoned>>

\* A cycle of the push worker, under the mutex.
Push ==
    /\ upload # "writing"
    /\ head' = tree
    /\ UNCHANGED <<tree, upload, issued, abandoned>>

-----------------------------------------------------------------------------
Reads(h)    == ReadTarget(h) \/ ReadToken(h)
Secrets(h)  == ApplyToken(h) \/ ApplyTarget(h) \/ ApplyTask(h)
Provides(h) ==
    \/ FindVolume(h) \/ ApplyVolume(h)
    \/ ClaimBound(h) \/ ClaimUnbound(h) \/ ClaimMissing(h)
    \/ DeleteClaim(h) \/ DeleteNotFound(h) \/ CreateClaim(h)

Trigger(h) ==
    /\ UNCHANGED <<setting, admin, abandoned>>
    /\ \/ (Reads(h) \/ Secrets(h)) /\ UNCHANGED <<cluster, claimed, runs>>
       \/ Provides(h) /\ UNCHANGED <<round, reading, secret, replaced, runs>>
       \/ CreateRun(h) /\ UNCHANGED <<cluster, claimed>>

\* What the cluster does not touch.
Outside == UNCHANGED <<setting, admin, abandoned, pc, left, round, reading, secret, replaced>>

Runs(h)    == Outside /\ \E i \in 1 .. Rounds[h] : StartRun(h, i) \/ FinishRun(h, i)
Volumes(n) == Outside /\ (Bind(n) \/ Remove(n))

Uploads ==
    /\ BeginUpload \/ ClientLeaves \/ FinishUpload \/ UploadFails \/ Restart \/ Push
    /\ UNCHANGED <<setting, cluster, pc, left, round, reading, secret, replaced, claimed, runs>>

Next ==
    \/ \E h \in Triggers : Trigger(h) \/ Runs(h)
    \/ \E h \in Triggers : Fails(h) /\ UNCHANGED <<setting, admin, abandoned>>
    \/ \E n \in Claims : Volumes(n)
    \/ Uploads

Spec == Init /\ [][Next]_vars

\* A storage class may wait for a pod before it binds a claim.
BindForRun(n) ==
    /\ \E h \in Pipelines : \E i \in 1 .. Rounds[h] : run[h][i] = "created"
    /\ Outside
    /\ Bind(n)

\* Triggers are loops without waiting, and the controllers of the cluster retry.
FairSpec ==
    /\ Spec
    /\ \A h \in Triggers : WF_vars(Trigger(h)) /\ WF_vars(Runs(h))
    /\ \A n \in Claims : WF_vars(BindForRun(n)) /\ WF_vars(Outside /\ Remove(n))
-----------------------------------------------------------------------------
(* Properties *)

\* Every variable keeps its type, a trigger in the middle of a claim has one, and only
\* claims that exist are being deleted (ensure_pvcs, for each pipeline again).
TypeOK ==
    /\ setting \in Settings
    /\ phase \in [Claims -> {"absent", "Pending", "Bound"}]
    /\ deleting \subseteq {n \in Claims : phase[n] # "absent"}
    /\ volume \in {"absent", "Available", "Bound", "Released"}
    /\ secret \in [token : Tokens, target : [SecretNames -> SUBSET Environments],
                   task : SUBSET SecretNames]
    /\ tree \in Tokens
    /\ head \in Tokens
    /\ upload \in {"idle", "writing", "left"}
    /\ issued \in 0 .. setting.tokens
    /\ pc \in [Triggers -> Steps]
    /\ left \in [Triggers -> SUBSET Claims]
    /\ round \in [Triggers -> Nat]
    /\ \A h \in Triggers :
          /\ left[h] \subseteq Wanted(h)
          /\ pc[h] \notin Ends \union {"secret", "deploy", "task", "run"} => left[h] # {}
          /\ IF pc[h] \in Ends THEN round[h] <= Rounds[h] ELSE round[h] < Rounds[h]
    /\ token \in [Triggers -> Tokens]
    /\ target \in [Triggers -> SUBSET Environments]
    /\ DOMAIN run = Triggers /\ DOMAIN seen = Triggers
    /\ \A h \in Triggers :
          /\ run[h] \in [1 .. Rounds[h] -> {"none", "created", "running", "finished"}]
          /\ seen[h] \in [1 .. Rounds[h] -> [token : Tokens, target : SUBSET Environments]]
    /\ unlucky \subseteq Claims /\ doomed \subseteq Claims
    /\ overwritten \subseteq Triggers /\ retargeted \subseteq Triggers /\ misled \subseteq Triggers
    /\ abandoned \in BOOLEAN

\* A claim with data in it is deleted, and the volume given up for good, only
\* if the claim was bound after a trigger had read Pending and before its delete
\* arrived: none of the later rounds and triggers takes a bound claim for a
\* stuck one (the "Bound" arm of ensure_single_pvc_async).
BoundSurvives ==
    /\ \A n \in deleting \ unlucky : phase[n] # "Bound"
    /\ volume = "Released" => Static \intersect unlucky # {}

\* Once the triggers are done and the deletions over, the claims that a created
\* run mounts are there, however many triggers took them for stuck at the same time,
\* unless a trigger that deleted one did not recreate it: create answered 409 for
\* the very object that was on its way out, or the trigger failed half-way (the
\* delete and create of ensure_single_pvc_async).
MissingOnlyIfDoomed ==
    /\ \A h \in Triggers : ~Active(h)
    /\ \E h \in Pipelines : round[h] > 0
    /\ deleting = {}
    => \A n \in Mounted \ doomed : phase[n] # "absent"

\* A run starts with the token its trigger has read, or a newer one, unless another trigger
\* that had read an older one applied that to the namespace in between
\* (ensure_ginger_token_secret replaces the secret each time).
TokenKept ==
    \A h \in Triggers : \A i \in 1 .. Rounds[h] :
        run[h][i] \in {"running", "finished"} =>
            seen[h][i].token >= token[h] \/ h \in overwritten

\* A file caught between its truncation and its contents reaches a namespace only
\* through a migration, which reads the working tree without the mutex
\* (handle_create_db_taskrun), or after an upload was left half-way: by a client that went and
\* freed the mutex under the write, by a write that failed, or by a death of the server from
\* which the file, never committed, survived (write_pipeline_token, GitoliteAdmin::init).
TornOnlyUnguarded ==
    secret.token = Torn =>
        \E h \in Triggers : token[h] = Torn /\ (h \in Migrations \/ abandoned)

\* A run deploys to a target that is not in the file of its own branch only if another
\* trigger applied the task, which is one for all branches, with another secret's name after
\* its own did, or its own skipped it; or if another branch has a secret of the same name
\* after sanitize_secret_name, and the hook of its own branch found no target or the other
\* hook's came later (trigger_pipeline, transform_task; the three conversions of a branch name
\* differ: sanitise_filename, the path a hook reads, sanitize_secret_name).
OwnTarget ==
    \A h \in Pipelines : \A i \in 1 .. Rounds[h] :
        \/ seen[h][i].target \subseteq TargetsOf(Branch[h])
        \/ h \in misled
        \/ /\ \E k \in Hooks : /\ Branch[k] # Branch[h]
                               /\ Sanitised[Branch[k]] = Sanitised[Branch[h]]
           /\ h \in retargeted \/ target[h] = {}

\* A run that was created starts, unless a claim of it was doomed and is gone or
\* its volume was released: triggers that recreate each other's claims come to an end and
\* leave claims the cluster can bind (trigger_pipeline ensures before it creates).
RunsStart ==
    \A h \in Triggers : \A i \in 1 .. Rounds[h] :
        run[h][i] = "created" ~>
            \/ run[h][i] # "created"
            \/ \E n \in doomed : phase[n] = "absent"
            \/ volume = "Released"
=============================================================================
