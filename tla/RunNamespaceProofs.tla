------------------------- MODULE RunNamespaceProofs -------------------------
(***************************************************************************)
(* Proofs about RunNamespace for any triggers, rounds, claims, branches    *)
(* and tokens.                                                             *)
(***************************************************************************)
EXTENDS RunNamespace, WellFoundedInduction, TLAPS

ClaimSteps == {"get", "delete", "create", "recreate"}
Supplying  == {"secret", "deploy", "task", "run"}

\* What the program counter of a trigger says about the rest of it.
Placed ==
    \A h \in Triggers :
        /\ pc[h] \in {"target", "token"} => round[h] = 0 /\ token[h] = None
        /\ pc[h] \in {"target", "deploy"} => h \in Hooks
        /\ pc[h] = "task" => h \in Pipelines
        /\ pc[h] \in Supplying => left[h] = {}
        /\ target[h] # {} => h \in Hooks /\ target[h] \subseteq TargetsOf(Branch[h])
        /\ \A i \in 1 .. Rounds[h] : run[h][i] # "none" => round[h] > 0

-----------------------------------------------------------------------------
LEMMA Least ==
    ASSUME NEW S \in SUBSET Nat, S # {}
    PROVE  \E n \in S : \A m \in S : n <= m
<1>1. PICK n \in S : \A m \in S : ~(<<m, n>> \in OpToRel(<, Nat))
  BY WFMin, NatLessThanWellFounded, Zenon
<1>2. ASSUME NEW m \in S
      PROVE  n <= m
  <2>1. m \in Nat /\ n \in Nat
    OBVIOUS
  <2>2. ~(m < n)
    BY <1>1, <2>1, Zenon DEF OpToRel
  <2>3. QED
    BY <2>1, <2>2
<1>3. QED
  BY <1>2

\* A trigger in the middle of its claims is about one of them.
LEMMA AtIsLeft ==
    ASSUME TypeOK, NEW h \in Triggers, pc[h] \in ClaimSteps
    PROVE  At(h) \in left[h] /\ At(h) \in Claims /\ left[h] \subseteq Claims
<1>1. left[h] # {} /\ left[h] \subseteq Claims
  BY DEF TypeOK, ClaimSteps, Ends
<1>2. left[h] \in SUBSET Nat
  BY <1>1, NamespaceAssumption DEF Claims
<1>3. \E n \in left[h] : \A m \in left[h] : n <= m
  BY <1>1, <1>2, Least
<1>4. QED
  BY <1>1, <1>3 DEF At

LEMMA WantedIsSome ==
    ASSUME NEW h \in Triggers
    PROVE  Wanted(h) # {} /\ Wanted(h) \subseteq Claims
BY NamespaceAssumption DEF Wanted, Claims

-----------------------------------------------------------------------------
(* Type correctness *)

\* The parts of TypeOK.
ClusterOK ==
    /\ phase \in [Claims -> {"absent", "Pending", "Bound"}]
    /\ deleting \subseteq {n \in Claims : phase[n] # "absent"}
    /\ volume \in {"absent", "Available", "Bound", "Released"}
SecretOK == secret \in [token : Tokens, target : [SecretNames -> SUBSET Environments],
                       task : SUBSET SecretNames]
AdminOK ==
    /\ tree \in Tokens
    /\ head \in Tokens
    /\ upload \in {"idle", "writing", "left"}
    /\ issued \in 0 .. setting.tokens
    /\ abandoned \in BOOLEAN
TriggersOK ==
    /\ pc \in [Triggers -> Steps]
    /\ left \in [Triggers -> SUBSET Claims]
    /\ round \in [Triggers -> Nat]
    /\ \A h \in Triggers :
          /\ left[h] \subseteq Wanted(h)
          /\ pc[h] \notin Ends \union {"secret", "deploy", "task", "run"} => left[h] # {}
          /\ IF pc[h] \in Ends THEN round[h] <= Rounds[h] ELSE round[h] < Rounds[h]
    /\ token \in [Triggers -> Tokens]
    /\ target \in [Triggers -> SUBSET Environments]
RunsOK ==
    /\ DOMAIN run = Triggers /\ DOMAIN seen = Triggers
    /\ \A h \in Triggers :
          /\ run[h] \in [1 .. Rounds[h] -> {"none", "created", "running", "finished"}]
          /\ seen[h] \in [1 .. Rounds[h] -> [token : Tokens, target : SUBSET Environments]]
HistoryOK ==
    /\ unlucky \subseteq Claims /\ doomed \subseteq Claims
    /\ overwritten \subseteq Triggers /\ retargeted \subseteq Triggers /\ misled \subseteq Triggers

LEMMA TypeParts ==
    TypeOK <=> /\ setting \in Settings
               /\ ClusterOK /\ SecretOK /\ AdminOK /\ TriggersOK /\ RunsOK /\ HistoryOK
BY DEF TypeOK, ClusterOK, SecretOK, AdminOK, TriggersOK, RunsOK, HistoryOK

LEMMA InitTypeOK == Init => TypeOK /\ Placed
<1> SUFFICES ASSUME Init
             PROVE  TypeOK /\ Placed
  OBVIOUS
<1>1. /\ setting.triggers \subseteq Triggers /\ setting.tokens \in Nat \ {0}
      /\ \A h \in Triggers : Rounds[h] \in Nat \ {0}
  BY NamespaceAssumption DEF Init
<1>2. pc \in [Triggers -> Steps] /\ \A h \in Triggers : pc[h] \in {"done", "target", "token"}
  BY DEF Init, Steps, Ends
<1>3. \A h \in Triggers : pc[h] = "target" => h \in Hooks
  BY DEF Init
<1>4. {Torn, None, issued} \subseteq Tokens /\ issued \in {0, 1} /\ issued \in 0 .. setting.tokens
  BY <1>1 DEF Init, Tokens, None
<1>5. left \in [Triggers -> SUBSET Claims] /\ \A h \in Triggers : left[h] = Wanted(h) /\ left[h] # {}
  BY WantedIsSome DEF Init
<1>6. SecretOK
  <2>1. (IF setting.established THEN issued ELSE None) \in Tokens
    BY <1>4
  <2>2. [n \in SecretNames |-> {}] \in [SecretNames -> SUBSET Environments]
    OBVIOUS
  <2>3. (IF setting.established THEN {{n} : n \in SecretNames} ELSE {{}}) \subseteq SUBSET SecretNames
    OBVIOUS
  <2>4. QED
    BY <2>1, <2>2, <2>3 DEF Init, SecretOK
<1>7. /\ DOMAIN run = Triggers /\ DOMAIN seen = Triggers
      /\ \A h \in Triggers :
            /\ run[h] \in [1 .. Rounds[h] -> {"none"}]
            /\ seen[h] \in [1 .. Rounds[h] -> [token : Tokens, target : SUBSET Environments]]
  BY <1>4 DEF Init
<1>8. TypeOK
  <2>1. ClusterOK
    <3>1. phase \in [Claims -> {"absent", "Pending", "Bound"}] /\ deleting = {}
      BY DEF Init
    <3>2. volume \in {"absent", "Bound"}
      BY DEF Init
    <3>3. QED
      BY <3>1, <3>2 DEF ClusterOK
  <2>2. SecretOK /\ AdminOK
    <3>1. tree = issued /\ head = issued /\ upload = "idle" /\ abandoned = FALSE
      BY DEF Init
    <3>2. AdminOK
      BY <1>4, <3>1 DEF AdminOK
    <3>3. QED
      BY <1>6, <3>2
  <2>3. TriggersOK
    <3>1. \A h \in Triggers : round[h] = 0 /\ 0 < Rounds[h] /\ 0 <= Rounds[h]
      BY <1>1 DEF Init
    <3>2. token \in [Triggers -> Tokens]
      BY <1>4 DEF Init
    <3>3. round \in [Triggers -> Nat] /\ target \in [Triggers -> SUBSET Environments]
      BY DEF Init
    <3>4. \A h \in Triggers : IF pc[h] \in Ends THEN round[h] <= Rounds[h] ELSE round[h] < Rounds[h]
      BY <3>1
    <3>5. QED
      BY <1>2, <1>5, <3>2, <3>3, <3>4 DEF TriggersOK
  <2>4. RunsOK
    BY <1>7 DEF RunsOK
  <2>5. QED
    BY <2>1, <2>2, <2>3, <2>4, TypeParts DEF Init, HistoryOK
<1>9. Placed
  BY <1>2, <1>3, <1>7 DEF Init, Placed, Supplying
<1>10. QED
  BY <1>8, <1>9

LEMMA ClusterStep == TypeOK /\ [Next]_vars => ClusterOK'
<1> SUFFICES ASSUME TypeOK, [Next]_vars
             PROVE  ClusterOK'
  OBVIOUS
<1> USE TypeParts DEF ClusterOK, Goto, cluster, claimed
<1>1. ASSUME UNCHANGED cluster
      PROVE  ClusterOK'
  BY <1>1
<1>2. ASSUME NEW h \in Triggers, Provides(h)
      PROVE  ClusterOK'
  <2>1. CASE FindVolume(h) \/ ClaimBound(h) \/ ClaimUnbound(h) \/ ClaimMissing(h) \/ DeleteNotFound(h)
    BY <1>1, <2>1 DEF FindVolume, ClaimBound, ClaimUnbound, ClaimMissing, DeleteNotFound
  <2>2. CASE ApplyVolume(h)
    BY <2>2 DEF ApplyVolume, VolumeApplied
  <2>3. CASE DeleteClaim(h)
    <3>1. At(h) \in Claims
      BY <2>3, AtIsLeft DEF DeleteClaim, ClaimSteps
    <3>2. QED
      BY <2>3, <3>1 DEF DeleteClaim
  <2>4. CASE CreateClaim(h)
    BY <2>4 DEF CreateClaim, ClaimCreated
  <2>5. QED
    BY <1>2, <2>1, <2>2, <2>3, <2>4 DEF Provides
<1>3. ASSUME NEW h \in Triggers, Fails(h)
      PROVE  ClusterOK'
  <2>1. CASE pc[h] = "delete" /\ phase[At(h)] # "absent" /\ deleting' = deleting \union {At(h)}
             /\ UNCHANGED <<phase, volume>>
    BY <2>1, AtIsLeft DEF ClaimSteps
  <2>2. CASE ClaimCreated(h) /\ UNCHANGED <<deleting, volume>>
    BY <2>2 DEF ClaimCreated
  <2>3. CASE VolumeApplied /\ UNCHANGED <<phase, deleting>>
    BY <2>3 DEF VolumeApplied
  <2>4. QED
    BY <1>1, <1>3, <2>1, <2>2, <2>3 DEF Fails
<1>4. ASSUME NEW n \in Claims, Bind(n) \/ Remove(n)
      PROVE  ClusterOK'
  BY <1>4 DEF Bind, Remove
<1>5. ASSUME NEW h \in Triggers, Trigger(h)
      PROVE  ClusterOK'
  BY <1>1, <1>2, <1>5 DEF Trigger
<1>6. ASSUME NEW h \in Triggers, Runs(h)
      PROVE  ClusterOK'
  BY <1>1, <1>6 DEF Runs, StartRun, FinishRun
<1>7. ASSUME Uploads \/ UNCHANGED vars
      PROVE  ClusterOK'
  BY <1>1, <1>7 DEF Uploads, vars
<1>8. QED
  BY <1>3, <1>4, <1>5, <1>6, <1>7 DEF Next, Volumes

LEMMA AdminStep == TypeOK /\ [Next]_vars => AdminOK' /\ setting' = setting /\ Tokens \subseteq Tokens'
<1> SUFFICES ASSUME TypeOK, [Next]_vars
             PROVE  AdminOK' /\ setting' = setting /\ Tokens \subseteq Tokens'
  OBVIOUS
<1>0. setting.tokens \in Nat
  BY NamespaceAssumption, TypeParts
<1> USE <1>0, TypeParts DEF AdminOK, Tokens, Torn, None
<1>1. ASSUME UNCHANGED <<setting, admin, abandoned>>
      PROVE  AdminOK' /\ setting' = setting /\ Tokens \subseteq Tokens'
  BY <1>1 DEF admin
<1>2. ASSUME Uploads
      PROVE  AdminOK' /\ setting' = setting /\ Tokens \subseteq Tokens'
  <2>1. setting' = setting
    BY <1>2 DEF Uploads
  <2>2. CASE BeginUpload
    BY <2>1, <2>2 DEF BeginUpload
  <2>3. CASE ClientLeaves
    BY <2>1, <2>3 DEF ClientLeaves
  <2>4. CASE FinishUpload
    BY <2>1, <2>4 DEF FinishUpload
  <2>5. CASE Push
    BY <2>1, <2>5 DEF Push
  <2>6. CASE UploadFails
    BY <2>1, <2>6 DEF UploadFails
  <2>7. CASE Restart
    BY <2>1, <2>7 DEF Restart
  <2>8. QED
    BY <1>2, <2>2, <2>3, <2>4, <2>5, <2>6, <2>7 DEF Uploads
<1>3. QED
  BY <1>1, <1>2 DEF Next, vars, Trigger, Runs, Volumes, Outside, admin

LEMMA SecretStep == TypeOK /\ Placed /\ Tokens \subseteq Tokens' /\ [Next]_vars => SecretOK'
<1> SUFFICES ASSUME TypeOK, Placed, Tokens \subseteq Tokens', [Next]_vars
             PROVE  SecretOK'
  OBVIOUS
<1> USE TypeParts DEF SecretOK, Goto, cluster, replaced
<1>1. CASE UNCHANGED secret
  BY <1>1
<1>2. ASSUME NEW h \in Triggers, TokenApplied(h)
      PROVE  SecretOK'
  <2>1. token[h] \in Tokens'
    BY DEF TriggersOK
  <2>2. QED
    BY <1>2, <2>1 DEF TokenApplied
<1>3. ASSUME NEW h \in Triggers, TargetApplied(h)
      PROVE  SecretOK'
  <2>1. target[h] \in SUBSET Environments
    BY DEF TriggersOK
  <2>2. secret.target' \in [SecretNames -> SUBSET Environments] /\ secret.token' = secret.token
    BY <1>3, <2>1 DEF TargetApplied
  <2>3. secret' = secret \/ secret' = [secret EXCEPT !.target = secret.target']
    BY <1>3 DEF TargetApplied
  <2>4. QED
    BY <2>2, <2>3
<1>4. ASSUME NEW h \in Triggers, pc[h] = "task", TaskApplied(h)
      PROVE  SecretOK'
  <2>1. SecretName(Branch[h]) \in SecretNames
    BY <1>4, NamespaceAssumption DEF Placed, SecretName, SecretNames
  <2>2. QED
    BY <1>4, <2>1 DEF TaskApplied
<1>5. ASSUME NEW h \in Triggers, Trigger(h)
      PROVE  SecretOK'
  BY <1>1, <1>2, <1>3, <1>5, <1>4 DEF Trigger, Reads, ReadTarget, ReadToken, Secrets, ApplyToken, ApplyTarget, ApplyTask,
     TaskSkipped, CreateRun
<1>6. ASSUME NEW h \in Triggers, Fails(h)
      PROVE  SecretOK'
  BY <1>1, <1>2, <1>3, <1>6, <1>4 DEF Fails
<1>7. ASSUME UNCHANGED vars \/ Uploads \/ (\E h \in Triggers : Runs(h)) \/ \E n \in Claims : Volumes(n)
      PROVE  SecretOK'
  BY <1>1, <1>7 DEF vars, Uploads, Runs, Volumes, Outside
<1>8. QED
  BY <1>5, <1>6, <1>7 DEF Next

\* The ways a trigger goes on.
Moves(h) ==
    \* It reads, looks at a claim or a volume, or gives up.
    \/ /\ UNCHANGED <<left, round>>
       /\ pc'[h] \in {"failed", "token", "volume", "apply", "get", "delete", "create", "recreate"}
       /\ pc'[h] = "failed" \/ pc[h] \notin Supplying
    \* It is done with a claim.
    \/ /\ pc[h] \in ClaimSteps
       /\ UNCHANGED round
       /\ left' = [left EXCEPT ![h] = left[h] \ {At(h)}]
       /\ pc'[h] = IF left[h] = {At(h)} THEN "secret" ELSE "get"
    \* It has applied a secret or the task.
    \/ /\ pc[h] \in {"secret", "deploy", "task"}
       /\ UNCHANGED <<left, round>>
       /\ \/ pc'[h] = "run"
          \/ pc'[h] = "deploy" /\ h \in Hooks
          \/ pc'[h] = "task" /\ (pc[h] = "deploy" \/ h \in Pipelines)
    \* It has created a run.
    \/ /\ pc[h] = "run"
       /\ round' = [round EXCEPT ![h] = round[h] + 1]
       /\ \/ /\ round[h] + 1 = Rounds[h]
             /\ pc'[h] = "done" /\ left' = [left EXCEPT ![h] = {}]
          \/ /\ round[h] + 1 # Rounds[h]
             /\ pc'[h] = "volume" /\ left' = [left EXCEPT ![h] = Wanted(h)]

LEMMA TriggerMoves ==
    ASSUME TypeOK, NEW h \in Triggers, Trigger(h) \/ Fails(h)
    PROVE  /\ pc[h] \notin Ends
           /\ \E s \in Steps : pc' = [pc EXCEPT ![h] = s]
           /\ Moves(h)
           /\ pc[h] # "target" => UNCHANGED target
           /\ pc[h] # "token" => UNCHANGED token
           /\ pc[h] = "target" => pc'[h] \in {"token", "failed"}
           /\ pc'[h] = "token" => pc[h] = "target"
<1> USE TypeParts DEF TriggersOK, Goto, Moves, Steps, Ends, Supplying, ClaimSteps, reading, runs, cluster
<1>1. CASE Fails(h)
  BY <1>1 DEF Fails, Active
<1>2. CASE ReadTarget(h)
  BY <1>2 DEF ReadTarget
<1>3. CASE ReadToken(h)
  BY <1>3 DEF ReadToken
<1>4. CASE ApplyToken(h)
  BY <1>4 DEF ApplyToken, AfterToken, Pipelines
<1>5. CASE ApplyTarget(h) \/ ApplyTask(h)
  BY <1>5 DEF ApplyTarget, ApplyTask
<1>6. CASE Provides(h) /\ UNCHANGED <<round, reading>>
  <2>1. CASE FindVolume(h) \/ ApplyVolume(h) \/ ClaimUnbound(h) \/ ClaimMissing(h) \/ DeleteClaim(h) \/ DeleteNotFound(h)
    BY <1>6, <2>1 DEF FindVolume, ApplyVolume, ClaimUnbound, ClaimMissing, DeleteClaim, DeleteNotFound
  <2>2. CASE ClaimBound(h) \/ CreateClaim(h)
    BY <1>6, <2>2 DEF ClaimBound, CreateClaim, Ensured
  <2>3. QED
    BY <1>6, <2>1, <2>2 DEF Provides
<1>7. CASE CreateRun(h)
  BY <1>7 DEF CreateRun, NextRound
<1>8. QED
  BY <1>1, <1>2, <1>3, <1>4, <1>5, <1>6, <1>7 DEF Trigger, Reads, Secrets

LEMMA TriggersStep == TypeOK /\ Tokens \subseteq Tokens' /\ [Next]_vars => TriggersOK'
<1> SUFFICES ASSUME TypeOK, Tokens \subseteq Tokens', [Next]_vars
             PROVE  TriggersOK'
  OBVIOUS
<1>0. \A h \in Triggers : Rounds[h] \in Nat \ {0}
  BY NamespaceAssumption
<1>1. ASSUME NEW h \in Triggers, Trigger(h) \/ Fails(h)
      PROVE  TriggersOK'
  <2>1. pc' \in [Triggers -> Steps]
    BY <1>1, TriggerMoves, TypeParts DEF TriggersOK
  <2>2. /\ left' \in [Triggers -> SUBSET Claims] /\ round' \in [Triggers -> Nat]
        /\ \A g \in Triggers \ {h} : pc'[g] = pc[g] /\ left'[g] = left[g] /\ round'[g] = round[g]
    BY <1>1, TriggerMoves, TypeParts, WantedIsSome DEF TriggersOK, Moves
  <2>3. left'[h] \subseteq Wanted(h)
    BY <1>1, TriggerMoves, TypeParts DEF TriggersOK, Moves
  <2>4. pc'[h] \notin Ends \union Supplying => left'[h] # {}
    <3>1. pc[h] \notin Ends \union Supplying => left[h] # {}
      BY TypeParts DEF TriggersOK, Supplying
    <3>2. pc[h] \in ClaimSteps => At(h) \in left[h]
      BY AtIsLeft
    <3>3. QED
      BY <1>1, <3>1, <3>2, TriggerMoves, TypeParts, WantedIsSome DEF TriggersOK, Moves, Ends, Supplying
  <2>5. IF pc'[h] \in Ends THEN round'[h] <= Rounds[h] ELSE round'[h] < Rounds[h]
    <3>1. round[h] \in Nat /\ round[h] < Rounds[h]
      BY <1>1, TriggerMoves, TypeParts DEF TriggersOK
    <3>2. CASE UNCHANGED round
      BY <1>0, <3>1, <3>2
    <3>3. CASE round'[h] = round[h] + 1 /\ (pc'[h] = "done" \/ round[h] + 1 # Rounds[h])
      BY <1>0, <3>1, <3>3 DEF Ends
    <3>4. QED
      BY <1>1, <3>2, <3>3, TriggerMoves, TypeParts DEF TriggersOK, Moves
  <2>6. token' \in [Triggers -> Tokens'] /\ target' \in [Triggers -> SUBSET Environments]
    <3>1. CASE ReadToken(h)
      BY <3>1, TypeParts DEF ReadToken, AdminOK, TriggersOK
    <3>2. CASE ReadTarget(h)
      <4>1. PICK t \in SUBSET (setting.targets \intersect TargetsOf(Branch[h])) : target' = [target EXCEPT ![h] = t]
        BY <3>2 DEF ReadTarget
      <4>2. t \in SUBSET Environments
        BY <4>1 DEF TargetsOf
      <4>3. token' = token
        BY <3>2 DEF ReadTarget
      <4>4. QED
        BY <4>1, <4>2, <4>3, TypeParts DEF TriggersOK
    <3>3. CASE UNCHANGED <<token, target>>
      BY <3>3, TypeParts DEF TriggersOK
    <3>4. QED
      BY <1>1, <3>1, <3>2, <3>3
         DEF Trigger, Fails, Reads, Secrets, ApplyToken, ApplyTarget, ApplyTask, CreateRun, reading
  <2>7. QED
    BY <2>1, <2>2, <2>3, <2>4, <2>5, <2>6, TypeParts DEF TriggersOK, Supplying
<1>2. CASE UNCHANGED <<pc, left, round, token, target>>
  BY <1>2, TypeParts DEF TriggersOK
<1>3. QED
  BY <1>1, <1>2 DEF Next, vars, Uploads, Runs, Volumes, Outside, reading

LEMMA RunsMove ==
    ASSUME TypeOK, [Next]_vars
    PROVE  \/ UNCHANGED runs
           \/ \E h \in Triggers : \E i \in 1 .. Rounds[h] :
                 \/ /\ CreateRun(h) /\ i = round[h] + 1
                    /\ run' = [run EXCEPT ![h][i] = "created"] /\ seen' = seen
                 \/ /\ Outside /\ run[h][i] = "created"
                    /\ run' = [run EXCEPT ![h][i] = "running"]
                    /\ seen' = [seen EXCEPT ![h][i] = [token |-> secret.token, target |-> TargetSeen(h)]]
                 \/ /\ Outside /\ run[h][i] = "running"
                    /\ run' = [run EXCEPT ![h][i] = "finished"] /\ seen' = seen
<1>1. ASSUME NEW h \in Triggers, CreateRun(h)
      PROVE  /\ run' = [run EXCEPT ![h][round[h] + 1] = "created"] /\ seen' = seen
             /\ round[h] + 1 \in 1 .. Rounds[h]
  <2>1. pc[h] = "run" /\ run' = [run EXCEPT ![h][round[h] + 1] = "created"] /\ seen' = seen
    BY <1>1 DEF CreateRun, NextRound, Goto
  <2>2. round[h] \in Nat /\ round[h] < Rounds[h] /\ Rounds[h] \in Nat
    BY <2>1, TypeParts, NamespaceAssumption DEF TriggersOK, Ends
  <2>3. QED
    BY <2>1, <2>2
<1>2. ASSUME NEW h \in Triggers, Trigger(h)
      PROVE  UNCHANGED runs \/ CreateRun(h)
  BY <1>2 DEF Trigger
<1>3. ASSUME NEW h \in Triggers, Runs(h)
      PROVE  /\ Outside
             /\ \E i \in 1 .. Rounds[h] :
                 \/ /\ run[h][i] = "created"
                    /\ run' = [run EXCEPT ![h][i] = "running"]
                    /\ seen' = [seen EXCEPT ![h][i] = [token |-> secret.token, target |-> TargetSeen(h)]]
                 \/ /\ run[h][i] = "running"
                    /\ run' = [run EXCEPT ![h][i] = "finished"] /\ seen' = seen
  BY <1>3 DEF Runs, StartRun, FinishRun
<1>4. ASSUME \/ \E h \in Triggers : Fails(h)
             \/ \E n \in Claims : Volumes(n)
             \/ Uploads \/ UNCHANGED vars
      PROVE  UNCHANGED runs
  BY <1>4 DEF Fails, Volumes, Bind, Remove, Uploads, vars, runs
<1>5. QED
  BY <1>1, <1>2, <1>3, <1>4 DEF Next

LEMMA RunsKept == TypeOK /\ Tokens \subseteq Tokens' /\ [Next]_vars => RunsOK'
<1> SUFFICES ASSUME TypeOK, Tokens \subseteq Tokens', [Next]_vars
             PROVE  RunsOK'
  OBVIOUS
<1>1. RunsOK
  BY TypeParts
<1>2. ASSUME NEW h \in Triggers, NEW i \in 1 .. Rounds[h], seen' = seen,
             NEW p \in {"created", "running", "finished"}, run' = [run EXCEPT ![h][i] = p]
      PROVE  RunsOK'
  BY <1>1, <1>2 DEF RunsOK
<1>3. ASSUME NEW h \in Triggers, NEW i \in 1 .. Rounds[h],
             run' = [run EXCEPT ![h][i] = "running"],
             seen' = [seen EXCEPT ![h][i] = [token |-> secret.token, target |-> TargetSeen(h)]]
      PROVE  RunsOK'
  <2>1. TargetSeen(h) \in SUBSET Environments /\ secret.token \in Tokens
    <3>1. secret.token \in Tokens /\ \A n \in secret.task : secret.target[n] \in SUBSET Environments
      BY TypeParts DEF SecretOK
    <3>2. QED
      BY <3>1 DEF TargetSeen
  <2>2. [token |-> secret.token, target |-> TargetSeen(h)] \in [token : Tokens', target : SUBSET Environments]
    BY <2>1
  <2>3. \A g \in Triggers : seen[g] \in [1 .. Rounds[g] -> [token : Tokens', target : SUBSET Environments]]
    BY <1>1 DEF RunsOK
  <2>4. QED
    BY <1>1, <1>3, <2>2, <2>3 DEF RunsOK
<1>4. CASE UNCHANGED runs
  <2>1. \A g \in Triggers : seen[g] \in [1 .. Rounds[g] -> [token : Tokens', target : SUBSET Environments]]
    BY <1>1 DEF RunsOK
  <2>2. QED
    BY <1>1, <1>4, <2>1 DEF RunsOK, runs
<1>5. QED
  BY <1>2, <1>3, <1>4, RunsMove

LEMMA HistoryStep == TypeOK /\ [Next]_vars => HistoryOK'
<1> SUFFICES ASSUME TypeOK, [Next]_vars
             PROVE  HistoryOK'
  OBVIOUS
<1> USE TypeParts DEF HistoryOK, claimed, replaced
<1>1. ASSUME NEW h \in Triggers, pc[h] \in ClaimSteps
      PROVE  At(h) \in Claims
  BY <1>1, AtIsLeft
<1>2. unlucky' \subseteq Claims
  <2>1. \/ unlucky' = unlucky
        \/ \E n \in Claims : unlucky' \subseteq unlucky \union {n}
    BY DEF Next, vars, Trigger, Fails, Runs, StartRun, FinishRun, Volumes, Bind, Remove, Uploads, Provides,
           FindVolume, ApplyVolume, ClaimBound, ClaimUnbound, ClaimMissing, DeleteClaim, DeleteNotFound,
           CreateClaim
  <2>2. QED
    BY <2>1
<1>3. doomed' \subseteq Claims
  <2>1. \/ doomed' = doomed
        \/ \E h \in Triggers : pc[h] \in ClaimSteps /\ doomed' = doomed \union {At(h)}
    BY DEF Next, vars, Trigger, Fails, Runs, StartRun, FinishRun, Volumes, Bind, Remove, Uploads, Provides,
           FindVolume, ApplyVolume, ClaimBound, ClaimUnbound, ClaimMissing, DeleteClaim, DeleteNotFound,
           CreateClaim, ClaimSteps
  <2>2. QED
    BY <1>1, <2>1
<1>4. overwritten' \subseteq Triggers /\ retargeted' \subseteq Triggers /\ misled' \subseteq Triggers
  <2>1. \/ UNCHANGED replaced
        \/ \E h \in Triggers : TokenApplied(h) \/ TargetApplied(h) \/ TaskApplied(h) \/ TaskSkipped(h)
    BY DEF Next, vars, Trigger, Fails, Runs, Volumes, Uploads, Outside, Reads, ReadTarget, ReadToken,
           Secrets, ApplyToken, ApplyTarget, ApplyTask, CreateRun
  <2>2. QED
    BY <2>1 DEF TokenApplied, TargetApplied, TaskApplied, TaskSkipped, Triggers, Pipelines
<1>5. QED
  BY <1>2, <1>3, <1>4

LEMMA TypeStep == TypeOK /\ Placed /\ [Next]_vars => TypeOK' /\ setting' = setting
<1> SUFFICES ASSUME TypeOK, Placed, [Next]_vars
             PROVE  TypeOK' /\ setting' = setting
  OBVIOUS
<1>1. /\ setting' = setting
      /\ ClusterOK' /\ SecretOK' /\ AdminOK' /\ TriggersOK' /\ RunsOK' /\ HistoryOK'
  BY ClusterStep, AdminStep, SecretStep, TriggersStep, RunsKept, HistoryStep
<1>2. setting \in Settings
  BY TypeParts
<1>3. QED
  BY <1>1, <1>2 DEF TypeOK, ClusterOK, SecretOK, AdminOK, TriggersOK, RunsOK, HistoryOK

LEMMA PlacedStep == TypeOK /\ Placed /\ [Next]_vars => Placed'
<1> SUFFICES ASSUME TypeOK, Placed, [Next]_vars
             PROVE  Placed'
  OBVIOUS
<1>1. ASSUME NEW h \in Triggers, Trigger(h) \/ Fails(h)
      PROVE  Placed'
  <2>1. /\ \A g \in Triggers \ {h} : /\ pc'[g] = pc[g] /\ left'[g] = left[g] /\ round'[g] = round[g]
                                    /\ token'[g] = token[g] /\ target'[g] = target[g]
    BY <1>1, TriggerMoves, TypeParts
       DEF TriggersOK, Moves, Trigger, Fails, Reads, Secrets, ReadToken, ReadTarget, ApplyToken, ApplyTarget, ApplyTask,
           CreateRun, reading
  <2>2. pc'[h] \in {"target", "token"} => round'[h] = 0 /\ token'[h] = None
    BY <1>1, TriggerMoves, TypeParts DEF TriggersOK, Moves, Placed, ClaimSteps
  <2>3. pc'[h] \in {"target", "deploy"} => h \in Hooks
    BY <1>1, TriggerMoves, TypeParts DEF TriggersOK, Moves, Placed
  <2>8. pc'[h] = "task" => h \in Pipelines
    BY <1>1, TriggerMoves, TypeParts DEF TriggersOK, Moves, Placed, Pipelines
  <2>4. pc'[h] \in Supplying => left'[h] = {}
    BY <1>1, TriggerMoves, TypeParts DEF TriggersOK, Moves, Placed, Supplying
  <2>5. target'[h] # {} => h \in Hooks /\ target'[h] \subseteq TargetsOf(Branch[h])
    <3>1. CASE ReadTarget(h)
      BY <3>1, TypeParts DEF ReadTarget, Goto, Placed, TriggersOK
    <3>2. CASE UNCHANGED target
      BY <3>2 DEF Placed
    <3>3. QED
      BY <1>1, <3>1, <3>2
         DEF Trigger, Fails, Reads, Secrets, ReadToken, ApplyToken, ApplyTarget, ApplyTask, CreateRun, reading
  <2>6. \A g \in Triggers : \A i \in 1 .. Rounds[g] : run'[g][i] # "none" => round'[g] > 0
    <3>1. \A g \in Triggers : round[g] \in Nat /\ (round[g] > 0 => round'[g] > 0)
      BY <1>1, TriggerMoves, TypeParts DEF TriggersOK, Moves
    <3>2. CASE UNCHANGED run
      BY <3>1, <3>2 DEF Placed
    <3>3. CASE CreateRun(h)
      <4>1. round'[h] > 0 /\ \A g \in Triggers \ {h} : run'[g] = run[g]
        BY <3>1, <3>3, TypeParts DEF CreateRun, NextRound, RunsOK, TriggersOK
      <4>2. QED
        BY <3>1, <4>1 DEF Placed
    <3>4. QED
      BY <1>1, <3>2, <3>3 DEF Trigger, Fails, runs
  <2>7. QED
    BY <2>1, <2>2, <2>3, <2>8, <2>4, <2>5, <2>6 DEF Placed
<1>2. CASE UNCHANGED <<pc, left, round, token, target>> /\ UNCHANGED run
  BY <1>2 DEF Placed
<1>3. ASSUME NEW h \in Triggers, NEW i \in 1 .. Rounds[h], Outside,
             run[h][i] # "none", NEW p \in {"running", "finished"}, run' = [run EXCEPT ![h][i] = p]
      PROVE  Placed'
  <2>1. \A g \in Triggers : \A j \in 1 .. Rounds[g] : run'[g][j] # "none" => run[g][j] # "none"
    BY <1>3, TypeParts DEF RunsOK
  <2>2. UNCHANGED <<pc, left, round, token, target>>
    BY <1>3 DEF Outside, reading
  <2>3. QED
    BY <2>1, <2>2 DEF Placed
<1>4. ASSUME NEW h \in Triggers, Runs(h)
      PROVE  Placed'
  BY <1>3, <1>4 DEF Runs, StartRun, FinishRun
<1>5. QED
  BY <1>1, <1>2, <1>4 DEF Next, vars, Uploads, Volumes, Bind, Remove, Outside, reading, runs

-----------------------------------------------------------------------------
(* Claims *)

\* A trigger about to delete a claim has seen it Pending, and so it is, but for bad luck.
AboutToDelete ==
    \A h \in Triggers :
        pc[h] = "delete" /\ At(h) \notin unlucky => phase[At(h)] # "Bound"

Provided(n)   == \E h \in Pipelines : round[h] > 0 \/ n \notin left[h]
Recreating(n) == \E h \in Triggers : pc[h] = "recreate" /\ At(h) = n

\* Somebody is about to recreate a claim that is going, or that was provided and is gone.
GoneIsRecreated ==
    \A n \in Mounted \ doomed :
        n \in deleting \/ (phase[n] = "absent" /\ Provided(n)) => Recreating(n)

ClaimsInv == AboutToDelete /\ BoundSurvives /\ GoneIsRecreated

\* What triggers do to the claims, a call at a time.
LEMMA ClaimMoves ==
    ASSUME TypeOK, NEW h \in Triggers, Trigger(h) \/ Fails(h)
    PROVE  /\ unlucky' = unlucky
           /\ volume' \in {volume, "Available"}
           /\ \/ /\ UNCHANGED <<phase, deleting>> /\ doomed \subseteq doomed'
                 /\ pc[h] = "recreate" /\ pc'[h] = "failed" =>
                       (phase[At(h)] # "absent" /\ At(h) \notin deleting) \/ At(h) \in doomed'
                 /\ pc[h] = "recreate" => pc'[h] = "failed"
                 /\ left' # left /\ pc[h] # "run" => phase[At(h)] = "Bound"
                 /\ pc'[h] = "delete" => pc[h] = "get" /\ left' = left /\ phase[At(h)] = "Pending"
              \/ /\ pc[h] = "delete" /\ UNCHANGED <<phase, left, round>>
                 /\ deleting' = deleting \union {At(h)} /\ doomed \subseteq doomed'
                 /\ pc'[h] = "recreate" \/ At(h) \in doomed' \/ At(h) \in deleting
                 /\ pc'[h] # "delete"
              \/ /\ pc[h] \in {"create", "recreate"} /\ UNCHANGED <<deleting, round>>
                 /\ ClaimCreated(h) /\ doomed \subseteq doomed'
                 /\ pc[h] = "recreate" /\ At(h) \in deleting => At(h) \in doomed'
                 /\ pc'[h] \notin {"delete", "recreate"}
<1> USE TypeParts DEF Goto, cluster, claimed, Ensured, TriggersOK
<1>1. CASE Fails(h)
  <2>1. pc[h] = "delete" => At(h) \in Claims
    BY AtIsLeft DEF ClaimSteps
  <2>2. QED
    BY <1>1, <2>1 DEF Fails, ClaimCreated, VolumeApplied
<1>2. CASE FindVolume(h) \/ ApplyVolume(h)
  BY <1>2 DEF FindVolume, ApplyVolume, VolumeApplied
<1>3. CASE ClaimBound(h) \/ ClaimUnbound(h) \/ ClaimMissing(h) \/ DeleteNotFound(h)
  BY <1>3 DEF ClaimBound, ClaimUnbound, ClaimMissing, DeleteNotFound
<1>4. CASE DeleteClaim(h) /\ UNCHANGED round
  BY <1>4 DEF DeleteClaim
<1>5. CASE CreateClaim(h) /\ UNCHANGED round
  BY <1>5 DEF CreateClaim
<1>6. CASE (Reads(h) \/ Secrets(h)) /\ UNCHANGED <<cluster, claimed>>
  BY <1>6 DEF Reads, ReadTarget, ReadToken, Secrets, ApplyToken, ApplyTarget, ApplyTask, AfterToken
<1>7. CASE CreateRun(h) /\ UNCHANGED <<cluster, claimed>>
  BY <1>7 DEF CreateRun, NextRound
<1>8. QED
  BY <1>1, <1>2, <1>3, <1>4, <1>5, <1>6, <1>7 DEF Trigger, Provides

LEMMA ClaimsStep == TypeOK /\ Placed /\ ClaimsInv /\ [Next]_vars => ClaimsInv'
<1> SUFFICES ASSUME TypeOK, Placed, ClaimsInv, [Next]_vars
             PROVE  ClaimsInv'
  OBVIOUS
<1>0. /\ \A g \in Triggers : pc[g] \in ClaimSteps => At(g) \in Claims /\ At(g) \in left[g]
      /\ \A n \in deleting : phase[n] # "absent"
      /\ phase \in [Claims -> {"absent", "Pending", "Bound"}]
      /\ Mounted \subseteq Claims /\ Static \subseteq Claims
  BY AtIsLeft, TypeParts, NamespaceAssumption DEF ClusterOK, Claims
<1> USE DEF ClaimsInv
<1>1. ASSUME NEW h \in Triggers, Trigger(h) \/ Fails(h)
      PROVE  ClaimsInv'
  <2>1. \A g \in Triggers \ {h} : /\ pc'[g] = pc[g] /\ left'[g] = left[g] /\ round'[g] = round[g]
                                 /\ At(g)' = At(g)
    BY <1>1, TriggerMoves, TypeParts DEF TriggersOK, Moves, At
  <2>2. AboutToDelete'
    <3>1. \A n \in Claims : phase[n] # "Bound" => phase'[n] # "Bound"
      BY <1>0, <1>1, ClaimMoves DEF ClaimCreated
    <3>2. \A g \in Triggers \ {h} : pc'[g] = "delete" /\ At(g)' \notin unlucky' => phase'[At(g)'] # "Bound"
      BY <1>0, <1>1, <2>1, <3>1, ClaimMoves DEF AboutToDelete, ClaimSteps
    <3>3. pc'[h] = "delete" => phase'[At(h)'] # "Bound"
      BY <1>1, ClaimMoves DEF At
    <3>4. QED
      BY <3>2, <3>3 DEF AboutToDelete
  <2>3. BoundSurvives'
    <3>1. volume' = "Released" => volume = "Released"
      BY <1>1, ClaimMoves
    <3>2. ASSUME NEW n \in deleting' \ unlucky
          PROVE  phase'[n] # "Bound"
      <4>1. n \in Claims
        BY <1>0, <1>1, ClaimMoves, TypeParts DEF ClusterOK, ClaimSteps
      <4>2. phase[n] # "Bound"
        BY <1>1, <3>2, ClaimMoves DEF AboutToDelete, BoundSurvives
      <4>3. QED
        BY <1>0, <1>1, <4>1, <4>2, ClaimMoves DEF ClaimCreated
    <3>3. unlucky' = unlucky
      BY <1>1, ClaimMoves
    <3>4. QED
      BY <3>1, <3>2, <3>3 DEF BoundSurvives
  <2>4. GoneIsRecreated'
    <3> SUFFICES ASSUME NEW n \in Mounted \ doomed',
                        n \in deleting' \/ (phase'[n] = "absent" /\ Provided(n)')
                 PROVE  Recreating(n)'
      BY DEF GoneIsRecreated
    <3>1. n \in Claims /\ n \notin doomed
      BY <1>0, <1>1, ClaimMoves
    <3>2. Provided(n)' => Provided(n) \/ (pc[h] \in ClaimSteps /\ At(h) = n /\ left' # left)
      <4>1. ASSUME Provided(n)', ~Provided(n)
            PROVE  pc[h] \in ClaimSteps /\ At(h) = n /\ left' # left
        <5>1. /\ h \in Pipelines /\ round[h] = 0 /\ n \in left[h]
              /\ round'[h] > 0 \/ n \notin left'[h]
          BY <2>1, <4>1, TypeParts DEF Provided, TriggersOK, Triggers, Pipelines
        <5>2. pc[h] # "run"
          BY <5>1 DEF Placed, Supplying
        <5>3. QED
          BY <1>1, <5>1, <5>2, TriggerMoves, TypeParts DEF TriggersOK, Moves
      <4>2. QED
        BY <4>1
    <3>3. ASSUME NEW g \in Triggers, pc[g] = "recreate", At(g) = n, g # h
          PROVE  Recreating(n)'
      BY <2>1, <3>3 DEF Recreating
    <3>4. ASSUME Recreating(n) => pc[h] = "recreate" /\ At(h) = n
          PROVE  Recreating(n)'
      <4>1. CASE /\ UNCHANGED <<phase, deleting>>
                 /\ pc[h] = "recreate" => (phase[At(h)] # "absent" /\ At(h) \notin deleting) \/ At(h) \in doomed'
                 /\ left' # left /\ pc[h] # "run" => phase[At(h)] = "Bound"
        <5>1. Recreating(n)
          <6>1. n \in deleting \/ (phase[n] = "absent" /\ Provided(n))
            BY <3>2, <4>1 DEF ClaimSteps
          <6>2. QED
            BY <3>1, <6>1 DEF GoneIsRecreated
        <5>2. n \in deleting \/ phase[n] = "absent"
          BY <4>1
        <5>3. QED
          BY <3>4, <4>1, <5>1, <5>2
      <4>2. CASE /\ pc[h] = "delete" /\ UNCHANGED <<phase, left, round>>
                 /\ deleting' = deleting \union {At(h)}
                 /\ pc'[h] = "recreate" \/ At(h) \in doomed' \/ At(h) \in deleting
        <5>1. Provided(n)' = Provided(n) /\ At(h)' = At(h)
          BY <4>2 DEF Provided, At
        <5>2. CASE n = At(h) /\ n \notin deleting
          BY <4>2, <5>1, <5>2 DEF Recreating
        <5>3. CASE n # At(h) \/ n \in deleting
          BY <3>1, <3>4, <4>2, <5>1, <5>3 DEF GoneIsRecreated
        <5>4. QED
          BY <5>2, <5>3
      <4>3. CASE /\ pc[h] \in {"create", "recreate"} /\ UNCHANGED <<deleting, round>>
                 /\ ClaimCreated(h)
                 /\ pc[h] = "recreate" /\ At(h) \in deleting => At(h) \in doomed'
        <5>1. n # At(h) => phase'[n] = phase[n]
          BY <1>0, <3>1, <4>3 DEF ClaimCreated
        <5>2. phase'[At(h)] # "absent"
          BY <1>0, <4>3 DEF ClaimCreated, ClaimSteps
        <5>3. Recreating(n)
          BY <3>1, <3>2, <4>3, <5>1, <5>2 DEF GoneIsRecreated
        <5>4. QED
          BY <3>4, <4>3, <5>2, <5>3
      <4>4. QED
        BY <1>1, <4>1, <4>2, <4>3, ClaimMoves
    <3>5. QED
      BY <3>3, <3>4 DEF Recreating
  <2>5. QED
    BY <2>2, <2>3, <2>4
<1>2. ASSUME UNCHANGED <<pc, left, round, doomed>>
      PROVE  /\ \A g \in Triggers : At(g)' = At(g)
             /\ \A n \in Claims : Provided(n)' = Provided(n) /\ Recreating(n)' = Recreating(n)
  BY <1>2 DEF At, Provided, Recreating
<1>3. ASSUME NEW n \in Claims, Outside, Bind(n)
      PROVE  ClaimsInv'
  <2>1. /\ UNCHANGED <<pc, left, round, doomed>> /\ deleting' = deleting
        /\ phase[n] = "Pending" /\ n \notin deleting /\ phase' = [phase EXCEPT ![n] = "Bound"]
        /\ volume' \in {volume, "Bound"} /\ unlucky \subseteq unlucky'
        /\ (\E h \in Triggers : pc[h] = "delete" /\ At(h) = n) => n \in unlucky'
    BY <1>3 DEF Outside, Bind, runs
  <2>2. AboutToDelete'
    BY <1>0, <1>2, <2>1 DEF AboutToDelete, ClaimSteps
  <2>3. BoundSurvives'
    BY <1>0, <2>1, TypeParts DEF BoundSurvives, ClusterOK
  <2>4. GoneIsRecreated'
    BY <1>0, <1>2, <2>1 DEF GoneIsRecreated
  <2>5. QED
    BY <2>2, <2>3, <2>4
<1>4. ASSUME NEW n \in Claims, Outside, Remove(n)
      PROVE  ClaimsInv'
  <2>1. /\ UNCHANGED <<pc, left, round, doomed, unlucky>> /\ deleting' = deleting \ {n}
        /\ n \in deleting /\ phase' = [phase EXCEPT ![n] = "absent"]
        /\ volume' = IF n \in Static /\ phase[n] = "Bound" THEN "Released" ELSE volume
    BY <1>4 DEF Outside, Remove, claimed
  <2>2. AboutToDelete'
    BY <1>0, <1>2, <2>1 DEF AboutToDelete, ClaimSteps
  <2>3. BoundSurvives'
    BY <1>0, <2>1, TypeParts DEF BoundSurvives, ClusterOK
  <2>4. GoneIsRecreated'
    BY <1>0, <1>2, <2>1 DEF GoneIsRecreated
  <2>5. QED
    BY <2>2, <2>3, <2>4
<1>5. CASE UNCHANGED <<pc, left, round, doomed, unlucky, phase, deleting, volume>>
  BY <1>0, <1>2, <1>5 DEF AboutToDelete, BoundSurvives, GoneIsRecreated, ClaimSteps
<1>6. QED
  BY <1>1, <1>3, <1>4, <1>5
     DEF Next, vars, Volumes, Uploads, Runs, StartRun, FinishRun, Outside, cluster, claimed

-----------------------------------------------------------------------------
(* Secrets *)

\* The namespace has the token of every trigger that has applied it, or a newer one.
TokenHeld ==
    \A h \in Triggers : TokenGiven(h) => secret.token >= token[h] \/ h \in overwritten

\* Where a torn file can be.
Torns ==
    /\ tree = Torn => upload # "idle" \/ abandoned
    /\ upload = "left" => abandoned
    /\ head = Torn => abandoned
    /\ \A h \in Triggers : token[h] = Torn => h \in Migrations \/ abandoned
    /\ secret.token = Torn => \E h \in Triggers : token[h] = Torn

Shared(h) ==
    \E k \in Hooks : Branch[k] # Branch[h] /\ Sanitised[Branch[k]] = Sanitised[Branch[h]]

\* The target in the secret that is named after the branch of h.
OwnSecret(h) == secret.target[SecretName(Branch[h])]

\* The target secret of a branch has a target of its own unless it is shared, and then that
\* of its hook once that is done.
TargetHeld ==
    \A h \in Pipelines :
        /\ \/ OwnSecret(h) \subseteq TargetsOf(Branch[h])
           \/ Shared(h) /\ (TargetGiven(h) => h \in retargeted \/ target[h] = {})
        /\ \A i \in 1 .. Rounds[h] : seen[h][i].target # {} => round[h] > 0

\* The task refers to the secret of every trigger that has applied it, but for the misled.
TaskHeld ==
    \A h \in Pipelines : TaskGiven(h) => h \in misled \/ secret.task \subseteq {SecretName(Branch[h])}

SecretsInv == TokenHeld /\ TokenKept /\ Torns /\ TargetHeld /\ TaskHeld /\ OwnTarget

\* A trigger goes on or fails.
Acts(h) == Trigger(h) \/ (Fails(h) /\ UNCHANGED <<setting, admin, abandoned>>)

\* What triggers do to the secrets, a call at a time.
LEMMA SecretMoves ==
    ASSUME TypeOK, NEW h \in Triggers, Acts(h)
    PROVE  /\ \A g \in Triggers \ {h} : /\ pc'[g] = pc[g] /\ round'[g] = round[g]
                                       /\ token'[g] = token[g] /\ target'[g] = target[g]
           /\ UNCHANGED <<seen, admin, abandoned>>
           /\ \/ /\ pc[h] \in {"target", "token"} /\ pc'[h] \notin {"deploy", "task", "run"}
                 /\ UNCHANGED <<secret, replaced, round>>
                 /\ token'[h] \in {token[h], head} \/ (h \in Migrations /\ token'[h] = tree)
              \/ /\ UNCHANGED <<secret, replaced, token, target>>
                 /\ TokenGiven(h)' => TokenGiven(h)
                 /\ TargetGiven(h)' => TargetGiven(h)
                 /\ TaskGiven(h)' => TaskGiven(h)
              \/ /\ pc[h] = "secret" /\ TokenApplied(h)
                 /\ UNCHANGED <<token, target, round>>
                 /\ pc'[h] \in {"task", "run"} => h \notin Hooks
                 /\ pc'[h] = "run" => h \in Migrations \/ TaskGiven(h)
              \/ /\ pc[h] = "deploy" /\ TargetApplied(h)
                 /\ UNCHANGED <<token, target, round>>
                 /\ pc'[h] # "run"
              \/ /\ pc[h] = "task" /\ UNCHANGED <<token, target, round>>
                 /\ \/ TaskApplied(h)
                    \/ UNCHANGED <<secret, overwritten, retargeted>> /\ misled' = misled \union {h}
<1> USE TypeParts DEF Goto, TriggersOK, TokenGiven, TargetGiven, TaskGiven, reading, replaced, runs, AfterToken
<1>1. /\ UNCHANGED <<seen, admin, abandoned>>
      /\ \A g \in Triggers \ {h} : pc'[g] = pc[g] /\ round'[g] = round[g]
  <2>1. UNCHANGED <<seen, admin, abandoned>>
    BY DEF Acts, Trigger, Fails, CreateRun
  <2>2. \A g \in Triggers \ {h} : pc'[g] = pc[g]
    BY TriggerMoves DEF Acts
  <2>3. \A g \in Triggers \ {h} : round'[g] = round[g]
    BY TriggerMoves DEF Acts, Moves
  <2>4. QED
    BY <2>1, <2>2, <2>3
<1>2. CASE Fails(h)
  BY <1>1, <1>2, TriggerMoves DEF Fails, Active, Ends
<1>3. CASE ReadTarget(h) \/ ReadToken(h)
  BY <1>1, <1>3 DEF ReadTarget, ReadToken
<1>4. CASE ApplyToken(h)
  BY <1>1, <1>4 DEF ApplyToken, Triggers, Pipelines
<1>5. CASE ApplyTarget(h) \/ ApplyTask(h)
  BY <1>1, <1>5 DEF ApplyTarget, ApplyTask, TaskSkipped
<1>6. CASE Provides(h) /\ UNCHANGED <<round, reading, secret, replaced, runs>>
  <2>1. pc'[h] \notin {"deploy", "task", "run"}
    BY <1>6 DEF Provides, FindVolume, ApplyVolume, ClaimBound, ClaimUnbound, ClaimMissing, DeleteClaim,
                DeleteNotFound, CreateClaim, Ensured
  <2>2. QED
    BY <1>1, <1>6, <2>1
<1>7. CASE CreateRun(h)
  <2>1. pc[h] = "run" /\ UNCHANGED <<reading, secret, replaced>>
    BY <1>7 DEF CreateRun, NextRound
  <2>2. QED
    BY <1>1, <2>1
<1>8. QED
  BY <1>2, <1>3, <1>4, <1>5, <1>6, <1>7 DEF Acts, Trigger, Reads, Secrets

LEMMA TokenTypes ==
    ASSUME TypeOK
    PROVE  /\ Tokens \subseteq Int
           /\ \A h \in Triggers : token[h] \in Tokens
           /\ secret.token \in Tokens
           /\ issued # Torn /\ None # Torn
<1>1. setting.tokens \in Nat
  BY NamespaceAssumption, TypeParts
<1>2. QED
  BY <1>1, TypeParts DEF TriggersOK, SecretOK, AdminOK, Tokens, Torn, None

LEMMA TokenStep == TypeOK /\ Placed /\ TokenHeld /\ TokenKept /\ [Next]_vars => TokenHeld' /\ TokenKept'
<1> SUFFICES ASSUME TypeOK, Placed, TokenHeld, TokenKept, [Next]_vars
             PROVE  TokenHeld' /\ TokenKept'
  OBVIOUS
<1>0. /\ Tokens \subseteq Int /\ secret.token \in Int /\ \A h \in Triggers : token[h] \in Int
  BY TokenTypes
<1>1. ASSUME NEW h \in Triggers, Acts(h)
      PROVE  TokenHeld' /\ TokenKept'
  <2>0. overwritten \subseteq overwritten'
    BY <1>1, SecretMoves DEF replaced, TokenApplied, TargetApplied, TaskApplied
  <2>1. TokenHeld'
    <3>1. CASE secret'.token = secret.token /\ UNCHANGED token /\ (TokenGiven(h)' => TokenGiven(h))
      BY <1>1, <2>0, <3>1, SecretMoves DEF TokenHeld, TokenGiven
    <3>2. CASE pc[h] \in {"target", "token"} /\ pc'[h] \notin {"deploy", "task", "run"} /\ UNCHANGED <<secret, round>>
      <4>1. ~TokenGiven(h)'
        BY <3>2 DEF Placed, TokenGiven
      <4>2. QED
        BY <1>1, <2>0, <3>2, <4>1, SecretMoves DEF TokenHeld, TokenGiven
    <3>3. CASE TokenApplied(h) /\ UNCHANGED token
      <4>1. secret'.token = token[h]
        BY <3>3, TypeParts DEF TokenApplied, SecretOK
      <4>2. ASSUME NEW g \in Triggers, TokenGiven(g)'
            PROVE  secret'.token >= token'[g] \/ g \in overwritten'
        <5>1. CASE g = h
          BY <1>0, <3>3, <4>1, <5>1
        <5>2. CASE g # h
          <6>1. TokenGiven(g)
            BY <1>1, <4>2, <5>2, SecretMoves DEF TokenGiven
          <6>2. QED
            BY <1>0, <3>3, <4>1, <6>1 DEF TokenApplied
        <5>3. QED
          BY <5>1, <5>2
      <4>3. QED
        BY <4>2 DEF TokenHeld
    <3>4. CASE pc[h] = "deploy" /\ TargetApplied(h) /\ UNCHANGED <<token, round>>
      <4>1. secret'.token = secret.token /\ TokenGiven(h)
        BY <3>4, TypeParts DEF TargetApplied, SecretOK, TokenGiven
      <4>2. QED
        BY <3>1, <3>4, <4>1
    <3>5. CASE pc[h] = "task" /\ secret'.token = secret.token /\ UNCHANGED token
      BY <3>1, <3>5 DEF TokenGiven
    <3>6. TaskApplied(h) => secret'.token = secret.token
      BY TypeParts DEF TaskApplied, SecretOK
    <3>7. QED
      BY <1>1, <3>1, <3>2, <3>3, <3>4, <3>5, <3>6, SecretMoves
  <2>2. TokenKept'
    <3>1. \A g \in Triggers : \A i \in 1 .. Rounds[g] :
             run'[g][i] \in {"running", "finished"} => run[g][i] = run'[g][i] /\ round[g] > 0
      <4>1. CASE UNCHANGED run
        BY <4>1 DEF Placed
      <4>2. CASE CreateRun(h)
        BY <4>2, TypeParts DEF CreateRun, RunsOK, Placed
      <4>3. QED
        BY <1>1, <4>1, <4>2 DEF Acts, Trigger, Fails, runs
    <3>2. seen' = seen /\ \A g \in Triggers : round[g] > 0 => token'[g] = token[g]
      BY <1>1, SecretMoves, TypeParts DEF Placed, TriggersOK
    <3>3. QED
      BY <2>0, <3>1, <3>2 DEF TokenKept
  <2>3. QED
    BY <2>1, <2>2
<1>2. ASSUME NEW h \in Triggers, NEW i \in 1 .. Rounds[h], Outside,
             \/ /\ run[h][i] = "created" /\ run' = [run EXCEPT ![h][i] = "running"]
                /\ seen' = [seen EXCEPT ![h][i] = [token |-> secret.token, target |-> TargetSeen(h)]]
             \/ /\ run[h][i] = "running" /\ run' = [run EXCEPT ![h][i] = "finished"] /\ seen' = seen
      PROVE  TokenHeld' /\ TokenKept'
  <2>1. UNCHANGED <<secret, pc, round, token, overwritten>>
    BY <1>2 DEF Outside, reading, replaced
  <2>2. TokenHeld'
    BY <2>1 DEF TokenHeld, TokenGiven
  <2>3. TokenGiven(h)
    BY <1>2 DEF TokenGiven, Placed
  <2>4. ASSUME NEW g \in Triggers, NEW j \in 1 .. Rounds[g], run'[g][j] \in {"running", "finished"}
        PROVE  seen'[g][j].token >= token'[g] \/ g \in overwritten'
    <3>1. CASE g = h /\ j = i
      <4>1. CASE run[h][i] = "created"
        <5>1. seen'[g][j].token = secret.token
          <6>1. seen' = [seen EXCEPT ![h][i] = [token |-> secret.token, target |-> TargetSeen(h)]]
            BY <1>2, <4>1
          <6>2. DOMAIN seen = Triggers /\ DOMAIN seen[h] = 1 .. Rounds[h]
            BY TypeParts DEF RunsOK
          <6>3. QED
            BY <1>2, <3>1, <6>1, <6>2
        <5>2. QED
          BY <2>1, <2>3, <3>1, <5>1 DEF TokenHeld
      <4>2. CASE run[h][i] = "running"
        BY <1>2, <2>1, <3>1, <4>2 DEF TokenKept
      <4>3. QED
        BY <1>2, <4>1, <4>2
    <3>2. CASE ~(g = h /\ j = i)
      <4>1. run'[g][j] = run[g][j] /\ seen'[g][j] = seen[g][j]
        <5>1. ASSUME NEW p, run' = [run EXCEPT ![h][i] = p]
              PROVE  run'[g][j] = run[g][j]
          BY <3>2, <5>1, TypeParts DEF RunsOK
        <5>2. ASSUME NEW v, seen' = [seen EXCEPT ![h][i] = v]
              PROVE  seen'[g][j] = seen[g][j]
          BY <3>2, <5>2, TypeParts DEF RunsOK
        <5>3. QED
          BY <1>2, <5>1, <5>2
      <4>2. QED
        BY <2>1, <2>4, <4>1 DEF TokenKept
    <3>3. QED
      BY <3>1, <3>2
  <2>5. QED
    BY <2>2, <2>4 DEF TokenKept
<1>3. CASE UNCHANGED <<secret, pc, round, token, overwritten, run, seen>>
  BY <1>3 DEF TokenHeld, TokenKept, TokenGiven
<1>4. QED
  BY <1>1, <1>2, <1>3
     DEF Next, Acts, vars, Runs, StartRun, FinishRun, Volumes, Bind, Remove, Uploads, Outside, runs, reading, replaced

LEMMA TornStep == TypeOK /\ Placed /\ Torns /\ [Next]_vars => Torns'
<1> SUFFICES ASSUME TypeOK, Placed, Torns, [Next]_vars
             PROVE  Torns'
  OBVIOUS
<1>0. issued # Torn /\ None # Torn
  BY TokenTypes
<1>1. ASSUME NEW h \in Triggers, Acts(h)
      PROVE  Torns'
  <2>1. UNCHANGED <<tree, head, upload, abandoned>>
    BY <1>1, SecretMoves DEF admin
  <2>2. \A g \in Triggers : token'[g] = Torn => g \in Migrations \/ abandoned
    BY <1>1, SecretMoves DEF Torns
  <2>3. \A g \in Triggers : token[g] = Torn => token'[g] = Torn
    BY <1>0, <1>1, SecretMoves DEF Placed
  <2>4. secret'.token = secret.token \/ secret'.token = token'[h]
    BY <1>1, SecretMoves, TypeParts DEF TokenApplied, TargetApplied, TaskApplied, SecretOK
  <2>5. QED
    BY <2>1, <2>2, <2>3, <2>4 DEF Torns
<1>2. CASE Uploads
  <2>1. UNCHANGED <<token, secret>> /\ (abandoned => abandoned')
    <3>1. UNCHANGED <<token, secret>>
      BY <1>2 DEF Uploads, reading
    <3>2. Restart => (abandoned => abandoned')
      BY TypeParts DEF Restart, AdminOK
    <3>3. BeginUpload \/ ClientLeaves \/ FinishUpload \/ UploadFails \/ Push => (abandoned => abandoned')
      BY DEF BeginUpload, ClientLeaves, FinishUpload, UploadFails, Push
    <3>4. QED
      BY <1>2, <3>1, <3>2, <3>3 DEF Uploads
  <2>2. CASE BeginUpload \/ ClientLeaves \/ UploadFails
    BY <2>1, <2>2 DEF BeginUpload, ClientLeaves, UploadFails, Torns
  <2>3. CASE FinishUpload
    BY <1>0, <2>1, <2>3 DEF FinishUpload, Torns
  <2>4. CASE Push
    BY <2>1, <2>4, TypeParts DEF Push, Torns, AdminOK
  <2>5. CASE Restart
    <3>1. upload' = "idle" /\ head' = head /\ tree' \in {head, tree}
      BY <2>5 DEF Restart
    <3>2. abandoned' <=> abandoned \/ upload # "idle"
      BY <2>5, TypeParts DEF Restart, AdminOK
    <3>3. QED
      BY <2>1, <3>1, <3>2 DEF Torns
  <2>6. QED
    BY <1>2, <2>2, <2>3, <2>4, <2>5 DEF Uploads
<1>3. CASE UNCHANGED <<tree, head, upload, abandoned, token, secret>>
  BY <1>3 DEF Torns
<1>4. QED
  BY <1>1, <1>2, <1>3 DEF Next, Acts, vars, Runs, Volumes, Outside, admin, reading

LEMMA TargetStep ==
    TypeOK /\ Placed /\ TargetHeld /\ TaskHeld /\ OwnTarget /\ [Next]_vars => TargetHeld' /\ OwnTarget'
<1> SUFFICES ASSUME TypeOK, Placed, TargetHeld, TaskHeld, OwnTarget, [Next]_vars
             PROVE  TargetHeld' /\ OwnTarget'
  OBVIOUS
<1>0. /\ Hooks \subseteq Triggers /\ Pipelines \subseteq Triggers /\ Hooks \subseteq Pipelines
      /\ \A h \in Pipelines : SecretName(Branch[h]) \in SecretNames
  BY NamespaceAssumption DEF Triggers, Pipelines, SecretName, SecretNames
<1>1. ASSUME NEW h \in Triggers, Acts(h)
      PROVE  TargetHeld' /\ OwnTarget'
  <2>0. /\ retargeted \subseteq retargeted' /\ misled \subseteq misled' /\ seen' = seen
        /\ \A g \in Triggers : round[g] > 0 => target'[g] = target[g] /\ round'[g] > 0
    BY <1>1, SecretMoves, TriggerMoves, TypeParts 
       DEF Acts, replaced, TokenApplied, TargetApplied, TaskApplied, Placed, TriggersOK, Moves
  <2>1. OwnTarget'
    BY <1>0, <2>0 DEF OwnTarget, TargetHeld
  <2>2. \A g \in Pipelines : \A i \in 1 .. Rounds[g] : seen'[g][i].target # {} => round'[g] > 0
    BY <1>0, <2>0 DEF TargetHeld
  <2>3. ASSUME secret'.target = secret.target, NEW g \in Pipelines,
               TargetGiven(g)' => TargetGiven(g) \/ target'[g] = {},
               TargetGiven(g) => target'[g] = target[g]
        PROVE  \/ OwnSecret(g)' \subseteq TargetsOf(Branch[g])
               \/ Shared(g) /\ (TargetGiven(g)' => g \in retargeted' \/ target'[g] = {})
    BY <2>0, <2>3 DEF TargetHeld, OwnSecret
  <2>4. ASSUME NEW g \in Pipelines
        PROVE  \/ OwnSecret(g)' \subseteq TargetsOf(Branch[g])
               \/ Shared(g) /\ (TargetGiven(g)' => g \in retargeted' \/ target'[g] = {})
    <3>1. g # h => (TargetGiven(g)' <=> TargetGiven(g)) /\ target'[g] = target[g]
      BY <1>0, <1>1, SecretMoves DEF TargetGiven
    <3>2. CASE pc[h] \in {"target", "token"} /\ pc'[h] \notin {"deploy", "task", "run"} /\ UNCHANGED <<secret, round>>
      <4>1. ~TargetGiven(h)' /\ ~TargetGiven(h)
        BY <3>2 DEF Placed, TargetGiven
      <4>2. QED
        BY <2>3, <3>1, <3>2, <4>1
    <3>3. CASE UNCHANGED <<secret, target>> /\ (TargetGiven(h)' => TargetGiven(h))
      BY <2>3, <3>1, <3>3
    <3>4. CASE /\ pc[h] = "secret" /\ TokenApplied(h)
               /\ UNCHANGED <<token, target, round>>
               /\ pc'[h] \in {"task", "run"} => h \notin Hooks
      <4>1. secret'.target = secret.target /\ retargeted' = retargeted
        BY <3>4, TypeParts DEF TokenApplied, SecretOK
      <4>2. g = h => (TargetGiven(g)' => TargetGiven(g) \/ target'[g] = {})
        BY <3>4 DEF TargetGiven, Placed
      <4>3. QED
        BY <2>3, <3>1, <3>4, <4>1, <4>2
    <3>5. CASE pc[h] = "deploy" /\ TargetApplied(h) /\ UNCHANGED <<token, target, round>>
      <4>1. CASE target[h] = {}
        <5>1. UNCHANGED secret
          BY <3>5, <4>1 DEF TargetApplied
        <5>2. QED
          BY <2>3, <3>1, <3>5, <4>1, <5>1
      <4>2. CASE target[h] # {}
        <5>1. h \in Hooks /\ h \in Pipelines /\ target[h] \subseteq TargetsOf(Branch[h])
          BY <1>0, <4>2 DEF Placed
        <5>2. /\ secret'.target = [secret.target EXCEPT ![SecretName(Branch[h])] = target[h]]
              /\ retargeted' = retargeted \union
                            {k \in Hooks : /\ TargetGiven(k)
                                           /\ Branch[k] # Branch[h]
                                           /\ Sanitised[Branch[k]] = Sanitised[Branch[h]]}
          BY <3>5, <4>2, TypeParts DEF TargetApplied, SecretOK
        <5>3. CASE SecretName(Branch[g]) # SecretName(Branch[h])
          <6>1. OwnSecret(g)' = OwnSecret(g) /\ g # h
            BY <1>0, <5>2, <5>3, TypeParts DEF OwnSecret, SecretOK
          <6>2. QED
            BY <2>0, <3>1, <6>1 DEF TargetHeld
        <5>4. CASE Branch[g] = Branch[h]
          <6>1. OwnSecret(g)' = target[h]
            BY <1>0, <5>1, <5>2, <5>4, TypeParts DEF OwnSecret, SecretOK
          <6>2. QED
            BY <5>1, <5>4, <6>1
        <5>5. CASE SecretName(Branch[g]) = SecretName(Branch[h]) /\ Branch[g] # Branch[h]
          <6>1. Shared(g) /\ g # h
            BY <5>1, <5>5 DEF Shared, SecretName
          <6>2. TargetGiven(g)' => g \in retargeted' \/ target'[g] = {}
            BY <1>0, <3>1, <5>2, <5>5, <6>1 DEF SecretName, Placed
          <6>3. QED
            BY <6>1, <6>2
        <5>6. QED
          BY <5>3, <5>4, <5>5
      <4>3. QED
        BY <4>1, <4>2
    <3>6. CASE pc[h] = "task" /\ secret'.target = secret.target /\ UNCHANGED <<token, target, round>>
      <4>1. TargetGiven(h)
        BY <3>6 DEF TargetGiven
      <4>2. QED
        BY <2>3, <3>1, <3>6, <4>1
    <3>7. TaskApplied(h) => secret'.target = secret.target
      BY TypeParts DEF TaskApplied, SecretOK
    <3>8. QED
      BY <1>1, <3>2, <3>3, <3>4, <3>5, <3>6, <3>7, SecretMoves
  <2>5. QED
    BY <2>1, <2>2, <2>4 DEF TargetHeld, Shared, TargetsOf
<1>2. ASSUME NEW h \in Triggers, NEW i \in 1 .. Rounds[h], Outside, run[h][i] = "created",
             seen' = [seen EXCEPT ![h][i] = [token |-> secret.token, target |-> TargetSeen(h)]]
      PROVE  TargetHeld' /\ OwnTarget'
  <2>1. UNCHANGED <<secret, pc, round, target, retargeted, misled>>
    BY <1>2 DEF Outside, reading, replaced
  <2>2. round[h] > 0 /\ TargetGiven(h) /\ TaskGiven(h)
    BY <1>2 DEF Placed, TargetGiven, TaskGiven
  <2>3. seen'[h][i].target = TargetSeen(h) /\ \A g \in Triggers : \A j \in 1 .. Rounds[g] :
           ~(g = h /\ j = i) => seen'[g][j] = seen[g][j]
    BY <1>2, TypeParts DEF RunsOK
  <2>4. h \in Pipelines => h \in misled \/ TargetSeen(h) \subseteq OwnSecret(h)
    BY <2>2 DEF TaskHeld, TargetSeen, OwnSecret
  <2>5. TargetHeld'
    BY <1>0, <2>1, <2>2, <2>3 DEF TargetHeld, OwnSecret, TargetGiven, Shared, TargetsOf
  <2>6. OwnTarget'
    <3>1. h \in Pipelines => \/ TargetSeen(h) \subseteq TargetsOf(Branch[h])
                             \/ h \in misled
                             \/ Shared(h) /\ (h \in retargeted \/ target[h] = {})
      BY <2>2, <2>4 DEF TargetHeld
    <3>2. QED
      BY <1>0, <2>1, <2>3, <3>1 DEF OwnTarget, Shared, TargetsOf
  <2>7. QED
    BY <2>5, <2>6
<1>3. CASE UNCHANGED <<secret, pc, round, target, retargeted, misled, seen>>
  BY <1>3 DEF TargetHeld, OwnTarget, OwnSecret, TargetGiven, Shared, TargetsOf
<1>4. QED
  BY <1>1, <1>2, <1>3
     DEF Next, Acts, vars, Runs, StartRun, FinishRun, Volumes, Bind, Remove, Uploads, Outside, runs, reading, replaced

LEMMA TaskStep == TypeOK /\ TaskHeld /\ [Next]_vars => TaskHeld'
<1> SUFFICES ASSUME TypeOK, TaskHeld, [Next]_vars
             PROVE  TaskHeld'
  OBVIOUS
<1>0. /\ Pipelines \subseteq Triggers /\ Pipelines \intersect Migrations = {}
      /\ \A g \in Triggers : round[g] \in Nat
  BY NamespaceAssumption, TypeParts DEF Triggers, Pipelines, TriggersOK
<1>1. ASSUME NEW h \in Triggers, Acts(h)
      PROVE  TaskHeld'
  <2>1. \A g \in Triggers \ {h} : TaskGiven(g)' => TaskGiven(g)
    BY <1>1, SecretMoves DEF TaskGiven
  <2>2. CASE secret'.task = secret.task /\ misled \subseteq misled' /\ (TaskGiven(h)' => TaskGiven(h) \/ h \in misled')
    BY <1>0, <2>1, <2>2 DEF TaskHeld
  <2>3. CASE secret'.task = secret.task /\ misled \subseteq misled' /\ (TaskGiven(h)' => TaskGiven(h) \/ h \in Migrations)
    BY <1>0, <2>1, <2>3 DEF TaskHeld
  <2>4. CASE TaskApplied(h)
    <3>1. secret'.task = {SecretName(Branch[h])}
      BY <2>4, TypeParts DEF TaskApplied, SecretOK
    <3>2. ASSUME NEW g \in Pipelines, TaskGiven(g)'
          PROVE  g \in misled' \/ secret'.task \subseteq {SecretName(Branch[g])}
      <4>1. CASE SecretName(Branch[g]) = SecretName(Branch[h])
        BY <3>1, <4>1
      <4>2. CASE SecretName(Branch[g]) # SecretName(Branch[h])
        <5>1. TaskGiven(g)
          BY <1>0, <2>1, <3>2, <4>2
        <5>2. QED
          BY <2>4, <4>2, <5>1 DEF TaskApplied
      <4>3. QED
        BY <4>1, <4>2
    <3>3. QED
      BY <3>2 DEF TaskHeld, SecretName
  <2>5. CASE pc[h] = "secret" /\ TokenApplied(h) /\ UNCHANGED round /\ (pc'[h] = "run" => h \in Migrations \/ TaskGiven(h))
    <3>1. secret'.task = secret.task /\ misled' = misled
      BY <2>5, TypeParts DEF TokenApplied, SecretOK
    <3>2. TaskGiven(h)' => TaskGiven(h) \/ h \in Migrations
      BY <2>5 DEF TaskGiven
    <3>3. QED
      BY <2>3, <3>1, <3>2
  <2>6. CASE pc[h] = "deploy" /\ TargetApplied(h) /\ UNCHANGED round /\ pc'[h] # "run"
    <3>1. secret'.task = secret.task /\ misled' = misled
      BY <2>6, TypeParts DEF TargetApplied, SecretOK
    <3>2. TaskGiven(h)' => TaskGiven(h)
      BY <2>6 DEF TaskGiven
    <3>3. QED
      BY <2>3, <3>1, <3>2
  <2>7. CASE pc[h] \in {"target", "token"} /\ pc'[h] \notin {"deploy", "task", "run"} /\ UNCHANGED <<secret, replaced, round>>
    <3>1. TaskGiven(h)' => TaskGiven(h)
      BY <2>7 DEF TaskGiven
    <3>2. QED
      BY <2>3, <2>7, <3>1 DEF replaced
  <2>8. QED
    BY <1>1, <2>2, <2>3, <2>4, <2>5, <2>6, <2>7, SecretMoves DEF replaced
<1>2. CASE UNCHANGED <<secret, pc, round, misled>>
  BY <1>2 DEF TaskHeld, TaskGiven
<1>3. QED
  BY <1>1, <1>2 DEF Next, Acts, vars, Runs, Volumes, Uploads, Outside, replaced

-----------------------------------------------------------------------------
IInv == TypeOK /\ Placed /\ ClaimsInv /\ SecretsInv

LEMMA InitIInv == Init => IInv
<1> SUFFICES ASSUME Init
             PROVE  IInv
  OBVIOUS
<1>1. TypeOK /\ Placed
  BY InitTypeOK
<1>2. ClaimsInv
  <2>1. volume \in {"absent", "Bound"} /\ deleting = {}
    BY DEF Init
  <2>2. \A h \in Triggers : pc[h] \notin {"delete", "recreate"}
    BY DEF Init
  <2>3. \A n \in Mounted : ~Provided(n)
    <3>1. \A h \in Pipelines : round[h] = 0 /\ left[h] = Mounted
      BY NamespaceAssumption DEF Init, Wanted, Triggers, Pipelines
    <3>2. QED
      BY <3>1 DEF Provided
  <2>4. QED
    BY <2>1, <2>2, <2>3 DEF ClaimsInv, AboutToDelete, BoundSurvives, GoneIsRecreated
<1>3. SecretsInv
  <2>1. \A h \in Triggers : ~TokenGiven(h) /\ token[h] = None /\ target[h] = {}
    BY DEF Init, TokenGiven
  <2>2. \A h \in Triggers : \A i \in 1 .. Rounds[h] : run[h][i] = "none" /\ seen[h][i].target = {}
    BY DEF Init
  <2>3. \A h \in Pipelines : h \in Triggers /\ OwnSecret(h) = {}
    <3>1. secret.target = [n \in SecretNames |-> {}]
      BY DEF Init
    <3>2. QED
      BY <3>1, NamespaceAssumption DEF OwnSecret, SecretName, SecretNames, Pipelines, Triggers
  <2>4. TokenHeld /\ TokenKept
    BY <2>1, <2>2 DEF TokenHeld, TokenKept
  <2>5. Torns
    <3>1. secret.token \in {0, 1} /\ tree \in {0, 1} /\ head \in {0, 1} /\ upload = "idle"
      BY DEF Init, None
    <3>2. QED
      BY <2>1, <3>1 DEF Torns, Torn, None
  <2>6. TargetHeld /\ OwnTarget
    BY <2>2, <2>3 DEF TargetHeld, OwnTarget
  <2>8. TaskHeld
    <3>1. \A h \in Triggers : pc[h] # "run" /\ round[h] = 0
      BY DEF Init
    <3>2. QED
      BY <2>3, <3>1 DEF TaskHeld, TaskGiven
  <2>7. QED
    BY <2>4, <2>5, <2>6, <2>8 DEF SecretsInv
<1>4. QED
  BY <1>1, <1>2, <1>3 DEF IInv

LEMMA Inductive == Spec => []IInv
<1>1. IInv /\ [Next]_vars => IInv'
  BY TypeStep, PlacedStep, ClaimsStep, TokenStep, TornStep, TargetStep, TaskStep DEF IInv, SecretsInv
<1>2. QED
  BY InitIInv, <1>1, PTL DEF Spec

-----------------------------------------------------------------------------
(* Theorems *)

\* Every variable keeps its type, for any triggers, claims, branches and tokens.
THEOREM TypeCorrect == Spec => []TypeOK
<1>1. IInv => TypeOK
  BY DEF IInv
<1>2. QED
  BY Inductive, <1>1, PTL

\* No claim with data is deleted, and no volume given up, but for a claim bound between a
\* trigger's look and its delete, for any number of triggers that recreate claims
\* (ensure_single_pvc_async).
THEOREM BoundKept == Spec => []BoundSurvives
<1>1. IInv => BoundSurvives
  BY DEF IInv, ClaimsInv
<1>2. QED
  BY Inductive, <1>1, PTL

\* The two ways to be left without a claim are all there are, for any triggers.
THEOREM NoneMissing == Spec => []MissingOnlyIfDoomed
<1>1. IInv => MissingOnlyIfDoomed
  <2> SUFFICES ASSUME IInv,
                      \A h \in Triggers : ~Active(h),
                      NEW h \in Pipelines, round[h] > 0,
                      NEW n \in Mounted \ doomed, phase[n] = "absent"
               PROVE  FALSE
    BY DEF MissingOnlyIfDoomed
  <2>1. Recreating(n)
    BY DEF IInv, ClaimsInv, GoneIsRecreated, Provided
  <2>2. QED
    BY <2>1 DEF Recreating, Active, Ends
<1>2. QED
  BY Inductive, <1>1, PTL

\* A run starts with its trigger's token or a newer one unless another trigger put back an
\* older one after it (ensure_ginger_token_secret).
THEOREM TokenNotOlder == Spec => []TokenKept
<1>1. IInv => TokenKept
  BY DEF IInv, SecretsInv
<1>2. QED
  BY Inductive, <1>1, PTL

\* Half a token file reaches a namespace only through a migration or after an upload was left
\* half-way, for any uploads, triggers, failing writes and restarts (write_pipeline_token,
\* handle_create_db_taskrun).
THEOREM TornExplained == Spec => []TornOnlyUnguarded
<1>1. IInv => TornOnlyUnguarded
  BY DEF IInv, SecretsInv, Torns, TornOnlyUnguarded
<1>2. QED
  BY Inductive, <1>1, PTL

\* Runs deploy to the target of their own branch unless another trigger's task replaced theirs
\* or two branches share a secret, for any conversions of branch names (transform_task,
\* sanitize_secret_name, sanitise_filename).
THEOREM TargetExplained == Spec => []OwnTarget
<1>1. IInv => OwnTarget
  BY DEF IInv, SecretsInv
<1>2. QED
  BY Inductive, <1>1, PTL
=============================================================================
