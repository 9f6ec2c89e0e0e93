-------------------------- MODULE MergeQueueProofs --------------------------
(***************************************************************************)
(* Proofs about MergeQueue for any number of requests and replicas and any *)
(* set of faults.                                                          *)
(***************************************************************************)
EXTENDS MergeQueue, TLAPS

\* A message is of a queued request, and so is the delivery a consumer works
\* on; from "release" on that job has run.
Accepted ==
    /\ \A m \in Requests : broker[m] # "absent" => req[m] = "queued"
    /\ \A m \in Requests : merges[m] > 0 => req[m] = "queued"
    /\ \A m \in Requests : broker[m] = "acked" => merges[m] > 0
    /\ \A r \in Replicas : pc[r] # "next" => job[r] \in Requests /\ req[job[r]] = "queued"
    /\ \A r \in Replicas : pc[r] \in {"release", "ack"} => merges[job[r]] > 0

NoLoss == drops = 0 /\ restarts = 0

\* The replica that works on job m has merged it.
Done(m, r) == broker[m] = r /\ job[r] = m /\ pc[r] \in {"release", "ack"}

\* Until a delivery is lost it stays with the consumer that works on it, and a
\* merged job is one that this consumer is about to acknowledge.
Owned ==
    NoLoss =>
        /\ \A r \in Replicas : connected[r]
        /\ \A r \in Replicas : pc[r] # "next" => broker[job[r]] = r
        /\ \A m \in Requests : merges[m] < 2
        /\ \A m \in Requests :
              merges[m] > 0 => broker[m] = "acked" \/ \E r \in Replicas : Done(m, r)

\* Without lost deliveries and late merges the lock belongs to the one request
\* that still has work to do.
Protected == Undisturbed => \A m \in Requests : Outstanding(m) => lock = m

IInv == TypeOK /\ Accepted /\ Owned /\ Protected

Calls(m, r) == BadRequest(m, r) \/ AcquireLock(m, r) \/ FindLocked(m, r)

-----------------------------------------------------------------------------
(* Type correctness *)

LEMMA TypeStep == TypeOK /\ [Next]_vars => TypeOK'
<1> SUFFICES ASSUME TypeOK, [Next]_vars
             PROVE  TypeOK'
  OBVIOUS
<1> USE QueueAssumption DEF TypeOK, QueueAssumption, Phases, Serving, Broker, Steps,
                            Step, Goto, Arrive,
                            keys, handlers, amqp, consumer, budget
<1>1. ASSUME NEW m \in Requests, Handler(m)
      PROVE  TypeOK'
  <2>1. ASSUME NEW r \in Replicas, BadRequest(m, r)
        PROVE  TypeOK'
    BY <2>1 DEF BadRequest
  <2>2. ASSUME NEW r \in Replicas, AcquireLock(m, r)
        PROVE  TypeOK'
    BY <2>2 DEF AcquireLock
  <2>3. ASSUME NEW r \in Replicas, FindLocked(m, r)
        PROVE  TypeOK'
    BY <2>3 DEF FindLocked
  <2>4. CASE Reject(m)
    BY <2>4 DEF Reject
  <2>5. CASE RecordHolder(m)
    BY <2>5 DEF RecordHolder
  <2>6. CASE PublishJob(m)
    BY <2>6 DEF PublishJob
  <2>7. CASE ClientGone(m)
    BY <2>7 DEF ClientGone
  <2>8. QED
    BY <1>1, <2>1, <2>2, <2>3, <2>4, <2>5, <2>6, <2>7 DEF Handler
<1>2. ASSUME NEW r \in Replicas, Consumer(r)
      PROVE  TypeOK'
  <2>1. ASSUME NEW m \in Requests, Deliver(m, r)
        PROVE  TypeOK'
    BY <2>1 DEF Deliver
  <2>2. ASSUME NEW m \in Requests, StartMerge(m, r)
        PROVE  TypeOK'
    BY <2>2 DEF StartMerge
  <2>3. CASE FinishMerge(r)
    <3>1. merges' \in [Requests -> 0 .. 2]
      <4>1. CASE job[r] \in Requests
        <5>1. merges[job[r]] \in 0 .. 2
          BY <4>1
        <5>2. (IF merges[job[r]] < 2 THEN merges[job[r]] + 1 ELSE merges[job[r]]) \in 0 .. 2
          BY <5>1
        <5>3. QED
          BY <2>3, <5>2 DEF FinishMerge
      <4>2. CASE job[r] \notin Requests
        <5>1. DOMAIN merges = Requests
          OBVIOUS
        <5>2. merges' = merges
          BY <2>3, <4>2, <5>1 DEF FinishMerge
        <5>3. QED
          BY <5>2
      <4>3. QED
        BY <4>1, <4>2
    <3>2. QED
      BY <2>3, <3>1 DEF FinishMerge
  <2>4. CASE ReleaseLock(r)
    BY <2>4 DEF ReleaseLock
  <2>5. CASE Ack(r)
    BY <2>5 DEF Ack
  <2>6. CASE AckFails(r)
    BY <2>6 DEF AckFails
  <2>7. CASE Reconnect(r)
    BY <2>7 DEF Reconnect
  <2>8. QED
    BY <1>2, <2>1, <2>2, <2>3, <2>4, <2>5, <2>6, <2>7 DEF Consumer
<1>3. ASSUME NEW r \in Replicas, ConnectionDrops(r) \/ PublisherBreaks(r) \/ Restart(r)
      PROVE  TypeOK'
  <2>1. Requeued(r) \in [Requests -> Broker]
    BY DEF Requeued
  <2>2. CASE ConnectionDrops(r)
    BY <2>1, <2>2 DEF ConnectionDrops
  <2>3. CASE PublisherBreaks(r)
    BY <2>3 DEF PublisherBreaks
  <2>4. CASE Restart(r)
    BY <2>1, <2>4 DEF Restart
  <2>5. QED
    BY <1>3, <2>2, <2>3, <2>4
<1>4. CASE LockExpires \/ CurrentExpires
  BY <1>4 DEF LockExpires, CurrentExpires
<1>5. CASE Idle \/ UNCHANGED vars
  BY <1>5 DEF Idle, vars
<1>6. QED
  BY <1>1, <1>2, <1>3, <1>4, <1>5 DEF Next

LEMMA InitInv == Init => IInv
<1> SUFFICES ASSUME Init
             PROVE  IInv
  OBVIOUS
<1>1. TypeOK
  BY QueueAssumption DEF QueueAssumption, Init, TypeOK, Phases, Serving, Broker, Steps
<1>2. Accepted
  BY DEF Init, Accepted
<1>3. Owned
  BY DEF Init, Owned
<1>4. Protected
  BY QueueAssumption DEF Init, Protected, Outstanding, QueueAssumption
<1>5. QED
  BY <1>1, <1>2, <1>3, <1>4 DEF IInv

\* Every variable of the merge queue keeps its type.
THEOREM TypeCorrect == Spec => []TypeOK
<1>1. Init => TypeOK
  BY InitInv DEF IInv
<1>2. QED
  BY <1>1, TypeStep, PTL DEF Spec

-----------------------------------------------------------------------------
(* No job is lost *)

LEMMA AcceptedStep == TypeOK /\ Accepted /\ [Next]_vars => Accepted'
<1> SUFFICES ASSUME TypeOK, Accepted, [Next]_vars
             PROVE  Accepted'
  OBVIOUS
<1>0. /\ req \in [Requests -> Phases]
      /\ broker \in [Requests -> Broker]
      /\ merges \in [Requests -> 0 .. 2]
      /\ pc \in [Replicas -> Steps]
      /\ job \in [Replicas -> Requests \union {None}]
      /\ "absent" \notin Replicas /\ "ready" \notin Replicas /\ "acked" \notin Replicas
  BY QueueAssumption DEF TypeOK, QueueAssumption
<1> USE DEF Accepted, Step, Goto, Arrive, keys, handlers, amqp, consumer, budget
<1>1. ASSUME NEW m \in Requests, Handler(m)
      PROVE  Accepted'
  <2>1. ASSUME NEW r \in Replicas, Calls(m, r)
        PROVE  Accepted'
    BY <1>0, <2>1 DEF Calls, BadRequest, AcquireLock, FindLocked
  <2>2. CASE Reject(m)
    BY <1>0, <2>2 DEF Reject
  <2>3. CASE RecordHolder(m)
    BY <1>0, <2>3 DEF RecordHolder
  <2>4. CASE PublishJob(m)
    BY <1>0, <2>4 DEF PublishJob
  <2>5. CASE ClientGone(m)
    BY <1>0, <2>5 DEF ClientGone, Serving
  <2>6. QED
    BY <1>1, <2>1, <2>2, <2>3, <2>4, <2>5 DEF Handler, Calls
<1>2. ASSUME NEW r \in Replicas, Consumer(r)
      PROVE  Accepted'
  <2>1. ASSUME NEW m \in Requests, Deliver(m, r)
        PROVE  Accepted'
    BY <1>0, <2>1 DEF Deliver
  <2>2. ASSUME NEW m \in Requests, StartMerge(m, r)
        PROVE  Accepted'
    BY <1>0, <2>2 DEF StartMerge
  <2>3. CASE FinishMerge(r)
    <3>1. job[r] \in Requests /\ req[job[r]] = "queued" /\ merges[job[r]] \in 0 .. 2
      BY <1>0, <2>3 DEF FinishMerge
    <3>2. merges' = [merges EXCEPT ![job[r]] = IF @ < 2 THEN @ + 1 ELSE @]
      BY <2>3 DEF FinishMerge
    <3>3. merges'[job[r]] > 0
      BY <1>0, <3>1, <3>2
    <3>4. \A m \in Requests : merges[m] > 0 => merges'[m] > 0
      BY <1>0, <3>1, <3>2
    <3>5. \A m \in Requests : m # job[r] => merges'[m] = merges[m]
      BY <1>0, <3>1, <3>2
    <3>6. \A s \in Replicas : s # r => pc'[s] = pc[s]
      BY <1>0, <2>3 DEF FinishMerge
    <3>7. UNCHANGED <<req, broker, job>>
      BY <2>3 DEF FinishMerge
    <3>8. QED
      BY <1>0, <3>1, <3>3, <3>4, <3>5, <3>6, <3>7
  <2>4. CASE ReleaseLock(r)
    BY <1>0, <2>4 DEF ReleaseLock
  <2>5. CASE Ack(r)
    BY <1>0, <2>5 DEF Ack
  <2>6. CASE AckFails(r)
    BY <1>0, <2>6 DEF AckFails
  <2>7. CASE Reconnect(r)
    BY <1>0, <2>7 DEF Reconnect
  <2>8. QED
    BY <1>2, <2>1, <2>2, <2>3, <2>4, <2>5, <2>6, <2>7 DEF Consumer
<1>3. ASSUME NEW r \in Replicas, ConnectionDrops(r) \/ PublisherBreaks(r) \/ Restart(r)
      PROVE  Accepted'
  <2>1. \A m \in Requests : /\ Requeued(r)[m] # "absent" => broker[m] # "absent"
                            /\ Requeued(r)[m] = "acked" => broker[m] = "acked"
    BY <1>0 DEF Requeued
  <2>2. CASE ConnectionDrops(r)
    BY <1>0, <2>1, <2>2 DEF ConnectionDrops
  <2>3. CASE PublisherBreaks(r)
    BY <1>0, <2>3 DEF PublisherBreaks
  <2>4. CASE Restart(r)
    <3>1. \A m \in Requests : req[m] = "queued" => req'[m] = "queued"
      BY <1>0, <2>4 DEF Restart, Serving
    <3>2. \A s \in Replicas : pc'[s] # "next" => pc'[s] = pc[s] /\ job'[s] = job[s]
      BY <1>0, <2>4 DEF Restart
    <3>3. broker' = Requeued(r) /\ merges' = merges
      BY <2>4 DEF Restart
    <3>4. QED
      BY <1>0, <2>1, <3>1, <3>2, <3>3
  <2>5. QED
    BY <1>3, <2>2, <2>3, <2>4
<1>4. CASE LockExpires \/ CurrentExpires
  BY <1>0, <1>4 DEF LockExpires, CurrentExpires
<1>5. CASE Idle \/ UNCHANGED vars
  BY <1>0, <1>5 DEF Idle, vars
<1>6. QED
  BY <1>1, <1>2, <1>3, <1>4, <1>5 DEF Next

-----------------------------------------------------------------------------
(* Deliveries stay with their consumer until one is lost *)

LEMMA NoLossBefore == TypeOK /\ [Next]_vars /\ NoLoss' => NoLoss
<1> SUFFICES ASSUME TypeOK, [Next]_vars, NoLoss'
             PROVE  NoLoss
  OBVIOUS
<1>1. drops \in Nat /\ restarts \in Nat
  BY QueueAssumption DEF TypeOK, QueueAssumption
<1>2. ASSUME NEW r \in Replicas, ConnectionDrops(r) \/ Restart(r)
      PROVE  FALSE
  BY <1>1, <1>2 DEF ConnectionDrops, Restart, NoLoss
<1>3. ASSUME ~ \E r \in Replicas : ConnectionDrops(r) \/ Restart(r)
      PROVE  UNCHANGED <<drops, restarts>>
  BY <1>3 DEF budget, Next, vars, Handler, Consumer, BadRequest, AcquireLock, FindLocked,
              Reject, RecordHolder, PublishJob, ClientGone, Deliver, StartMerge, FinishMerge,
              ReleaseLock, Ack, AckFails, Reconnect, PublisherBreaks, LockExpires,
              CurrentExpires, Idle
<1>4. QED
  BY <1>2, <1>3 DEF NoLoss

LEMMA OwnedStep == TypeOK /\ Accepted /\ Owned /\ [Next]_vars => Owned'
<1> SUFFICES ASSUME TypeOK, Accepted, Owned, [Next]_vars, NoLoss'
             PROVE  Owned'
  BY DEF Owned
<1>0. /\ req \in [Requests -> Phases]
      /\ broker \in [Requests -> Broker]
      /\ connected \in [Replicas -> BOOLEAN]
      /\ merges \in [Requests -> 0 .. 2]
      /\ pc \in [Replicas -> Steps]
      /\ job \in [Replicas -> Requests \union {None}]
      /\ drops \in Nat /\ restarts \in Nat
      /\ "absent" \notin Replicas /\ "ready" \notin Replicas /\ "acked" \notin Replicas
  BY QueueAssumption DEF TypeOK, QueueAssumption
<1> USE DEF Step, Goto, Arrive, keys, handlers, amqp, consumer, budget
<1>1. NoLoss
  BY NoLossBefore
<1>2. /\ \A r \in Replicas : connected[r]
      /\ \A r \in Replicas : pc[r] # "next" => broker[job[r]] = r
      /\ \A r \in Replicas : pc[r] # "next" => job[r] \in Requests
      /\ \A m \in Requests : broker[m] # "absent" => req[m] = "queued"
      /\ \A m \in Requests : merges[m] > 0 => req[m] = "queued"
      /\ \A m \in Requests : merges[m] < 2
      /\ \A m \in Requests :
            merges[m] > 0 => broker[m] = "acked" \/ \E r \in Replicas : Done(m, r)
  BY <1>1 DEF Owned, Accepted
<1> USE DEF Owned, Done
<1>3. ASSUME NEW m \in Requests, Handler(m)
      PROVE  Owned'
  <2>1. ASSUME NEW r \in Replicas, Calls(m, r)
        PROVE  Owned'
    BY <1>2, <2>1 DEF Calls, BadRequest, AcquireLock, FindLocked
  <2>2. CASE Reject(m) \/ RecordHolder(m) \/ ClientGone(m)
    BY <1>2, <2>2 DEF Reject, RecordHolder, ClientGone
  <2>3. CASE PublishJob(m)
    <3>1. broker[m] = "absent" /\ ~ (merges[m] > 0)
      BY <1>2, <2>3 DEF PublishJob
    <3>2. \A l \in Requests : l # m => broker'[l] = broker[l]
      BY <1>0, <2>3 DEF PublishJob
    <3>3. UNCHANGED <<connected, pc, job, merges>>
      BY <2>3 DEF PublishJob
    <3>4. \A r \in Replicas : pc[r] # "next" => job[r] # m
      BY <1>0, <1>2, <3>1
    <3>5. \A r \in Replicas : pc[r] # "next" => broker'[job[r]] = r
      BY <1>2, <3>2, <3>4
    <3>6. \A l \in Requests :
            merges[l] > 0 => broker'[l] = "acked" \/ \E r \in Replicas : Done(l, r)'
      BY <1>2, <3>1, <3>2, <3>3
    <3>7. QED
      BY <1>2, <3>3, <3>5, <3>6
  <2>4. QED
    BY <1>3, <2>1, <2>2, <2>3 DEF Handler, Calls
<1>4. ASSUME NEW r \in Replicas, Consumer(r)
      PROVE  Owned'
  <2>1. ASSUME NEW m \in Requests, Deliver(m, r)
        PROVE  Owned'
    BY <1>0, <1>2, <2>1 DEF Deliver
  <2>2. ASSUME NEW m \in Requests, StartMerge(m, r)
        PROVE  Owned'
    BY <1>0, <1>2, <2>2 DEF StartMerge
  <2>3. CASE FinishMerge(r)
    <3>1. job[r] \in Requests /\ pc[r] = "merging" /\ broker[job[r]] = r
      BY <1>2, <2>3 DEF FinishMerge
    <3>2. merges[job[r]] = 0
      <4>1. ~ Done(job[r], r)
        BY <3>1
      <4>2. \A s \in Replicas : Done(job[r], s) => s = r
        BY <3>1
      <4>3. QED
        BY <1>0, <1>2, <3>1, <4>1, <4>2
    <3>3. merges' = [merges EXCEPT ![job[r]] = 1]
      BY <1>0, <2>3, <3>1, <3>2 DEF FinishMerge
    <3>4. pc' = [pc EXCEPT ![r] = "release"] /\ UNCHANGED <<broker, connected, job>>
      BY <2>3 DEF FinishMerge
    <3>5. Done(job[r], r)'
      BY <1>0, <3>1, <3>4
    <3>6. \A m \in Requests, s \in Replicas : Done(m, s) => Done(m, s)'
      BY <1>0, <3>1, <3>4
    <3>7. \A m \in Requests :
            merges'[m] > 0 => broker'[m] = "acked" \/ \E s \in Replicas : Done(m, s)'
      BY <1>0, <1>2, <3>1, <3>3, <3>4, <3>5, <3>6
    <3>8. \A s \in Replicas : pc'[s] # "next" => broker'[job'[s]] = s
      BY <1>0, <1>2, <3>1, <3>4
    <3>9. \A m \in Requests : merges'[m] < 2
      BY <1>0, <1>2, <3>1, <3>3
    <3>10. QED
      BY <1>2, <3>4, <3>7, <3>8, <3>9
  <2>4. CASE ReleaseLock(r)
    BY <1>0, <1>2, <2>4 DEF ReleaseLock
  <2>5. CASE Ack(r)
    BY <1>0, <1>2, <2>5 DEF Ack
  <2>6. CASE AckFails(r) \/ Reconnect(r)
    BY <1>2, <2>6 DEF AckFails, Reconnect
  <2>7. QED
    BY <1>4, <2>1, <2>2, <2>3, <2>4, <2>5, <2>6 DEF Consumer
<1>5. ASSUME NEW r \in Replicas, ConnectionDrops(r) \/ Restart(r)
      PROVE  Owned'
  BY <1>0, <1>1, <1>5 DEF ConnectionDrops, Restart, NoLoss
<1>6. CASE LockExpires \/ CurrentExpires \/ \E r \in Replicas : PublisherBreaks(r)
  BY <1>2, <1>6 DEF LockExpires, CurrentExpires, PublisherBreaks
<1>7. CASE Idle \/ UNCHANGED vars
  BY <1>2, <1>7 DEF Idle, vars
<1>8. QED
  BY <1>3, <1>4, <1>5, <1>6, <1>7 DEF Next

-----------------------------------------------------------------------------
(* The lock protects the work of its owner *)

\* What disturbs the lock is never undone.
LEMMA UndisturbedBefore == TypeOK /\ [Next]_vars /\ Undisturbed' => Undisturbed
<1> SUFFICES ASSUME TypeOK, [Next]_vars, Undisturbed'
             PROVE  Undisturbed
  OBVIOUS
<1>1. NoLoss
  BY NoLossBefore DEF Undisturbed, NoLoss
<1>2. overruns' = overruns \/ overruns' = overruns + 1
  BY DEF budget, Next, vars, Handler, Consumer, BadRequest, AcquireLock, FindLocked,
         Reject, RecordHolder, PublishJob, ClientGone, Deliver, StartMerge, FinishMerge,
         ReleaseLock, Ack, AckFails, Reconnect, ConnectionDrops, PublisherBreaks, Restart,
         LockExpires, CurrentExpires, Idle
<1>3. overruns \in Nat
  BY QueueAssumption DEF TypeOK, QueueAssumption
<1>4. QED
  BY <1>1, <1>2, <1>3 DEF Undisturbed, NoLoss

LEMMA ProtectedStep == TypeOK /\ Accepted /\ Owned /\ Protected /\ [Next]_vars => Protected'
<1> SUFFICES ASSUME TypeOK, Accepted, Owned, Protected, [Next]_vars, Undisturbed'
             PROVE  \A l \in Requests : Outstanding(l)' => lock' = l
  BY DEF Protected
<1>0. /\ req \in [Requests -> Phases]
      /\ broker \in [Requests -> Broker]
      /\ pc \in [Replicas -> Steps]
      /\ job \in [Replicas -> Requests \union {None}]
      /\ lock \in Requests \union {None}
      /\ "absent" \notin Replicas /\ "ready" \notin Replicas /\ "acked" \notin Replicas
      /\ None \notin Requests
  BY QueueAssumption DEF TypeOK, QueueAssumption
<1>1. Undisturbed
  BY UndisturbedBefore
<1>2. /\ \A l \in Requests : Outstanding(l) => lock = l
      /\ \A r \in Replicas : connected[r]
      /\ \A r \in Replicas : pc[r] # "next" => broker[job[r]] = r /\ job[r] \in Requests
      /\ \A l \in Requests : broker[l] # "absent" => req[l] = "queued"
  BY <1>1 DEF Protected, Undisturbed, NoLoss, Owned, Accepted
<1> USE DEF Step, Goto, Arrive, keys, handlers, amqp, consumer, budget
<1>3. ASSUME NEW m \in Requests, Handler(m)
      PROVE  \A l \in Requests : Outstanding(l)' => lock' = l
  <2>1. ASSUME NEW r \in Replicas, BadRequest(m, r)
        PROVE  \A l \in Requests : Outstanding(l)' => lock' = l
    BY <1>0, <1>2, <2>1 DEF BadRequest, Outstanding
  <2>2. ASSUME NEW r \in Replicas, AcquireLock(m, r)
        PROVE  \A l \in Requests : Outstanding(l)' => lock' = l
    <3>1. \A l \in Requests : ~Outstanding(l)
      BY <1>0, <1>2, <2>2 DEF AcquireLock
    <3>2. \A l \in Requests : l # m => ~Outstanding(l)'
      BY <1>0, <3>1, <2>2 DEF AcquireLock, Outstanding
    <3>3. QED
      BY <3>2, <2>2 DEF AcquireLock
  <2>3. ASSUME NEW r \in Replicas, FindLocked(m, r)
        PROVE  \A l \in Requests : Outstanding(l)' => lock' = l
    <3>1. \A l \in Requests : Outstanding(l)' => Outstanding(l)
      BY <1>0, <2>3 DEF FindLocked, Outstanding
    <3>2. lock' = lock \/ lock = None
      BY <2>3 DEF FindLocked
    <3>3. QED
      BY <1>0, <1>2, <3>1, <3>2
  <2>4. CASE Reject(m) \/ RecordHolder(m)
    <3>1. \A l \in Requests : Outstanding(l)' => Outstanding(l)
      BY <1>0, <2>4 DEF Reject, RecordHolder, Outstanding
    <3>2. QED
      BY <1>2, <3>1, <2>4 DEF Reject, RecordHolder
  <2>5. CASE PublishJob(m)
    <3>1. Outstanding(m)
      BY <2>5 DEF PublishJob, Outstanding
    <3>2. \A l \in Requests : Outstanding(l)' => Outstanding(l)
      BY <1>0, <2>5, <3>1 DEF PublishJob, Outstanding
    <3>3. QED
      BY <1>2, <3>2, <2>5 DEF PublishJob
  <2>6. CASE ClientGone(m)
    <3>1. \A l \in Requests : Outstanding(l)' => Outstanding(l)
      BY <1>0, <2>6 DEF ClientGone, Outstanding
    <3>2. QED
      BY <1>2, <3>1, <2>6 DEF ClientGone
  <2>7. QED
    BY <1>3, <2>1, <2>2, <2>3, <2>4, <2>5, <2>6 DEF Handler
<1>4. ASSUME NEW r \in Replicas, Consumer(r)
      PROVE  \A l \in Requests : Outstanding(l)' => lock' = l
  <2>1. ASSUME NEW m \in Requests, Deliver(m, r)
        PROVE  \A l \in Requests : Outstanding(l)' => lock' = l
    <3>1. Outstanding(m)
      BY <2>1 DEF Deliver, Outstanding
    <3>2. \A l \in Requests : Outstanding(l)' => Outstanding(l)
      BY <1>0, <2>1, <3>1 DEF Deliver, Outstanding
    <3>3. QED
      BY <1>2, <3>2, <2>1 DEF Deliver
  <2>2. ASSUME NEW m \in Requests, StartMerge(m, r)
        PROVE  \A l \in Requests : Outstanding(l)' => lock' = l
    <3>1. \A l \in Requests : Outstanding(l)' => Outstanding(l)
      BY <1>0, <2>2 DEF StartMerge, Outstanding
    <3>2. QED
      BY <1>2, <3>1, <2>2 DEF StartMerge
  <2>3. CASE FinishMerge(r)
    <3>1. \A l \in Requests : Outstanding(l)' => Outstanding(l)
      BY <1>0, <2>3 DEF FinishMerge, Outstanding
    <3>2. QED
      BY <1>2, <3>1, <2>3 DEF FinishMerge
  <2>4. CASE ReleaseLock(r)
    <3>1. job[r] \in Requests /\ pc[r] = "release" /\ broker[job[r]] = r
      BY <1>2, <2>4 DEF ReleaseLock
    <3>2. Outstanding(job[r])
      BY <3>1 DEF Outstanding
    <3>3. \A l \in Requests : Outstanding(l)' => Outstanding(l)
      BY <1>0, <2>4 DEF ReleaseLock, Outstanding
    <3>4. \A l \in Requests : l = job[r] => ~Outstanding(l)'
      BY <1>0, <1>2, <2>4, <3>1 DEF ReleaseLock, Outstanding
    <3>5. \A l \in Requests : ~Outstanding(l)'
      BY <1>2, <3>1, <3>2, <3>3, <3>4
    <3>6. QED
      BY <3>5
  <2>5. CASE Ack(r)
    <3>1. job[r] \in Requests /\ pc[r] = "ack" /\ broker[job[r]] = r
      BY <1>2, <2>5 DEF Ack
    <3>2. \A l \in Requests : Outstanding(l)' => Outstanding(l)
      BY <1>0, <1>2, <2>5, <3>1 DEF Ack, Outstanding
    <3>3. QED
      BY <1>2, <3>2, <2>5 DEF Ack
  <2>6. CASE AckFails(r) \/ Reconnect(r)
    BY <1>2, <2>6 DEF AckFails, Reconnect
  <2>7. QED
    BY <1>4, <2>1, <2>2, <2>3, <2>4, <2>5, <2>6 DEF Consumer
<1>5. ASSUME NEW r \in Replicas, ConnectionDrops(r) \/ Restart(r)
      PROVE  FALSE
  <2>1. drops \in Nat /\ restarts \in Nat
    BY QueueAssumption DEF TypeOK, QueueAssumption
  <2>2. QED
    BY <1>5, <2>1 DEF ConnectionDrops, Restart, Undisturbed, NoLoss
<1>6. CASE LockExpires
  <2>1. ~Outstanding(lock)
    <3>1. overruns \in Nat
      BY QueueAssumption DEF TypeOK, QueueAssumption
    <3>2. QED
      BY <1>1, <1>6, <3>1 DEF LockExpires, Undisturbed
  <2>2. \A l \in Requests : Outstanding(l)' => Outstanding(l)
    BY <1>6 DEF LockExpires, Outstanding
  <2>3. QED
    BY <1>2, <2>1, <2>2
<1>7. CASE CurrentExpires \/ \E r \in Replicas : PublisherBreaks(r)
  BY <1>2, <1>7 DEF CurrentExpires, PublisherBreaks, Outstanding
<1>8. CASE Idle \/ UNCHANGED vars
  BY <1>2, <1>8 DEF Idle, vars, Outstanding
<1>9. QED
  BY <1>3, <1>4, <1>5, <1>6, <1>7, <1>8 DEF Next

-----------------------------------------------------------------------------
(* The theorems *)

LEMMA Inductive == Spec => []IInv
<1>1. IInv /\ [Next]_vars => IInv'
  BY TypeStep, AcceptedStep, OwnedStep, ProtectedStep DEF IInv
<1>2. QED
  BY <1>1, InitInv, PTL DEF Spec

\* A delivery is acknowledged only after its job ran, and only queued requests
\* are merged: for any faults, dropped connections and restarts.
THEOREM NoJobLost == Spec => []AtLeastOnce
<1>1. IInv => AtLeastOnce
  BY DEF IInv, Accepted, AtLeastOnce
<1>2. QED
  BY <1>1, Inductive, PTL

\* As long as no connection was lost and nothing restarted, no job ran twice,
\* whatever happened to the lock.
THEOREM NoRepeats == Spec => []RepeatsNeedRedelivery
<1>1. IInv => RepeatsNeedRedelivery
  BY DEF IInv, Owned, NoLoss, RepeatsNeedRedelivery
<1>2. QED
  BY <1>1, Inductive, PTL

\* As long as also no merge outlived the TTL of the lock, at most one merge runs
\* in all replicas, although the release of the lock checks no owner and Redis
\* calls may fail at any step.
THEOREM Exclusion == Spec => []OneMergeAtATime
<1>1. ASSUME IInv, Undisturbed, NEW r \in Replicas, NEW s \in Replicas,
             pc[r] = "merging", pc[s] = "merging"
      PROVE  r = s
  <2>1. \A q \in Replicas :
          pc[q] = "merging" => job[q] \in Requests /\ broker[job[q]] = q
    BY <1>1 DEF IInv, Accepted, Owned, Undisturbed, NoLoss
  <2>2. \A q \in Replicas : pc[q] = "merging" => Outstanding(job[q])
    BY <2>1 DEF Outstanding
  <2>3. lock = job[r] /\ lock = job[s]
    BY <1>1, <2>1, <2>2 DEF IInv, Protected
  <2>4. QED
    BY <1>1, <2>1, <2>3
<1>2. IInv => OneMergeAtATime
  BY <1>1 DEF OneMergeAtATime
<1>3. QED
  BY <1>2, Inductive, PTL

\* Under the same conditions the DEL that ends a job only removes that job's
\* own lock.
THEOREM OwnRelease == Spec => ReleasesOwnLock
<1> DEFINE Own == \A r \in Replicas :
                    Undisturbed /\ pc[r] = "release" /\ pc'[r] = "ack" /\ lock' # lock
                    => lock = job[r]
<1>1. IInv /\ [Next]_vars => [Own]_vars
  <2> SUFFICES ASSUME IInv, Undisturbed, NEW r \in Replicas, pc[r] = "release"
               PROVE  lock = job[r]
    OBVIOUS
  <2>1. job[r] \in Requests /\ broker[job[r]] = r
    BY DEF IInv, Accepted, Owned, Undisturbed, NoLoss
  <2>2. QED
    BY <2>1 DEF IInv, Protected, Outstanding
<1>2. QED
  BY <1>1, Inductive, PTL DEF Spec, ReleasesOwnLock

-----------------------------------------------------------------------------
(* The holder that conflict replies name *)

\* A merge that is done is not the recorded holder: its consumer deleted the
\* record before its acknowledgement, and its handler wrote it before the job.
Current ==
    "redis" \notin Faults =>
        /\ current # None => broker[current] # "acked"
        /\ \A r \in Replicas : pc[r] = "ack" => current # job[r]

LEMMA CurrentStep == TypeOK /\ Accepted /\ Current /\ [Next]_vars => Current'
<1> SUFFICES ASSUME TypeOK, Accepted, Current, [Next]_vars, "redis" \notin Faults
             PROVE  /\ current' # None => broker'[current'] # "acked"
                    /\ \A r \in Replicas : pc'[r] = "ack" => current' # job'[r]
  BY DEF Current
<1>0. /\ current \in Requests \union {None} /\ None \notin Requests
      /\ req \in [Requests -> Phases]
      /\ broker \in [Requests -> Broker]
      /\ pc \in [Replicas -> Steps]
      /\ job \in [Replicas -> Requests \union {None}]
      /\ "acked" \notin Replicas
  BY QueueAssumption DEF TypeOK, QueueAssumption
<1>1. /\ current # None => broker[current] # "acked"
      /\ \A r \in Replicas : pc[r] = "ack" => current # job[r]
      /\ \A r \in Replicas : pc[r] = "ack" => job[r] \in Requests /\ req[job[r]] = "queued"
      /\ \A m \in Requests : broker[m] = "acked" => req[m] = "queued"
  BY <1>0 DEF Current, Accepted
<1> USE DEF Step, Goto, Arrive, keys, handlers, amqp, consumer, budget
<1>2. ASSUME NEW m \in Requests, Handler(m)
      PROVE  /\ current' # None => broker'[current'] # "acked"
             /\ \A r \in Replicas : pc'[r] = "ack" => current' # job'[r]
  <2>1. ASSUME NEW r \in Replicas, Calls(m, r)
        PROVE  UNCHANGED <<current, broker, pc, job>>
    BY <2>1 DEF Calls, BadRequest, AcquireLock, FindLocked
  <2>2. CASE Reject(m) \/ ClientGone(m)
    BY <1>1, <2>2 DEF Reject, ClientGone
  <2>3. CASE RecordHolder(m)
    <3>1. current' = m /\ req[m] # "queued"
      BY <2>3 DEF RecordHolder
    <3>2. UNCHANGED <<broker, pc, job>>
      BY <2>3 DEF RecordHolder
    <3>3. QED
      BY <1>1, <3>1, <3>2
  <2>4. CASE PublishJob(m)
    BY <1>0, <1>1, <2>4 DEF PublishJob
  <2>5. QED
    BY <1>1, <1>2, <2>1, <2>2, <2>3, <2>4 DEF Handler, Calls
<1>3. ASSUME NEW r \in Replicas, Consumer(r)
      PROVE  /\ current' # None => broker'[current'] # "acked"
             /\ \A s \in Replicas : pc'[s] = "ack" => current' # job'[s]
  <2>1. ASSUME NEW m \in Requests, Deliver(m, r)
        PROVE  /\ current' # None => broker'[current'] # "acked"
               /\ UNCHANGED <<current, pc, job>>
    BY <1>0, <1>1, <2>1 DEF Deliver
  <2>2. ASSUME NEW m \in Requests, StartMerge(m, r)
        PROVE  /\ UNCHANGED <<current, broker>>
               /\ \A s \in Replicas : pc'[s] = "ack" => current' # job'[s]
    BY <1>0, <1>1, <2>2 DEF StartMerge
  <2>3. CASE FinishMerge(r)
    BY <1>0, <1>1, <2>3 DEF FinishMerge
  <2>4. CASE ReleaseLock(r)
    <3>1. current' = None /\ UNCHANGED <<broker, job>>
      BY <2>4 DEF ReleaseLock
    <3>2. \A s \in Replicas : pc'[s] = "ack" => job[s] \in Requests
      BY <1>0, <1>1, <2>4 DEF ReleaseLock, Accepted
    <3>3. QED
      BY <1>0, <3>1, <3>2
  <2>5. CASE Ack(r)
    BY <1>0, <1>1, <2>5 DEF Ack
  <2>6. CASE AckFails(r)
    BY <1>0, <1>1, <2>6 DEF AckFails
  <2>7. CASE Reconnect(r)
    BY <1>1, <2>7 DEF Reconnect
  <2>8. QED
    BY <1>1, <1>3, <2>1, <2>2, <2>3, <2>4, <2>5, <2>6, <2>7 DEF Consumer
<1>4. ASSUME NEW r \in Replicas, ConnectionDrops(r) \/ PublisherBreaks(r) \/ Restart(r)
      PROVE  /\ current' # None => broker'[current'] # "acked"
             /\ \A s \in Replicas : pc'[s] = "ack" => current' # job'[s]
  <2>1. broker' = broker \/ broker' = Requeued(r)
    BY <1>4 DEF ConnectionDrops, PublisherBreaks, Restart
  <2>2. \A m \in Requests : broker'[m] = "acked" => broker[m] = "acked"
    BY <1>0, <2>1 DEF Requeued
  <2>3. current' = current
    BY <1>4 DEF ConnectionDrops, PublisherBreaks, Restart
  <2>4. \A s \in Replicas : pc'[s] = "ack" => pc[s] = "ack" /\ job'[s] = job[s]
    BY <1>0, <1>4 DEF ConnectionDrops, PublisherBreaks, Restart
  <2>5. QED
    BY <1>0, <1>1, <2>2, <2>3, <2>4
<1>5. CASE LockExpires \/ CurrentExpires
  <2>1. UNCHANGED <<broker, pc, job>> /\ (current' = current \/ current' = None)
    BY <1>5 DEF LockExpires, CurrentExpires
  <2>2. QED
    BY <1>0, <1>1, <2>1
<1>6. CASE Idle \/ UNCHANGED vars
  BY <1>1, <1>6 DEF Idle, vars
<1>7. QED
  BY <1>2, <1>3, <1>4, <1>5, <1>6 DEF Next

\* While Redis answers, git:merge:current never names a merge that is done, for
\* any lost connections, restarts and merges that outlive the lock.
THEOREM LiveBlocker == Spec => []BlockerIsUnfinished
<1>1. Init => Current
  BY DEF Init, Current
<1>2. TypeOK /\ Accepted /\ Current /\ [Next]_vars => Current'
  BY CurrentStep
<1>3. IInv => TypeOK /\ Accepted
  BY DEF IInv
<1>4. Current => BlockerIsUnfinished
  BY DEF Current, BlockerIsUnfinished
<1>5. QED
  BY <1>1, <1>2, <1>3, <1>4, Inductive, PTL DEF Spec

-----------------------------------------------------------------------------
(* Refinement *)

Seen == <<Queued, Running, Merged, Finished, Troubles>>

LEMMA InitServer == Init => Server!Init
<1> SUFFICES ASSUME Init
             PROVE  Server!Init
  OBVIOUS
<1>1. Queued = {} /\ Running = {} /\ Merged = {} /\ Finished = {} /\ Troubles = {}
  BY DEF Init, Queued, Running, Merged, Finished, Troubles
<1>2. QED
  BY <1>1 DEF Server!Init

LEMMA ServerHandler ==
    ASSUME IInv, NEW m \in Requests, Handler(m)
    PROVE  Server!Accept(m) \/ UNCHANGED Seen
<1>0. /\ req \in [Requests -> Phases] /\ broker \in [Requests -> Broker]
      /\ \A n \in Requests : broker[n] # "absent" => req[n] = "queued"
  BY DEF IInv, TypeOK, Accepted
<1>1. UNCHANGED <<Running, Merged, Troubles>>
  BY DEF Handler, BadRequest, AcquireLock, FindLocked, Reject, RecordHolder, PublishJob,
         ClientGone, consumer, budget, Running, Merged, Troubles
<1>2. CASE PublishJob(m)
  <2>1. req[m] = "recorded" /\ req' = [req EXCEPT ![m] = "queued"]
    BY <1>2 DEF PublishJob, Step
  <2>2. m \notin Queued /\ Queued' = Queued \union {m}
    BY <1>0, <2>1 DEF Queued
  <2>3. broker[m] = "absent"
    BY <1>0, <2>1
  <2>4. broker' = broker \/ broker' = [broker EXCEPT ![m] = "ready"]
    BY <1>2 DEF PublishJob
  <2>5. Finished' = Finished
    BY <1>0, <2>3, <2>4 DEF Finished
  <2>6. QED
    BY <1>1, <2>2, <2>5 DEF Server!Accept
<1>3. ASSUME ~PublishJob(m)
      PROVE  UNCHANGED Seen
  <2>1. broker' = broker /\ req[m] # "queued" /\ \E p \in Phases \ {"queued"} : req' = [req EXCEPT ![m] = p]
    BY <1>0, <1>3 DEF Handler, BadRequest, AcquireLock, FindLocked, Reject, RecordHolder, ClientGone,
                 Step, amqp, Serving, Phases
  <2>2. Queued' = Queued /\ Finished' = Finished
    BY <1>0, <2>1 DEF Queued, Finished
  <2>3. QED
    BY <1>1, <2>2 DEF Seen
<1>4. QED
  BY <1>2, <1>3

\* A job begins alone, and once, until something goes wrong.
LEMMA ServerBegins ==
    ASSUME IInv, NEW m \in Requests, NEW r \in Replicas, StartMerge(m, r)
    PROVE  Server!Begin(m)
<1>0. /\ pc \in [Replicas -> Steps] /\ job \in [Replicas -> Requests \union {None}]
      /\ merges \in [Requests -> 0 .. 2]
      /\ "absent" \notin Replicas /\ "ready" \notin Replicas /\ "acked" \notin Replicas
  BY QueueAssumption DEF IInv, TypeOK, QueueAssumption
<1>1. /\ broker[m] = r /\ pc[r] = "next"
      /\ pc' = [pc EXCEPT ![r] = "merging"] /\ job' = [job EXCEPT ![r] = m]
      /\ UNCHANGED <<req, broker, merges, drops, restarts, overruns>>
  BY DEF StartMerge, Goto, handlers, amqp, budget
<1>2. m \in Queued \ Finished
  BY <1>0, <1>1 DEF IInv, Accepted, Queued, Finished
<1>3. Running' = Running \union {m}
  BY <1>0, <1>1 DEF Running
<1>4. ASSUME Running # {}
      PROVE  Troubles # {}
  <2> SUFFICES ASSUME Undisturbed
               PROVE  FALSE
    BY DEF Troubles, Undisturbed
  <2>1. PICK n \in Requests, s \in Replicas : pc[s] = "merging" /\ job[s] = n
    BY <1>4 DEF Running
  <2>2. broker[n] = s
    BY <2>1 DEF IInv, Owned, Undisturbed, NoLoss
  <2>3. Outstanding(n) /\ Outstanding(m)
    BY <1>1, <2>1, <2>2 DEF Outstanding
  <2>4. n = m
    BY <2>3 DEF IInv, Protected
  <2>5. QED
    BY <1>1, <2>1, <2>2, <2>4
<1>5. ASSUME m \in Merged
      PROVE  "redelivery" \in Troubles
  <2> SUFFICES ASSUME NoLoss
               PROVE  FALSE
    BY DEF Troubles, NoLoss
  <2>1. broker[m] = "acked" \/ \E s \in Replicas : Done(m, s)
    BY <1>5 DEF IInv, Owned, Merged
  <2>2. QED
    BY <1>0, <1>1, <2>1 DEF Done
<1>6. UNCHANGED <<Queued, Merged, Finished, Troubles>>
  BY <1>1 DEF Queued, Merged, Finished, Troubles
<1>7. QED
  BY <1>2, <1>3, <1>4, <1>5, <1>6 DEF Server!Begin

\* Only after a redelivery is another consumer at the same job.
LEMMA ServerEnds ==
    ASSUME IInv, NEW r \in Replicas, FinishMerge(r)
    PROVE  \E m \in Requests : Server!End(m)
<1>0. /\ pc \in [Replicas -> Steps] /\ job \in [Replicas -> Requests \union {None}]
      /\ merges \in [Requests -> 0 .. 2]
  BY DEF IInv, TypeOK
<1> DEFINE m == job[r]
<1>1. /\ pc[r] = "merging" /\ pc' = [pc EXCEPT ![r] = "release"]
      /\ merges' = [merges EXCEPT ![m] = IF @ < 2 THEN @ + 1 ELSE @]
      /\ UNCHANGED <<req, broker, job, drops, restarts, overruns>>
  BY DEF FinishMerge, Goto, handlers, amqp, budget
<1>2. m \in Requests
  BY <1>1 DEF IInv, Accepted
<1> HIDE DEF m
<1>3. m \in Running
  BY <1>1, <1>2 DEF Running, m
<1>4. Merged' = Merged \union {m}
  <2>1. merges'[m] > 0 /\ \A n \in Requests \ {m} : merges'[n] = merges[n]
    BY <1>0, <1>1, <1>2
  <2>2. QED
    BY <1>2, <2>1 DEF Merged
<1>5. CASE \E s \in Replicas \ {r} : pc[s] = "merging" /\ job[s] = m
  <2>1. Running' = Running
    BY <1>0, <1>1, <1>5 DEF Running, m
  <2>2. ~NoLoss
    BY <1>1, <1>5 DEF IInv, Owned, m
  <2>3. "redelivery" \in Troubles
    BY <2>2 DEF Troubles, NoLoss
  <2>4. UNCHANGED <<Queued, Finished, Troubles>>
    BY <1>1 DEF Queued, Finished, Troubles
  <2>5. QED
    BY <1>2, <1>3, <1>4, <2>1, <2>3, <2>4 DEF Server!End
<1>6. CASE ~ \E s \in Replicas \ {r} : pc[s] = "merging" /\ job[s] = m
  <2>1. Running' = Running \ {m}
    BY <1>0, <1>1, <1>6 DEF Running, m
  <2>2. UNCHANGED <<Queued, Finished, Troubles>>
    BY <1>1 DEF Queued, Finished, Troubles
  <2>3. QED
    BY <1>2, <1>3, <1>4, <2>1, <2>2 DEF Server!End
<1>7. QED
  BY <1>5, <1>6

LEMMA ServerConfirms ==
    ASSUME IInv, NEW r \in Replicas, Ack(r)
    PROVE  \E m \in Requests : Server!Confirm(m)
<1>0. /\ pc \in [Replicas -> Steps] /\ job \in [Replicas -> Requests \union {None}]
      /\ broker \in [Requests -> Broker]
  BY DEF IInv, TypeOK
<1>1. /\ pc[r] = "ack" /\ pc' = [pc EXCEPT ![r] = "next"]
      /\ broker' = [broker EXCEPT ![job[r]] = "acked"] /\ job' = [job EXCEPT ![r] = None]
      /\ UNCHANGED <<req, merges, drops, restarts, overruns>>
  BY DEF Ack, Goto, handlers, budget
<1>2. job[r] \in Requests /\ job[r] \in Merged
  BY <1>1 DEF IInv, Accepted, Merged
<1>3. Finished' = Finished \union {job[r]}
  BY <1>0, <1>1, <1>2 DEF Finished
<1>4. Running' = Running
  BY <1>0, <1>1 DEF Running
<1>5. UNCHANGED <<Queued, Merged, Troubles>>
  BY <1>1 DEF Queued, Merged, Troubles
<1>6. QED
  BY <1>2, <1>3, <1>4, <1>5 DEF Server!Confirm

\* What leaves all jobs as they are: a delivery, the release of the lock, a new connection.
LEMMA ServerWaits ==
    ASSUME IInv, NEW r \in Replicas,
           \/ \E m \in Requests : Deliver(m, r)
           \/ ReleaseLock(r) \/ AckFails(r) \/ Reconnect(r) \/ PublisherBreaks(r)
    PROVE  UNCHANGED Seen
<1>0. /\ pc \in [Replicas -> Steps] /\ job \in [Replicas -> Requests \union {None}]
      /\ broker \in [Requests -> Broker] /\ "acked" \notin Replicas
  BY QueueAssumption DEF IInv, TypeOK, QueueAssumption
<1>1. UNCHANGED <<req, merges, drops, restarts, overruns>>
  BY DEF Deliver, ReleaseLock, AckFails, Reconnect, PublisherBreaks, handlers, consumer, budget
<1>2. Finished' = Finished
  <2>1. ASSUME NEW m \in Requests, Deliver(m, r)
        PROVE  Finished' = Finished
    BY <1>0, <2>1 DEF Deliver, Finished
  <2>2. ASSUME ReleaseLock(r) \/ AckFails(r) \/ Reconnect(r) \/ PublisherBreaks(r)
        PROVE  Finished' = Finished
    BY <2>2 DEF ReleaseLock, AckFails, Reconnect, PublisherBreaks, amqp, Finished
  <2>3. QED
    BY <2>1, <2>2
<1>3. Running' = Running
  BY <1>0 DEF Deliver, ReleaseLock, AckFails, Reconnect, PublisherBreaks, Goto, consumer, Running
<1>4. QED
  BY <1>1, <1>2, <1>3 DEF Seen, Queued, Merged, Troubles

LEMMA ServerTroubles ==
    ASSUME IInv, (\E r \in Replicas : ConnectionDrops(r) \/ Restart(r)) \/ LockExpires
    PROVE  Server!Redelivery \/ Server!Overrun \/ UNCHANGED Seen
<1>0. /\ pc \in [Replicas -> Steps] /\ job \in [Replicas -> Requests \union {None}]
      /\ req \in [Requests -> Phases] /\ broker \in [Requests -> Broker]
      /\ "acked" \notin Replicas
      /\ drops \in Nat /\ restarts \in Nat /\ overruns \in Nat
  BY QueueAssumption DEF IInv, TypeOK, QueueAssumption
<1>1. ASSUME NEW r \in Replicas, broker' = Requeued(r)
      PROVE  Finished' = Finished
  BY <1>0, <1>1 DEF Requeued, Finished
<1>2. ASSUME NEW r \in Replicas, ConnectionDrops(r)
      PROVE  Server!Redelivery
  <2>1. /\ drops' # 0 /\ UNCHANGED <<req, pc, job, merges, restarts, overruns>>
        /\ broker' = Requeued(r)
    BY <1>0, <1>2 DEF ConnectionDrops, handlers, consumer
  <2>2. UNCHANGED <<Queued, Running, Merged, Finished>>
    BY <1>1, <2>1 DEF Queued, Running, Merged
  <2>3. Troubles' = Troubles \union {"redelivery"}
    BY <2>1 DEF Troubles
  <2>4. QED
    BY <2>2, <2>3 DEF Server!Redelivery
<1>3. ASSUME NEW r \in Replicas, Restart(r)
      PROVE  Server!Redelivery
  <2>1. /\ restarts' # 0 /\ UNCHANGED <<merges, drops, overruns>>
        /\ broker' = Requeued(r) /\ pc' = [pc EXCEPT ![r] = "next"]
        /\ job' = [job EXCEPT ![r] = None]
    BY <1>0, <1>3 DEF Restart
  <2>2. Queued' = Queued
    BY <1>0, <1>3 DEF Restart, Queued, Serving
  <2>3. Running' \in SUBSET Running
    BY <1>0, <2>1 DEF Running
  <2>4. Merged' = Merged /\ Finished' = Finished
    BY <1>1, <2>1 DEF Merged
  <2>5. Troubles' = Troubles \union {"redelivery"}
    BY <2>1 DEF Troubles
  <2>6. QED
    BY <2>2, <2>3, <2>4, <2>5 DEF Server!Redelivery
<1>4. CASE LockExpires
  <2>1. /\ UNCHANGED <<req, broker, pc, job, merges, drops, restarts>>
        /\ overruns' = overruns \/ overruns' = overruns + 1
    BY <1>4 DEF LockExpires, handlers, amqp, consumer
  <2>2. UNCHANGED <<Queued, Running, Merged, Finished>>
    BY <2>1 DEF Queued, Running, Merged, Finished
  <2>3. Troubles' = Troubles \/ Troubles' = Troubles \union {"overrun"}
    BY <1>0, <2>1 DEF Troubles
  <2>4. QED
    BY <2>2, <2>3 DEF Server!Overrun, Seen
<1>5. QED
  BY <1>2, <1>3, <1>4

LEMMA ServerStep == IInv /\ [Next]_vars => [Server!Next]_(Server!jobs)
<1> SUFFICES ASSUME IInv, [Next]_vars
             PROVE  Server!Next \/ UNCHANGED Seen
  BY DEF Seen, Server!jobs
<1>1. ASSUME NEW m \in Requests, Handler(m)
      PROVE  Server!Next \/ UNCHANGED Seen
  BY <1>1, ServerHandler DEF Server!Next
<1>2. ASSUME NEW r \in Replicas, Consumer(r) \/ PublisherBreaks(r)
      PROVE  Server!Next \/ UNCHANGED Seen
  BY <1>2, ServerBegins, ServerEnds, ServerConfirms, ServerWaits DEF Consumer, Server!Next
<1>3. CASE (\E r \in Replicas : ConnectionDrops(r) \/ Restart(r)) \/ LockExpires
  BY <1>3, ServerTroubles DEF Server!Next
<1>4. CASE CurrentExpires \/ Idle \/ UNCHANGED vars
  BY <1>4 DEF CurrentExpires, Idle, vars, handlers, amqp, consumer, budget,
              Seen, Queued, Running, Merged, Finished, Troubles
<1>5. QED
  BY <1>1, <1>2, <1>3, <1>4 DEF Next

\* For any number of requests and replicas the endpoint and its consumers are a server of
\* jobs: every step of theirs accepts, begins, ends or confirms a job as JobServer allows, or
\* is a lost delivery or a late merge, or changes no job (merge_queue_handler.rs:8-9).
THEOREM Refinement == Spec => ImplementsServer
  BY InitServer, ServerStep, Inductive, PTL DEF Spec, ImplementsServer, Server!Spec
=============================================================================
