----------------------------- MODULE MergeQueue -----------------------------
(***************************************************************************)
(* The org-wide merge queue: POST /org/merge-queue takes a Redis lock,     *)
(* records who holds it and publishes a job to a durable RabbitMQ queue;   *)
(* a consumer in every replica runs the job, deletes the lock and only     *)
(* then acknowledges the delivery.  What a job does to the repositories is *)
(* in module OrgMerge.                                                     *)
(***************************************************************************)
EXTENDS Naturals, FiniteSets

CONSTANTS
    Requests,    \* merge_request_ids, one per call of the endpoint
    Invalid,     \* those whose org_id or branch does not validate
    Replicas,    \* sidecar processes: HTTP handlers, one publisher, one consumer
    Faults,      \* which of AllFaults can happen in this instance
    MaxDrops,    \* bound: broken consumer connections
    MaxRestarts, \* bound: restarts of sidecar processes
    MaxOverruns, \* bound: times SERVER_LOCK_TTL runs out before the job is done
    None         \* no request, no replica, no body

AllFaults == {"redis",      \* a Redis call fails, or its reply is lost
              "publisher"}  \* the publisher's connection breaks, or loses a message

ASSUME QueueAssumption ==
    /\ Invalid \subseteq Requests
    /\ Faults \subseteq AllFaults
    /\ MaxDrops \in Nat
    /\ MaxRestarts \in Nat
    /\ MaxOverruns \in Nat
    /\ None \notin Requests
    /\ None \notin Replicas
    /\ Replicas \intersect {"absent", "ready", "acked"} = {}

VARIABLES
    lock,       \* git:server:lock, as the request whose SET created it
    current,    \* git:merge:current
    req, home,  \* per request: phase of its handler, replica serving it
    publisher,  \* per replica: RabbitPool's channel works
    broker,     \* per request: its message at the broker (a replica: unacked there)
    connected,  \* per replica: the consumer has a channel
    pc, job,    \* per replica: step of process_deliveries, delivery it works on
    merges,     \* history, per request: completed executions, counted to 2
    drops, restarts, overruns

handlers == <<req, home>>
keys     == <<lock, current>>
amqp     == <<publisher, broker, connected>>
consumer == <<pc, job, merges>>
budget   == <<drops, restarts, overruns>>
vars == <<lock, current, req, home, publisher, broker, connected,
          pc, job, merges, drops, restarts, overruns>>

Serving == {"locked", "recorded", "blocked"}
Phases  == Serving \union {"new", "refused", "rejected", "queued", "cut"}
Broker  == {"absent", "ready", "acked"} \union Replicas
Steps   == {"next", "merging", "release", "ack"}

Step(m, from, to) ==
    /\ req[m] = from
    /\ req' = [req EXCEPT ![m] = to]

Goto(r, from, to) ==
    /\ pc[r] = from
    /\ pc' = [pc EXCEPT ![r] = to]

-----------------------------------------------------------------------------
Init ==
    /\ lock = None
    /\ current = None
    /\ req = [m \in Requests |-> "new"]
    /\ home = [m \in Requests |-> None]
    /\ publisher = [r \in Replicas |-> TRUE]
    /\ broker = [m \in Requests |-> "absent"]
    /\ connected = [r \in Replicas |-> TRUE]
    /\ pc = [r \in Replicas |-> "next"]
    /\ job = [r \in Replicas |-> None]
    /\ merges = [m \in Requests |-> 0]
    /\ drops = 0
    /\ restarts = 0
    /\ overruns = 0

-----------------------------------------------------------------------------
(* handle_merge_queue *)

Arrive(m, r) == home' = [home EXCEPT ![m] = r]

BadRequest(m, r) ==
    /\ m \in Invalid
    /\ Step(m, "new", "refused")
    /\ Arrive(m, r)
    /\ UNCHANGED <<keys, amqp, consumer, budget>>

\* SET NX EX created the key.
AcquireLock(m, r) ==
    /\ m \notin Invalid
    /\ lock = None
    /\ Step(m, "new", "locked")
    /\ Arrive(m, r)
    /\ lock' = m
    /\ UNCHANGED <<current, amqp, consumer, budget>>

\* The key exists, or Redis failed (perhaps after creating it): no lock.
FindLocked(m, r) ==
    /\ m \notin Invalid
    /\ \/ lock # None /\ UNCHANGED lock
       \/ "redis" \in Faults /\ lock = None /\ lock' \in {None, m}
    /\ Step(m, "new", "blocked")
    /\ Arrive(m, r)
    /\ UNCHANGED <<current, amqp, consumer, budget>>

\* The reply, meant as a 409, names the holder in git:merge:current, if any.
Reject(m) ==
    /\ Step(m, "blocked", "rejected")
    /\ UNCHANGED <<keys, home, amqp, consumer, budget>>

\* The result of this SET EX is ignored.
RecordHolder(m) ==
    /\ Step(m, "locked", "recorded")
    /\ current' = m \/ ("redis" \in Faults /\ UNCHANGED current)
    /\ UNCHANGED <<lock, home, amqp, consumer, budget>>

\* Mutant of PublishJob: the handler deletes the lock once the job is published.
PublishAndRelease(m) ==
    /\ Step(m, "recorded", "queued")
    /\ broker' = [broker EXCEPT ![m] = IF publisher[home[m]] THEN "ready" ELSE @]
    /\ lock' = None
    /\ UNCHANGED <<current, home, publisher, connected, consumer, budget>>

\* basic_publish asks for no confirmation and its error is only logged.
PublishJob(m) ==
    /\ Step(m, "recorded", "queued")
    /\ \/ publisher[home[m]] /\ broker' = [broker EXCEPT ![m] = "ready"]
       \/ ~publisher[home[m]] /\ UNCHANGED broker
       \/ "publisher" \in Faults /\ UNCHANGED broker
    /\ UNCHANGED <<keys, home, publisher, connected, consumer, budget>>

\* warp drops the handler of a client that disconnects at its next await, with
\* the lock held and no job published if it comes to that.
ClientGone(m) ==
    /\ req[m] \in Serving
    /\ req' = [req EXCEPT ![m] = "cut"]
    /\ UNCHANGED <<keys, home, amqp, consumer, budget>>

-----------------------------------------------------------------------------
(* The broker and the consumers *)

\* Mutant of Deliver: a queue per replica, as in a fanout exchange.
DeliverFanout(m, r) ==
    /\ broker[m] \in {"ready"} \union Replicas
    /\ connected[r]
    /\ broker' = [broker EXCEPT ![m] = r]
    /\ UNCHANGED <<keys, handlers, publisher, connected, consumer, budget>>

\* basic_consume without a prefetch limit.
Deliver(m, r) ==
    /\ broker[m] = "ready"
    /\ connected[r]
    /\ broker' = [broker EXCEPT ![m] = r]
    /\ UNCHANGED <<keys, handlers, publisher, connected, consumer, budget>>

\* Mutant of StartMerge: the consumer uses automatic acknowledgement.
StartAutoAck(m, r) ==
    /\ broker[m] = r
    /\ connected[r]
    /\ Goto(r, "next", "merging")
    /\ job' = [job EXCEPT ![r] = m]
    /\ broker' = [broker EXCEPT ![m] = "acked"]
    /\ UNCHANGED <<keys, handlers, publisher, connected, merges, budget>>

StartMerge(m, r) ==
    /\ broker[m] = r
    /\ connected[r]
    /\ Goto(r, "next", "merging")
    /\ job' = [job EXCEPT ![r] = m]
    /\ UNCHANGED <<keys, handlers, amqp, merges, budget>>

\* execute_org_merge has no result: success, abort and panic end alike.
FinishMerge(r) ==
    /\ Goto(r, "merging", "release")
    /\ merges' = [merges EXCEPT ![job[r]] = IF @ < 2 THEN @ + 1 ELSE @]
    /\ UNCHANGED <<keys, handlers, amqp, job, budget>>

\* Mutant of ReleaseLock: DEL of the lock alone.
ReleaseLockAlone(r) ==
    /\ Goto(r, "release", "ack")
    /\ lock' = None
    /\ UNCHANGED <<current, handlers, amqp, job, merges, budget>>

\* DEL of both keys, whoever set them.
ReleaseLock(r) ==
    /\ Goto(r, "release", "ack")
    /\ \/ lock' = None /\ current' = None
       \/ "redis" \in Faults /\ UNCHANGED keys
    /\ UNCHANGED <<handlers, amqp, job, merges, budget>>

Ack(r) ==
    /\ connected[r]
    /\ Goto(r, "ack", "next")
    /\ broker' = [broker EXCEPT ![job[r]] = "acked"]
    /\ job' = [job EXCEPT ![r] = None]
    /\ UNCHANGED <<keys, handlers, publisher, connected, merges, budget>>

\* The channel is gone: ack fails and process_deliveries returns the error.
AckFails(r) ==
    /\ ~connected[r]
    /\ Goto(r, "ack", "next")
    /\ job' = [job EXCEPT ![r] = None]
    /\ UNCHANGED <<keys, handlers, amqp, merges, budget>>

\* Mutant of Reconnect: run_consumer_loop retries on the broken channel for ever.
StaysDown(r) ==
    /\ ~connected[r]
    /\ pc[r] = "next"
    /\ UNCHANGED vars

Reconnect(r) ==
    /\ ~connected[r]
    /\ pc[r] = "next"
    /\ connected' = [connected EXCEPT ![r] = TRUE]
    /\ UNCHANGED <<keys, handlers, publisher, broker, consumer, budget>>

-----------------------------------------------------------------------------
(* Failures and time *)

\* The broker puts what a lost consumer had not acknowledged back in the queue.
Requeued(r) == [m \in Requests |-> IF broker[m] = r THEN "ready" ELSE broker[m]]

ConnectionDrops(r) ==
    /\ drops < MaxDrops
    /\ connected[r]
    /\ drops' = drops + 1
    /\ connected' = [connected EXCEPT ![r] = FALSE]
    /\ broker' = Requeued(r)
    /\ UNCHANGED <<keys, handlers, publisher, consumer, restarts, overruns>>

\* Nothing ever reopens the publisher's channel.
PublisherBreaks(r) ==
    /\ "publisher" \in Faults
    /\ publisher[r]
    /\ publisher' = [publisher EXCEPT ![r] = FALSE]
    /\ UNCHANGED <<keys, handlers, broker, connected, consumer, budget>>

Restart(r) ==
    /\ restarts < MaxRestarts
    /\ restarts' = restarts + 1
    /\ req' = [m \in Requests |->
                 IF home[m] = r /\ req[m] \in Serving THEN "cut" ELSE req[m]]
    /\ publisher' = [publisher EXCEPT ![r] = TRUE]
    /\ connected' = [connected EXCEPT ![r] = TRUE]
    /\ broker' = Requeued(r)
    /\ pc' = [pc EXCEPT ![r] = "next"]
    /\ job' = [job EXCEPT ![r] = None]
    /\ UNCHANGED <<keys, home, merges, drops, overruns>>

\* Mutant of LockExpires: SET NX without EX, the key never expires.
LockWithoutTtl == FALSE

\* A request has work left that its lock should protect.
Outstanding(m) ==
    \/ req[m] \in {"locked", "recorded"}
    \/ broker[m] = "ready"
    \/ \E r \in Replicas : broker[m] = r /\ ~(job[r] = m /\ pc[r] = "ack")

LockExpires ==
    /\ lock # None
    /\ \/ ~Outstanding(lock) /\ UNCHANGED overruns
       \/ Outstanding(lock) /\ overruns < MaxOverruns /\ overruns' = overruns + 1
    /\ lock' = None
    /\ UNCHANGED <<current, handlers, amqp, consumer, drops, restarts>>

\* Written after the lock with the same TTL, so it outlives it.
CurrentExpires ==
    /\ current # None
    /\ lock # current
    /\ current' = None
    /\ UNCHANGED <<lock, handlers, amqp, consumer, budget>>

-----------------------------------------------------------------------------
Handler(m) ==
    \/ \E r \in Replicas : BadRequest(m, r) \/ AcquireLock(m, r) \/ FindLocked(m, r)
    \/ Reject(m) \/ RecordHolder(m) \/ PublishJob(m) \/ ClientGone(m)

Consumer(r) ==
    \/ \E m \in Requests : Deliver(m, r) \/ StartMerge(m, r)
    \/ FinishMerge(r) \/ ReleaseLock(r) \/ Ack(r) \/ AckFails(r) \/ Reconnect(r)

\* Every call is answered and every job done: the sidecars wait for the next
\* call.  In no other state may they have nothing to do.
Idle ==
    /\ \A m \in Requests : req[m] \in {"refused", "rejected", "queued", "cut"}
    /\ \A m \in Requests : broker[m] \in {"absent", "acked"}
    /\ \A r \in Replicas : connected[r] /\ pc[r] = "next"
    /\ UNCHANGED vars

Next ==
    \/ \E m \in Requests : Handler(m)
    \/ \E r \in Replicas : Consumer(r)
    \/ \E r \in Replicas : ConnectionDrops(r) \/ PublisherBreaks(r) \/ Restart(r)
    \/ LockExpires
    \/ CurrentExpires
    \/ Idle

Spec == Init /\ [][Next]_vars

\* tokio runs the handlers and the consumer task, RabbitMQ delivers to connected
\* consumers and Redis expires keys; no client has to call.
FairSpec ==
    /\ Spec
    /\ \A m \in Requests : WF_vars(Reject(m) \/ RecordHolder(m) \/ PublishJob(m))
    /\ \A r \in Replicas : WF_vars(Consumer(r))
    /\ WF_vars(LockExpires)
-----------------------------------------------------------------------------
(* Properties *)

\* Every variable keeps its type (all of the merge queue's code).
TypeOK ==
    /\ lock \in Requests \union {None}
    /\ current \in Requests \union {None}
    /\ req \in [Requests -> Phases]
    /\ home \in [Requests -> Replicas \union {None}]
    /\ publisher \in [Replicas -> BOOLEAN]
    /\ broker \in [Requests -> Broker]
    /\ connected \in [Replicas -> BOOLEAN]
    /\ pc \in [Replicas -> Steps]
    /\ job \in [Replicas -> Requests \union {None}]
    /\ merges \in [Requests -> 0 .. 2]
    /\ drops \in 0 .. MaxDrops
    /\ restarts \in 0 .. MaxRestarts
    /\ overruns \in 0 .. MaxOverruns

\* No delivery was repeated and no merge outlived the TTL so far.
Undisturbed == drops = 0 /\ restarts = 0 /\ overruns = 0

\* Until a connection is lost, a replica restarts or a merge outlives the TTL,
\* at most one merge runs across all replicas: the promise of the lock in
\* merge_queue_handler.rs:8-9, although its release checks no owner and Redis may
\* fail at any step.
OneMergeAtATime ==
    Undisturbed =>
        \A r, s \in Replicas : pc[r] = "merging" /\ pc[s] = "merging" => r = s

\* The consumer's DEL, which checks no owner, only ever removes the lock of the
\* request it has just merged (release_lock); under the same conditions.
ReleasesOwnLock ==
    [][\A r \in Replicas :
         Undisturbed /\ pc[r] = "release" /\ pc'[r] = "ack" /\ lock' # lock
         => lock = job[r]]_vars

\* A delivery is acknowledged only after its job ran, so no accepted job is lost
\* by a dropped connection or a restart, at whatever step; and a request that was
\* refused, rejected or cut off is never merged (process_deliveries).
AtLeastOnce ==
    \A m \in Requests :
        /\ broker[m] = "acked" => merges[m] > 0
        /\ merges[m] > 0 => req[m] = "queued"

\* A job runs twice only after a lost connection or a restart: an expired or
\* stolen lock alone repeats none (the shared work queue of rabbit.rs).
RepeatsNeedRedelivery ==
    drops = 0 /\ restarts = 0 => \A m \in Requests : merges[m] < 2

\* What the abstract job server sees of the endpoint, the broker and the consumers.
Queued   == {m \in Requests : req[m] = "queued"}
Running  == {m \in Requests : \E r \in Replicas : pc[r] = "merging" /\ job[r] = m}
Merged   == {m \in Requests : merges[m] > 0}
Finished == {m \in Requests : broker[m] = "acked"}
Troubles == (IF drops = 0 /\ restarts = 0 THEN {} ELSE {"redelivery"})
              \union (IF overruns = 0 THEN {} ELSE {"overrun"})

Server == INSTANCE JobServer WITH accepted <- Queued, running <- Running, merged <- Merged,
                                  finished <- Finished, troubles <- Troubles

\* The handlers and consumers implement the abstract job server: each step of theirs
\* begins, ends or confirms one accepted job, one job at a time, none again that is over,
\* or is a trouble that excuses the next ones (handle_merge_queue, process_deliveries).
ImplementsServer == Server!Spec

\* As long as Redis answers, git:merge:current never names a merge that is done,
\* so no conflict reply blames one: though the key is set after the lock, by a
\* handler whose lock may have expired, deleted by whichever job ends next, and
\* read by handlers that lost the lock a while ago (handle_merge_queue, release_lock).
BlockerIsUnfinished ==
    "redis" \notin Faults /\ current # None => broker[current] # "acked"

\* Every job in the queue is eventually done and acknowledged, whatever
\* connections drop and replicas restart (run_consumer_loop reconnects).
JobsFinish ==
    \A m \in Requests : broker[m] = "ready" ~> broker[m] = "acked"

\* The server lock does not wedge the endpoint: it is always freed, by the
\* consumer or, when the job or the DEL was lost, by its TTL.
LockIsFreed == (lock # None) ~> (lock = None)
=============================================================================
