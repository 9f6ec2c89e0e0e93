----------------------------- MODULE FileCache -----------------------------
(***************************************************************************)
(* The cache of file contents in Redis, for one key: a repository, a ref   *)
(* and a path.                                                             *)
(*                                                                         *)
(* Both file endpoints look the key up, read the bare repository when it   *)
(* is not there, store what they have read for some seconds and reply.     *)
(* Nothing invalidates the key: developers push, and delete the ref or the *)
(* file, behind its back.  An error of Redis is logged and counts as a     *)
(* miss.  The content is a number, the push that made it.                  *)
(***************************************************************************)
EXTENDS Naturals

CONSTANTS
    Requests,   \* clients that ask for the key, again and again
    MaxPushes,  \* bound on pushes that change the file
    Missing,    \* the pushes that leave no such ref or file behind
    Faults      \* {"redis"} when calls of Redis can fail, or lose their replies

\* Assumed where the module is instantiated.
CacheAssumption ==
    /\ MaxPushes \in Nat
    /\ Missing \subseteq 0 .. MaxPushes
    /\ Faults \subseteq {"redis"}

VARIABLES
    version,    \* the last push, in the bare repository
    cache,      \* what Redis has: the content and whether it will expire
    pc,         \* per client: the next step of its request
    content,    \* per client: what it has read, or found in the cache
    shown,      \* history: the newest content a reply has shown
    since,      \* history, per client: the newest content shown when its request began
    disturbed   \* history: a read between the read and the store of another request, or
                \* an error of Redis

vars == <<version, cache, pc, content, shown, since, disturbed>>

Versions == 0 .. MaxPushes
Idle     == {"new", "done", "notfound"}
Steps    == Idle \union {"lookup", "read", "store", "reply"}
Empty    == [there |-> FALSE, content |-> 0, expires |-> FALSE]

Init ==
    /\ version \in Versions
    /\ cache = Empty
    /\ pc = [q \in Requests |-> "new"]
    /\ content = [q \in Requests |-> 0]
    /\ shown = 0
    /\ since = [q \in Requests |-> 0]
    /\ disturbed = FALSE

Goto(q, from, to) ==
    /\ pc[q] = from
    /\ pc' = [pc EXCEPT ![q] = to]

\* A request passes the checks of its handler.
Begin(q) ==
    /\ pc[q] \in Idle
    /\ pc' = [pc EXCEPT ![q] = "lookup"]
    /\ since' = [since EXCEPT ![q] = shown]
    /\ UNCHANGED <<version, cache, content, shown, disturbed>>

Hit(q) ==
    /\ cache.there
    /\ Goto(q, "lookup", "reply")
    /\ content' = [content EXCEPT ![q] = cache.content]
    /\ UNCHANGED <<version, cache, shown, since, disturbed>>

Miss(q) ==
    /\ ~cache.there
    /\ Goto(q, "lookup", "read")
    /\ UNCHANGED <<version, cache, content, shown, since, disturbed>>

\* The handler goes on without the cache.
LookupFails(q) ==
    /\ "redis" \in Faults
    /\ Goto(q, "lookup", "read")
    /\ disturbed' = TRUE
    /\ UNCHANGED <<version, cache, content, shown, since>>

\* Mutant of ReadFile: what is missing is taken for an empty file.
ReadAnything(q) ==
    /\ Goto(q, "read", "store")
    /\ content' = [content EXCEPT ![q] = version]
    /\ UNCHANGED <<version, cache, shown, since, disturbed>>

\* open_repo and read_file_from_repo.  What is missing is not cached.
ReadFile(q) ==
    /\ Goto(q, "read", IF version \in Missing THEN "notfound" ELSE "store")
    /\ content' = [content EXCEPT ![q] = version]
    /\ disturbed' = (disturbed \/ \E p \in Requests \ {q} : pc[p] = "store")
    /\ UNCHANGED <<version, cache, shown, since>>

\* Mutant of Entry: stored without a time to live.
EntryForEver(q) == [there |-> TRUE, content |-> content[q], expires |-> FALSE]

Entry(q) == [there |-> TRUE, content |-> content[q], expires |-> TRUE]

\* Mutant of Store: only what is not there is stored (SET NX).
StoreOnce(q) ==
    /\ Goto(q, "store", "reply")
    /\ cache' = IF cache.there THEN cache ELSE Entry(q)
    /\ UNCHANGED <<version, content, shown, since, disturbed>>

\* SET EX, whatever has been stored in between.
Store(q) ==
    /\ Goto(q, "store", "reply")
    /\ cache' = Entry(q)
    /\ UNCHANGED <<version, content, shown, since, disturbed>>

StoreFails(q) ==
    /\ "redis" \in Faults
    /\ Goto(q, "store", "reply")
    /\ \/ UNCHANGED cache
       \/ cache' = Entry(q)
    /\ disturbed' = TRUE
    /\ UNCHANGED <<version, content, shown, since>>

Reply(q) ==
    /\ Goto(q, "reply", "done")
    /\ shown' = IF content[q] > shown THEN content[q] ELSE shown
    /\ UNCHANGED <<version, cache, content, since, disturbed>>

Push ==
    /\ version < MaxPushes
    /\ version' = version + 1
    /\ UNCHANGED <<cache, pc, content, shown, since, disturbed>>

\* Redis drops the key at the end of its time to live, or before that when it is short of
\* memory.
Expire ==
    /\ cache.there
    /\ cache.expires
    /\ cache' = Empty
    /\ UNCHANGED <<version, pc, content, shown, since, disturbed>>

Serve(q) ==
    \/ Hit(q) \/ Miss(q) \/ LookupFails(q) \/ ReadFile(q)
    \/ Store(q) \/ StoreFails(q) \/ Reply(q)

Next ==
    \/ \E q \in Requests : Begin(q) \/ Serve(q)
    \/ Push
    \/ Expire

Spec == Init /\ [][Next]_vars

\* A handler that has begun goes on, and Redis expires keys; nobody has to push.
FairSpec ==
    /\ Spec
    /\ \A q \in Requests : WF_vars(Serve(q))
    /\ WF_vars(Expire)
-----------------------------------------------------------------------------
(* Properties *)

\* Every variable keeps its type, and only content that was there is stored or shown
\* (both handlers return not_found before they store).
TypeOK ==
    /\ version \in Versions
    /\ \/ cache = Empty
       \/ cache \in [there : {TRUE}, content : Versions \ Missing, expires : BOOLEAN]
    /\ pc \in [Requests -> Steps]
    /\ content \in [Requests -> Versions]
    /\ \A q \in Requests : pc[q] \in {"store", "reply", "done"} => content[q] \notin Missing
    /\ shown \in Versions
    /\ since \in [Requests -> Versions]
    /\ disturbed \in BOOLEAN

\* A client never sees the file go back: a request that begins after some content was
\* shown gets that or a newer one, unless a request read the repository while another
\* was between its read and its store (the slower one stores the older content last), or
\* Redis failed (handle_file_content, handle_file_raw).
ReadsForward ==
    \A q \in Requests : pc[q] = "done" /\ ~disturbed => content[q] >= since[q]

\* When the pushes are over the cache has nothing old for good, nor what was deleted: no
\* hit renews a key, and no entry is stored without a time to live.
EventuallyFresh ==
    <>[](cache.there => cache.content = version /\ version \notin Missing)
=============================================================================
