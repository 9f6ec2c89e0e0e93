-------------------------- MODULE AdminPermissions --------------------------
(***************************************************************************)
(* The permission registry in one replica's working tree: a list of        *)
(* members per workspace, a list of users per pair-programming slot, and   *)
(* conf/gitolite.conf, generated from all of them.                         *)
(*                                                                         *)
(* Handlers run concurrently and hold no lock while they read, change and  *)
(* write a list and regenerate the conf, so every file access is a step.   *)
(* tokio::fs::write truncates the file before it fills it.                 *)
(*                                                                         *)
(* The users and the groups of a workspace are one list here (the same     *)
(* code serves both), and the rules of the conf are the names that each    *)
(* list contributes.                                                       *)
(***************************************************************************)
EXTENDS Naturals, FiniteSets

CONSTANTS
    Workspaces,  \* a workspace, and its member list permissions/<workspace>/
    Slots,       \* files pair-programming/<workspace>/<repo>/<branch-prefix>
    SlotOf,      \* slot -> the workspace it is stored under
    Names,       \* users
    Requests,    \* calls of the member and pair-programming endpoints
    Settings,    \* what the requests ask for, and which faults can happen
    MaxRetries,  \* bound: times clients resend a request that failed
    None         \* no file

AllFaults == {"io",      \* a file access fails
              "client"}  \* a client disconnects before its reply

Lists  == Workspaces \union Slots
Kinds  == {"add", "remove", "pairAdd", "pairRemove", "pairDelete"}

ASSUME PermissionsAssumption ==
    /\ Workspaces \intersect Slots = {}
    /\ SlotOf \in [Slots -> Workspaces]
    /\ Settings \subseteq [op : [Requests -> [kind : Kinds, list : Lists, name : Names]],
                            faults : SUBSET AllFaults]
    /\ \A t \in Settings, q \in Requests :
          t.op[q].kind \in {"add", "remove"} <=> t.op[q].list \in Workspaces
    /\ MaxRetries \in Nat
    /\ \A names \in SUBSET Names : names # None

VARIABLES
    setting,    \* the one of Settings this behaviour is about
    file,       \* per list: its content, None when the file does not exist
    dirs,       \* workspaces with a directory under permissions/
    conf,       \* per list: the names it has rules for in conf/gitolite.conf
    dirty,      \* a push is scheduled
    published,  \* the conf the gitolite server has
    pc,         \* per request: the next step of its handler
    buf,        \* per request: the list as its handler will write it
    todo, got,  \* per request: regenerate_conf's files to read, rules so far
    result,     \* per request: the reply
    retries,
    behind,     \* history, per request: lists changed since its regeneration read them
    exposed,    \* history: lists whose rules a hazard of the code has touched
    damaged     \* history: lists a write was lost for

registry == <<file, dirs>>
scan     == <<todo, got>>
history  == <<behind, exposed, damaged>>
vars     == <<setting, file, dirs, conf, dirty, published, pc, buf, todo, got, result, retries,
              behind, exposed, damaged>>

Scanning == {"scan", "truncateConf", "fillConf"}
Editing  == {"makeDir", "truncate", "fill"}
Steps    == Scanning \union Editing \union {"new", "open", "schedule", "done", "failed"}
Op     == setting.op
Faults == setting.faults

Results  == {"none", "changed", "unchanged", "already", "error"}

NoRules == [l \in Lists |-> {}]

\* An absent file reads as an empty list.
Content(l) == IF file[l] = None THEN {} ELSE file[l]

\* A list and, of a workspace, its slots.
Related(l) == {l} \union {s \in Slots : SlotOf[s] = l}

\* What regenerate_conf would emit for list l now: of a workspace without a directory under
\* permissions/ it does not collect the slots, whatever permissions.rs:176 says.
Expected(l) ==
    IF l \in Slots /\ SlotOf[l] \notin dirs THEN {} ELSE Content(l)

Target(q) == Op[q].list

Goto(q, from, to) ==
    /\ pc[q] = from
    /\ pc' = [pc EXCEPT ![q] = to]

Reply(q, r) == result' = [result EXCEPT ![q] = r]

-----------------------------------------------------------------------------
(* The hazards, as history *)

\* A regeneration that has read one of these lists, or will not read it, falls behind.
Outdates(q, affected) ==
    behind' = [p \in Requests |->
                 IF p # q /\ pc[p] \in Scanning THEN behind[p] \union (affected \ todo[p])
                 ELSE behind[p]]

\* Request q changes list l, which another handler has read and will write.
Changes(q, l) ==
    /\ Outdates(q, {l})
    /\ damaged' = IF \E p \in Requests \ {q} : pc[p] \in Editing /\ Target(p) = l
                    THEN damaged \union {l} ELSE damaged

\* Another handler is inside its own write of the conf.
ConfShared(q) == \E p \in Requests \ {q} : pc[p] = "fillConf"

-----------------------------------------------------------------------------
Init ==
    /\ setting \in Settings
    /\ file = [l \in Lists |-> None]
    /\ dirs = {}
    /\ conf = NoRules
    /\ dirty = FALSE
    /\ published = NoRules
    /\ pc = [q \in Requests |-> "new"]
    /\ buf = [q \in Requests |-> {}]
    /\ todo = [q \in Requests |-> {}]
    /\ got = [q \in Requests |-> NoRules]
    /\ result = [q \in Requests |-> "none"]
    /\ retries = 0
    /\ behind = [q \in Requests |-> {}]
    /\ exposed = {}
    /\ damaged = {}

-----------------------------------------------------------------------------
(* Reading and changing a list *)

Edit(q, content) ==
    /\ Goto(q, "new", "makeDir")
    /\ buf' = [buf EXCEPT ![q] = content]
    /\ Reply(q, "changed")
    /\ UNCHANGED <<registry, conf, dirty, published, scan, retries, history>>

\* Mutant of AddMember: the list is written with the new member alone.
AddMemberAlone(q) ==
    /\ Op[q].kind = "add"
    /\ Op[q].name \notin Content(Target(q))
    /\ Edit(q, {Op[q].name})

\* add_member: a present member changes nothing, but the conf is regenerated.
AddMember(q) ==
    LET n == Op[q].name  members == Content(Target(q)) IN
    /\ Op[q].kind = "add"
    /\ \/ n \notin members /\ Edit(q, members \union {n})
       \/ /\ n \in members
          /\ Goto(q, "new", "open")
          /\ Reply(q, "unchanged")
          /\ UNCHANGED <<registry, conf, dirty, published, buf, scan, retries, history>>

\* Nothing to do: the handler replies 200 and touches nothing.
NoChange(q, r) ==
    /\ Goto(q, "new", "done")
    /\ Reply(q, r)
    /\ UNCHANGED <<registry, conf, dirty, published, buf, scan, retries, history>>

\* remove_member and handle_remove_pair_member.
RemoveMember(q) ==
    LET n == Op[q].name  members == Content(Target(q)) IN
    /\ Op[q].kind \in {"remove", "pairRemove"}
    /\ \/ n \in members /\ Edit(q, members \ {n})
       \/ n \notin members /\ NoChange(q, "unchanged")

\* handle_add_pair_member: a present name ends the request at once.
AddPairMember(q) ==
    LET n == Op[q].name  names == Content(Target(q)) IN
    /\ Op[q].kind = "pairAdd"
    /\ \/ n \notin names /\ Edit(q, names \union {n})
       \/ n \in names /\ NoChange(q, "already")

\* handle_delete_pair_branch_config removes the file in one system call.
DeleteSlot(q) ==
    LET l == Target(q) IN
    /\ Op[q].kind = "pairDelete"
    /\ \/ /\ file[l] # None
          /\ Goto(q, "new", "open")
          /\ file' = [file EXCEPT ![l] = None]
          /\ Reply(q, "changed")
          /\ Changes(q, l)
          /\ UNCHANGED <<dirs, conf, dirty, published, buf, scan, retries, exposed>>
       \/ file[l] = None /\ NoChange(q, "unchanged")

\* The directory of the list, which makes it a workspace of regenerate_conf if it is one's.
MakeDir(q) ==
    LET l == Target(q) IN
    /\ Goto(q, "makeDir", "truncate")
    /\ dirs' = dirs \union ({l} \intersect Workspaces)
    /\ Outdates(q, IF l \in dirs THEN {} ELSE Related(l))
    /\ UNCHANGED <<file, conf, dirty, published, buf, scan, result, retries, exposed, damaged>>

Truncate(q) ==
    LET l == Target(q) IN
    /\ Goto(q, "truncate", "fill")
    /\ file' = [file EXCEPT ![l] = {}]
    /\ Changes(q, l)
    /\ UNCHANGED <<dirs, conf, dirty, published, buf, scan, result, retries, exposed>>

\* Mutant of Fill: the handler regenerates nothing after a removal.
FillThenStop(q) ==
    LET l == Target(q) IN
    /\ Goto(q, "fill", IF Op[q].kind = "remove" THEN "done" ELSE "open")
    /\ file' = [file EXCEPT ![l] = buf[q]]
    /\ buf' = [buf EXCEPT ![q] = {}]
    /\ Changes(q, l)
    /\ UNCHANGED <<dirs, conf, dirty, published, scan, result, retries, exposed>>

\* Over a file that another handler filled in between, the tail of the longer
\* content stays; in a file that was unlinked, the content is lost.
Fill(q) ==
    LET l == Target(q) IN
    /\ Goto(q, "fill", "open")
    /\ \/ file[l] # None /\ \E tail \in SUBSET file[l] :
              file' = [file EXCEPT ![l] = buf[q] \union tail]
       \/ file[l] = None /\ UNCHANGED file
    /\ buf' = [buf EXCEPT ![q] = {}]
    /\ Changes(q, l)
    /\ UNCHANGED <<dirs, conf, dirty, published, scan, result, retries, exposed>>

-----------------------------------------------------------------------------
(* regenerate_conf *)

\* The workspaces are the directories under permissions/; only their slots
\* are collected.
OpenDir(q) ==
    /\ Goto(q, "open", "scan")
    /\ todo' = [todo EXCEPT ![q] = UNION {Related(w) : w \in dirs}]
    /\ got' = [got EXCEPT ![q] = NoRules]
    /\ UNCHANGED <<registry, conf, dirty, published, buf, result, retries, history>>

\* Member lists first, then slots; a slot that cannot be read counts as empty.
ReadList(q, l) ==
    /\ l \in todo[q]
    /\ l \in Slots => todo[q] \intersect Workspaces = {}
    /\ Goto(q, "scan", "scan")
    /\ todo' = [todo EXCEPT ![q] = @ \ {l}]
    /\ \/ got' = [got EXCEPT ![q][l] = Content(l)] /\ UNCHANGED exposed
       \/ /\ "io" \in Faults /\ l \in Slots
          /\ exposed' = exposed \union {l}
          /\ UNCHANGED got
    /\ UNCHANGED <<registry, conf, dirty, published, buf, result, retries, behind, damaged>>

Scanned(q) ==
    /\ todo[q] = {}
    /\ Goto(q, "scan", "truncateConf")
    /\ UNCHANGED <<registry, conf, dirty, published, buf, scan, result, retries, history>>

TruncateConf(q) ==
    /\ Goto(q, "truncateConf", "fillConf")
    /\ conf' = NoRules
    /\ exposed' = IF ConfShared(q) THEN Lists ELSE exposed
    /\ UNCHANGED <<registry, dirty, published, buf, scan, result, retries, behind, damaged>>

FillConf(q) ==
    /\ Goto(q, "fillConf", "schedule")
    /\ \E tail \in {conf, NoRules} : conf' = [l \in Lists |-> got[q][l] \union tail[l]]
    /\ got' = [got EXCEPT ![q] = NoRules]
    /\ behind' = [behind EXCEPT ![q] = {}]
    /\ exposed' = exposed \union behind[q]
    /\ UNCHANGED <<registry, dirty, published, buf, todo, result, retries, damaged>>

\* Redis failures are in PushWorker.
SchedulePush(q) ==
    /\ Goto(q, "schedule", "done")
    /\ dirty' = TRUE
    /\ UNCHANGED <<registry, conf, published, buf, scan, result, retries, history>>

\* The lists whose rules a handler that stops half-way leaves to nobody.  With nothing but
\* the directory made, these are the slots that it has brought into the conf.
Left(q) ==
    IF pc[q] \in {"new", "makeDir"} THEN {}
    ELSE IF pc[q] = "truncate" THEN {l \in Related(Target(q)) : conf[l] # Expected(l)}
    ELSE Related(Target(q))

\* A file access fails: 500, and what was written stays.
Fails(q) ==
    /\ "io" \in Faults
    /\ pc[q] \in {"new", "open"} \union Editing \union Scanning
    /\ pc' = [pc EXCEPT ![q] = "failed"]
    /\ Reply(q, "error")
    /\ buf' = [buf EXCEPT ![q] = {}]
    /\ todo' = [todo EXCEPT ![q] = {}]
    /\ got' = [got EXCEPT ![q] = NoRules]
    /\ behind' = [behind EXCEPT ![q] = {}]
    /\ exposed' = exposed \union (IF pc[q] = "fillConf" THEN Lists ELSE Left(q))
    /\ damaged' = IF pc[q] = "fill" THEN damaged \union {Target(q)} ELSE damaged
    /\ UNCHANGED <<registry, conf, dirty, published, retries>>

\* warp drops the handler of a client that disconnects at its next await.  A
\* file that is being written is in the hands of a blocking thread, which goes on.
ClientGone(q) ==
    /\ "client" \in Faults
    /\ pc[q] \notin {"new", "fill", "fillConf", "done", "failed"}
    /\ pc' = [pc EXCEPT ![q] = "failed"]
    /\ Reply(q, "error")
    /\ buf' = [buf EXCEPT ![q] = {}]
    /\ todo' = [todo EXCEPT ![q] = {}]
    /\ got' = [got EXCEPT ![q] = NoRules]
    /\ behind' = [behind EXCEPT ![q] = {}]
    /\ exposed' = exposed \union
         (IF pc[q] = "schedule" THEN {l \in Lists : conf[l] # published[l]} ELSE Left(q))
    /\ UNCHANGED <<registry, conf, dirty, published, retries, damaged>>

Retry(q) ==
    /\ retries < MaxRetries
    /\ retries' = retries + 1
    /\ Goto(q, "failed", "new")
    /\ UNCHANGED <<registry, conf, dirty, published, buf, scan, result, history>>

\* A push of the working tree, at any time; its own hazards are in PushWorker.
Publish ==
    /\ dirty
    /\ dirty' = FALSE
    /\ published' = conf
    /\ UNCHANGED <<registry, conf, pc, buf, scan, result, retries, history>>

-----------------------------------------------------------------------------
Handler(q) ==
    \/ AddMember(q) \/ RemoveMember(q) \/ AddPairMember(q) \/ DeleteSlot(q)
    \/ MakeDir(q) \/ Truncate(q) \/ Fill(q)
    \/ OpenDir(q) \/ (\E l \in Lists : ReadList(q, l)) \/ Scanned(q)
    \/ TruncateConf(q) \/ FillConf(q) \/ SchedulePush(q) \/ Fails(q) \/ ClientGone(q)

Next == UNCHANGED setting /\ ((\E q \in Requests : Handler(q) \/ Retry(q)) \/ Publish)

Spec == Init /\ [][Next]_vars
-----------------------------------------------------------------------------
(* Properties *)

\* Every variable keeps its type (all of the registry's code).
TypeOK ==
    /\ setting \in Settings
    /\ file \in [Lists -> (SUBSET Names) \union {None}]
    /\ dirs \subseteq Workspaces
    /\ conf \in [Lists -> SUBSET Names]
    /\ dirty \in BOOLEAN
    /\ published \in [Lists -> SUBSET Names]
    /\ pc \in [Requests -> Steps]
    /\ buf \in [Requests -> SUBSET Names]
    /\ todo \in [Requests -> SUBSET Lists]
    /\ got \in [Requests -> [Lists -> SUBSET Names]]
    /\ result \in [Requests -> Results]
    /\ retries \in 0 .. MaxRetries
    /\ behind \in [Requests -> SUBSET Lists]
    /\ exposed \subseteq Lists
    /\ damaged \subseteq Lists

\* No request is being served.
Quiescent == \A q \in Requests : pc[q] \in {"new", "done", "failed"}

\* Once requests and pushes have settled, the conf on the server gives exactly
\* the access that regenerate_conf would emit for the registry (Expected); the
\* exceptions are the lists that changed while a regeneration had already read
\* them, those that a request which failed half-way had changed or, by making a
\* directory, brought in, slots that could not be read, and everything when two
\* handlers wrote the conf at once (regenerate_conf runs unlocked, and a push
\* may take a conf that is truncated or stale and must then be repeated).
AccessIsPublished ==
    Quiescent /\ ~dirty => \A l \in Lists \ exposed : published[l] = Expected(l)

\* A member whom the reply calls added is in the list until a request removes
\* it, unless another handler changed that list between the read and the write
\* of one, or a write of it failed (add_member, handle_add_pair_member).
KeptUnlessDamaged ==
    \A q \in Requests :
        LET o == Op[q]
            removals == {p \in Requests : /\ Op[p].list = o.list
                                          /\ Op[p].kind = "pairDelete" \/ Op[p].name = o.name
                                          /\ Op[p].kind \notin {"add", "pairAdd"}} IN
        /\ pc[q] = "done" /\ result[q] = "changed"
        /\ o.kind \in {"add", "pairAdd"}
        /\ \A p \in removals : result[p] = "none"
        /\ o.list \notin damaged
        => \/ o.name \in Content(o.list)
           \/ \E p \in Requests : pc[p] = "fill" /\ Target(p) = o.list

\* Handlers that are inside their write of list l.
Filling(l) == {p \in Requests : pc[p] = "fill" /\ Target(p) = l}

\* The members of a list, those of a write that has begun included.
Members(l) == IF Filling(l) = {} THEN Content(l) ELSE buf[CHOOSE q \in Filling(l) : TRUE]

\* How far the call of request q is.
Call(q) ==
    CASE pc[q] \in {"new", "makeDir", "truncate"} -> "open"
      [] pc[q] = "failed"                        -> "failed"
      [] pc[q] = "done"                          -> "answered"
      [] OTHER                                   -> "applied"

Registry == INSTANCE MemberLists WITH
              asked <- Op,
              call <- [q \in Requests |-> Call(q)],
              members <- [l \in Lists |-> Members(l)]

\* Although handlers read, truncate and fill the files of lists in steps of their own,
\* each call of a request changes its list once, at one moment before its reply, and by the
\* one name it asks for: nobody gets access without a call for it, and who was removed stays
\* out until another call adds them, or a client resends one that failed.  Exceptions are
\* lists that two handlers edit at once or whose write fails (permissions.rs has no lock).
ImplementsLists == Registry!Spec

=============================================================================
