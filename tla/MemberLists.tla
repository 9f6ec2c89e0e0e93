---------------------------- MODULE MemberLists -----------------------------
(***************************************************************************)
(* What the registry promises of its member lists, whoever edits them and  *)
(* file access by file access: a call changes its list at most once, by    *)
(* the one name it asks for, and not after its reply; nothing else changes *)
(* a list.  A call that failed may be sent again, and then acts again.     *)
(* Of a list that a write was lost for (damaged) nothing is promised.      *)
(***************************************************************************)
CONSTANTS Lists, Names, Requests

VARIABLES
    asked,    \* per request: its kind, list and name
    call,     \* per request: "open", "applied", "answered" or "failed"
    members,  \* per list: the names it gives access to
    damaged   \* lists a write was lost for

lists == <<asked, call, members, damaged>>

Init ==
    /\ call = [q \in Requests |-> "open"]
    /\ members = [l \in Lists |-> {}]
    /\ damaged = {}

Becomes(q, from, to) ==
    /\ call[q] \in from
    /\ call' = [call EXCEPT ![q] = to]

Change(l, names) ==
    /\ members' = [members EXCEPT ![l] = names]
    /\ UNCHANGED damaged

Add(q) ==
    LET l == asked[q].list IN
    /\ asked[q].kind \in {"add", "pairAdd"}
    /\ Change(l, members[l] \union {asked[q].name})

Remove(q) ==
    LET l == asked[q].list IN
    /\ asked[q].kind \in {"remove", "pairRemove"}
    /\ Change(l, members[l] \ {asked[q].name})

Delete(q) ==
    /\ asked[q].kind = "pairDelete"
    /\ Change(asked[q].list, {})

\* A lost write costs one list, and no other.
Damage(l) ==
    /\ damaged' = damaged \union {l}
    /\ members' \in [Lists -> SUBSET Names]
    /\ \A k \in Lists \ {l} : members'[k] = members[k]

Keep == UNCHANGED <<members, damaged>>

\* The one moment at which a call may change its list.
Apply(q) ==
    /\ Becomes(q, {"open"}, "applied")
    /\ Add(q) \/ Remove(q) \/ Delete(q) \/ Keep \/ Damage(asked[q].list)

Answer(q) == Becomes(q, {"open", "applied"}, "answered") /\ Keep

Fail(q) ==
    /\ Becomes(q, {"open", "applied"}, "failed")
    /\ Keep \/ Damage(asked[q].list)

Resend(q) == Becomes(q, {"failed"}, "open") /\ Keep

Next ==
    /\ UNCHANGED asked
    /\ \/ \E q \in Requests : Apply(q) \/ Answer(q) \/ Fail(q) \/ Resend(q)
       \/ UNCHANGED call /\ \E l \in Lists : Damage(l)

Spec == Init /\ [][Next]_lists
=============================================================================
