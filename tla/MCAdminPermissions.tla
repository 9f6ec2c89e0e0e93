------------------------- MODULE MCAdminPermissions -------------------------
(* A small instance of AdminPermissions for TLC: one workspace, one slot. *)
EXTENDS AdminPermissions, TLC

CONSTANTS w, s, a, b, q1, q2, q3

MCSlotOf == s :> w

Ask(k, l, n) == [kind |-> k, list |-> l, name |-> n]

\* Members of one workspace.
MCMembers == q1 :> Ask("add", w, a) @@ q2 :> Ask("add", w, b) @@ q3 :> Ask("remove", w, a)

\* A slot, in a workspace that gets its first member.
MCPairs == q1 :> Ask("add", w, a) @@ q2 :> Ask("pairAdd", s, b) @@ q3 :> Ask("pairDelete", s, b)

MCSettings == {[op |-> MCMembers, faults |-> {"io"}],
               [op |-> MCPairs, faults |-> {"io", "client"}]}
=============================================================================
