---------------------------- MODULE AdminRemote -----------------------------
(***************************************************************************)
(* What the push workers promise of gitolite-admin on the gitolite server, *)
(* whatever fails in between: master only ever moves to a commit that has  *)
(* everything published before in its past and adds nothing but accepted   *)
(* writes.                                                                 *)
(***************************************************************************)
CONSTANT Writes

VARIABLES accepted,  \* writes some handler has put into a working tree
          published  \* writes in the past of the server's master

Init == accepted = {} /\ published = {}

Accept(w) ==
    /\ w \notin accepted
    /\ accepted' = accepted \union {w}
    /\ UNCHANGED published

Publish(S) ==
    /\ published \subseteq S
    /\ S \subseteq accepted
    /\ published' = S
    /\ UNCHANGED accepted

Next == (\E w \in Writes : Accept(w)) \/ (\E S \in SUBSET accepted : Publish(S))

Spec == Init /\ [][Next]_<<accepted, published>>
=============================================================================
