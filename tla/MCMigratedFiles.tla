--------------------------- MODULE MCMigratedFiles ---------------------------
(* A small instance of MigratedFiles for TLC. *)
EXTENDS MigratedFiles, TLC

CONSTANTS t1, t2, t3, t4, c1, c2, q1, q2, schema1, schema2, none

\* t1 and t2 commit, t3 has no commit message, t4 does not commit.
MCAsked   == t1 :> schema1 @@ t2 :> schema2 @@ t3 :> schema2 @@ t4 :> schema2
MCFollows == c1 :> t1 @@ c2 :> t4

Setting(who, asking, reading_, f, p) ==
    [runs |-> who, clients |-> asking, readers |-> reading_, failures |-> f, pushes |-> p]

\* A run that a client follows beside a developer; three runs that race for main; a run
\* that does not commit; two readers of the file that one run commits.
MCSettings ==
    {Setting({t1}, {c1}, {}, 2, 1),
     Setting({t1, t2, t3}, {}, {}, 1, 1),
     Setting({t4}, {c2}, {}, 1, 0),
     Setting({t1}, {}, {q1, q2}, 0, 1)}
=============================================================================
