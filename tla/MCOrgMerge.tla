----------------------------- MODULE MCOrgMerge -----------------------------
(* Small instances of OrgMerge for TLC. *)
EXTENDS OrgMerge, TLC

CONSTANTS e1, e2, e3, x, y

\* Two edits of the same place, and one elsewhere.
MCPlace == e1 :> x @@ e2 :> x @@ e3 :> y

\* Three repositories, one of them without main, and errors in reading them; two
\* consumers of one job, with a squash, on one repository.
MCSettings ==
    {[repos |-> Repos, orphans |-> {3}, noMain |-> {3}, edits |-> {e1, e2},
      squashes |-> {}, faults |-> {"io"}, maxRuns |-> 1],
     [repos |-> {1}, orphans |-> {}, noMain |-> {}, edits |-> {e1, e2, e3},
      squashes |-> Squashes, faults |-> {}, maxRuns |-> 2]}

\* A branch without a merge base, and nothing else.
MCOrphan ==
    {[repos |-> {1, 2}, orphans |-> {2}, noMain |-> {}, edits |-> {},
      squashes |-> {}, faults |-> {}, maxRuns |-> 1]}

\* Consumers run the same code; e1 and e2 change the same place.
Symmetry == Permutations(Consumers) \union Permutations({e1, e2})
=============================================================================
