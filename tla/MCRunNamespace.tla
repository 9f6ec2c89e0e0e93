--------------------------- MODULE MCRunNamespace ---------------------------
(* A small instance of RunNamespace for TLC. *)
EXTENDS RunNamespace, TLC

CONSTANTS push, other, call, migration

\* The push triggers two pipelines.
MCRounds == push :> 2 @@ other :> 1 @@ call :> 1 @@ migration :> 1

\* The names of the branches push and other go to differ in one character only, a
\* slash in the one and a dash in the other; the call is for main.  The target of a fourth
\* branch is written to the file of feature-x.
MCBranch      == push :> "feature/x" @@ other :> "feature-x" @@ call :> "main"
MCBranches    == {"main", "feature/x", "feature-x", "feature/-x"}
MCEnvironment == "main" :> "staging" @@ "feature/x" :> "feature/x" @@ "feature-x" :> "feature-x"
                 @@ "feature/-x" :> "feature/-x"
MCWritten     == "staging" :> "staging" @@ "feature/x" :> "featurex" @@ "feature-x" :> "feature-x"
                 @@ "feature/-x" :> "feature-x"
MCRead        == "main" :> "staging" @@ "feature/x" :> "feature/x" @@ "feature-x" :> "feature-x"
                 @@ "feature/-x" :> "feature/-x"
MCSanitised   == "main" :> "main" @@ "feature/x" :> "feature-x" @@ "feature-x" :> "feature-x"
                 @@ "feature/-x" :> "feature-x"

Setting(who, state, uploaded, n, what) ==
    [triggers |-> who, established |-> state = "established", stored |-> state # "unused",
     targets |-> uploaded, tokens |-> n, faults |-> what]

\* A namespace that does not exist yet; tokens that change, over the first one and over none;
\* branches with like names.
MCSettings ==
    {Setting({push, call}, "new", {}, 1, {"kube"}),
     Setting({other, migration}, "established", {}, 3, {"leave", "io"}),
     Setting({call}, "unused", {}, 2, {"io", "restart"}),
     Setting({push, other, call}, "established", {"feature/x", "feature-x", "feature/-x"}, 1, {})}
=============================================================================
