-------------------------- MODULE MCPipelineTrigger --------------------------
(* A small instance of PipelineTrigger for TLC. *)
EXTENDS PipelineTrigger, TLC

CONSTANTS h1, h2, h3, main, dev, src, doc

\* One pipeline that runs for every branch and cancels, and one for main only.
MCDefinition ==
    1 :> [enabled |-> TRUE, branches |-> Branches, ignored |-> {doc},
          filter |-> None, cancelPrevious |-> TRUE]
    @@ 2 :> [enabled |-> TRUE, branches |-> {main}, ignored |-> {},
             filter |-> {src}, cancelPrevious |-> FALSE]

Push(b, files) == [kind |-> "push", branch |-> b, changed |-> files, named |-> 1]

\* Two branches; the third push changes nothing that a pipeline is for.
MCPushes == h1 :> Push(main, {src}) @@ h2 :> Push(dev, {src}) @@ h3 :> Push(dev, {doc})

\* The manual start of a pipeline between two pushes.
MCCall == h1 :> Push(main, {src}) @@ h2 :> [Push(dev, {src}) EXCEPT !.kind = "call"]
            @@ h3 :> Push(dev, {src})

\* In the first setting the task is a common one.
MCSettings ==
    {[request |-> MCPushes, pipelines |-> {1, 2}, common |-> {1}, faults |-> {"read"}],
     [request |-> MCCall, pipelines |-> {1}, common |-> {}, faults |-> {"kube", "client"}]}
=============================================================================
