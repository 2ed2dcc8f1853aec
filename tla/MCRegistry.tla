----------------------------- MODULE MCRegistry -----------------------------
(***************************************************************************)
(* One request posts any small workflow, up to three steps with ids in the *)
(* order of their first use and up to two mentions per step, one perhaps   *)
(* of a step that does not exist, while another posts a workflow under the *)
(* same version; or two requests post contracts under one version, with    *)
(* all sections a contract should have or without some.                    *)
(***************************************************************************)
EXTENDS Registry, TLC

CONSTANTS r1, r2, a, b, c, z

MCRequests == {r1, r2}
MCVersions == {"workflow 1", "contract 1"}

Mentions ==
  {<< >>, <<a>>, <<b>>, <<c>>, <<z>>, <<a, a>>, <<a, b>>, <<b, c>>}

workflow(steps, headed) ==
  [kind |-> "Workflow", version |-> "workflow 1", headed |-> headed, steps |-> steps]

Over(ids) ==
  {workflow([i \in DOMAIN ids |-> [id |-> ids[i], dependsOn |-> d[i]]], TRUE) :
     d \in [DOMAIN ids -> Mentions]}

AllWorkflows ==
  Over(<< >>) \cup Over(<<a>>) \cup Over(<<a, a>>) \cup Over(<<a, b>>)
    \cup Over(<<a, b, c>>)

step(id, dependsOn) == [id |-> id, dependsOn |-> dependsOn]
OtherWorkflows ==
  {workflow(<<step(b, <<a>>), step(a, << >>)>>, TRUE),
   workflow(<<step(a, << >>)>>, FALSE)}

contract(sections, preferred, effects, required, strengths) ==
  [kind |-> "Contract", version |-> "contract 1", headed |-> TRUE,
   sections |-> sections, preferred |-> preferred, expectedEffects |-> effects,
   verificationRequired |-> required, strengths |-> strengths,
   keyRequired |-> FALSE, keyTemplate |-> FALSE, reversibilityScore |-> Unset]

AllContracts ==
  {contract(has, p, f, q, s) :
     has \in {Sections, {"risk"}, {}}, p \in {<< >>, <<"http">>},
     f \in {<< >>, <<a, a>>, <<a, b>>},
     q \in BOOLEAN, s \in {<< >>, <<Unset, 100>>, <<0, 101>>}}

Both(first, second) == {r1 :> f @@ r2 :> s : f \in first, s \in second}

MCBodies ==
  Both(AllWorkflows, OtherWorkflows)
    \cup Both(AllContracts, {contract(Sections, <<"http">>, <<a>>, TRUE, <<100>>)})

==============================================================================
