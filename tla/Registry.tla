------------------------------ MODULE Registry ------------------------------
(***************************************************************************)
(* Workflows and contracts are published by POST requests that validate a  *)
(* document and insert it under its version (apps/api/src/server.ts:25-30, *)
(* 40-43).  The check of a workflow is the loop of topologicalOrder        *)
(* (packages/core/src/workflow.ts:21-23), here one step per turn, with the *)
(* variables of the loop kept per request.  The queue of the loop is a     *)
(* set: no reader of the order depends on which ready step comes first.    *)
(***************************************************************************)
EXTENDS Integers, Sequences, FiniteSets

CONSTANTS Requests,
          Bodies,       \* the documents requests carry together, [Requests -> ...]
          Versions,     \* (table, name, version): the keys of both tables
          NoDocument    \* stands for the missing row

VARIABLES stage,        \* where a request stands
          body,         \* the document it carries
          indegree, ready, ordered,   \* the loop of topologicalOrder
          reply,        \* the status code of its answer
          published     \* contract_versions and workflow_versions

loopVars == <<indegree, ready, ordered>>
vars == <<stage, body, loopVars, reply, published>>

-----------------------------------------------------------------------------
(* Workflows.  A document has its steps in a sequence; headed stands for   *)
(* the checks of single fields (apiVersion, kind, metadata, ids given).    *)

Ids(w) == {w.steps[i].id : i \in DOMAIN w.steps}

\* `s.dependsOn ?? []`, every mention of a known step: <<step, mention>>.
Edges(w) ==
  UNION {{<<i, k>> : k \in {k \in DOMAIN w.steps[i].dependsOn :
                              w.steps[i].dependsOn[k] \in Ids(w)}} :
         i \in DOMAIN w.steps}

Target(w, e) == w.steps[e[1]].id
Source(w, e) == w.steps[e[1]].dependsOn[e[2]]

EdgesTo(w, id) == {e \in Edges(w) : Target(w, e) = id}

DuplicateId(w) ==
  \E i, j \in DOMAIN w.steps : i < j /\ w.steps[i].id = w.steps[j].id

UnknownDependency(w) ==
  \E i \in DOMAIN w.steps : \E k \in DOMAIN w.steps[i].dependsOn :
    w.steps[i].dependsOn[k] \notin Ids(w)

\* The issues of validateWorkflow that need no order.
WorkflowIssue(w) == ~w.headed \/ DuplicateId(w) \/ UnknownDependency(w)

-----------------------------------------------------------------------------
(* Contracts, on the fields the engine needs.  The optional chains of the  *)
(* check pass over a section the document does not have.                   *)

Unset == -1
Sections == {"risk", "verification", "reversibility"}

VerificationIssue(c) ==
  \/ c.verificationRequired /\ c.strengths = << >>
  \/ \E i \in DOMAIN c.strengths : c.strengths[i] \notin 0..100 \cup {Unset}

ContractIssue(c) ==
  \/ ~c.headed
  \/ c.preferred = << >>
  \/ c.expectedEffects = << >>
  \/ "verification" \in c.sections /\ VerificationIssue(c)
  \/ c.keyRequired /\ ~c.keyTemplate
  \/ \E i, j \in DOMAIN c.expectedEffects :
       i < j /\ c.expectedEffects[i] = c.expectedEffects[j]
  \/ "reversibility" \in c.sections /\ c.reversibilityScore \notin 0..100 \cup {Unset}

\* Documents are JSON: what is a list in them is a list, and finite.
IsList(value) == value \in Seq({value[i] : i \in DOMAIN value})

ASSUME RegistryAssumption ==
  \A bodies \in Bodies : \A r \in Requests :
    LET doc == bodies[r]
    IN doc.kind = "Workflow" => IsList(doc.steps) /\ IsFiniteSet(Edges(doc))

-----------------------------------------------------------------------------
(* The handlers.                                                           *)

NoIndegree == [id \in {} |-> 0]

RegistryInit ==
  /\ stage = [r \in Requests |-> "received"]
  /\ body \in Bodies
  /\ indegree = [r \in Requests |-> NoIndegree]
  /\ ready = [r \in Requests |-> {}]
  /\ ordered = [r \in Requests |-> << >>]
  /\ reply = [r \in Requests |-> 0]
  /\ published = [v \in Versions |-> NoDocument]

Goto(r, place) == stage' = [stage EXCEPT ![r] = place]

Answer(r, code) ==
  /\ Goto(r, "answered")
  /\ reply' = [reply EXCEPT ![r] = code]

\* assertValidContract throws, and the error handler makes that a 500.
CheckContract(r) ==
  /\ stage[r] = "received" /\ body[r].kind = "Contract"
  /\ IF ContractIssue(body[r]) THEN Answer(r, 500)
     ELSE Goto(r, "publish") /\ UNCHANGED reply
  /\ UNCHANGED <<body, loopVars, published>>

\* Faulty variant: only the first mention of a dependency counts.
CountOnce(w, id) == Cardinality({Source(w, e) : e \in EdgesTo(w, id)})

\* indegree.set(s.id, (indegree.get(s.id) ?? 0) + 1), for every edge.
Count(w, id) == Cardinality(EdgesTo(w, id))

BeginSort(r) ==
  LET w == body[r]
  IN /\ stage[r] = "received" /\ w.kind = "Workflow"
     /\ indegree' = [indegree EXCEPT ![r] = [id \in Ids(w) |-> Count(w, id)]]
     /\ ready' = [ready EXCEPT ![r] = {id \in Ids(w) : Count(w, id) = 0}]
     /\ ordered' = [ordered EXCEPT ![r] = << >>]
     /\ Goto(r, "sort")
     /\ UNCHANGED <<body, reply, published>>

\* Faulty variant: a step mentioned twice is released once.
ReleasedOnce(w, id, n) == IF \E e \in EdgesTo(w, n) : Source(w, e) = id THEN 1 ELSE 0

\* The edges a turn of the loop takes away: those from id to n.
Released(w, id, n) == Cardinality({e \in EdgesTo(w, n) : Source(w, e) = id})

\* Faulty variant: a step is ready as soon as one dependency is done.
SortStepEager(r) ==
  LET w == body[r]
  IN /\ stage[r] = "sort"
     /\ \E id \in ready[r] :
          LET left == [n \in Ids(w) |-> indegree[r][n] - Released(w, id, n)]
          IN /\ ordered' = [ordered EXCEPT ![r] = Append(@, id)]
             /\ indegree' = [indegree EXCEPT ![r] = left]
             /\ ready' = [ready EXCEPT ![r] =
                            (@ \ {id}) \cup {n \in Ids(w) : Released(w, id, n) > 0}]
     /\ UNCHANGED <<stage, body, reply, published>>

\* One turn: q.shift(), and the steps whose last dependency it was.
SortStep(r) ==
  LET w == body[r]
  IN /\ stage[r] = "sort"
     /\ \E id \in ready[r] :
          LET left == [n \in Ids(w) |-> indegree[r][n] - Released(w, id, n)]
          IN /\ ordered' = [ordered EXCEPT ![r] = Append(@, id)]
             /\ indegree' = [indegree EXCEPT ![r] = left]
             /\ ready' = [ready EXCEPT ![r] =
                            (@ \ {id}) \cup {n \in Ids(w) : Released(w, id, n) > 0
                                                              /\ left[n] = 0}]
     /\ UNCHANGED <<stage, body, reply, published>>

\* Faulty variant: the order is not asked whether it is complete.
EndSortUnchecked(r) ==
  /\ stage[r] = "sort" /\ ready[r] = {}
  /\ IF WorkflowIssue(body[r]) THEN Answer(r, 400)
     ELSE Goto(r, "publish") /\ UNCHANGED reply
  /\ UNCHANGED <<body, loopVars, published>>

\* Faulty variant: the loop runs until every step is in the order.
EndSortWhenComplete(r) ==
  /\ stage[r] = "sort" /\ Len(ordered[r]) = Len(body[r].steps)
  /\ IF WorkflowIssue(body[r]) THEN Answer(r, 400)
     ELSE Goto(r, "publish") /\ UNCHANGED reply
  /\ UNCHANGED <<body, loopVars, published>>

\* The loop is over; an order that misses a step is a cycle.
EndSort(r) ==
  LET w == body[r]
  IN /\ stage[r] = "sort" /\ ready[r] = {}
     /\ IF WorkflowIssue(w) \/ Len(ordered[r]) # Len(w.steps) THEN Answer(r, 400)
        ELSE Goto(r, "publish") /\ UNCHANGED reply
     /\ UNCHANGED <<body, loopVars, published>>

\* putWorkflow and putContract: ON CONFLICT DO NOTHING.
InsertOnce(doc) ==
  published' = [published EXCEPT ![doc.version] = IF @ = NoDocument THEN doc ELSE @]

\* The answer is 201 also when the version existed with another document.
Publish(r) ==
  /\ stage[r] = "publish"
  /\ InsertOnce(body[r])
  /\ Answer(r, 201)
  /\ UNCHANGED <<body, loopVars>>

\* The insert rejects, and the error handler answers.
PublishFails(r) ==
  /\ stage[r] = "publish"
  /\ Answer(r, 500)
  /\ UNCHANGED <<body, loopVars, published>>

RequestStep(r) ==
  \/ CheckContract(r) \/ BeginSort(r) \/ SortStep(r) \/ EndSort(r)
  \/ Publish(r) \/ PublishFails(r)

RegistryNext == \E r \in Requests : RequestStep(r)

\* The code between two awaits runs to its end, and the database answers.
RegistrySpec ==
  /\ RegistryInit /\ [][RegistryNext]_vars
  /\ \A r \in Requests : WF_vars(RequestStep(r))

-----------------------------------------------------------------------------
(* Properties.                                                             *)

Before(order, a, b) ==
  \E i, j \in DOMAIN order : i < j /\ order[i] = a /\ order[j] = b

\* A step can be put behind everything it depends on.
HasOrder(w) ==
  \E rank \in [Ids(w) -> 1..Cardinality(Ids(w))] :
    \A e \in Edges(w) : rank[Source(w, e)] < rank[Target(w, e)]

\* Types; the loop never counts below zero, nor takes a step twice
\* (workflow.ts:22).
RegistryTypeOK ==
  /\ stage \in [Requests -> {"received", "sort", "publish", "answered"}]
  /\ reply \in [Requests -> {0, 201, 400, 500}]
  /\ body \in Bodies
  /\ \A r \in Requests :
       /\ \A id \in DOMAIN indegree[r] : indegree[r][id] \in Nat
       /\ ready[r] \subseteq DOMAIN indegree[r]
       /\ \A i, j \in DOMAIN ordered[r] : i # j => ordered[r][i] # ordered[r][j]
  /\ \A v \in Versions :
       published[v] = NoDocument \/ \E r \in Requests : published[v] = body[r]

(***************************************************************************)
(* A published workflow can be put in an order of all its steps, not only  *)
(* of those the loop has taken, and names no step it does not have         *)
(* (workflow.ts:15-23).                                                    *)
(***************************************************************************)
PublishedHasOrder ==
  \A v \in Versions :
    published[v] # NoDocument /\ published[v].kind = "Workflow"
      => HasOrder(published[v]) /\ ~UnknownDependency(published[v])

(***************************************************************************)
(* A published contract has the sections docs/bec-spec.md:5-13 calls       *)
(* required.  The check does not look for them (contract.ts:5-29), while   *)
(* the risk score and the engine read all three (risk.ts:24, 28,           *)
(* runtime/src/index.ts:111).                                              *)
(***************************************************************************)
PublishedIsComplete ==
  \A v \in Versions :
    published[v] # NoDocument /\ published[v].kind = "Contract"
      => published[v].sections = Sections

(***************************************************************************)
(* The order is right while it grows: a step is put behind all its known   *)
(* dependencies, with every mention of one counted (workflow.ts:22).       *)
(***************************************************************************)
OrderRespectsDependencies ==
  \A r \in Requests : \A j \in DOMAIN ordered[r] :
    \A e \in EdgesTo(body[r], ordered[r][j]) :
      Before(ordered[r], Source(body[r], e), ordered[r][j])

(***************************************************************************)
(* A workflow is refused for a reason: its fields, a duplicate id, an      *)
(* unknown dependency, or that no order of its steps exists at all         *)
(* (workflow.ts:16-22).                                                    *)
(***************************************************************************)
RefusedForAReason ==
  \A r \in Requests :
    reply[r] = 400 => WorkflowIssue(body[r]) \/ ~HasOrder(body[r])

\* The loop ends and every request is answered (server.ts:25-30, 40-43).
RequestsAreAnswered == \A r \in Requests : <>(stage[r] = "answered")

=============================================================================
