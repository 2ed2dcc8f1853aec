---------------------------- MODULE MCFlowCommit ----------------------------
(***************************************************************************)
(* Requests and runs overlap on the rows of two transactions.  There are   *)
(* two workloads: several creations with one approval and one cancellation *)
(* while no worker runs, and one transaction with two approvals, a         *)
(* cancellation and two workers, which may try it twice.                   *)
(***************************************************************************)
EXTENDS FlowCommit, MCContracts, TLC

CONSTANTS create1, create2, approve1, approve2, cancel1, w1, w2,
          ann, bob, t1, t2, k1, k2

MCContractSet == {"refund"}
MCDocs == DocFor(MCContractSet)
MCOneEffect == {"paid"}

MCTxs == {t1, t2}
MCKeys == {k1, k2}
MCWorkers == {w1, w2}
MCActors == {ann, bob}
Creations == {create1, create2}
Approvals == {approve1, approve2}
MCRequests == Creations \cup Approvals \cup {cancel1}
MCKind == [r \in MCRequests |-> CASE r \in Creations -> "create"
                                  [] r \in Approvals -> "approve"
                                  [] OTHER           -> "cancel"]

MCDecisions ==
  {[allow |-> FALSE, required |-> {}], [allow |-> TRUE, required |-> {}]}
    \cup {[allow |-> TRUE, required |-> {[role |-> "manager", count |-> n]}] :
            n \in {1, 2}}

\* CONSTRAINT: ids and keys are names, they are handed out in order.
InUse(t) == transactions[t] # NoRow \/ \E r \in Requests : held[r] # NoRow /\ held[r].id = t
NamesInOrder ==
  /\ InUse(t2) => InUse(t1)
  /\ \A r \in Requests : held[r] # NoRow /\ held[r].id = t1 => held[r].key = k1

Begun == {r \in Requests : stage[r] # "received"}

OneTransaction(requests) == requests \cap Creations \subseteq {create1}
OnlyRequests(requests) ==
  Cardinality(requests \cap Approvals) <= 1 /\ \A w \in Workers : pc[w] = "idle"

\* BOUND: a second attempt overlaps with one request and both workers, or with
\* the approvals and one worker.
Running == {w \in Workers : pc[w] # "idle"}
RetryAllowed(requests, running) ==
  \/ Cardinality(requests \ Creations) <= 1
  \/ cancel1 \notin requests /\ Cardinality(running) <= 1
Retried ==
  \E t \in Txs :
    \/ Len(calls[t]) > 1
    \/ \E w \in Workers : /\ pc[w] = "loaded" /\ calls[t] # << >>
                          /\ mem[w].actions # << >>

\* A request arrives, and a run begins, as one of the workloads has it.
MCNext ==
  \/ \E r \in Requests :
       /\ OneTransaction(Begun \cup {r}) \/ OnlyRequests(Begun \cup {r})
       /\ Retried => RetryAllowed(Begun \cup {r}, Running)
       /\ HandlerStep(r) /\ UNCHANGED <<runVars, worldVars>>
  \/ \E w \in Workers :
       /\ OneTransaction(Begun)
       /\ \/ RunStep(w) \/ RunFault(w)
          \/ \E t \in Txs : /\ calls[t] = << >> \/ RetryAllowed(Begun, Running \cup {w})
                            /\ Load(w, t)
       /\ UNCHANGED requestVars

MCSpec == Init /\ [][MCNext]_vars

\* Workers, actors and the two approvals are interchangeable, and all the
\* properties are invariants, so the symmetry is sound.
Interchangeable ==
  Permutations(MCWorkers) \cup Permutations(MCActors)
    \cup Permutations(Approvals)

=============================================================================
