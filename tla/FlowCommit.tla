----------------------------- MODULE FlowCommit -----------------------------
(***************************************************************************)
(* The API and the workers over one database: requests create, approve and *)
(* cancel transactions while any number of workers run them, and nothing   *)
(* but the statements of Store orders what they do to a row.               *)
(***************************************************************************)
EXTENDS ControlPlane, Engine, Records

vars == <<storeVars, requestVars, runVars, worldVars>>

Init ==
  /\ transactions = [t \in Txs |-> NoRow]
  /\ evidence = [t \in Txs |-> {}]
  /\ cases = {}
  /\ ControlPlaneInit
  /\ RunInit

Next ==
  \/ \E r \in Requests : HandlerStep(r) /\ UNCHANGED <<runVars, worldVars>>
  \/ \E w \in Workers :
       /\ (\E t \in Txs : Load(w, t)) \/ RunStep(w) \/ RunFault(w)
       /\ UNCHANGED requestVars

Spec == Init /\ [][Next]_vars

TypeOK == EngineTypeOK /\ ControlPlaneTypeOK

-----------------------------------------------------------------------------
(***************************************************************************)
(* An adapter is called, and a row is past the gate, only when the record  *)
(* at hand holds the approvals policy asked for and no rejection           *)
(* (approval.ts:3-13, runtime.ts:69-77), whatever approvals, cancellations *)
(* and runs overlap.  It speaks of the recorded approvals: a rejection may *)
(* be answered 200 and then be lost to a stale copy, see AnswersAreFinal.  *)
(***************************************************************************)
ApprovalGate ==
  /\ \A t \in Stored : ApprovalsHold(transactions[t])
  /\ \A w \in Workers : pc[w] = "call" =>
       /\ ~ApprovalRejected(mem[w].approvals)
       /\ ApprovalsSatisfy(mem[w].required, mem[w].approvals)

(***************************************************************************)
(* transitionTransaction never throws inside a run: wherever the engine    *)
(* asks for a change of status, its copy's status has that edge            *)
(* (state-machine.ts:44-46 as index.ts:52-141 calls it).                   *)
(***************************************************************************)
NeverRefused ==
  \A w \in Workers :
    LET may(to) == CanTransitionTransaction(mem[w].status, to)
    IN /\ pc[w] = "loaded"     => may("EXECUTING")
       /\ pc[w] = "select"     => may("FAILED_INFRASTRUCTURE")
       /\ pc[w] = "decide"     => /\ may("UNKNOWN_EFFECT")
                                  /\ may("FAILED_INFRASTRUCTURE")
                                  /\ may("VERIFYING")
       /\ pc[w] = "commit"     => may("VERIFIED")
       /\ pc[w] = "compensate" => may("RECONCILIATION_REQUIRED")
       /\ pc[w] \in {"compensated", "catch"} =>
            may("COMPENSATED") /\ may("RECONCILIATION_REQUIRED")

(***************************************************************************)
(* Of the requests that carry one idempotency key at most one is answered  *)
(* 201, also when they all looked the key up before any of them inserted   *)
(* (server.ts:52-60 and the unique key of schema.sql).                     *)
(***************************************************************************)
CreatedOnce ==
  \A q, r \in Requests :
    reply[q].code = 201 /\ reply[r].code = 201 /\ q # r =>
      transactions[reply[q].id].key # transactions[reply[r].id].key

(***************************************************************************)
(* A policy denial the client was told of stands: no approval and no       *)
(* cancellation, however it overlaps, opens the transaction again          *)
(* (runtime.ts:57, 70; server.ts:99-101).                                  *)
(***************************************************************************)
DenialIsFinal ==
  \A r \in Requests :
    reply[r].code = 201 /\ reply[r].status = "REJECTED_BY_POLICY" =>
      transactions[reply[r].id].status = "REJECTED_BY_POLICY"

(***************************************************************************)
(* The table has no edge out of REJECTED_BY_POLICY or CANCELLED            *)
(* (state-machine.ts:15, 23), so an answer that names one of them would    *)
(* hold for good.  It does not: another handler, or a run, that read the   *)
(* row before writes its own copy over it (db/src/index.ts:22-27), and the *)
(* adapter of a transaction somebody rejected or cancelled is then called. *)
(***************************************************************************)
AnswersAreFinal ==
  \A r \in Requests :
    reply[r].code = 200 /\ reply[r].status \in {"REJECTED_BY_POLICY", "CANCELLED"} =>
      transactions[reply[r].id].status = reply[r].status

=============================================================================
