---------------------------- MODULE Transactions ----------------------------
(***************************************************************************)
(* The transaction record and the pure functions of                        *)
(* packages/core/src/runtime.ts that build and change it.                  *)
(*                                                                         *)
(* A contract document is immutable once published (db/src/index.ts:103),  *)
(* so it is a constant: Contracts are the (name, version) references and   *)
(* Doc[c] is the part of the document the code under src/ reads.           *)
(***************************************************************************)
EXTENDS StateMachine, Approval, Verification, Sequences

CONSTANTS Txs,        \* transaction ids
          Contracts,  \* contract references
          Doc,        \* the published document of each contract
          Keys,       \* idempotency keys, within one tenant and environment
          Instants,   \* what the clock may show when a transaction is created
          Roles, Actors, Executors, VerifierNames, EffectIds,
          NoRow       \* what a lookup that finds no row returns

AnyEffect == "any effect"   \* a verification rule without effectId

ApprovalRule == [role : Roles, count : Nat]

VerificationRule ==
  [verifier : VerifierNames, effectId : EffectIds \cup {AnyEffect},
   strength : Nat]

\* executors is execution.preferred followed by execution.fallback.
BusinessEffectContract ==
  [executors : Seq(Executors), effects : SUBSET EffectIds,
   rules : SUBSET VerificationRule, verificationRequired : BOOLEAN,
   minimumStrength : Nat, approval : SUBSET ApprovalRule,
   irreversible : BOOLEAN, compensation : BOOLEAN]

\* Every contract has a well-formed document.
ASSUME ContractsAssumption == Doc \in [Contracts -> BusinessEffectContract]

ApprovalRecord ==
  [role : Roles, actorId : Actors, decision : {"APPROVED", "REJECTED"}]

VerificationResult == {"CONFIRMED", "REJECTED", "INCONCLUSIVE", "TIMEOUT"}

EffectObservation ==
  [effectId : EffectIds, result : VerificationResult, strength : Nat]

TransactionAction == [executor : Executors, status : ActionStatus]

\* required is policyDecision.requiredApprovals.
Transaction ==
  [id : Txs, contract : Contracts, key : Keys, createdAt : Instants,
   status : TransactionStatus, required : SUBSET ApprovalRule,
   approvals : SUBSET ApprovalRecord, actions : Seq(TransactionAction),
   observations : SUBSET EffectObservation, retryCount : Nat]

ASSUME InstantsAssumption == Instants \subseteq Nat

\* NoRow can be told from every row.
ASSUME NoRowAssumption == NoRow \notin Transaction

-----------------------------------------------------------------------------
CreateTransaction(id, contract, key, now) ==
  [id |-> id, contract |-> contract, key |-> key, createdAt |-> now,
   status |-> "CREATED", required |-> {}, approvals |-> {}, actions |-> << >>,
   observations |-> {}, retryCount |-> 0]

\* A policy decision is a record [allow, required].
ApplyPolicy(tx, decision) ==
  [tx EXCEPT !.required = decision.required,
             !.status = CASE ~decision.allow -> "REJECTED_BY_POLICY"
                          [] decision.allow /\ decision.required # {}
                               -> "AWAITING_APPROVAL"
                          [] OTHER -> "PREPARING"]

\* Faulty variant: one approval is enough.
RecordApprovalAtOnce(tx, approval) ==
  LET approvals == tx.approvals \cup {approval}
  IN [tx EXCEPT !.approvals = approvals,
                !.status = IF ApprovalRejected(approvals)
                           THEN "REJECTED_BY_POLICY" ELSE "READY"]

RecordApproval(tx, approval) ==
  LET approvals == tx.approvals \cup {approval}
  IN [tx EXCEPT !.approvals = approvals,
                !.status = CASE ApprovalRejected(approvals)
                                  -> "REJECTED_BY_POLICY"
                             [] /\ ~ApprovalRejected(approvals)
                                /\ ApprovalsSatisfy(tx.required, approvals)
                                  -> "READY"
                             [] OTHER -> "AWAITING_APPROVAL"]

AddObservation(tx, observation) ==
  [tx EXCEPT !.observations = @ \cup {observation}]

CanCompensate(contract) == ~contract.irreversible /\ contract.compensation

\* Faulty variant: what nobody refuted is committed.
DecideUnlessRefuted(tx, contract) ==
  LET summary == SummarizeVerification(contract, tx.observations)
  IN [tx EXCEPT !.status =
        CASE ~summary.rejected -> "COMMITTING"
          [] summary.rejected /\ CanCompensate(contract) -> "COMPENSATING"
          [] OTHER -> "RECONCILIATION_REQUIRED"]

DecideVerificationOutcome(tx, contract) ==
  LET summary == SummarizeVerification(contract, tx.observations)
  IN [tx EXCEPT !.status =
        CASE summary.confirmed -> "COMMITTING"
          [] ~summary.confirmed /\ summary.rejected
               -> IF CanCompensate(contract) THEN "COMPENSATING"
                                             ELSE "RECONCILIATION_REQUIRED"
          [] OTHER -> "UNKNOWN_EFFECT"]

(***************************************************************************)
(* What POST /transactions does between the policy's answer and the insert *)
(* (server.ts:53-58): the status passes through CREATED, VALIDATING and    *)
(* POLICY_EVALUATION in memory only.                                       *)
(***************************************************************************)
Admit(tx, decision) ==
  LET decided == ApplyPolicy([tx EXCEPT !.status = "POLICY_EVALUATION"],
                             decision)
  IN IF decided.status = "PREPARING" THEN [decided EXCEPT !.status = "READY"]
                                     ELSE decided

=============================================================================
