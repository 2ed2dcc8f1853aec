---------------------------- MODULE StateMachine ----------------------------
(***************************************************************************)
(* The status vocabularies of packages/core/src/types.ts and the table of  *)
(* transaction statuses of packages/core/src/state-machine.ts.  Nothing    *)
(* consults the table of action statuses, so it is not here.               *)
(***************************************************************************)

TransactionStatus ==
  { "CREATED", "VALIDATING", "POLICY_EVALUATION", "PREPARING",
    "AWAITING_APPROVAL", "READY", "EXECUTING", "VERIFYING", "COMMITTING",
    "VERIFIED", "VERIFIED_AFTER_RETRY", "REJECTED_BY_POLICY",
    "HALTED_BEFORE_EFFECT", "UNKNOWN_EFFECT", "PARTIALLY_COMMITTED",
    "COMPENSATING", "COMPENSATED", "RECONCILIATION_REQUIRED",
    "FAILED_INFRASTRUCTURE", "CANCELLED" }

ActionStatus ==
  { "PLANNED", "AUTHORIZED", "PREPARED", "EXECUTING", "EXECUTED",
    "EFFECT_UNKNOWN", "EFFECT_VERIFIED", "COMMITTED", "FAILED",
    "COMPENSATING", "COMPENSATED" }

transactionTransitions ==
  [ CREATED                 |-> {"VALIDATING", "CANCELLED"},
    VALIDATING              |-> {"POLICY_EVALUATION", "HALTED_BEFORE_EFFECT",
                                 "FAILED_INFRASTRUCTURE", "CANCELLED"},
    POLICY_EVALUATION       |-> {"PREPARING", "AWAITING_APPROVAL",
                                 "REJECTED_BY_POLICY", "FAILED_INFRASTRUCTURE",
                                 "CANCELLED"},
    PREPARING               |-> {"AWAITING_APPROVAL", "READY",
                                 "HALTED_BEFORE_EFFECT",
                                 "FAILED_INFRASTRUCTURE", "CANCELLED"},
    AWAITING_APPROVAL       |-> {"READY", "REJECTED_BY_POLICY", "CANCELLED"},
    READY                   |-> {"EXECUTING", "CANCELLED"},
    EXECUTING               |-> {"VERIFYING", "UNKNOWN_EFFECT",
                                 "PARTIALLY_COMMITTED", "COMPENSATING",
                                 "FAILED_INFRASTRUCTURE"},
    VERIFYING               |-> {"COMMITTING", "UNKNOWN_EFFECT",
                                 "PARTIALLY_COMMITTED", "COMPENSATING",
                                 "RECONCILIATION_REQUIRED",
                                 "FAILED_INFRASTRUCTURE"},
    COMMITTING              |-> {"VERIFIED", "VERIFIED_AFTER_RETRY",
                                 "UNKNOWN_EFFECT", "FAILED_INFRASTRUCTURE"},
    VERIFIED                |-> {},
    VERIFIED_AFTER_RETRY    |-> {},
    REJECTED_BY_POLICY      |-> {},
    HALTED_BEFORE_EFFECT    |-> {},
    UNKNOWN_EFFECT          |-> {"VERIFYING", "RECONCILIATION_REQUIRED",
                                 "COMPENSATING", "VERIFIED_AFTER_RETRY"},
    PARTIALLY_COMMITTED     |-> {"COMPENSATING", "RECONCILIATION_REQUIRED",
                                 "VERIFYING"},
    COMPENSATING            |-> {"COMPENSATED", "RECONCILIATION_REQUIRED",
                                 "FAILED_INFRASTRUCTURE"},
    COMPENSATED             |-> {},
    RECONCILIATION_REQUIRED |-> {"VERIFYING", "COMPENSATING",
                                 "VERIFIED_AFTER_RETRY", "COMPENSATED"},
    FAILED_INFRASTRUCTURE   |-> {"VALIDATING", "PREPARING", "EXECUTING",
                                 "VERIFYING", "RECONCILIATION_REQUIRED"},
    CANCELLED               |-> {} ]

CanTransitionTransaction(from, to) == to \in transactionTransitions[from]

=============================================================================
