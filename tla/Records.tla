------------------------------- MODULE Records -------------------------------
(***************************************************************************)
(* What a row says of itself.  Stale copies overwrite newer rows, but each *)
(* copy was built by the code from one row, so whichever write is last the *)
(* row is one the code would stand by.                                     *)
(***************************************************************************)
EXTENDS Store

\* The statuses a transaction has only after its approvals were checked.
Authorized == {"READY", "EXECUTING", "VERIFYING", "COMMITTING", "VERIFIED",
               "VERIFIED_AFTER_RETRY", "UNKNOWN_EFFECT", "PARTIALLY_COMMITTED",
               "COMPENSATING", "COMPENSATED", "RECONCILIATION_REQUIRED",
               "FAILED_INFRASTRUCTURE"}

ApprovalsHold(tx) ==
  tx.status \in Authorized =>
    /\ ~ApprovalRejected(tx.approvals)
    /\ ApprovalsSatisfy(tx.required, tx.approvals)

\* Said of the observations one by one, without summarizeVerification.
Seen(tx, effect, what) ==
  \E o \in tx.observations : o.effectId = effect /\ o.result = what

Confirmed(tx) ==
  \A e \in Doc[tx.contract].effects : \E o \in tx.observations :
    /\ o.effectId = e /\ o.result = "CONFIRMED"
    /\ o.strength >= Doc[tx.contract].minimumStrength

ToBeUndone(tx) ==
  /\ \E e \in Doc[tx.contract].effects :
       Seen(tx, e, "REJECTED") /\ ~Seen(tx, e, "CONFIRMED")
  /\ CanCompensate(Doc[tx.contract])

OutcomeHolds(tx) ==
  /\ tx.status \in {"COMMITTING", "VERIFIED", "VERIFIED_AFTER_RETRY"} =>
       Confirmed(tx)
  /\ tx.status \in {"COMPENSATING", "COMPENSATED"} => ToBeUndone(tx)

AllFailed(actions) == \A i \in DOMAIN actions : actions[i].status = "FAILED"

\* Only the last attempt may have had an effect.
HistoryHolds(tx) ==
  LET n == Len(tx.actions)
  IN /\ \A i \in 1..(n - 1) : tx.actions[i].status = "FAILED"
     /\ tx.status \in {"CREATED", "AWAITING_APPROVAL", "READY",
                       "REJECTED_BY_POLICY", "CANCELLED"} =>
          tx.actions = << >> /\ tx.observations = {}
     /\ tx.status = "FAILED_INFRASTRUCTURE" =>
          AllFailed(tx.actions) /\ tx.observations = {}
     /\ tx.status \in {"VERIFYING", "COMMITTING", "VERIFIED",
                       "VERIFIED_AFTER_RETRY", "COMPENSATING", "COMPENSATED"} =>
          n > 0 /\ tx.actions[n].status = "EXECUTED"

(***************************************************************************)
(* A row that says VERIFIED carries for every expected effect an           *)
(* observation that confirms it at the contract's strength, and one that   *)
(* says COMPENSATED an effect that was refuted and never confirmed, under  *)
(* a contract that can be undone (runtime.ts:83-92, index.ts:93-100).      *)
(***************************************************************************)
OutcomeBacked == \A t \in Stored : OutcomeHolds(transactions[t])

(***************************************************************************)
(* In the record of a transaction every attempt before the last one FAILED *)
(* (index.ts:49-53, 86-88): an attempt of unknown effect is never followed *)
(* by another, and a runnable row has no effect on record.                 *)
(***************************************************************************)
OnlyFailuresRetried == \A t \in Stored : HistoryHolds(transactions[t])

=============================================================================
