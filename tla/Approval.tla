------------------------------ MODULE Approval ------------------------------
(***************************************************************************)
(* packages/core/src/approval.ts.  An approval is a record [role, actorId, *)
(* decision] and the approvals of a transaction are a set: both functions  *)
(* below look at who decided what, never at how often or in which order.   *)
(* proposalHash is left out: server.ts:75 copies it from the very row it   *)
(* is later compared with, so every comparison in approval.ts and in       *)
(* recordApproval holds.                                                   *)
(***************************************************************************)
EXTENDS Naturals, FiniteSets

\* A rule [role, count] holds when enough distinct actors approved in its role.
ApprovalsSatisfy(rules, approvals) ==
  LET valid == {a \in approvals : a.decision = "APPROVED"}
      uniqueActors(rule) ==
        {a.actorId : a \in {v \in valid : v.role = rule.role}}
  IN \A rule \in rules : Cardinality(uniqueActors(rule)) >= rule.count

ApprovalRejected(approvals) == \E a \in approvals : a.decision = "REJECTED"

=============================================================================
