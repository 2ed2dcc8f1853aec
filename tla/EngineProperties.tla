-------------------------- MODULE EngineProperties --------------------------
(***************************************************************************)
(* What the engine guarantees about the world outside.  Unlike the rows of *)
(* FlowCommit these properties need that one run at a time works on a      *)
(* transaction, and adapters that report FAILED only for calls that did    *)
(* nothing (docs/adapter-sdk.md:5-9).                                      *)
(***************************************************************************)
EXTENDS Engine, Records

ASSUME HonestAdapters == \A o \in Outcomes : o.status = "FAILED" => ~o.touches

StatusOf(t) == transactions[t].status

Final == {"VERIFIED", "VERIFIED_AFTER_RETRY", "COMPENSATED"}

(***************************************************************************)
(* The rows and the world refine Lifecycle: the persisted status follows   *)
(* the table of state-machine.ts:3-24 although decideVerificationOutcome   *)
(* never consults it, no effect is carried out twice, FAILED and           *)
(* COMPENSATED rows left nothing behind, VERIFIED ones everything          *)
(* (index.ts:45-142), also when runs crash half-way.                       *)
(***************************************************************************)
Abstract ==
  INSTANCE Lifecycle WITH
    Effects <- EffectIds,
    promise <- [t \in Txs |->
                  [effects  |-> Doc[transactions[t].contract].effects,
                   verified |-> Doc[transactions[t].contract].verificationRequired]],
    status  <- [t \in Txs |-> StatusOf(t)],
    world   <- applied

ImplementsLifecycle == Abstract!Spec

(***************************************************************************)
(* An execution of unknown effect is the last one of its transaction       *)
(* (SECURITY.md:8; index.ts:51, 82-85).                                    *)
(***************************************************************************)
UnknownNeverRetried ==
  \A t \in Txs : \A i \in 1..(Len(calls[t]) - 1) :
    calls[t][i] # "UNKNOWN_EFFECT"

(***************************************************************************)
(* The evidence is never ahead of the row: what it says has happened is    *)
(* stored (index.ts:149-155 puts before it records).                       *)
(***************************************************************************)
EvidenceNeverAhead ==
  \A t \in Txs :
    /\ "transaction.verified" \in evidence[t] =>
         StatusOf(t) \in {"VERIFIED", "VERIFIED_AFTER_RETRY"}
    /\ "transaction.compensated" \in evidence[t] => StatusOf(t) = "COMPENSATED"
    /\ "transaction.execution_failed" \in evidence[t] =>
         \E i \in DOMAIN transactions[t].actions :
           transactions[t].actions[i].status = "FAILED"
    /\ "reconciliation.required" \in evidence[t] =>
         StatusOf(t) = "RECONCILIATION_REQUIRED"

(***************************************************************************)
(* The row's list of actions is the history of the calls: the i-th action  *)
(* is the i-th call, and nothing the adapters answered is lost or          *)
(* invented, except the answer a run has not stored yet (index.ts:62-63,   *)
(* 78-79).                                                                 *)
(***************************************************************************)
ActionsAreTheCalls ==
  \A t \in Txs :
    LET actions == transactions[t].actions
        made    == Len(calls[t])
    IN /\ Len(actions) \in {made, made + 1}
       /\ \A i \in DOMAIN actions :
            \/ i <= made /\ actions[i].status = ActionResult[calls[t][i]]
            \/ i = Len(actions) /\ actions[i].status = "EXECUTING"

(***************************************************************************)
(* A transaction the engine is through with is never run or undone again:  *)
(* nothing is executed and nothing compensated for it any more, and it     *)
(* cannot become runnable by a detour over another such status.  This      *)
(* includes the row that was COMPENSATED and whose evidence insert failed: *)
(* the catch of compensate() stores RECONCILIATION_REQUIRED over it        *)
(* (index.ts:129-136), and from there on it must be left alone too.        *)
(***************************************************************************)
Closed == Final \cup {"RECONCILIATION_REQUIRED"}

ClosedForGood ==
  [][\A t \in Txs :
       StatusOf(t) \in Closed =>
         /\ StatusOf(t)' \in Closed
         /\ calls'[t] = calls[t]
         /\ applied'[t] = applied[t]]_engineVars

(***************************************************************************)
(* What the table of the statuses promises of those it lists no successor  *)
(* for (state-machine.ts:13-16, 20, 23; server.ts:99 calls them terminal): *)
(* a row that has reached one keeps it.  compensate() breaks it, see the   *)
(* run compensated.                                                        *)
(***************************************************************************)
FinalStatusStays ==
  [][\A t \in Txs :
       transactionTransitions[StatusOf(t)] = {} =>
         StatusOf(t)' = StatusOf(t)]_engineVars

-----------------------------------------------------------------------------
(* Liveness, for runs that neither crash nor lose the database.            *)

\* Every run comes to an end: the engine has no state it waits in for ever
\* (index.ts:45-142 as long as its awaits settle).
RunsEnd == \A w \in Workers : pc[w] # "idle" ~> pc[w] = "idle"

(***************************************************************************)
(* Whatever an execution may have done in the world is settled: confirmed, *)
(* undone, or handed to a human as a reconciliation case                   *)
(* (index.ts:93-101, 129-142).                                             *)
(***************************************************************************)
EffectsAreSettled ==
  \A t \in Txs :
    (\E e \in EffectIds : applied[t][e] > 0)
      ~> StatusOf(t) \in Final \/ t \in cases

(***************************************************************************)
(* Nobody is left guessing: a row of unknown effect, or one that requires  *)
(* reconciliation, gets its case, whoever else runs the transaction        *)
(* (index.ts:138-142).                                                     *)
(***************************************************************************)
UnknownIsEscalated ==
  \A t \in Txs :
    StatusOf(t) \in {"UNKNOWN_EFFECT", "RECONCILIATION_REQUIRED"} ~> t \in cases

=============================================================================
