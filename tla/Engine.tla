------------------------------- MODULE Engine -------------------------------
(***************************************************************************)
(* TransactionEngine of packages/runtime/src/index.ts.  A worker w that    *)
(* runs a transaction is a process: it reads the row once, changes its     *)
(* private copy mem[w] and writes the whole copy back after every change.  *)
(* pc[w] is the await at which it stands; an action is the code from one   *)
(* await to the next, so anything may happen to the row in between.        *)
(*                                                                         *)
(* External systems are modelled from how src/ uses them: applied[t][e]    *)
(* counts how often effect e of transaction t has really been carried out, *)
(* and calls[t] lists what execute() answered for t, oldest first.         *)
(***************************************************************************)
EXTENDS Store

CONSTANTS Workers,
          Registered,     \* executors in the ExecutorRegistry
          Compensable,    \* those among them that implement compensate
          Verifiers,      \* verifiers in the VerifierRegistry
          Outcomes,       \* what a call of an adapter can do: [status, touches]
          Strengths,      \* the strengths a verifier reports
          Faults,         \* may a run end by a crash or an exception?
          StoreMayFail,   \* may a statement fail inside the try of compensate?
          MaxCalls        \* bound: no run starts after so many calls for it

ExecutionStatus == {"EXECUTED", "UNKNOWN_EFFECT", "FAILED"}

\* touches: the call may have carried out some of the effects.
ExecutionOutcome == [status : ExecutionStatus, touches : BOOLEAN]

ASSUME EngineAssumption ==
  /\ Registered \subseteq Executors
  /\ Verifiers \subseteq VerifierNames
  /\ "none" \notin VerifierNames       \* the name NoRule has
  /\ Outcomes \subseteq ExecutionOutcome
  /\ Strengths \subseteq Nat
  /\ Faults \in BOOLEAN /\ StoreMayFail \in BOOLEAN
  /\ MaxCalls \in Nat

VARIABLES pc,       \* where each worker's run stands
          mem,      \* the run's copy of the transaction, NoRow between runs
          result,   \* status of the run's last ExecutionResult
          todo,     \* the checks verifyAll has still to make
          pending,  \* the event to record and where the run continues then
          applied, calls

runVars == <<pc, mem, result, todo, pending>>
worldVars == <<applied, calls>>
engineVars == <<storeVars, runVars, worldVars>>

Label == {"idle", "loaded", "event", "select", "call", "finish", "decide",
          "verify", "outcome", "commit", "compensate", "compensated", "catch",
          "reconcile"}

NoEvent == [type |-> "none", next |-> "idle"]
NoResult == "none"
\* Stands for the missing rule of an effect no rule applies to.
NoRule == [verifier |-> "none", effectId |-> AnyEffect, strength |-> 0]

PendingEvent ==
  [type : EventType \cup {"none"}, next : Label \ {"event", "finish"}]

Check == [effectId : EffectIds, rule : VerificationRule \cup {NoRule}]

EngineTypeOK ==
  /\ StoreTypeOK
  /\ pc \in [Workers -> Label]
  /\ mem \in [Workers -> Transaction \cup {NoRow}]
  /\ result \in [Workers -> ExecutionStatus \cup {NoResult}]
  /\ todo \in [Workers -> SUBSET Check]
  /\ pending \in [Workers -> PendingEvent]
  /\ applied \in [Txs -> [EffectIds -> Nat]]
  /\ calls \in [Txs -> Seq(ExecutionStatus)]
  /\ \A w \in Workers : pc[w] # "idle" => mem[w] # NoRow
  /\ \A w \in Workers : pc[w] = "finish" => result[w] \in ExecutionStatus
  /\ \A w \in Workers : pc[w] = "event" => pending[w].type # "none"

RunInit ==
  /\ pc = [w \in Workers |-> "idle"]
  /\ mem = [w \in Workers |-> NoRow]
  /\ result = [w \in Workers |-> NoResult]
  /\ todo = [w \in Workers |-> {}]
  /\ pending = [w \in Workers |-> NoEvent]
  /\ applied = [t \in Txs |-> [e \in EffectIds |-> 0]]
  /\ calls = [t \in Txs |-> << >>]

-----------------------------------------------------------------------------
(* Small steps shared by the actions.                                      *)

DocOf(w) == Doc[mem[w].contract]

Goto(w, label) == pc' = [pc EXCEPT ![w] = label]

\* event(): the run waits for the evidence insert and then goes on at next.
Emit(w, type, next) ==
  /\ Goto(w, "event")
  /\ pending' = [pending EXCEPT ![w] = [type |-> type, next |-> next]]

SetMem(w, tx) == mem' = [mem EXCEPT ![w] = tx]

\* Faulty variant: the event is recorded and the row is not stored.
TransitionNotStored(w, to, type, next) ==
  /\ CanTransitionTransaction(mem[w].status, to)
  /\ SetMem(w, [mem[w] EXCEPT !.status = to])
  /\ Emit(w, type, next)
  /\ UNCHANGED transactions

\* transition(): assertTransactionTransition, putTransaction, event.
Transition(w, to, type, next) ==
  LET tx == [mem[w] EXCEPT !.status = to]
  IN /\ CanTransitionTransaction(mem[w].status, to)
     /\ SetMem(w, tx)
     /\ PutTransaction(tx)
     /\ Emit(w, type, next)

\* The run is over, by return or by an exception: its memory is gone.
EndRun(w) ==
  /\ Goto(w, "idle")
  /\ SetMem(w, NoRow)
  /\ result' = [result EXCEPT ![w] = NoResult]
  /\ todo' = [todo EXCEPT ![w] = {}]
  /\ pending' = [pending EXCEPT ![w] = NoEvent]

-----------------------------------------------------------------------------
(* run(): from the read of the row to the executor's answer.               *)

\* Faulty variant: an execution another run has begun is taken up.
RunnableTakenUp == {"READY", "FAILED_INFRASTRUCTURE", "UNKNOWN_EFFECT", "EXECUTING"}

\* The statuses run() does not return at once for.
Runnable == {"READY", "FAILED_INFRASTRUCTURE", "UNKNOWN_EFFECT"}

Load(w, t) ==
  /\ pc[w] = "idle"
  /\ transactions[t] # NoRow
  /\ transactions[t].status \in Runnable
  /\ Len(calls[t]) < MaxCalls
  /\ SetMem(w, transactions[t])
  /\ Goto(w, IF transactions[t].status = "UNKNOWN_EFFECT"
             THEN "reconcile" ELSE "loaded")
  /\ UNCHANGED <<storeVars, result, todo, pending, worldVars>>

BeginExecuting(w) ==
  /\ pc[w] = "loaded"
  /\ Transition(w, "EXECUTING",
                IF mem[w].status = "FAILED_INFRASTRUCTURE"
                THEN "transaction.retrying" ELSE "transaction.executing",
                "select")
  /\ UNCHANGED <<evidence, cases, result, todo, worldVars>>

\* selectExecutor(): the first name of the contract that is registered.
SelectExecutor(contract, name) ==
  \E i \in DOMAIN contract.executors :
    /\ contract.executors[i] = name
    /\ name \in Registered
    /\ \A j \in 1..(i - 1) : contract.executors[j] \notin Registered

NoExecutor(w) ==
  /\ pc[w] = "select"
  /\ ~ \E name \in Executors : SelectExecutor(DocOf(w), name)
  /\ Transition(w, "FAILED_INFRASTRUCTURE", "transaction.no_executor", "idle")
  /\ UNCHANGED <<evidence, cases, result, todo, worldVars>>

\* Faulty variant: the list of actions starts afresh with every attempt.
StartActionAfresh(w) ==
  /\ pc[w] = "select"
  /\ \E name \in Executors :
       /\ SelectExecutor(DocOf(w), name)
       /\ LET tx == [mem[w] EXCEPT !.actions =
                       <<[executor |-> name, status |-> "EXECUTING"]>>]
          IN SetMem(w, tx) /\ PutTransaction(tx)
  /\ Goto(w, "call")
  /\ UNCHANGED <<evidence, cases, result, todo, pending, worldVars>>

StartAction(w) ==
  /\ pc[w] = "select"
  /\ \E name \in Executors :
       /\ SelectExecutor(DocOf(w), name)
       /\ LET action == [executor |-> name, status |-> "EXECUTING"]
              tx == [mem[w] EXCEPT !.actions = Append(@, action)]
          IN SetMem(w, tx) /\ PutTransaction(tx)
  /\ Goto(w, "call")
  /\ UNCHANGED <<evidence, cases, result, todo, pending, worldVars>>

(***************************************************************************)
(* validate, prepare and execute.  An exception of any of the three is     *)
(* caught and becomes a FAILED result with retrySafe true (index.ts:74).   *)
(* Which effects the call carried out is the external system's choice.     *)
(***************************************************************************)
Execute(w) ==
  LET t == mem[w].id IN
  /\ pc[w] = "call"
  /\ \E o \in Outcomes, done \in SUBSET DocOf(w).effects :
       /\ ~o.touches => done = {}
       /\ applied' = [applied EXCEPT ![t] =
                        [e \in EffectIds |->
                           IF e \in done THEN @[e] + 1 ELSE @[e]]]
       /\ calls' = [calls EXCEPT ![t] = Append(@, o.status)]
       /\ result' = [result EXCEPT ![w] = o.status]
  /\ Goto(w, "finish")
  /\ UNCHANGED <<storeVars, mem, todo, pending>>

-----------------------------------------------------------------------------
(* run(): from the executor's answer to the end of verification.           *)

\* Faulty variant: the execution status is stored as it is.
ActionResultAsIs ==
  [EXECUTED |-> "EXECUTED", UNKNOWN_EFFECT |-> "UNKNOWN_EFFECT",
   FAILED |-> "FAILED"]

\* finishAction(): the action of this run is the last of the list.
ActionResult ==
  [EXECUTED |-> "EXECUTED", UNKNOWN_EFFECT |-> "EFFECT_UNKNOWN",
   FAILED |-> "FAILED"]

\* Faulty variant: the answer is stored with the first action of the list.
FinishActionFirst(w) ==
  LET tx == [mem[w] EXCEPT !.actions[1].status = ActionResult[result[w]]]
  IN /\ pc[w] = "finish"
     /\ SetMem(w, tx)
     /\ PutTransaction(tx)
     /\ Emit(w, "action.finished", "decide")
     /\ UNCHANGED <<evidence, cases, result, todo, worldVars>>

FinishAction(w) ==
  LET tx == [mem[w] EXCEPT
               !.actions[Len(mem[w].actions)].status = ActionResult[result[w]]]
  IN /\ pc[w] = "finish"
     /\ SetMem(w, tx)
     /\ PutTransaction(tx)
     /\ Emit(w, "action.finished", "decide")
     /\ UNCHANGED <<evidence, cases, result, todo, worldVars>>

\* Faulty variant: a call of unknown effect counts as failed.
ExecutionUnknownFails(w) ==
  /\ pc[w] = "decide" /\ result[w] = "UNKNOWN_EFFECT"
  /\ Transition(w, "FAILED_INFRASTRUCTURE", "transaction.execution_failed",
                "idle")
  /\ UNCHANGED <<evidence, cases, result, todo, worldVars>>

\* Faulty variant: the run returns without asking for reconciliation.
ExecutionUnknownReturns(w) ==
  /\ pc[w] = "decide" /\ result[w] = "UNKNOWN_EFFECT"
  /\ Transition(w, "UNKNOWN_EFFECT", "transaction.unknown_effect", "idle")
  /\ UNCHANGED <<evidence, cases, result, todo, worldVars>>

ExecutionUnknown(w) ==
  /\ pc[w] = "decide" /\ result[w] = "UNKNOWN_EFFECT"
  /\ Transition(w, "UNKNOWN_EFFECT", "transaction.unknown_effect", "reconcile")
  /\ UNCHANGED <<evidence, cases, result, todo, worldVars>>

\* retrySafe is only reported in the event: the row becomes runnable again.
ExecutionFailed(w) ==
  /\ pc[w] = "decide" /\ result[w] = "FAILED"
  /\ Transition(w, "FAILED_INFRASTRUCTURE", "transaction.execution_failed",
                "idle")
  /\ UNCHANGED <<evidence, cases, result, todo, worldVars>>

\* The pairs the two loops of verifyAll visit.
Checks(contract) ==
  LET rulesFor(e) == {r \in contract.rules : r.effectId \in {e, AnyEffect}}
  IN UNION {{[effectId |-> e, rule |-> r] :
               r \in IF rulesFor(e) = {} THEN {NoRule} ELSE rulesFor(e)} :
            e \in contract.effects}

BeginVerifying(w) ==
  /\ pc[w] = "decide" /\ result[w] = "EXECUTED"
  /\ Transition(w, "VERIFYING", "transaction.verifying", "verify")
  /\ todo' = [todo EXCEPT ![w] = Checks(DocOf(w))]
  /\ UNCHANGED <<evidence, cases, result, worldVars>>

\* verifyAll() for a contract that asks for no verification.
VerificationNotRequired(w) ==
  LET assumed == {[effectId |-> e, result |-> "CONFIRMED", strength |-> 0] :
                    e \in DocOf(w).effects}
      tx == [mem[w] EXCEPT !.observations = @ \cup assumed]
  IN /\ pc[w] = "verify" /\ ~DocOf(w).verificationRequired
     /\ SetMem(w, tx)
     /\ PutTransaction(tx)
     /\ Goto(w, "outcome")
     /\ todo' = [todo EXCEPT ![w] = {}]
     /\ UNCHANGED <<evidence, cases, result, pending, worldVars>>

(***************************************************************************)
(* A verifier confirms only what it finds carried out; it may also find    *)
(* nothing yet, be inconclusive or time out.  A reported strength of 0     *)
(* falls back to the rule's (index.ts:122).                                *)
(***************************************************************************)
Observations(t, check) ==
  IF check.rule.verifier \notin Verifiers
  THEN {[effectId |-> check.effectId, result |-> "INCONCLUSIVE",
         strength |-> check.rule.strength]}
  ELSE [effectId : {check.effectId},
        result : {"REJECTED", "INCONCLUSIVE", "TIMEOUT"} \cup
                   (IF applied[t][check.effectId] > 0
                    THEN {"CONFIRMED"} ELSE {}),
        strength : {IF s # 0 THEN s ELSE check.rule.strength : s \in Strengths}]

\* Faulty variant: a check that confirmed nothing is made again.
VerifyAgain(w) ==
  /\ pc[w] = "verify" /\ DocOf(w).verificationRequired
  /\ \E check \in todo[w], o \in UNION {Observations(mem[w].id, c) : c \in todo[w]} :
       /\ todo' = [todo EXCEPT ![w] = IF o.result = "CONFIRMED" THEN @ \ {check} ELSE @]
       /\ SetMem(w, AddObservation(mem[w], o))
       /\ Emit(w, "effect.observed", "verify")
  /\ UNCHANGED <<storeVars, result, worldVars>>

\* The order of the checks is left open: the summary does not depend on it.
Verify(w) ==
  /\ pc[w] = "verify" /\ DocOf(w).verificationRequired
  /\ \E check \in todo[w] :
       /\ todo' = [todo EXCEPT ![w] = @ \ {check}]
       /\ \E o \in Observations(mem[w].id, check) :
            SetMem(w, AddObservation(mem[w], o))
       /\ IF check.rule.verifier \in Verifiers
          THEN Emit(w, "effect.observed", "verify")
          ELSE UNCHANGED <<pc, pending>>
  /\ UNCHANGED <<storeVars, result, worldVars>>

VerifyDone(w) ==
  /\ pc[w] = "verify" /\ DocOf(w).verificationRequired /\ todo[w] = {}
  /\ PutTransaction(mem[w])
  /\ Goto(w, "outcome")
  /\ UNCHANGED <<evidence, cases, mem, result, todo, pending, worldVars>>

\* Faulty variant: a refuted effect nobody can undo ends the run.
DecideOutcomeSilently(w) ==
  LET tx == DecideVerificationOutcome(mem[w], DocOf(w))
  IN /\ pc[w] = "outcome"
     /\ SetMem(w, tx)
     /\ PutTransaction(tx)
     /\ Emit(w, "transaction.verification_decided",
             CASE tx.status = "COMMITTING"   -> "commit"
               [] tx.status = "COMPENSATING" -> "compensate"
               [] OTHER                      -> "idle")
     /\ UNCHANGED <<evidence, cases, result, todo, worldVars>>

DecideOutcome(w) ==
  LET tx == DecideVerificationOutcome(mem[w], DocOf(w))
  IN /\ pc[w] = "outcome"
     /\ SetMem(w, tx)
     /\ PutTransaction(tx)
     /\ Emit(w, "transaction.verification_decided",
             CASE tx.status = "COMMITTING"   -> "commit"
               [] tx.status = "COMPENSATING" -> "compensate"
               [] OTHER                      -> "reconcile")
     /\ UNCHANGED <<evidence, cases, result, todo, worldVars>>

Commit(w) ==
  /\ pc[w] = "commit"
  /\ Transition(w, IF mem[w].retryCount > 0
                   THEN "VERIFIED_AFTER_RETRY" ELSE "VERIFIED",
                "transaction.verified", "idle")
  /\ UNCHANGED <<evidence, cases, result, todo, worldVars>>

-----------------------------------------------------------------------------
(* compensate() and reconcileUnknown().                                    *)

ExecutorOf(tx) == tx.actions[Len(tx.actions)].executor

CompensationUnavailable(w) ==
  /\ pc[w] = "compensate" /\ ExecutorOf(mem[w]) \notin Compensable
  /\ Transition(w, "RECONCILIATION_REQUIRED", "compensation.unavailable",
                "reconcile")
  /\ UNCHANGED <<evidence, cases, result, todo, worldVars>>

\* The adapter undoes everything, or only some of it, or throws.
Compensate(w) ==
  LET t == mem[w].id IN
  /\ pc[w] = "compensate" /\ ExecutorOf(mem[w]) \in Compensable
  /\ \E status \in ExecutionStatus \cup {"THROWN"}, undone \in SUBSET EffectIds :
       /\ status = "EXECUTED" => undone = EffectIds
       /\ applied' = [applied EXCEPT ![t] =
                        [e \in EffectIds |-> IF e \in undone THEN 0 ELSE @[e]]]
       /\ IF status = "THROWN"
          THEN Goto(w, "catch") /\ UNCHANGED result
          ELSE /\ Goto(w, "compensated")
               /\ result' = [result EXCEPT ![w] = status]
  /\ UNCHANGED <<storeVars, mem, todo, pending, calls>>

CompensationDone(w) ==
  /\ pc[w] = "compensated"
  /\ IF result[w] = "EXECUTED"
     THEN Transition(w, "COMPENSATED", "transaction.compensated", "idle")
     ELSE Transition(w, "RECONCILIATION_REQUIRED", "compensation.failed",
                     "reconcile")
  /\ UNCHANGED <<evidence, cases, result, todo, worldVars>>

(***************************************************************************)
(* A statement of the try block fails: putTransaction before it wrote, or  *)
(* the evidence insert after it did.  The variable tx of the catch block   *)
(* is still the one with status COMPENSATING.                              *)
(***************************************************************************)
CompensationStoreError(w) ==
  /\ StoreMayFail
  /\ \/ pc[w] = "compensated"
     \/ /\ pc[w] = "event"
        /\ pending[w].type \in {"transaction.compensated", "compensation.failed"}
  /\ SetMem(w, [mem[w] EXCEPT !.status = "COMPENSATING"])
  /\ Goto(w, "catch")
  /\ pending' = [pending EXCEPT ![w] = NoEvent]
  /\ UNCHANGED <<storeVars, result, todo, worldVars>>

\* Faulty variant: a compensation that throws makes the row runnable again.
CompensationCaughtRetries(w) ==
  /\ pc[w] = "catch"
  /\ Transition(w, "FAILED_INFRASTRUCTURE", "compensation.exception", "idle")
  /\ UNCHANGED <<evidence, cases, result, todo, worldVars>>

CompensationCaught(w) ==
  /\ pc[w] = "catch"
  /\ Transition(w, "RECONCILIATION_REQUIRED", "compensation.exception",
                "reconcile")
  /\ UNCHANGED <<evidence, cases, result, todo, worldVars>>

\* Faulty variant: the run goes on to verify what it has given up.
RequireReconciliationVerifies(w) ==
  /\ pc[w] = "reconcile" /\ mem[w].status = "UNKNOWN_EFFECT"
  /\ Transition(w, "RECONCILIATION_REQUIRED", "reconciliation.required",
                "verify")
  /\ UNCHANGED <<evidence, cases, result, todo, worldVars>>

RequireReconciliation(w) ==
  /\ pc[w] = "reconcile" /\ mem[w].status = "UNKNOWN_EFFECT"
  /\ Transition(w, "RECONCILIATION_REQUIRED", "reconciliation.required",
                "reconcile")
  /\ UNCHANGED <<evidence, cases, result, todo, worldVars>>

OpenCase(w) ==
  /\ pc[w] = "reconcile" /\ mem[w].status # "UNKNOWN_EFFECT"
  /\ OpenReconciliation(mem[w].id)
  /\ EndRun(w)
  /\ UNCHANGED <<transactions, evidence, worldVars>>

-----------------------------------------------------------------------------
\* The evidence insert of event() has succeeded.
RecordEvent(w) ==
  /\ pc[w] = "event"
  /\ AppendEvidence(mem[w].id, pending[w].type)
  /\ IF pending[w].next = "idle"
     THEN EndRun(w)
     ELSE /\ Goto(w, pending[w].next)
          /\ pending' = [pending EXCEPT ![w] = NoEvent]
          /\ UNCHANGED <<mem, result, todo>>
  /\ UNCHANGED <<transactions, cases, worldVars>>

\* run() rejects, or its process dies, at any await.
Abandon(w) ==
  /\ Faults
  /\ pc[w] # "idle"
  /\ EndRun(w)
  /\ UNCHANGED <<storeVars, worldVars>>

\* One step of the run in progress.
RunStep(w) ==
  \/ BeginExecuting(w) \/ NoExecutor(w) \/ StartAction(w) \/ Execute(w)
  \/ FinishAction(w) \/ ExecutionUnknown(w) \/ ExecutionFailed(w)
  \/ BeginVerifying(w) \/ VerificationNotRequired(w) \/ Verify(w)
  \/ VerifyDone(w) \/ DecideOutcome(w) \/ Commit(w)
  \/ CompensationUnavailable(w) \/ Compensate(w) \/ CompensationDone(w)
  \/ CompensationCaught(w) \/ RequireReconciliation(w) \/ OpenCase(w)
  \/ RecordEvent(w)

\* What goes wrong during a run.
RunFault(w) == CompensationStoreError(w) \/ Abandon(w)

-----------------------------------------------------------------------------
(***************************************************************************)
(* The engine on its own: the API has admitted the transactions without    *)
(* approval rules and anybody may call run() for any of them at any time.  *)
(***************************************************************************)
EngineInit ==
  /\ transactions \in
       [Txs -> {Admit(CreateTransaction(t, contract, key, now),
                      [allow |-> TRUE, required |-> {}]) :
                  t \in Txs, contract \in Contracts, key \in Keys,
                  now \in Instants}]
  /\ \A t \in Txs : transactions[t].id = t /\ KeyIsFree(transactions[t])
  /\ evidence = [t \in Txs |-> {}]
  /\ cases = {}
  /\ RunInit

EngineNext ==
  \E w \in Workers :
    (\E t \in Txs : Load(w, t)) \/ RunStep(w) \/ RunFault(w)

EngineSpec == EngineInit /\ [][EngineNext]_engineVars

=============================================================================
