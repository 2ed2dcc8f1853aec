---------------------------- MODULE OneRunProofs ----------------------------
(***************************************************************************)
(* Theorems of EngineSpec about the world outside, for any number of       *)
(* workers and transactions, as long as no two runs work on one            *)
(* transaction at the same time.  Nothing in src/ keeps them apart: one    *)
(* worker process does, and with two the run race_retry shows what         *)
(* becomes of UnknownNeverRetried.                                         *)
(***************************************************************************)
EXTENDS EngineProperties, EngineProofs

\* No transaction is worked on by two runs at once.
RunsApart ==
  \A v, w \in Workers :
    v # w /\ pc[v] # "idle" /\ pc[w] # "idle" => mem[v].id # mem[w].id

\* One worker process, as README.md:116-123 starts it.
OneWorker == \A v, w \in Workers : v = w

-----------------------------------------------------------------------------
(***************************************************************************)
(* The inductive invariant.  It says of every row what is true of it       *)
(* whoever reads it, and of every run what it knows of its row in          *)
(* addition, each in four parts: the copy, the calls, the evidence and the *)
(* world.                                                                  *)
(***************************************************************************)
RowOf(w) == transactions[mem[w].id]

\* Nobody but the run changes the row: the copy is stale only in the
\* observations not stored yet, and in the status the catch falls back to.
CopyHolds(w) ==
  /\ RowOf(w).contract = mem[w].contract
  /\ RowOf(w).actions = mem[w].actions
  /\ Standing(w) \notin {"verify", "catch"} =>
       RowOf(w).observations = mem[w].observations
  /\ IF Standing(w) = "catch"
     THEN RowOf(w).status \in {"COMPENSATING", "COMPENSATED",
                               "RECONCILIATION_REQUIRED"}
     ELSE RowOf(w).status = mem[w].status
  /\ ~StoreMayFail /\ Standing(w) = "catch" => RowOf(w).status = "COMPENSATING"

EveryCallFailed(t) == \A i \in 1..Len(calls[t]) : calls[t][i] = "FAILED"

\* The first n actions of the row are the answers to the first n calls.
Answered(t, n) ==
  \A i \in 1..n :
    transactions[t].actions[i].status = ActionResult[calls[t][i]]

\* The last action of the row has no answer yet.
Open(t) ==
  LET actions == transactions[t].actions
  IN actions[Len(actions)].status = "EXECUTING"

\* Every call was answered and none did anything.
Settled(t) ==
  LET made == Len(calls[t])
  IN EveryCallFailed(t) /\ Len(transactions[t].actions) = made /\ Answered(t, made)

RowCalls(t) ==
  LET made == Len(calls[t])
      recorded == Len(transactions[t].actions)
  IN /\ \A i \in 1..(made - 1) : calls[t][i] = "FAILED"
     /\ \/ recorded = made /\ Answered(t, made)
        \/ recorded = made /\ made > 0 /\ Answered(t, made - 1) /\ Open(t)
        \/ recorded = made + 1 /\ Answered(t, made) /\ Open(t)
     /\ transactions[t].status \in {"READY", "FAILED_INFRASTRUCTURE"} => Settled(t)

RunCalls(w) ==
  LET t == mem[w].id
      made == Len(calls[t])
      recorded == Len(transactions[t].actions)
  IN /\ Standing(w) = "select" => Settled(t)
     /\ Standing(w) = "call" =>
          EveryCallFailed(t) /\ recorded = made + 1 /\ Answered(t, made) /\ Open(t)
     /\ Standing(w) = "finish" =>
          /\ recorded = made /\ made > 0 /\ Answered(t, made - 1) /\ Open(t)
          /\ calls[t][made] = result[w]
     /\ Standing(w) = "decide" =>
          recorded = made /\ made > 0 /\ Answered(t, made) /\ calls[t][made] = result[w]

SomeFailed(t) ==
  \E i \in DOMAIN transactions[t].actions :
    transactions[t].actions[i].status = "FAILED"

RowEvidence(t) ==
  /\ "transaction.verified" \in evidence[t] =>
       StatusOf(t) \in {"VERIFIED", "VERIFIED_AFTER_RETRY"}
  /\ "transaction.compensated" \in evidence[t] => StatusOf(t) = "COMPENSATED"
  /\ "transaction.execution_failed" \in evidence[t] => SomeFailed(t)
  /\ "reconciliation.required" \in evidence[t] =>
       StatusOf(t) = "RECONCILIATION_REQUIRED"

\* The event a run is about to record has happened.
RunEvidence(w) ==
  LET t == mem[w].id
      announces(type) == pc[w] = "event" /\ pending[w].type = type
  IN /\ announces("transaction.verified") =>
          StatusOf(t) \in {"VERIFIED", "VERIFIED_AFTER_RETRY"}
     /\ announces("transaction.compensated") =>
          /\ pending[w].next = "idle"
          /\ StatusOf(t) = "COMPENSATED"
          /\ "transaction.compensated" \notin evidence[t]
     /\ announces("transaction.execution_failed") => SomeFailed(t)
     /\ announces("reconciliation.required") \/ announces("compensation.failed") =>
          StatusOf(t) = "RECONCILIATION_REQUIRED"
     /\ Standing(w) = "catch" => "transaction.compensated" \notin evidence[t]

Untouched(t) == \A e \in EffectIds : applied[t][e] = 0

InForce(t) == \A e \in Doc[transactions[t].contract].effects : applied[t][e] = 1

Verified(t) == Doc[transactions[t].contract].verificationRequired

RowWorld(t) ==
  /\ \A e \in EffectIds : applied[t][e] \in {0, 1}
  /\ StatusOf(t) \in {"READY", "FAILED_INFRASTRUCTURE"} =>
       transactions[t].observations = {}
  /\ StatusOf(t) \in {"READY", "FAILED_INFRASTRUCTURE", "COMPENSATED"} =>
       Untouched(t)
  /\ StatusOf(t) \in {"COMMITTING", "VERIFIED", "VERIFIED_AFTER_RETRY"} /\ Verified(t) =>
       InForce(t)

\* The confirmations of a run are true of the world.
Truthful(w) ==
  DocOf(w).verificationRequired =>
    \A o \in mem[w].observations :
      o.result = "CONFIRMED" => applied[mem[w].id][o.effectId] = 1

RunWorld(w) ==
  LET t == mem[w].id
  IN /\ Standing(w) \in {"loaded", "select", "call", "finish", "decide"} =>
          mem[w].observations = {}
     /\ Standing(w) \in {"select", "call"} => Untouched(t)
     /\ Standing(w) \in {"finish", "decide"} /\ result[w] = "FAILED" => Untouched(t)
     /\ Standing(w) \in {"verify", "outcome"} => Truthful(w)
     /\ Standing(w) = "compensated" /\ result[w] = "EXECUTED" => Untouched(t)

RowHolds(t) ==
  transactions[t] # NoRow /\ RowCalls(t) /\ RowEvidence(t) /\ RowWorld(t)

RunHolds(w) == CopyHolds(w) /\ RunCalls(w) /\ RunEvidence(w) /\ RunWorld(w)

WorldInv ==
  /\ \A t \in Txs : RowHolds(t)
  /\ \A w \in Workers : pc[w] # "idle" => RunHolds(w)

-----------------------------------------------------------------------------
(* What a step of the run w does to its transaction t.                     *)

Engaged(w, t) ==
  pc[w] # "idle" /\ t = mem[w].id /\ RowHolds(t) /\ RunHolds(w)

Keeps(w, t) == RowHolds(t)' /\ (pc'[w] # "idle" => RunHolds(w)')

\* A write that leaves identity and contract alone is what the row becomes.
LEMMA PutRow ==
  ASSUME EngineTypeOK, NEW w \in Workers, NEW t \in Txs, Engaged(w, t),
         NEW tx \in Transaction, SameIdentity(tx, mem[w]), PutTransaction(tx)
  PROVE  /\ transactions'[t] # NoRow
         /\ transactions'[t].contract = tx.contract
         /\ transactions'[t].status = tx.status
         /\ transactions'[t].actions = tx.actions
         /\ transactions'[t].observations = tx.observations
<1>1. tx.id = t /\ transactions[t] \in Transaction
      /\ transactions[t].contract = tx.contract
  BY RowOfStored DEF Engaged, RowHolds, RunHolds, CopyHolds, RowOf, SameIdentity,
     EngineTypeOK
<1>2. transactions'[t] = Upsert(transactions[t], tx)
  BY <1>1 DEF PutTransaction, EngineTypeOK, StoreTypeOK
<1>3. Upsert(transactions[t], tx) \in Transaction
  BY <1>1, NoRowAssumption DEF Upsert, Transaction
<1>4. /\ Upsert(transactions[t], tx).contract = tx.contract
      /\ Upsert(transactions[t], tx).status = tx.status
      /\ Upsert(transactions[t], tx).actions = tx.actions
      /\ Upsert(transactions[t], tx).observations = tx.observations
  BY <1>1, NoRowAssumption DEF Upsert, Transaction
<1> QED BY <1>2, <1>3, <1>4, NoRowAssumption

LEMMA TransitionShape ==
  ASSUME EngineTypeOK, NEW w \in Workers, NEW t \in Txs, Engaged(w, t),
         NEW to \in TransactionStatus, NEW type, NEW next,
         Transition(w, to, type, next)
  PROVE  /\ mem'[w].id = t
         /\ mem'[w].contract = mem[w].contract
         /\ mem'[w].status = to
         /\ mem'[w].actions = mem[w].actions
         /\ mem'[w].observations = mem[w].observations
         /\ transactions'[t] # NoRow
         /\ transactions'[t].contract = mem[w].contract
         /\ transactions'[t].status = to
         /\ transactions'[t].actions = mem[w].actions
         /\ transactions'[t].observations = mem[w].observations
         /\ pc'[w] = "event" /\ Standing(w)' = next
         /\ pending'[w].type = type /\ pending'[w].next = next
<1> DEFINE tx == [mem[w] EXCEPT !.status = to]
<1>1. mem[w] \in Transaction
  BY CopyOfRun DEF Engaged
<1>2. tx \in Transaction
  BY <1>1, StatusUpdateTyped
<1>3. /\ tx.id = mem[w].id /\ tx.contract = mem[w].contract /\ tx.key = mem[w].key
      /\ tx.status = to /\ tx.actions = mem[w].actions
      /\ tx.observations = mem[w].observations
  BY <1>1 DEF Transaction
<1>4. PutTransaction(tx) /\ mem'[w] = tx
  BY DEF Transition, SetMem, EngineTypeOK
<1>5. pc'[w] = "event" /\ pending'[w] = [type |-> type, next |-> next]
  BY DEF Transition, Emit, Goto, EngineTypeOK
<1>6. Standing(w)' = next
  BY <1>5 DEF Standing
<1> HIDE DEF tx
<1>7. SameIdentity(tx, mem[w])
  BY <1>3 DEF SameIdentity
<1> QED BY <1>2, <1>3, <1>4, <1>5, <1>6, <1>7, PutRow DEF Engaged

(***************************************************************************)
(* What must be true of a change of status for the invariant to survive    *)
(* it: the new status claims nothing the calls and the world do not bear   *)
(* out, nothing the evidence says is taken back, and the event that will   *)
(* be recorded tells the truth.                                            *)
(***************************************************************************)
Sound(w, t, to, type, next) ==
  /\ to # "READY"
  /\ to = "FAILED_INFRASTRUCTURE" =>
       Settled(t) /\ Untouched(t) /\ mem[w].observations = {}
  /\ to = "COMPENSATED" => Untouched(t)
  /\ to \in {"COMMITTING", "VERIFIED", "VERIFIED_AFTER_RETRY"} /\ Verified(t) =>
       InForce(t)
  /\ "transaction.verified" \notin evidence[t]
  /\ "transaction.compensated" \notin evidence[t]
  /\ "reconciliation.required" \in evidence[t] => to = "RECONCILIATION_REQUIRED"
  /\ type = "transaction.verified" => to \in {"VERIFIED", "VERIFIED_AFTER_RETRY"}
  /\ type = "transaction.compensated" => to = "COMPENSATED" /\ next = "idle"
  /\ type = "transaction.execution_failed" => SomeFailed(t)
  /\ type \in {"reconciliation.required", "compensation.failed"} =>
       to = "RECONCILIATION_REQUIRED"
  /\ next \in {"idle", "select", "verify", "reconcile"}
  /\ next = "select" => Settled(t) /\ Untouched(t) /\ mem[w].observations = {}
  /\ next = "verify" => mem[w].observations = {}

\* These are about the row's actions and the calls only.
LEMMA SameHistory ==
  ASSUME NEW t \in Txs, transactions'[t].actions = transactions[t].actions,
         calls'[t] = calls[t]
  PROVE  /\ Settled(t)' <=> Settled(t)
         /\ EveryCallFailed(t)' <=> EveryCallFailed(t)
         /\ SomeFailed(t)' <=> SomeFailed(t)
         /\ Open(t)' <=> Open(t)
         /\ \A n \in Int : Answered(t, n)' <=> Answered(t, n)
BY DEF Settled, EveryCallFailed, Answered, SomeFailed, Open

LEMMA SoundTransition ==
  ASSUME EngineTypeOK, NEW w \in Workers, NEW t \in Txs, Engaged(w, t),
         NEW to \in TransactionStatus, NEW type, NEW next,
         Transition(w, to, type, next), Sound(w, t, to, type, next),
         UNCHANGED <<evidence, cases, result, worldVars>>
  PROVE  Keeps(w, t)
<1>1. /\ mem'[w].id = t
      /\ mem'[w].contract = mem[w].contract
      /\ mem'[w].status = to
      /\ mem'[w].actions = mem[w].actions
      /\ mem'[w].observations = mem[w].observations
  BY TransitionShape
<1>2. /\ transactions'[t] # NoRow
      /\ transactions'[t].contract = mem[w].contract
      /\ transactions'[t].status = to
      /\ transactions'[t].actions = mem[w].actions
      /\ transactions'[t].observations = mem[w].observations
  BY TransitionShape
<1>3. /\ pc'[w] = "event" /\ Standing(w)' = next
      /\ pending'[w].type = type /\ pending'[w].next = next
  BY TransitionShape
<1>4. /\ transactions'[t].actions = transactions[t].actions
      /\ transactions'[t].contract = transactions[t].contract
  BY <1>2 DEF Engaged, RunHolds, CopyHolds, RowOf
<1>5. /\ evidence' = evidence /\ result' = result
      /\ applied' = applied /\ calls' = calls
  BY DEF worldVars
<1>6. next \in {"idle", "select", "verify", "reconcile"}
  BY DEF Sound
<1>7. CopyHolds(w)'
  BY <1>1, <1>2, <1>3, <1>6 DEF CopyHolds, RowOf
<1>8. /\ Settled(t)' <=> Settled(t)
      /\ SomeFailed(t)' <=> SomeFailed(t)
      /\ Open(t)' <=> Open(t)
      /\ \A n \in Int : Answered(t, n)' <=> Answered(t, n)
  BY <1>4, <1>5, SameHistory
<1>9. RowCalls(t)' /\ RunCalls(w)'
  <2>1. Len(calls[t]) \in Nat
    BY DEF EngineTypeOK
  <2>2. RowCalls(t)'
    BY <1>2, <1>4, <1>5, <1>8, <2>1 DEF Engaged, RowHolds, RowCalls, Sound
  <2>3. RunCalls(w)'
    BY <1>1, <1>3, <1>6, <1>8 DEF RunCalls, Sound
  <2> QED BY <2>2, <2>3
<1>10. RowEvidence(t)'
  BY <1>2, <1>5, <1>8 DEF Engaged, RowHolds, RowEvidence, StatusOf, Sound
<1>11. RunEvidence(w)'
  BY <1>1, <1>2, <1>3, <1>6, <1>8 DEF RunEvidence, StatusOf, Sound
<1>12. RowWorld(t)'
  BY <1>2, <1>4, <1>5 DEF Engaged, RowHolds, RowWorld, StatusOf, Untouched, InForce,
     Verified, Sound
<1>13. RunWorld(w)'
  BY <1>1, <1>3, <1>5, <1>6 DEF RunWorld, Truthful, Untouched, Sound
<1> QED BY <1>2, <1>7, <1>8, <1>9, <1>10, <1>11, <1>12, <1>13
        DEF Keeps, RowHolds, RunHolds

-----------------------------------------------------------------------------
(* Every change of status a run asks for is sound.                         *)

\* At these awaits the row has the status of the copy.
LEMMA RowStands ==
  ASSUME StatusInv, NEW w \in Workers, NEW t, Engaged(w, t),
         pc[w] \notin {"event", "catch"}
  PROVE  /\ Standing(w) = pc[w]
         /\ StatusOf(t) = mem[w].status
         /\ StatusOf(t) \in ExpectedStatus(pc[w])
BY DEF StatusInv, Engaged, RunHolds, CopyHolds, RowOf, StatusOf, Standing

LEMMA NothingFinal ==
  ASSUME NEW w \in Workers, NEW t, Engaged(w, t),
         StatusOf(t) \notin {"VERIFIED", "VERIFIED_AFTER_RETRY", "COMPENSATED",
                             "RECONCILIATION_REQUIRED"}
  PROVE  /\ "transaction.verified" \notin evidence[t]
         /\ "transaction.compensated" \notin evidence[t]
         /\ "reconciliation.required" \notin evidence[t]
BY DEF Engaged, RowHolds, RowEvidence

LEMMA BeginExecutingSound ==
  ASSUME EngineTypeOK, StatusInv, NEW w \in Workers, NEW t \in Txs, Engaged(w, t),
         BeginExecuting(w)
  PROVE  Keeps(w, t)
<1>1. PICK type \in {"transaction.retrying", "transaction.executing"} :
        Transition(w, "EXECUTING", type, "select")
  BY DEF BeginExecuting
<1>2. pc[w] = "loaded"
  BY DEF BeginExecuting
<1>3. StatusOf(t) \in {"READY", "FAILED_INFRASTRUCTURE"} /\ Standing(w) = "loaded"
  BY <1>2, RowStands DEF ExpectedStatus
<1>4. Settled(t) /\ Untouched(t) /\ mem[w].observations = {}
  BY <1>3 DEF Engaged, RowHolds, RowCalls, RowWorld, RunHolds, RunWorld, StatusOf
<1>5. Sound(w, t, "EXECUTING", type, "select")
  BY <1>1, <1>3, <1>4, NothingFinal DEF Sound
<1>6. UNCHANGED <<evidence, cases, result, worldVars>> /\ "EXECUTING" \in TransactionStatus
  BY DEF BeginExecuting, TransactionStatus
<1> QED BY <1>1, <1>5, <1>6, SoundTransition

LEMMA NoExecutorSound ==
  ASSUME EngineTypeOK, StatusInv, NEW w \in Workers, NEW t \in Txs, Engaged(w, t),
         NoExecutor(w)
  PROVE  Keeps(w, t)
<1>1. pc[w] = "select"
      /\ Transition(w, "FAILED_INFRASTRUCTURE", "transaction.no_executor", "idle")
  BY DEF NoExecutor
<1>2. StatusOf(t) = "EXECUTING" /\ Standing(w) = "select"
  BY <1>1, RowStands DEF ExpectedStatus
<1>3. Settled(t) /\ Untouched(t) /\ mem[w].observations = {}
  BY <1>2 DEF Engaged, RunHolds, RunCalls, RunWorld
<1>4. Sound(w, t, "FAILED_INFRASTRUCTURE", "transaction.no_executor", "idle")
  BY <1>2, <1>3, NothingFinal DEF Sound
<1>5. UNCHANGED <<evidence, cases, result, worldVars>>
      /\ "FAILED_INFRASTRUCTURE" \in TransactionStatus
  BY DEF NoExecutor, TransactionStatus
<1> QED BY <1>1, <1>4, <1>5, SoundTransition

\* The three ways on from the executor's answer.
LEMMA ExecutionFailedSound ==
  ASSUME EngineTypeOK, StatusInv, NEW w \in Workers, NEW t \in Txs, Engaged(w, t),
         ExecutionFailed(w)
  PROVE  Keeps(w, t)
<1>1. /\ pc[w] = "decide" /\ result[w] = "FAILED"
      /\ Transition(w, "FAILED_INFRASTRUCTURE", "transaction.execution_failed", "idle")
  BY DEF ExecutionFailed
<1>2. StatusOf(t) = "EXECUTING" /\ Standing(w) = "decide"
  BY <1>1, RowStands DEF ExpectedStatus
<1>3. Untouched(t) /\ mem[w].observations = {}
  BY <1>1, <1>2 DEF Engaged, RunHolds, RunWorld
<1> DEFINE made == Len(calls[t])
<1>4. /\ Len(transactions[t].actions) = made /\ made > 0 /\ made \in Nat
      /\ Answered(t, made) /\ calls[t][made] = "FAILED"
  BY <1>1, <1>2 DEF Engaged, RunHolds, RunCalls, EngineTypeOK
<1>5. \A i \in 1..(made - 1) : calls[t][i] = "FAILED"
  BY DEF Engaged, RowHolds, RowCalls
<1>6. Settled(t)
  BY <1>4, <1>5 DEF Settled, EveryCallFailed
<1>7. SomeFailed(t)
  <2>1. transactions[t] \in Transaction
    BY RowOfStored DEF EngineTypeOK, Engaged, RowHolds
  <2>2. made \in DOMAIN transactions[t].actions
    BY <1>4, <2>1 DEF Transaction
  <2>3. transactions[t].actions[made].status = "FAILED"
    BY <1>4 DEF Answered, ActionResult
  <2> QED BY <2>2, <2>3 DEF SomeFailed
<1>8. Sound(w, t, "FAILED_INFRASTRUCTURE", "transaction.execution_failed", "idle")
  BY <1>2, <1>3, <1>6, <1>7, NothingFinal DEF Sound
<1>9. UNCHANGED <<evidence, cases, result, worldVars>>
      /\ "FAILED_INFRASTRUCTURE" \in TransactionStatus
  BY DEF ExecutionFailed, TransactionStatus
<1> QED BY <1>1, <1>8, <1>9, SoundTransition

LEMMA ExecutionUnknownSound ==
  ASSUME EngineTypeOK, StatusInv, NEW w \in Workers, NEW t \in Txs, Engaged(w, t),
         ExecutionUnknown(w)
  PROVE  Keeps(w, t)
<1>1. pc[w] = "decide"
      /\ Transition(w, "UNKNOWN_EFFECT", "transaction.unknown_effect", "reconcile")
  BY DEF ExecutionUnknown
<1>2. StatusOf(t) = "EXECUTING"
  BY <1>1, RowStands DEF ExpectedStatus
<1>3. Sound(w, t, "UNKNOWN_EFFECT", "transaction.unknown_effect", "reconcile")
  BY <1>2, NothingFinal DEF Sound
<1>4. UNCHANGED <<evidence, cases, result, worldVars>>
      /\ "UNKNOWN_EFFECT" \in TransactionStatus
  BY DEF ExecutionUnknown, TransactionStatus
<1> QED BY <1>1, <1>3, <1>4, SoundTransition

LEMMA BeginVerifyingSound ==
  ASSUME EngineTypeOK, StatusInv, NEW w \in Workers, NEW t \in Txs, Engaged(w, t),
         BeginVerifying(w)
  PROVE  Keeps(w, t)
<1>1. pc[w] = "decide" /\ Transition(w, "VERIFYING", "transaction.verifying", "verify")
  BY DEF BeginVerifying
<1>2. StatusOf(t) = "EXECUTING" /\ Standing(w) = "decide"
  BY <1>1, RowStands DEF ExpectedStatus
<1>3. mem[w].observations = {}
  BY <1>2 DEF Engaged, RunHolds, RunWorld
<1>4. Sound(w, t, "VERIFYING", "transaction.verifying", "verify")
  BY <1>2, <1>3, NothingFinal DEF Sound
<1>5. UNCHANGED <<evidence, cases, result, worldVars>>
      /\ "VERIFYING" \in TransactionStatus
  BY DEF BeginVerifying, TransactionStatus
<1> QED BY <1>1, <1>4, <1>5, SoundTransition

LEMMA CommitSound ==
  ASSUME EngineTypeOK, StatusInv, NEW w \in Workers, NEW t \in Txs, Engaged(w, t),
         Commit(w)
  PROVE  Keeps(w, t)
<1>1. PICK to \in {"VERIFIED", "VERIFIED_AFTER_RETRY"} :
        Transition(w, to, "transaction.verified", "idle")
  BY DEF Commit
<1>2. StatusOf(t) = "COMMITTING"
  BY RowStands DEF Commit, ExpectedStatus
<1>3. Verified(t) => InForce(t)
  BY <1>2 DEF Engaged, RowHolds, RowWorld
<1>4. Sound(w, t, to, "transaction.verified", "idle")
  BY <1>1, <1>2, <1>3, NothingFinal DEF Sound
<1>5. UNCHANGED <<evidence, cases, result, worldVars>> /\ to \in TransactionStatus
  BY <1>1 DEF Commit, TransactionStatus
<1> QED BY <1>1, <1>4, <1>5, SoundTransition

\* The ends of compensate() and of reconcileUnknown().
LEMMA ToReconciliationSound ==
  ASSUME EngineTypeOK, StatusInv, NEW w \in Workers, NEW t \in Txs, Engaged(w, t),
         CompensationUnavailable(w) \/ CompensationCaught(w) \/ RequireReconciliation(w)
  PROVE  Keeps(w, t)
<1>1. PICK type \in {"compensation.unavailable", "compensation.exception",
                     "reconciliation.required"} :
        Transition(w, "RECONCILIATION_REQUIRED", type, "reconcile")
  BY DEF CompensationUnavailable, CompensationCaught, RequireReconciliation
<1>2. /\ "transaction.verified" \notin evidence[t]
      /\ "transaction.compensated" \notin evidence[t]
  <2>1. CASE CompensationUnavailable(w) \/ RequireReconciliation(w)
    <3>1. StatusOf(t) \in {"COMPENSATING", "UNKNOWN_EFFECT"}
      BY <2>1, RowStands DEF CompensationUnavailable, RequireReconciliation,
                             ExpectedStatus
    <3> QED BY <3>1, NothingFinal
  <2>2. CASE CompensationCaught(w)
    <3>1. Standing(w) = "catch"
      BY <2>2 DEF CompensationCaught, Standing
    <3> QED BY <3>1 DEF Engaged, RowHolds, RunHolds, RowEvidence, RunEvidence,
                        CopyHolds, RowOf, StatusOf
  <2> QED BY <2>1, <2>2
<1>3. Sound(w, t, "RECONCILIATION_REQUIRED", type, "reconcile")
  BY <1>1, <1>2 DEF Sound
<1>4. UNCHANGED <<evidence, cases, result, worldVars>>
      /\ "RECONCILIATION_REQUIRED" \in TransactionStatus
  BY DEF CompensationUnavailable, CompensationCaught, RequireReconciliation,
         TransactionStatus
<1> QED BY <1>1, <1>3, <1>4, SoundTransition

LEMMA CompensationDoneSound ==
  ASSUME EngineTypeOK, StatusInv, NEW w \in Workers, NEW t \in Txs, Engaged(w, t),
         CompensationDone(w)
  PROVE  Keeps(w, t)
<1>1. StatusOf(t) = "COMPENSATING" /\ Standing(w) = "compensated"
  BY RowStands DEF CompensationDone, ExpectedStatus
<1>2. UNCHANGED <<evidence, cases, result, worldVars>>
      /\ {"COMPENSATED", "RECONCILIATION_REQUIRED"} \subseteq TransactionStatus
  BY DEF CompensationDone, TransactionStatus
<1>3. CASE result[w] = "EXECUTED"
  <2>1. Transition(w, "COMPENSATED", "transaction.compensated", "idle")
    BY <1>3 DEF CompensationDone
  <2>2. Untouched(t)
    BY <1>1, <1>3 DEF Engaged, RunHolds, RunWorld
  <2>3. Sound(w, t, "COMPENSATED", "transaction.compensated", "idle")
    BY <1>1, <2>2, NothingFinal DEF Sound
  <2> QED BY <1>2, <2>1, <2>3, SoundTransition
<1>4. CASE result[w] # "EXECUTED"
  <2>1. Transition(w, "RECONCILIATION_REQUIRED", "compensation.failed", "reconcile")
    BY <1>4 DEF CompensationDone
  <2>2. Sound(w, t, "RECONCILIATION_REQUIRED", "compensation.failed", "reconcile")
    BY <1>1, NothingFinal DEF Sound
  <2> QED BY <1>2, <2>1, <2>2, SoundTransition
<1> QED BY <1>3, <1>4

-----------------------------------------------------------------------------
(* The steps that write the copy without a change of status.               *)

\* The row becomes the copy the run goes on with.
LEMMA RowFollows ==
  ASSUME EngineTypeOK, NEW w \in Workers, NEW t \in Txs, Engaged(w, t),
         RunStep(w) \/ RunFault(w), pc'[w] # "idle"
  PROVE  /\ mem'[w].id = t /\ mem'[w].contract = mem[w].contract
         /\ PutTransaction(mem'[w]) =>
              /\ transactions'[t] # NoRow
              /\ transactions'[t].contract = mem'[w].contract
              /\ transactions'[t].contract = transactions[t].contract
              /\ transactions'[t].status = mem'[w].status
              /\ transactions'[t].actions = mem'[w].actions
              /\ transactions'[t].observations = mem'[w].observations
<1>1. EngineTypeOK'
  BY EngineStepTyped
<1>2. mem'[w] \in Transaction /\ mem'[w] # NoRow
  BY <1>1 DEF EngineTypeOK
<1>3. PICK tx \in Transaction : RunWrites(w, tx)
  BY RunStepWrites
<1>4. mem'[w] = tx
  BY <1>2, <1>3 DEF RunWrites, SetMem, EngineTypeOK
<1>5. SameIdentity(mem'[w], mem[w])
  BY <1>3, <1>4 DEF RunWrites
<1>6. transactions[t].contract = mem[w].contract
  BY DEF Engaged, RunHolds, CopyHolds, RowOf
<1> QED BY <1>2, <1>5, <1>6, PutRow DEF SameIdentity, Engaged

LEMMA StartActionKeeps ==
  ASSUME EngineTypeOK, StatusInv, NEW w \in Workers, NEW t \in Txs, Engaged(w, t),
         StartAction(w)
  PROVE  Keeps(w, t)
<1>0. PICK made \in Nat : made = Len(calls[t])
  BY DEF EngineTypeOK
<1>1. PICK name \in Executors :
        LET tx == [mem[w] EXCEPT !.actions =
                     Append(@, [executor |-> name, status |-> "EXECUTING"])]
        IN SetMem(w, tx) /\ PutTransaction(tx)
  BY DEF StartAction
<1> DEFINE action == [executor |-> name, status |-> "EXECUTING"]
<1>2. pc[w] = "select" /\ pc'[w] = "call"
      /\ UNCHANGED <<evidence, result, applied, calls>>
  BY DEF StartAction, Goto, EngineTypeOK, worldVars
<1>3. mem[w] \in Transaction
  BY CopyOfRun DEF Engaged
<1>4. /\ mem'[w].actions = Append(mem[w].actions, action)
      /\ mem'[w].status = mem[w].status
      /\ mem'[w].observations = mem[w].observations
      /\ PutTransaction(mem'[w])
  BY <1>1, <1>3 DEF SetMem, EngineTypeOK, Transaction
<1>5. /\ mem'[w].id = t /\ mem'[w].contract = mem[w].contract
      /\ transactions'[t] # NoRow
      /\ transactions'[t].contract = mem'[w].contract
      /\ transactions'[t].contract = transactions[t].contract
      /\ transactions'[t].status = mem'[w].status
      /\ transactions'[t].actions = mem'[w].actions
      /\ transactions'[t].observations = mem'[w].observations
  BY <1>2, <1>4, RowFollows DEF RunStep
<1>6. /\ StatusOf(t) = "EXECUTING" /\ Standing(w) = "select"
      /\ mem[w].status = "EXECUTING"
  BY <1>2, RowStands DEF ExpectedStatus
<1>7. /\ Settled(t) /\ Untouched(t) /\ mem[w].observations = {}
      /\ transactions[t].actions = mem[w].actions
  BY <1>6 DEF Engaged, RunHolds, RunCalls, RunWorld, CopyHolds, RowOf
<1>8. /\ transactions'[t].actions = Append(transactions[t].actions, action)
      /\ Len(transactions[t].actions) = made /\ made \in Nat
      /\ transactions[t].actions \in Seq(TransactionAction)
  BY <1>0, <1>3, <1>4, <1>5, <1>7 DEF Settled, Transaction
<1> HIDE DEF action
<1>9. /\ Len(transactions'[t].actions) = made + 1
      /\ transactions'[t].actions[made + 1] = action
      /\ \A i \in 1..made : transactions'[t].actions[i] = transactions[t].actions[i]
  BY <1>8
<1>10. EveryCallFailed(t)' /\ Answered(t, made)' /\ Open(t)'
  BY <1>0, <1>2, <1>7, <1>9 DEF Settled, EveryCallFailed, Answered, Open, action
<1>11. RowCalls(t)'
  BY <1>0, <1>2, <1>4, <1>5, <1>6, <1>9, <1>10 DEF Engaged, RowHolds, RowCalls
<1>12. Standing(w)' = "call"
  BY <1>2 DEF Standing
<1>13. RunCalls(w)'
  BY <1>0, <1>2, <1>5, <1>9, <1>10, <1>12 DEF RunCalls
<1>14. RowEvidence(t)'
  <2>1. SomeFailed(t) => SomeFailed(t)'
    BY <1>8, <1>9 DEF SomeFailed
  <2> QED BY <1>2, <1>4, <1>5, <1>6, <2>1
          DEF Engaged, RowHolds, RowEvidence, StatusOf
<1>15. RowWorld(t)'
  BY <1>2, <1>4, <1>5, <1>6 DEF Engaged, RowHolds, RowWorld, StatusOf
<1>16. CopyHolds(w)' /\ RunEvidence(w)'
  BY <1>2, <1>5, <1>12 DEF CopyHolds, RowOf, RunEvidence
<1>17. RunWorld(w)'
  BY <1>2, <1>4, <1>5, <1>7, <1>12 DEF RunWorld, Untouched
<1> QED BY <1>5, <1>11, <1>13, <1>14, <1>15, <1>16, <1>17 DEF Keeps, RowHolds, RunHolds

LEMMA FinishActionKeeps ==
  ASSUME EngineTypeOK, StatusInv, NEW w \in Workers, NEW t \in Txs, Engaged(w, t),
         FinishAction(w)
  PROVE  Keeps(w, t)
<1>0. PICK made \in Nat : made = Len(calls[t])
  BY DEF EngineTypeOK
<1> DEFINE answer == ActionResult[result[w]]
<1>1. /\ pc[w] = "finish" /\ pc'[w] = "event"
      /\ pending'[w] = [type |-> "action.finished", next |-> "decide"]
      /\ UNCHANGED <<evidence, result, applied, calls>>
  BY DEF FinishAction, Emit, Goto, EngineTypeOK, worldVars
<1>2. mem[w] \in Transaction
  BY CopyOfRun DEF Engaged
<1>3. /\ StatusOf(t) = "EXECUTING" /\ Standing(w) = "finish"
      /\ mem[w].status = "EXECUTING"
  BY <1>1, RowStands DEF ExpectedStatus
<1>4. /\ transactions[t].actions = mem[w].actions
      /\ Len(mem[w].actions) = made /\ made > 0
      /\ Answered(t, made - 1) /\ Open(t) /\ calls[t][made] = result[w]
      /\ mem[w].observations = {}
      /\ result[w] = "FAILED" => Untouched(t)
  BY <1>0, <1>3 DEF Engaged, RunHolds, RunCalls, RunWorld, CopyHolds, RowOf
<1>5. /\ mem'[w].actions = [mem[w].actions EXCEPT ![made].status = answer]
      /\ mem'[w].status = mem[w].status
      /\ mem'[w].observations = mem[w].observations
      /\ PutTransaction(mem'[w])
  BY <1>2, <1>4 DEF FinishAction, SetMem, EngineTypeOK, Transaction
<1>6. /\ mem'[w].id = t /\ mem'[w].contract = mem[w].contract
      /\ transactions'[t] # NoRow
      /\ transactions'[t].contract = mem'[w].contract
      /\ transactions'[t].contract = transactions[t].contract
      /\ transactions'[t].status = mem'[w].status
      /\ transactions'[t].actions = mem'[w].actions
      /\ transactions'[t].observations = mem'[w].observations
  BY <1>1, <1>5, RowFollows DEF RunStep
<1>7. /\ Len(transactions'[t].actions) = made
      /\ DOMAIN transactions'[t].actions = DOMAIN transactions[t].actions
      /\ transactions'[t].actions[made].status = answer
      /\ \A i \in 1..(made - 1) : transactions'[t].actions[i] = transactions[t].actions[i]
  <2>1. mem[w].actions \in Seq(TransactionAction)
    BY <1>2 DEF Transaction
  <2>2. /\ DOMAIN mem[w].actions = 1..made
        /\ \A i \in 1..made : mem[w].actions[i] \in TransactionAction
    BY <1>4, <2>1
  <2>3. mem'[w].actions \in Seq(TransactionAction)
    <3>1. EngineTypeOK'
      BY EngineStepTyped DEF RunStep
    <3> QED BY <1>1, <3>1 DEF EngineTypeOK, Transaction
  <2>4. DOMAIN mem'[w].actions = 1..made
    BY <1>5, <2>2
  <2>5. Len(mem'[w].actions) = made
    BY <1>4, <2>3, <2>4
  <2>6. mem'[w].actions[made].status = answer
    BY <1>4, <1>5, <2>2 DEF TransactionAction
  <2> QED BY <1>4, <1>5, <1>6, <2>2, <2>4, <2>5, <2>6
<1>8. Answered(t, made)'
  BY <1>1, <1>4, <1>7 DEF Answered
<1>9. RowCalls(t)'
  BY <1>0, <1>1, <1>3, <1>4, <1>5, <1>6, <1>7, <1>8 DEF Engaged, RowHolds, RowCalls
<1>10. Standing(w)' = "decide"
  BY <1>1 DEF Standing
<1>11. RunCalls(w)'
  BY <1>0, <1>1, <1>4, <1>6, <1>7, <1>8, <1>10 DEF RunCalls
<1>12. RowEvidence(t)'
  <2>1. SomeFailed(t) => SomeFailed(t)'
    <3>1. SUFFICES ASSUME NEW i \in DOMAIN transactions[t].actions,
                          transactions[t].actions[i].status = "FAILED"
                   PROVE  SomeFailed(t)'
      BY DEF SomeFailed
    <3>2. i \in 1..made /\ i # made
      BY <1>2, <1>4, <3>1 DEF Open, Transaction
    <3>3. transactions'[t].actions[i].status = "FAILED"
      BY <1>4, <1>7, <3>1, <3>2
    <3> QED BY <1>7, <3>1, <3>3 DEF SomeFailed
  <2> QED BY <1>1, <1>3, <1>5, <1>6, <2>1
          DEF Engaged, RowHolds, RowEvidence, StatusOf
<1>13. RowWorld(t)'
  BY <1>1, <1>3, <1>5, <1>6 DEF Engaged, RowHolds, RowWorld, StatusOf
<1>14. CopyHolds(w)' /\ RunEvidence(w)'
  BY <1>1, <1>6, <1>10 DEF CopyHolds, RowOf, RunEvidence
<1>15. RunWorld(w)'
  BY <1>1, <1>4, <1>5, <1>6, <1>10 DEF RunWorld, Untouched
<1> QED BY <1>6, <1>9, <1>11, <1>12, <1>13, <1>14, <1>15 DEF Keeps, RowHolds, RunHolds

\* A row whose status, actions and contract stay says what it said.
LEMMA RowKept ==
  ASSUME EngineTypeOK, NEW t \in Txs, RowHolds(t), transactions'[t] # NoRow,
         transactions'[t].contract = transactions[t].contract,
         transactions'[t].status = transactions[t].status,
         transactions'[t].actions = transactions[t].actions,
         StatusOf(t) \in {"READY", "FAILED_INFRASTRUCTURE"} =>
           transactions'[t].observations = transactions[t].observations,
         evidence'[t] = evidence[t], calls'[t] = calls[t], applied'[t] = applied[t]
  PROVE  RowHolds(t)'
<1>1. /\ Settled(t)' <=> Settled(t)
      /\ SomeFailed(t)' <=> SomeFailed(t)
      /\ Open(t)' <=> Open(t)
      /\ \A n \in Int : Answered(t, n)' <=> Answered(t, n)
  BY SameHistory
<1>2. Len(calls[t]) \in Nat
  BY DEF EngineTypeOK
<1>3. RowCalls(t)'
  BY <1>1, <1>2 DEF RowHolds, RowCalls
<1>4. RowEvidence(t)'
  BY <1>1 DEF RowHolds, RowEvidence, StatusOf
<1>5. RowWorld(t)'
  BY DEF RowHolds, RowWorld, StatusOf, Untouched, InForce, Verified
<1> QED BY <1>3, <1>4, <1>5 DEF RowHolds

\* verifyAll() ends: what was observed is stored.
LEMMA VerifiedKeeps ==
  ASSUME EngineTypeOK, StatusInv, NEW w \in Workers, NEW t \in Txs, Engaged(w, t),
         VerificationNotRequired(w) \/ VerifyDone(w)
  PROVE  Keeps(w, t)
<1>1. /\ pc[w] = "verify" /\ pc'[w] = "outcome"
      /\ UNCHANGED <<evidence, result, applied, calls>>
  BY DEF VerificationNotRequired, VerifyDone, Goto, EngineTypeOK, worldVars
<1>2. mem[w] \in Transaction
  BY CopyOfRun DEF Engaged
<1>3. /\ mem'[w].actions = mem[w].actions /\ mem'[w].status = mem[w].status
      /\ PutTransaction(mem'[w])
      /\ DocOf(w).verificationRequired => mem'[w].observations = mem[w].observations
  <2>1. CASE VerificationNotRequired(w)
    BY <1>2, <2>1 DEF VerificationNotRequired, SetMem, EngineTypeOK, Transaction
  <2>2. CASE VerifyDone(w)
    BY <2>2 DEF VerifyDone
  <2> QED BY <2>1, <2>2
<1>4. /\ mem'[w].id = t /\ mem'[w].contract = mem[w].contract
      /\ transactions'[t] # NoRow
      /\ transactions'[t].contract = mem'[w].contract
      /\ transactions'[t].contract = transactions[t].contract
      /\ transactions'[t].status = mem'[w].status
      /\ transactions'[t].actions = mem'[w].actions
      /\ transactions'[t].observations = mem'[w].observations
  BY <1>1, <1>3, RowFollows DEF RunStep
<1>5. /\ StatusOf(t) = "VERIFYING" /\ Standing(w) = "verify"
      /\ mem[w].status = "VERIFYING"
  BY <1>1, RowStands DEF ExpectedStatus
<1>6. transactions[t].actions = mem[w].actions /\ Truthful(w)
  BY <1>5 DEF Engaged, RunHolds, CopyHolds, RowOf, RunWorld
<1>7. RowHolds(t)'
  BY <1>1, <1>3, <1>4, <1>5, <1>6, RowKept DEF Engaged, StatusOf
<1>8. Standing(w)' = "outcome"
  BY <1>1 DEF Standing
<1>9. CopyHolds(w)' /\ RunEvidence(w)' /\ RunCalls(w)'
  BY <1>1, <1>3, <1>4, <1>5, <1>8 DEF CopyHolds, RowOf, RunEvidence, RunCalls
<1>10. RunWorld(w)'
  <2>1. Truthful(w)'
    BY <1>1, <1>3, <1>4, <1>6 DEF Truthful, DocOf, Engaged
  <2> QED BY <1>8, <2>1 DEF RunWorld
<1> QED BY <1>7, <1>9, <1>10 DEF Keeps, RunHolds

LEMMA DecideOutcomeKeeps ==
  ASSUME EngineTypeOK, StatusInv, NEW w \in Workers, NEW t \in Txs, Engaged(w, t),
         DecideOutcome(w)
  PROVE  Keeps(w, t)
<1> DEFINE tx == DecideVerificationOutcome(mem[w], DocOf(w))
           summary == SummarizeVerification(DocOf(w), mem[w].observations)
<1>1. /\ pc[w] = "outcome" /\ pc'[w] = "event"
      /\ pending'[w].type = "transaction.verification_decided"
      /\ pending'[w].next \in {"commit", "compensate", "reconcile"}
      /\ UNCHANGED <<evidence, result, applied, calls>>
  BY DEF DecideOutcome, Emit, Goto, EngineTypeOK, worldVars
<1>2. mem[w] \in Transaction
  BY CopyOfRun DEF Engaged
<1>3. /\ tx.actions = mem[w].actions /\ tx.observations = mem[w].observations
      /\ tx.status \in {"COMMITTING", "COMPENSATING", "RECONCILIATION_REQUIRED",
                        "UNKNOWN_EFFECT"}
      /\ tx.status = "COMMITTING" => summary.confirmed
  BY <1>2 DEF DecideVerificationOutcome, Transaction
<1>4. mem'[w] = tx /\ PutTransaction(mem'[w])
  BY DEF DecideOutcome, SetMem, EngineTypeOK
<1> HIDE DEF tx
<1>5. /\ mem'[w].id = t /\ mem'[w].contract = mem[w].contract
      /\ transactions'[t] # NoRow
      /\ transactions'[t].contract = mem'[w].contract
      /\ transactions'[t].contract = transactions[t].contract
      /\ transactions'[t].status = mem'[w].status
      /\ transactions'[t].actions = mem'[w].actions
      /\ transactions'[t].observations = mem'[w].observations
  BY <1>1, <1>4, RowFollows DEF RunStep
<1>6. /\ StatusOf(t) = "VERIFYING" /\ Standing(w) = "outcome"
  BY <1>1, RowStands DEF ExpectedStatus
<1>7. transactions'[t].actions = transactions[t].actions /\ Truthful(w)
      /\ transactions[t].contract = mem[w].contract
  BY <1>3, <1>4, <1>5, <1>6 DEF Engaged, RunHolds, CopyHolds, RowOf, RunWorld
<1>8. tx.status = "COMMITTING" /\ Verified(t) => InForce(t)
  <2>1. SUFFICES ASSUME summary.confirmed, Verified(t)
                 PROVE  InForce(t)
    BY <1>3
  <2>2. ASSUME NEW e \in DocOf(w).effects
        PROVE  applied[t][e] = 1
    <3>1. ConfirmedBy(mem[w].observations, e) # {}
      BY <2>1, <2>2 DEF SummarizeVerification
    <3>2. PICK o \in mem[w].observations : o.effectId = e /\ o.result = "CONFIRMED"
      BY <3>1 DEF ConfirmedBy, Matches
    <3> QED BY <1>7, <2>1, <3>2 DEF Truthful, DocOf, Verified, Engaged
  <2> QED BY <1>7, <2>2 DEF InForce, DocOf
<1>9. /\ Settled(t)' <=> Settled(t)
      /\ SomeFailed(t)' <=> SomeFailed(t)
      /\ Open(t)' <=> Open(t)
      /\ \A n \in Int : Answered(t, n)' <=> Answered(t, n)
  BY <1>1, <1>7, SameHistory
<1>10. RowCalls(t)'
  <2>1. Len(calls[t]) \in Nat
    BY DEF EngineTypeOK
  <2> QED BY <1>1, <1>3, <1>4, <1>5, <1>7, <1>9, <2>1 DEF Engaged, RowHolds, RowCalls
<1>11. RowEvidence(t)'
  BY <1>1, <1>6, <1>9, NothingFinal DEF Engaged, RowHolds, RowEvidence
<1>12. RowWorld(t)'
  BY <1>1, <1>3, <1>4, <1>5, <1>8
     DEF Engaged, RowHolds, RowWorld, StatusOf, InForce, Verified
<1>13. Standing(w)' \in {"commit", "compensate", "reconcile"}
  BY <1>1 DEF Standing
<1>14. CopyHolds(w)' /\ RunEvidence(w)' /\ RunCalls(w)' /\ RunWorld(w)'
  BY <1>1, <1>5, <1>13 DEF CopyHolds, RowOf, RunEvidence, RunCalls, RunWorld
<1> QED BY <1>5, <1>10, <1>11, <1>12, <1>14 DEF Keeps, RowHolds, RunHolds

-----------------------------------------------------------------------------
(* The steps that leave the row alone.                                     *)

LEMMA ExecuteKeeps ==
  ASSUME EngineTypeOK, StatusInv, NEW w \in Workers, NEW t \in Txs, Engaged(w, t),
         Execute(w)
  PROVE  Keeps(w, t)
<1>0. PICK made \in Nat : made = Len(calls[t])
  BY DEF EngineTypeOK
<1>1. PICK o \in Outcomes, done \in SUBSET DocOf(w).effects :
        /\ ~o.touches => done = {}
        /\ applied' = [applied EXCEPT ![mem[w].id] =
                         [e \in EffectIds |->
                            IF e \in done THEN @[e] + 1 ELSE @[e]]]
        /\ calls' = [calls EXCEPT ![mem[w].id] = Append(@, o.status)]
        /\ result' = [result EXCEPT ![w] = o.status]
  BY DEF Execute
<1>2. /\ pc[w] = "call" /\ pc'[w] = "finish"
      /\ UNCHANGED <<transactions, evidence, mem>>
  BY DEF Execute, Goto, EngineTypeOK, storeVars
<1>3. StatusOf(t) = "EXECUTING" /\ Standing(w) = "call"
  BY <1>2, RowStands DEF ExpectedStatus
<1>4. /\ EveryCallFailed(t) /\ Answered(t, made) /\ Open(t)
      /\ Len(transactions[t].actions) = made + 1
      /\ Untouched(t) /\ mem[w].observations = {}
  BY <1>0, <1>3 DEF Engaged, RunHolds, RunCalls, RunWorld
<1>5. /\ Len(calls'[t]) = made + 1 /\ calls'[t][made + 1] = o.status
      /\ \A i \in 1..made : calls'[t][i] = calls[t][i]
  BY <1>0, <1>1 DEF EngineTypeOK, Engaged
<1>6. /\ \A i \in 1..made : calls'[t][i] = "FAILED"
      /\ Answered(t, made)' /\ Open(t)'
  BY <1>0, <1>2, <1>4, <1>5 DEF EveryCallFailed, Answered, Open
<1>7. RowCalls(t)'
  BY <1>2, <1>3, <1>4, <1>5, <1>6 DEF RowCalls, StatusOf
<1>8. Standing(w)' = "finish" /\ mem'[w].id = t /\ result'[w] = o.status
  BY <1>1, <1>2 DEF Standing, Engaged, EngineTypeOK
<1>9. RunCalls(w)'
  BY <1>2, <1>4, <1>5, <1>6, <1>8 DEF RunCalls
<1>10. \A e \in EffectIds : applied'[t][e] = IF e \in done THEN 1 ELSE 0
  BY <1>1, <1>4 DEF EngineTypeOK, Untouched, Engaged
<1>11. RowWorld(t)'
  BY <1>2, <1>3, <1>10 DEF RowWorld, StatusOf, Verified
<1>12. RunWorld(w)'
  <2>1. o.status = "FAILED" => Untouched(t)'
    BY <1>1, <1>10, HonestAdapters DEF Untouched
  <2> QED BY <1>2, <1>4, <1>8, <2>1 DEF RunWorld
<1>13. RowEvidence(t)' /\ RunEvidence(w)' /\ CopyHolds(w)'
  BY <1>2, <1>3, <1>8 DEF Engaged, RowHolds, RunHolds, RowEvidence, RunEvidence,
     CopyHolds, RowOf, StatusOf, SomeFailed
<1> QED BY <1>2, <1>7, <1>9, <1>11, <1>12, <1>13
        DEF Engaged, Keeps, RowHolds, RunHolds

LEMMA VerifyKeeps ==
  ASSUME EngineTypeOK, StatusInv, NEW w \in Workers, NEW t \in Txs, Engaged(w, t),
         Verify(w)
  PROVE  Keeps(w, t)
<1>1. /\ pc[w] = "verify" /\ DocOf(w).verificationRequired
      /\ UNCHANGED <<transactions, evidence, result, applied, calls>>
  BY DEF Verify, storeVars, worldVars
<1>0. PICK check \in todo[w] :
        \E o \in Observations(mem[w].id, check) : SetMem(w, AddObservation(mem[w], o))
  BY DEF Verify
<1>2. PICK o \in Observations(mem[w].id, check) : SetMem(w, AddObservation(mem[w], o))
  BY <1>0
<1>3. mem[w] \in Transaction
  BY CopyOfRun DEF Engaged, Verify
<1>4. /\ mem'[w].id = t /\ mem'[w].contract = mem[w].contract
      /\ mem'[w].status = mem[w].status /\ mem'[w].actions = mem[w].actions
      /\ mem'[w].observations = mem[w].observations \cup {o}
  BY <1>2, <1>3 DEF SetMem, AddObservation, EngineTypeOK, Transaction, Engaged
<1>5. StatusOf(t) = "VERIFYING" /\ Standing(w) = "verify" /\ mem[w].status = "VERIFYING"
  BY <1>1, RowStands DEF ExpectedStatus
<1>6. Standing(w)' = "verify" /\ (pc'[w] = "event" => pending'[w].type = "effect.observed")
  BY <1>1 DEF Verify, Emit, Goto, Standing, EngineTypeOK
<1>7. o.result = "CONFIRMED" => applied[t][o.effectId] = 1
  <2>1. SUFFICES ASSUME o.result = "CONFIRMED" PROVE applied[t][o.effectId] = 1
    OBVIOUS
  <2>2. check \in Check
    BY DEF EngineTypeOK
  <2>3. o.effectId = check.effectId /\ applied[t][check.effectId] > 0
    BY <1>2, <2>1 DEF Observations, Engaged
  <2>4. check.effectId \in EffectIds
    BY <2>2 DEF Check
  <2> QED BY <2>3, <2>4 DEF Engaged, RowHolds, RowWorld
<1>8. Truthful(w)'
  BY <1>1, <1>4, <1>5, <1>7 DEF Engaged, RunHolds, RunWorld, Truthful, DocOf
<1>9. RowHolds(t)'
  BY <1>1, RowKept DEF Engaged, RowHolds
<1>10. CopyHolds(w)' /\ RunCalls(w)' /\ RunEvidence(w)' /\ RunWorld(w)'
  BY <1>1, <1>4, <1>5, <1>6, <1>8
     DEF Engaged, RunHolds, CopyHolds, RowOf, RunCalls, RunEvidence, RunWorld
<1> QED BY <1>9, <1>10 DEF Keeps, RunHolds

LEMMA CompensateKeeps ==
  ASSUME EngineTypeOK, StatusInv, NEW w \in Workers, NEW t \in Txs, Engaged(w, t),
         Compensate(w)
  PROVE  Keeps(w, t)
<1>1. PICK status \in ExecutionStatus \cup {"THROWN"}, undone \in SUBSET EffectIds :
        /\ status = "EXECUTED" => undone = EffectIds
        /\ applied' = [applied EXCEPT ![t] =
                         [e \in EffectIds |-> IF e \in undone THEN 0 ELSE @[e]]]
        /\ IF status = "THROWN"
           THEN Goto(w, "catch") /\ UNCHANGED result
           ELSE /\ Goto(w, "compensated")
                /\ result' = [result EXCEPT ![w] = status]
  BY DEF Compensate, Engaged
<1>2. pc[w] = "compensate" /\ UNCHANGED <<transactions, evidence, mem, calls>>
  BY DEF Compensate, storeVars
<1>3. StatusOf(t) = "COMPENSATING" /\ Standing(w) = "compensate"
      /\ mem[w].status = "COMPENSATING"
  BY <1>2, RowStands DEF ExpectedStatus
<1>4. /\ pc'[w] \in {"catch", "compensated"} /\ Standing(w)' = pc'[w]
      /\ pc'[w] = "compensated" => result'[w] = status
  BY <1>1 DEF Goto, Standing, EngineTypeOK
<1>5. \A e \in EffectIds :
        applied'[t][e] = IF e \in undone THEN 0 ELSE applied[t][e]
  BY <1>1 DEF EngineTypeOK
<1>6. RowWorld(t)'
  BY <1>2, <1>3, <1>5 DEF Engaged, RowHolds, RowWorld, StatusOf, Verified
<1>7. RunWorld(w)'
  <2>1. pc'[w] = "compensated" /\ result'[w] = "EXECUTED" => Untouched(t)'
    BY <1>1, <1>4, <1>5 DEF Untouched
  <2> QED BY <1>2, <1>4, <2>1 DEF RunWorld, Engaged
<1>8. RowCalls(t)' /\ RowEvidence(t)'
  BY <1>2 DEF Engaged, RowHolds, RowCalls, RowEvidence, StatusOf, SomeFailed, Settled,
     EveryCallFailed, Answered, Open
<1>9. CopyHolds(w)' /\ RunCalls(w)' /\ RunEvidence(w)'
  BY <1>2, <1>3, <1>4, NothingFinal
     DEF Engaged, RunHolds, CopyHolds, RowOf, RunCalls, RunEvidence, StatusOf
<1> QED BY <1>2, <1>6, <1>7, <1>8, <1>9 DEF Engaged, Keeps, RowHolds, RunHolds

LEMMA EndKeeps ==
  ASSUME EngineTypeOK, NEW w \in Workers, NEW t \in Txs, Engaged(w, t),
         OpenCase(w) \/ Abandon(w)
  PROVE  Keeps(w, t)
<1>1. UNCHANGED <<transactions, evidence, applied, calls>> /\ pc'[w] = "idle"
  BY DEF OpenCase, Abandon, EndRun, Goto, EngineTypeOK, storeVars, worldVars
<1> QED BY <1>1, RowKept DEF Engaged, Keeps, RowHolds

LEMMA RecordEventKeeps ==
  ASSUME EngineTypeOK, NEW w \in Workers, NEW t \in Txs, Engaged(w, t), RecordEvent(w)
  PROVE  Keeps(w, t)
<1>1. /\ pc[w] = "event" /\ UNCHANGED <<transactions, applied, calls>>
      /\ evidence'[t] = evidence[t] \cup {pending[w].type}
  BY DEF RecordEvent, AppendEvidence, EngineTypeOK, StoreTypeOK, worldVars, Engaged
<1>2. RowEvidence(t)'
  BY <1>1 DEF Engaged, RowHolds, RunHolds, RowEvidence, RunEvidence, StatusOf, SomeFailed
<1>3. RowCalls(t)' /\ RowWorld(t)'
  BY <1>1 DEF Engaged, RowHolds, RowCalls, RowWorld, StatusOf, Settled, EveryCallFailed,
     Answered, Open, Untouched, InForce, Verified
<1>4. ASSUME pc'[w] # "idle" PROVE RunHolds(w)'
  <2>1. /\ pc'[w] = pending[w].next /\ pending[w].next # "idle"
        /\ UNCHANGED <<mem, result>>
    BY <1>4 DEF RecordEvent, EndRun, Goto, EngineTypeOK
  <2>2. pc'[w] # "event" /\ Standing(w)' = Standing(w)
    BY <1>1, <2>1 DEF Standing, EngineTypeOK, PendingEvent
  <2>3. CopyHolds(w)' /\ RunCalls(w)'
    BY <1>1, <2>1, <2>2 DEF Engaged, RunHolds, CopyHolds, RowOf, RunCalls, Settled,
       EveryCallFailed, Answered, Open
  <2>4. RunWorld(w)'
    BY <1>1, <2>1, <2>2 DEF Engaged, RunHolds, RunWorld, Truthful, DocOf, Untouched
  <2>5. RunEvidence(w)'
    BY <1>1, <2>1, <2>2 DEF Engaged, RunHolds, RunEvidence
  <2> QED BY <2>3, <2>4, <2>5 DEF RunHolds
<1> QED BY <1>1, <1>2, <1>3, <1>4 DEF Engaged, Keeps, RowHolds

LEMMA CompensationStoreErrorKeeps ==
  ASSUME EngineTypeOK, StatusInv, NEW w \in Workers, NEW t \in Txs, Engaged(w, t),
         CompensationStoreError(w)
  PROVE  Keeps(w, t)
<1>1. /\ StoreMayFail /\ pc'[w] = "catch" /\ Standing(w)' = "catch"
      /\ UNCHANGED <<transactions, evidence, result, applied, calls>>
  BY DEF CompensationStoreError, Goto, Standing, EngineTypeOK, storeVars, worldVars
<1>2. mem[w] \in Transaction
  BY CopyOfRun DEF Engaged
<1>3. /\ mem'[w].id = t /\ mem'[w].contract = mem[w].contract
      /\ mem'[w].actions = mem[w].actions
  BY <1>2 DEF CompensationStoreError, SetMem, EngineTypeOK, Transaction, Engaged
<1>4. /\ StatusOf(t) \in {"COMPENSATING", "COMPENSATED", "RECONCILIATION_REQUIRED"}
      /\ "transaction.compensated" \notin evidence[t]
  <2>1. CASE pc[w] = "compensated"
    <3>1. StatusOf(t) = "COMPENSATING"
      BY <2>1, RowStands DEF ExpectedStatus
    <3> QED BY <3>1, NothingFinal
  <2>2. CASE pc[w] = "event" /\ pending[w].type = "transaction.compensated"
    BY <2>2 DEF Engaged, RunHolds, RunEvidence
  <2>3. CASE pc[w] = "event" /\ pending[w].type = "compensation.failed"
    BY <2>3 DEF Engaged, RowHolds, RunHolds, RowEvidence, RunEvidence
  <2> QED BY <2>1, <2>2, <2>3 DEF CompensationStoreError
<1>5. RowHolds(t)'
  BY <1>1, RowKept DEF Engaged, RowHolds
<1>6. CopyHolds(w)' /\ RunCalls(w)' /\ RunEvidence(w)' /\ RunWorld(w)'
  BY <1>1, <1>3, <1>4 DEF Engaged, RunHolds, CopyHolds, RowOf, RunCalls, RunEvidence,
     RunWorld, StatusOf
<1> QED BY <1>5, <1>6 DEF Keeps, RunHolds

-----------------------------------------------------------------------------
(* The invariant holds of every behaviour whose runs are apart.            *)

LEMMA StepKeeps ==
  ASSUME EngineTypeOK, StatusInv, NEW w \in Workers, NEW t \in Txs, Engaged(w, t),
         RunStep(w) \/ RunFault(w)
  PROVE  Keeps(w, t)
BY BeginExecutingSound, NoExecutorSound, StartActionKeeps, ExecuteKeeps,
   FinishActionKeeps, ExecutionUnknownSound, ExecutionFailedSound,
   BeginVerifyingSound, VerifiedKeeps, VerifyKeeps, DecideOutcomeKeeps, CommitSound,
   ToReconciliationSound, CompensateKeeps, CompensationDoneSound, EndKeeps,
   RecordEventKeeps, CompensationStoreErrorKeeps DEF RunStep, RunFault

\* A run touches its own transaction only.
LEMMA StepElsewhere ==
  ASSUME EngineTypeOK, NEW w \in Workers, RunStep(w) \/ RunFault(w),
         NEW u \in Txs, u # mem[w].id
  PROVE  /\ transactions'[u] = transactions[u] /\ evidence'[u] = evidence[u]
         /\ calls'[u] = calls[u] /\ applied'[u] = applied[u]
<1>1. transactions'[u] = transactions[u]
  BY RunStepWrites DEF RunWrites, SameIdentity, PutTransaction, EngineTypeOK, StoreTypeOK
<1>2. CASE UNCHANGED <<evidence, calls, applied>>
  BY <1>1, <1>2
<1>3. CASE Execute(w)
  BY <1>1, <1>3 DEF Execute, EngineTypeOK, storeVars
<1>4. CASE Compensate(w)
  BY <1>1, <1>4 DEF Compensate, EngineTypeOK, storeVars
<1>5. CASE RecordEvent(w)
  BY <1>1, <1>5 DEF RecordEvent, AppendEvidence, EngineTypeOK, StoreTypeOK, worldVars
<1> QED BY <1>2, <1>3, <1>4, <1>5
        DEF RunStep, RunFault, BeginExecuting, NoExecutor, StartAction,
            FinishAction, ExecutionUnknown, ExecutionFailed, BeginVerifying,
            VerificationNotRequired, Verify, VerifyDone, DecideOutcome, Commit,
            CompensationUnavailable, CompensationDone, CompensationCaught,
            RequireReconciliation, OpenCase, CompensationStoreError, Abandon,
            storeVars, worldVars

\* What a run knows depends on its own transaction and its own variables.
LEMMA RunKept ==
  ASSUME NEW v \in Workers, RunHolds(v),
         pc'[v] = pc[v], mem'[v] = mem[v], pending'[v] = pending[v],
         result'[v] = result[v],
         transactions'[mem[v].id] = transactions[mem[v].id],
         evidence'[mem[v].id] = evidence[mem[v].id],
         calls'[mem[v].id] = calls[mem[v].id],
         applied'[mem[v].id] = applied[mem[v].id]
  PROVE  RunHolds(v)'
<1>1. Standing(v)' = Standing(v)
  BY DEF Standing
<1>2. CopyHolds(v)'
  BY <1>1 DEF RunHolds, CopyHolds, RowOf
<1>3. RunCalls(v)'
  BY <1>1 DEF RunHolds, RunCalls, Settled, EveryCallFailed, Answered, Open
<1>4. RunEvidence(v)'
  BY <1>1 DEF RunHolds, RunEvidence, StatusOf, SomeFailed
<1>5. RunWorld(v)'
  BY <1>1 DEF RunHolds, RunWorld, Truthful, DocOf, Untouched
<1> QED BY <1>2, <1>3, <1>4, <1>5 DEF RunHolds

LEMMA RunKeepsWorld ==
  ASSUME EngineTypeOK, StatusInv, RunsApart, WorldInv, NEW w \in Workers,
         RunStep(w) \/ RunFault(w)
  PROVE  WorldInv'
<1>1. pc[w] # "idle" /\ mem[w].id \in Txs
  BY RunStepWrites, CopyOfRun
<1>2. PICK t \in Txs : t = mem[w].id
  BY <1>1
<1>3. Keeps(w, t)
  BY <1>1, <1>2, StepKeeps DEF WorldInv, Engaged
<1>4. ASSUME NEW u \in Txs PROVE RowHolds(u)'
  <2>1. CASE u = t
    BY <1>3, <2>1 DEF Keeps
  <2>2. CASE u # t
    BY <1>2, <2>2, StepElsewhere, RowKept DEF WorldInv, RowHolds
  <2> QED BY <2>1, <2>2
<1>5. ASSUME NEW v \in Workers, pc'[v] # "idle" PROVE RunHolds(v)'
  <2>1. CASE v = w
    BY <1>3, <1>5, <2>1 DEF Keeps
  <2>2. CASE v # w
    <3>1. /\ pc'[v] = pc[v] /\ mem'[v] = mem[v] /\ pending'[v] = pending[v]
          /\ result'[v] = result[v]
      BY <2>2, OthersKeep
    <3>2. mem[v].id \in Txs /\ mem[v].id # mem[w].id /\ RunHolds(v)
      BY <1>1, <1>5, <2>2, <3>1, CopyOfRun DEF RunsApart, WorldInv
    <3> QED BY <3>1, <3>2, StepElsewhere, RunKept
  <2> QED BY <2>1, <2>2
<1> QED BY <1>4, <1>5 DEF WorldInv

LEMMA LoadKeepsWorld ==
  ASSUME EngineTypeOK, WorldInv, NEW w \in Workers, NEW t \in Txs, Load(w, t)
  PROVE  WorldInv'
<1>1. UNCHANGED <<transactions, evidence, calls, applied, pending, result>>
  BY DEF Load, storeVars, worldVars
<1>2. ASSUME NEW u \in Txs PROVE RowHolds(u)'
  BY <1>1, RowKept DEF WorldInv, RowHolds
<1>3. /\ mem'[w] = transactions[t] /\ mem'[w].id = t
      /\ pc'[w] \in {"loaded", "reconcile"} /\ Standing(w)' = pc'[w]
      /\ pc'[w] = "loaded" => StatusOf(t) \in {"READY", "FAILED_INFRASTRUCTURE"}
  BY RowOfStored DEF Load, SetMem, Goto, Standing, EngineTypeOK, Runnable, StatusOf
<1>4. RunHolds(w)'
  <2>1. CopyHolds(w)'
    BY <1>1, <1>3 DEF CopyHolds, RowOf
  <2>2. RunCalls(w)' /\ RunEvidence(w)'
    BY <1>3 DEF RunCalls, RunEvidence
  <2>3. RunWorld(w)'
    BY <1>3 DEF RunWorld, WorldInv, RowHolds, RowWorld, StatusOf
  <2> QED BY <2>1, <2>2, <2>3 DEF RunHolds
<1>5. ASSUME NEW v \in Workers, v # w, pc'[v] # "idle" PROVE RunHolds(v)'
  <2>1. pc'[v] = pc[v] /\ mem'[v] = mem[v]
    BY <1>5, OthersKeep
  <2> QED BY <1>1, <1>5, <2>1, RunKept DEF WorldInv
<1> QED BY <1>2, <1>4, <1>5 DEF WorldInv

LEMMA StepWorld ==
  ASSUME EngineTypeOK, StatusInv, RunsApart, WorldInv, [EngineNext]_engineVars
  PROVE  WorldInv'
<1>1. CASE EngineNext
  BY <1>1, RunKeepsWorld, LoadKeepsWorld DEF EngineNext
<1>2. CASE UNCHANGED engineVars
  <2>1. UNCHANGED <<transactions, evidence, pc, mem, result, pending, applied, calls>>
    BY <1>2 DEF engineVars, storeVars, runVars, worldVars
  <2>2. ASSUME NEW u \in Txs PROVE RowHolds(u)'
    BY <2>1, RowKept DEF WorldInv, RowHolds
  <2>3. ASSUME NEW v \in Workers, pc'[v] # "idle" PROVE RunHolds(v)'
    BY <2>1, <2>3, RunKept DEF WorldInv
  <2> QED BY <2>2, <2>3 DEF WorldInv
<1> QED BY <1>1, <1>2

LEMMA InitWorld == EngineInit => WorldInv
<1> SUFFICES ASSUME EngineInit PROVE WorldInv
  OBVIOUS
<1>1. ASSUME NEW t \in Txs PROVE RowHolds(t)
  <2>1. /\ transactions[t] # NoRow /\ StatusOf(t) = "READY"
        /\ transactions[t].actions = << >> /\ transactions[t].observations = {}
    BY EngineInitRows, NoRowAssumption DEF StatusOf
  <2>2. evidence[t] = {} /\ calls[t] = << >> /\ \A e \in EffectIds : applied[t][e] = 0
    BY DEF EngineInit, RunInit
  <2>3. RowCalls(t)
    BY <2>1, <2>2 DEF RowCalls, Settled, EveryCallFailed, Answered
  <2>4. RowEvidence(t) /\ RowWorld(t)
    BY <2>1, <2>2 DEF RowEvidence, RowWorld, Untouched
  <2> QED BY <2>1, <2>3, <2>4 DEF RowHolds
<1>2. \A w \in Workers : pc[w] = "idle"
  BY DEF EngineInit, RunInit
<1> QED BY <1>1, <1>2 DEF WorldInv

(***************************************************************************)
(* As long as no two runs work on one transaction at once, what the rows   *)
(* and the evidence say of the calls and the effects is true               *)
(* (index.ts:45-155).                                                      *)
(***************************************************************************)
THEOREM WorldHolds == EngineSpec /\ []RunsApart => []WorldInv
BY InitWorld, StepWorld, EngineTypeCorrect, EngineStatusHolds, PTL DEF EngineSpec

\* One worker keeps its runs apart by itself.
LEMMA OneWorkerIsApart == OneWorker => RunsApart
BY DEF OneWorker, RunsApart

-----------------------------------------------------------------------------
(* What it implies.                                                        *)

LEMMA WorldMeansTruth ==
  EngineTypeOK /\ WorldInv =>
    UnknownNeverRetried /\ EvidenceNeverAhead /\ ActionsAreTheCalls
<1> SUFFICES ASSUME EngineTypeOK, WorldInv
             PROVE  UnknownNeverRetried /\ EvidenceNeverAhead /\ ActionsAreTheCalls
  OBVIOUS
<1>1. UnknownNeverRetried
  BY DEF WorldInv, RowHolds, RowCalls, UnknownNeverRetried
<1>2. EvidenceNeverAhead
  BY DEF WorldInv, RowHolds, RowEvidence, SomeFailed, EvidenceNeverAhead
<1>3. ASSUME NEW t \in Txs
      PROVE  LET actions == transactions[t].actions
                 made    == Len(calls[t])
             IN /\ Len(actions) \in {made, made + 1}
                /\ \A i \in DOMAIN actions :
                     \/ i <= made /\ actions[i].status = ActionResult[calls[t][i]]
                     \/ i = Len(actions) /\ actions[i].status = "EXECUTING"
  <2> DEFINE actions == transactions[t].actions
             made    == Len(calls[t])
  <2>1. /\ actions \in Seq(TransactionAction) /\ made \in Nat
        /\ DOMAIN actions = 1..Len(actions) /\ Len(actions) \in Nat
    BY RowOfStored DEF EngineTypeOK, WorldInv, RowHolds, Transaction
  <2>2. RowCalls(t)
    BY DEF WorldInv, RowHolds
  <2>3. Len(actions) \in {made, made + 1}
    BY <2>2 DEF RowCalls
  <2>4. ASSUME NEW i \in DOMAIN actions
        PROVE  \/ i <= made /\ actions[i].status = ActionResult[calls[t][i]]
               \/ i = Len(actions) /\ actions[i].status = "EXECUTING"
    <3>1. CASE i = Len(actions) /\ Open(t)
      BY <3>1 DEF Open
    <3>2. CASE i # Len(actions) \/ ~Open(t)
      BY <2>1, <2>2, <3>2 DEF RowCalls, Answered
    <3> QED BY <3>1, <3>2
  <2> QED BY <2>3, <2>4
<1>4. ActionsAreTheCalls
  BY <1>3 DEF ActionsAreTheCalls
<1> QED BY <1>1, <1>2, <1>4

(***************************************************************************)
(* An execution of unknown effect is the last one of its transaction       *)
(* (SECURITY.md:8; index.ts:51, 82-85), however many transactions run side *)
(* by side.                                                                *)
(***************************************************************************)
THEOREM UnknownNeverRetriedHolds == EngineSpec /\ []RunsApart => []UnknownNeverRetried
BY WorldHolds, WorldMeansTruth, EngineTypeCorrect, PTL

(***************************************************************************)
(* What the evidence says has happened is stored (index.ts:149-155).       *)
(***************************************************************************)
THEOREM EvidenceNeverAheadHolds == EngineSpec /\ []RunsApart => []EvidenceNeverAhead
BY WorldHolds, WorldMeansTruth, EngineTypeCorrect, PTL

(***************************************************************************)
(* The list of actions is the history of the calls (index.ts:62-63,        *)
(* 78-79).                                                                 *)
(***************************************************************************)
THEOREM ActionsAreTheCallsHolds == EngineSpec /\ []RunsApart => []ActionsAreTheCalls
BY WorldHolds, WorldMeansTruth, EngineTypeCorrect, PTL

\* The status of a row is true of the world, while a run is at work on it and
\* after a crash as well as in the end (runtime.ts:86-93, index.ts:82-136): a
\* transaction that may be run has left nothing behind, neither has a
\* compensated one, and one that says VERIFIED did everything its contract
\* lists, once, unless the contract asks for no verification.
StatusIsTrue ==
  \A t \in Txs :
    /\ \A e \in EffectIds : applied[t][e] <= 1
    /\ StatusOf(t) \in {"READY", "FAILED_INFRASTRUCTURE", "COMPENSATED"} =>
         Untouched(t)
    /\ StatusOf(t) \in {"VERIFIED", "VERIFIED_AFTER_RETRY"} /\ Verified(t) =>
         InForce(t)

(***************************************************************************)
(* The status a row has between any two steps is true of the effects, also *)
(* when statements fail, verifiers throw and runs crash half-way           *)
(* (index.ts:45-155).                                                      *)
(***************************************************************************)
THEOREM StatusIsTrueHolds == EngineSpec /\ []RunsApart => []StatusIsTrue
<1>1. WorldInv => StatusIsTrue
  <2> SUFFICES ASSUME WorldInv, NEW t \in Txs
               PROVE  /\ \A e \in EffectIds : applied[t][e] <= 1
                      /\ StatusOf(t) \in {"READY", "FAILED_INFRASTRUCTURE",
                                          "COMPENSATED"} => Untouched(t)
                      /\ StatusOf(t) \in {"VERIFIED", "VERIFIED_AFTER_RETRY"}
                         /\ Verified(t) => InForce(t)
    BY DEF StatusIsTrue
  <2>1. RowWorld(t)
    BY DEF WorldInv, RowHolds
  <2> QED BY <2>1 DEF RowWorld
<1> QED BY <1>1, WorldHolds, PTL

(***************************************************************************)
(* All four with one worker process, for which nothing is left to assume   *)
(* about the runs (worker.ts:12-21).                                       *)
(***************************************************************************)
COROLLARY OneWorkerIsEnough ==
  ASSUME OneWorker
  PROVE  EngineSpec =>
           []( /\ UnknownNeverRetried
               /\ EvidenceNeverAhead
               /\ ActionsAreTheCalls
               /\ StatusIsTrue )
<1>1. RunsApart
  BY OneWorkerIsApart
<1> QED BY <1>1, WorldHolds, WorldMeansTruth, StatusIsTrueHolds, EngineTypeCorrect, PTL

-----------------------------------------------------------------------------
(* What no step does: execute, undo or open again what is closed.          *)

\* Where a run of a closed transaction stands it only writes that it is closed.
LEMMA StepLeavesClosed ==
  ASSUME EngineTypeOK, StatusInv, WorldInv, NEW w \in Workers,
         RunStep(w) \/ RunFault(w), NEW t \in Txs, StatusOf(t) \in Closed
  PROVE  StatusOf(t)' \in Closed /\ calls'[t] = calls[t] /\ applied'[t] = applied[t]
<1>1. CASE t # mem[w].id
  BY <1>1, StepElsewhere DEF StatusOf
<1>2. CASE t = mem[w].id
  <2>1. Engaged(w, t) /\ pc[w] \in Label \ {"idle"}
    BY <1>2, RunStepWrites DEF Engaged, WorldInv, EngineTypeOK
  <2>2. \/ pc[w] \in {"event", "catch"}
        \/ pc[w] = "reconcile" /\ mem[w].status = "RECONCILIATION_REQUIRED"
    BY <2>1, RowStands DEF ExpectedStatus, Label, Closed, Final
  <2>3. CASE CompensationCaught(w)
    <3>1. Transition(w, "RECONCILIATION_REQUIRED", "compensation.exception", "reconcile")
          /\ calls' = calls /\ applied' = applied
      BY <2>3 DEF CompensationCaught, worldVars
    <3> QED BY <2>1, <3>1, TransitionShape DEF TransactionStatus, StatusOf, Closed
  <2>4. CASE RecordEvent(w) \/ OpenCase(w) \/ CompensationStoreError(w) \/ Abandon(w)
    BY <2>4 DEF RecordEvent, OpenCase, CompensationStoreError, Abandon, storeVars,
                worldVars, StatusOf
  <2> QED BY <2>2, <2>3, <2>4
          DEF RunStep, RunFault, BeginExecuting, NoExecutor, StartAction, Execute,
              FinishAction, ExecutionUnknown, ExecutionFailed, BeginVerifying,
              VerificationNotRequired, Verify, VerifyDone, DecideOutcome, Commit,
              CompensationUnavailable, Compensate, CompensationDone,
              RequireReconciliation
<1> QED BY <1>1, <1>2

LEMMA NextLeavesClosed ==
  ASSUME EngineTypeOK, StatusInv, WorldInv, EngineNext, NEW t \in Txs,
         StatusOf(t) \in Closed
  PROVE  StatusOf(t)' \in Closed /\ calls'[t] = calls[t] /\ applied'[t] = applied[t]
<1>1. CASE \E w \in Workers, u \in Txs : Load(w, u)
  BY <1>1 DEF Load, storeVars, worldVars, StatusOf
<1>2. CASE \E w \in Workers : RunStep(w) \/ RunFault(w)
  BY <1>2, StepLeavesClosed
<1> QED BY <1>1, <1>2 DEF EngineNext

(***************************************************************************)
(* What the engine is through with is never executed or undone again, and  *)
(* stays closed, also when a statement fails after COMPENSATED was stored  *)
(* and the catch of compensate() writes another status over it             *)
(* (index.ts:129-142), provided runs of one transaction do not overlap.    *)
(***************************************************************************)
THEOREM ClosedForGoodHolds == EngineSpec /\ []RunsApart => ClosedForGood
<1>1. EngineTypeOK /\ StatusInv /\ WorldInv /\ [EngineNext]_engineVars =>
        [\A t \in Txs :
           StatusOf(t) \in Closed =>
             /\ StatusOf(t)' \in Closed
             /\ calls'[t] = calls[t]
             /\ applied'[t] = applied[t]]_engineVars
  BY NextLeavesClosed
<1> QED BY <1>1, WorldHolds, EngineTypeCorrect, EngineStatusHolds, PTL
        DEF EngineSpec, ClosedForGood

-----------------------------------------------------------------------------
(* The engine implements Lifecycle.                                        *)

\* A contract is chosen once, and a status changes only where the table lets it.
LEMMA ContractsStay ==
  ASSUME EngineTypeOK, WorldInv, NEW w \in Workers, RunStep(w) \/ RunFault(w),
         NEW u \in Txs
  PROVE  transactions'[u].contract = transactions[u].contract
<1>1. CASE u # mem[w].id
  BY <1>1, StepElsewhere
<1>2. CASE u = mem[w].id
  <2>1. Engaged(w, u)
    BY <1>2, RunStepWrites DEF Engaged, WorldInv
  <2>2. CASE UNCHANGED transactions
    BY <2>2
  <2>3. CASE pc'[w] # "idle" /\ PutTransaction(mem'[w])
    BY <2>1, <2>3, RowFollows
  <2> QED BY <2>2, <2>3, RunPutsItsCopy
<1> QED BY <1>1, <1>2

\* The steps after which the row has another status.
MovesStatus(w) ==
  \/ BeginExecuting(w) \/ NoExecutor(w) \/ ExecutionUnknown(w) \/ ExecutionFailed(w)
  \/ BeginVerifying(w) \/ DecideOutcome(w) \/ Commit(w)
  \/ CompensationUnavailable(w) \/ CompensationDone(w) \/ CompensationCaught(w)
  \/ RequireReconciliation(w)

LEMMA StatusMoves ==
  ASSUME EngineTypeOK, StatusInv, ~StoreMayFail, NEW w \in Workers, NEW t \in Txs,
         Engaged(w, t), MovesStatus(w)
  PROVE  /\ StatusOf(t)' \in TransactionStatus
         /\ CanTransitionTransaction(StatusOf(t), StatusOf(t)')
         /\ applied' = applied
<1>1. pc[w] # "event" /\ applied' = applied
  BY DEF MovesStatus, BeginExecuting, NoExecutor, ExecutionUnknown, ExecutionFailed,
         BeginVerifying, DecideOutcome, Commit, CompensationUnavailable,
         CompensationDone, CompensationCaught, RequireReconciliation, worldVars
<1>2. StatusOf(t) = mem[w].status /\ mem[w].status \in ExpectedStatus(pc[w])
  <2>1. CASE pc[w] # "catch"
    BY <1>1, <2>1, RowStands
  <2>2. CASE pc[w] = "catch"
    <3>1. Standing(w) = "catch" /\ mem[w].status = "COMPENSATING"
      BY <2>2 DEF Standing, StatusInv, ExpectedStatus
    <3> QED BY <2>2, <3>1 DEF Engaged, RunHolds, CopyHolds, RowOf, StatusOf, ExpectedStatus
  <2> QED BY <2>1, <2>2
<1>3. CASE DecideOutcome(w)
  <2> DEFINE tx == DecideVerificationOutcome(mem[w], DocOf(w))
  <2>1. tx.status \in {"COMMITTING", "COMPENSATING", "RECONCILIATION_REQUIRED",
                       "UNKNOWN_EFFECT"}
    BY CopyOfRun DEF DecideVerificationOutcome, Transaction, Engaged
  <2>2. mem'[w] = tx /\ PutTransaction(mem'[w]) /\ pc'[w] # "idle"
    BY <1>3 DEF DecideOutcome, SetMem, Emit, Goto, EngineTypeOK
  <2> HIDE DEF tx
  <2>3. StatusOf(t)' = tx.status
    BY <1>3, <2>2, RowFollows DEF RunStep, StatusOf
  <2>4. StatusOf(t) = "VERIFYING"
    BY <1>2, <1>3 DEF DecideOutcome, ExpectedStatus
  <2> QED BY <1>1, <2>1, <2>3, <2>4
          DEF CanTransitionTransaction, transactionTransitions, TransactionStatus
<1>4. CASE ~DecideOutcome(w)
  <2>1. PICK to, type, next : to \in TransactionStatus /\ Transition(w, to, type, next)
    BY <1>4 DEF MovesStatus, BeginExecuting, NoExecutor, ExecutionUnknown,
       ExecutionFailed, BeginVerifying, Commit, CompensationUnavailable,
       CompensationDone, CompensationCaught, RequireReconciliation, TransactionStatus
  <2>2. StatusOf(t)' = to
    BY <2>1, TransitionShape DEF StatusOf
  <2> QED BY <1>1, <1>2, <2>1, <2>2 DEF Transition
<1> QED BY <1>3, <1>4

\* All others but Execute and Compensate are invisible.
LEMMA StatusRests ==
  ASSUME EngineTypeOK, StatusInv, ~StoreMayFail, NEW w \in Workers, NEW t \in Txs,
         Engaged(w, t), RunStep(w) \/ RunFault(w), ~MovesStatus(w)
  PROVE  /\ StatusOf(t)' = StatusOf(t)
         /\ applied' = applied \/ Execute(w) \/ Compensate(w)
<1>1. mem[w] \in Transaction
  BY CopyOfRun DEF Engaged
<1>2. CASE StartAction(w)
  <2>1. PICK name \in Executors :
          LET tx == [mem[w] EXCEPT !.actions =
                       Append(@, [executor |-> name, status |-> "EXECUTING"])]
          IN SetMem(w, tx) /\ PutTransaction(tx)
    BY <1>2 DEF StartAction
  <2>2. mem'[w].status = mem[w].status /\ PutTransaction(mem'[w])
    BY <1>1, <2>1 DEF SetMem, EngineTypeOK, Transaction
  <2>3. pc[w] = "select" /\ pc'[w] # "idle" /\ applied' = applied
    BY <1>2 DEF StartAction, Goto, EngineTypeOK, worldVars
  <2> QED BY <1>2, <2>2, <2>3, RowFollows, RowStands DEF RunStep, StatusOf
<1>3. CASE FinishAction(w)
  <2>1. mem'[w].status = mem[w].status /\ PutTransaction(mem'[w])
    BY <1>1, <1>3 DEF FinishAction, SetMem, EngineTypeOK, Transaction
  <2>2. pc[w] = "finish" /\ pc'[w] # "idle" /\ applied' = applied
    BY <1>3 DEF FinishAction, Emit, Goto, EngineTypeOK, worldVars
  <2> QED BY <1>3, <2>1, <2>2, RowFollows, RowStands DEF RunStep, StatusOf
<1>4. CASE VerificationNotRequired(w)
  <2>1. mem'[w].status = mem[w].status /\ PutTransaction(mem'[w])
    BY <1>1, <1>4 DEF VerificationNotRequired, SetMem, EngineTypeOK, Transaction
  <2>2. pc[w] = "verify" /\ pc'[w] # "idle" /\ applied' = applied
    BY <1>4 DEF VerificationNotRequired, Goto, EngineTypeOK, worldVars
  <2> QED BY <1>4, <2>1, <2>2, RowFollows, RowStands DEF RunStep, StatusOf
<1>5. CASE VerifyDone(w)
  <2>1. mem'[w].status = mem[w].status /\ PutTransaction(mem'[w])
    BY <1>5 DEF VerifyDone
  <2>2. pc[w] = "verify" /\ pc'[w] # "idle" /\ applied' = applied
    BY <1>5 DEF VerifyDone, Goto, EngineTypeOK, worldVars
  <2> QED BY <1>5, <2>1, <2>2, RowFollows, RowStands DEF RunStep, StatusOf
<1>6. CASE Execute(w) \/ Compensate(w)
  BY <1>6 DEF Execute, Compensate, storeVars, StatusOf
<1>7. CASE Verify(w) \/ OpenCase(w) \/ RecordEvent(w) \/ Abandon(w)
  BY <1>7 DEF Verify, OpenCase, RecordEvent, Abandon, storeVars, worldVars, StatusOf
<1> QED BY <1>2, <1>3, <1>4, <1>5, <1>6, <1>7
        DEF MovesStatus, RunStep, RunFault, CompensationStoreError

-----------------------------------------------------------------------------
(* The steps of Lifecycle under the refinement mapping.                    *)

LEMMA AbstractStutter ==
  ASSUME \A u \in Txs : /\ transactions'[u].contract = transactions[u].contract
                        /\ StatusOf(u)' = StatusOf(u),
         applied' = applied
  PROVE  UNCHANGED Abstract!vars
BY DEF Abstract!vars, StatusOf

LEMMA AbstractAdvance ==
  ASSUME NEW t \in Txs, NEW to \in TransactionStatus, StatusOf(t)' = to,
         \A u \in Txs : transactions'[u].contract = transactions[u].contract,
         \A u \in Txs \ {t} : StatusOf(u)' = StatusOf(u),
         applied' = applied, CanTransitionTransaction(StatusOf(t), to),
         to \in {"FAILED_INFRASTRUCTURE", "COMPENSATED"} => Untouched(t),
         to \in {"VERIFIED", "VERIFIED_AFTER_RETRY"} /\ Verified(t) => InForce(t)
  PROVE  Abstract!Next
<1>1. Abstract!CanTransitionTransaction(StatusOf(t), to)
  BY DEF CanTransitionTransaction, transactionTransitions,
         Abstract!CanTransitionTransaction, Abstract!transactionTransitions
<1>2. Abstract!Untouched(t) <=> Untouched(t)
  BY DEF Abstract!Untouched, Untouched
<1>3. Abstract!InForce(t) <=> InForce(t)
  BY DEF Abstract!InForce, InForce
<1>4. [u \in Txs |-> StatusOf(u)'] = [[u \in Txs |-> StatusOf(u)] EXCEPT ![t] = to]
  OBVIOUS
<1>5. Abstract!Advance(t, to)
  BY <1>1, <1>2, <1>3, <1>4 DEF Abstract!Advance, Verified
<1>6. to \in Abstract!TransactionStatus
  BY DEF TransactionStatus, Abstract!TransactionStatus
<1> QED BY <1>5, <1>6 DEF Abstract!Next

LEMMA AbstractPerform ==
  ASSUME EngineTypeOK, StatusInv, NEW w \in Workers, NEW t \in Txs, Engaged(w, t),
         Execute(w)
  PROVE  Abstract!Next
<1>1. PICK done \in SUBSET DocOf(w).effects :
        applied' = [applied EXCEPT ![mem[w].id] =
                      [e \in EffectIds |->
                         IF e \in done THEN @[e] + 1 ELSE @[e]]]
  BY DEF Execute
<1>2. pc[w] = "call" /\ transactions' = transactions
  BY DEF Execute, storeVars
<1>3. StatusOf(t) = "EXECUTING" /\ Standing(w) = "call"
  BY <1>2, RowStands DEF ExpectedStatus
<1>4. Untouched(t) /\ transactions[t].contract = mem[w].contract
  BY <1>3 DEF Engaged, RunHolds, RunWorld, CopyHolds, RowOf
<1>5. applied' = [applied EXCEPT ![t] =
                    [e \in EffectIds |-> IF e \in done THEN 1 ELSE 0]]
  <2> DEFINE carriedOut == [e \in EffectIds |-> IF e \in done THEN applied[t][e] + 1
                                                           ELSE applied[t][e]]
  <2>1. applied' = [applied EXCEPT ![t] = carriedOut]
    BY <1>1 DEF Engaged
  <2>2. carriedOut = [e \in EffectIds |-> IF e \in done THEN 1 ELSE 0]
    BY <1>4 DEF Untouched
  <2> QED BY <2>1, <2>2
<1>6. Abstract!Untouched(t)
  BY <1>4 DEF Abstract!Untouched, Untouched
<1>7. Abstract!Perform(t, done)
  BY <1>2, <1>3, <1>5, <1>6 DEF Abstract!Perform, StatusOf
<1>8. done \in SUBSET Doc[transactions[t].contract].effects
  BY <1>1, <1>4 DEF DocOf
<1> QED BY <1>7, <1>8 DEF Abstract!Next

LEMMA AbstractUndo ==
  ASSUME EngineTypeOK, StatusInv, NEW w \in Workers, NEW t \in Txs, Engaged(w, t),
         Compensate(w)
  PROVE  Abstract!Next
<1>1. PICK undone \in SUBSET EffectIds :
        applied' = [applied EXCEPT ![mem[w].id] =
                      [e \in EffectIds |-> IF e \in undone THEN 0 ELSE @[e]]]
  BY DEF Compensate
<1>2. pc[w] = "compensate" /\ transactions' = transactions
  BY DEF Compensate, storeVars
<1>3. StatusOf(t) = "COMPENSATING"
  BY <1>2, RowStands DEF ExpectedStatus
<1>4. Abstract!Undo(t, undone)
  BY <1>1, <1>2, <1>3 DEF Abstract!Undo, StatusOf, Engaged
<1> QED BY <1>4 DEF Abstract!Next

LEMMA RunImplements ==
  ASSUME EngineTypeOK, StatusInv, RunsApart, WorldInv, WorldInv', ~StoreMayFail,
         NEW w \in Workers, RunStep(w) \/ RunFault(w)
  PROVE  [Abstract!Next]_(Abstract!vars)
<1>1. PICK t \in Txs : t = mem[w].id
  BY RunStepWrites, CopyOfRun
<1>2. Engaged(w, t)
  BY <1>1, RunStepWrites DEF Engaged, WorldInv
<1>3. \A u \in Txs : transactions'[u].contract = transactions[u].contract
  BY ContractsStay
<1>4. \A u \in Txs \ {t} : StatusOf(u)' = StatusOf(u)
  BY <1>1, StepElsewhere DEF StatusOf
<1>5. CASE MovesStatus(w)
  <2>1. PICK to \in TransactionStatus :
          /\ StatusOf(t)' = to /\ applied' = applied
          /\ CanTransitionTransaction(StatusOf(t), to)
    BY <1>2, <1>5, StatusMoves
  <2>2. RowWorld(t)'
    BY DEF WorldInv, RowHolds
  <2>3. /\ Untouched(t)' <=> Untouched(t)
        /\ InForce(t)' <=> InForce(t)
        /\ Verified(t)' = Verified(t)
    BY <1>3, <2>1 DEF Untouched, InForce, Verified
  <2>4. /\ to \in {"FAILED_INFRASTRUCTURE", "COMPENSATED"} => Untouched(t)
        /\ to \in {"VERIFIED", "VERIFIED_AFTER_RETRY"} /\ Verified(t) => InForce(t)
    BY <2>1, <2>2, <2>3 DEF RowWorld
  <2> QED BY <1>3, <1>4, <2>1, <2>4, AbstractAdvance
<1>6. CASE ~MovesStatus(w)
  <2>1. StatusOf(t)' = StatusOf(t)
    BY <1>2, <1>6, StatusRests
  <2>2. \A u \in Txs : StatusOf(u)' = StatusOf(u)
    BY <1>4, <2>1
  <2>3. CASE applied' = applied
    BY <1>3, <2>2, <2>3, AbstractStutter
  <2>4. CASE Execute(w) \/ Compensate(w)
    BY <1>2, <2>4, AbstractPerform, AbstractUndo
  <2> QED BY <1>2, <1>6, <2>3, <2>4, StatusRests
<1> QED BY <1>5, <1>6

LEMMA StepImplements ==
  ASSUME EngineTypeOK, StatusInv, RunsApart, WorldInv, WorldInv', ~StoreMayFail,
         [EngineNext]_engineVars
  PROVE  [Abstract!Next]_(Abstract!vars)
<1>1. CASE \E w \in Workers, t \in Txs : Load(w, t)
  <2>1. UNCHANGED <<transactions, applied>>
    BY <1>1 DEF Load, storeVars, worldVars
  <2> QED BY <2>1, AbstractStutter DEF StatusOf
<1>2. CASE \E w \in Workers : RunStep(w) \/ RunFault(w)
  BY <1>2, RunImplements
<1>3. CASE UNCHANGED engineVars
  <2>1. UNCHANGED <<transactions, applied>>
    BY <1>3 DEF engineVars, storeVars, worldVars
  <2> QED BY <2>1, AbstractStutter DEF StatusOf
<1> QED BY <1>1, <1>2, <1>3 DEF EngineNext

LEMMA InitImplements == EngineInit => Abstract!Init
<1> SUFFICES ASSUME EngineInit PROVE Abstract!Init
  OBVIOUS
<1>1. ASSUME NEW t \in Txs
      PROVE  /\ Doc[transactions[t].contract].effects \in SUBSET EffectIds
             /\ Doc[transactions[t].contract].verificationRequired \in BOOLEAN
             /\ StatusOf(t) = "READY"
  <2>1. transactions[t].contract \in Contracts /\ StatusOf(t) = "READY"
    BY EngineInitRows DEF Transaction, StatusOf
  <2> QED BY <2>1, ContractsAssumption DEF BusinessEffectContract
<1>2. applied = [t \in Txs |-> [e \in EffectIds |-> 0]]
  BY DEF EngineInit, RunInit
<1> QED BY <1>1, <1>2 DEF Abstract!Init

(***************************************************************************)
(* The rows and the world refine Lifecycle (state-machine.ts:3-24,         *)
(* index.ts:45-142), also when runs crash half-way, while the statements   *)
(* inside the try of compensate() succeed: when one fails, COMPENSATED     *)
(* becomes RECONCILIATION_REQUIRED and the table has no such edge.         *)
(***************************************************************************)
THEOREM LifecycleIsImplemented ==
  ASSUME ~StoreMayFail
  PROVE  EngineSpec /\ []RunsApart => ImplementsLifecycle
BY InitImplements, StepImplements, WorldHolds, EngineTypeCorrect, EngineStatusHolds, PTL
   DEF EngineSpec, ImplementsLifecycle, Abstract!Spec

=============================================================================
