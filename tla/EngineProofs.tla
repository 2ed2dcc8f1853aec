---------------------------- MODULE EngineProofs ----------------------------
(***************************************************************************)
(* Lemmas about the runs of Engine, for any number of workers and          *)
(* transactions and whoever else writes the rows, and the theorems of the  *)
(* engine on its own: type correctness, and that no run is ever refused a  *)
(* change of status.                                                       *)
(***************************************************************************)
EXTENDS Engine, SequenceTheorems, TLAPS

-----------------------------------------------------------------------------
(* Rows and copies keep their type.                                        *)

LEMMA RowOfStored ==
  ASSUME StoreTypeOK, NEW t \in Txs, transactions[t] # NoRow
  PROVE  transactions[t] \in Transaction /\ transactions[t].id = t
BY DEF StoreTypeOK

LEMMA StatusUpdateTyped ==
  ASSUME NEW tx \in Transaction, NEW to \in TransactionStatus
  PROVE  [tx EXCEPT !.status = to] \in Transaction
BY DEF Transaction

\* A write of a well-typed copy leaves a well-typed table (db/src/index.ts:14-33).
LEMMA PutTyped ==
  ASSUME StoreTypeOK, NEW tx \in Transaction, PutTransaction(tx),
         evidence' \in [Txs -> SUBSET EventType], cases' \in SUBSET Txs
  PROVE  StoreTypeOK'
<1>1. tx.id \in Txs
  BY DEF Transaction
<1>2. Upsert(transactions[tx.id], tx) \in Transaction
      /\ Upsert(transactions[tx.id], tx).id = tx.id
  <2>1. CASE transactions[tx.id] = NoRow
    BY <2>1 DEF Upsert
  <2>2. CASE transactions[tx.id] # NoRow
    BY <1>1, <2>2 DEF Upsert, StoreTypeOK, Transaction
  <2> QED BY <2>1, <2>2
<1>3. transactions' \in [Txs -> Transaction \cup {NoRow}]
  BY <1>1, <1>2 DEF StoreTypeOK, PutTransaction
<1>4. \A t \in Txs : transactions'[t] # NoRow => transactions'[t].id = t
  BY <1>1, <1>2 DEF StoreTypeOK, PutTransaction
<1> QED BY <1>3, <1>4 DEF StoreTypeOK

-----------------------------------------------------------------------------
(* The small steps the engine's actions share.                             *)

LEMMA CopyOfRun ==
  ASSUME EngineTypeOK, NEW w \in Workers, pc[w] # "idle"
  PROVE  /\ mem[w] \in Transaction
         /\ mem[w].id \in Txs
         /\ mem[w].contract \in Contracts
         /\ DocOf(w) \in BusinessEffectContract
<1>1. mem[w] \in Transaction
  BY DEF EngineTypeOK
<1> QED BY <1>1, ContractsAssumption DEF Transaction, DocOf

\* A step of a run that leaves it with the copy tx, at label.
LEMMA RunTyped ==
  ASSUME EngineTypeOK, NEW w \in Workers, NEW tx \in Transaction,
         NEW label \in Label, SetMem(w, tx), Goto(w, label), StoreTypeOK',
         pending' \in [Workers -> PendingEvent],
         result' \in [Workers -> ExecutionStatus \cup {NoResult}],
         \A v \in Workers \ {w} : result'[v] = result[v] /\ pending'[v] = pending[v],
         label = "finish" => result'[w] \in ExecutionStatus,
         label = "event" => pending'[w].type # "none",
         todo' \in [Workers -> SUBSET Check],
         applied' \in [Txs -> [EffectIds -> Nat]],
         calls' \in [Txs -> Seq(ExecutionStatus)]
  PROVE  EngineTypeOK'
<1>1. mem' \in [Workers -> Transaction \cup {NoRow}] /\ pc' \in [Workers -> Label]
  BY DEF EngineTypeOK, SetMem, Goto
<1>2. \A v \in Workers : pc'[v] # "idle" => mem'[v] # NoRow
  BY NoRowAssumption DEF EngineTypeOK, SetMem, Goto
<1>3. \A v \in Workers : /\ pc'[v] = "finish" => result'[v] \in ExecutionStatus
                         /\ pc'[v] = "event" => pending'[v].type # "none"
  BY DEF EngineTypeOK, Goto
<1> QED BY <1>1, <1>2, <1>3 DEF EngineTypeOK

LEMMA EmitTyped ==
  ASSUME EngineTypeOK, NEW w \in Workers, NEW type \in EventType,
         NEW next \in Label \ {"event", "finish"}, Emit(w, type, next)
  PROVE  /\ Goto(w, "event") /\ "event" \in Label
         /\ pending' \in [Workers -> PendingEvent]
         /\ pending'[w].type # "none"
         /\ \A v \in Workers \ {w} : pending'[v] = pending[v]
BY DEF EngineTypeOK, Emit, Label, EventType, PendingEvent

LEMMA TransitionTyped ==
  ASSUME EngineTypeOK, NEW w \in Workers, pc[w] # "idle",
         NEW to \in TransactionStatus, NEW type \in EventType,
         NEW next \in Label \ {"event", "finish"}, Transition(w, to, type, next),
         UNCHANGED <<evidence, cases, result, worldVars>>,
         todo' \in [Workers -> SUBSET Check]
  PROVE  EngineTypeOK'
<1> DEFINE tx == [mem[w] EXCEPT !.status = to]
<1>1. tx \in Transaction
  BY CopyOfRun, StatusUpdateTyped
<1>2. PutTransaction(tx) /\ SetMem(w, tx) /\ Emit(w, type, next)
  BY DEF Transition
<1>3. StoreTypeOK'
  BY <1>1, <1>2, PutTyped DEF EngineTypeOK, StoreTypeOK
<1> HIDE DEF tx
<1> QED BY <1>1, <1>2, <1>3, EmitTyped, RunTyped DEF EngineTypeOK, worldVars

LEMMA EndRunTyped ==
  ASSUME EngineTypeOK, NEW w \in Workers, EndRun(w), StoreTypeOK',
         UNCHANGED worldVars
  PROVE  EngineTypeOK'
BY DEF EngineTypeOK, EndRun, Goto, SetMem, NoResult, NoEvent, PendingEvent, Label,
       worldVars

\* The copy a run still holds is the one it leaves with.
LEMMA KeepCopy ==
  ASSUME EngineTypeOK, NEW w \in Workers, UNCHANGED mem
  PROVE  SetMem(w, mem[w])
BY DEF EngineTypeOK, SetMem

-----------------------------------------------------------------------------
(* What the pure functions return.                                         *)

LEMMA ActionsUpdateTyped ==
  ASSUME NEW tx \in Transaction, NEW actions \in Seq(TransactionAction)
  PROVE  [tx EXCEPT !.actions = actions] \in Transaction
BY DEF Transaction

LEMMA ObservationsUpdateTyped ==
  ASSUME NEW tx \in Transaction, NEW more \in SUBSET EffectObservation
  PROVE  [tx EXCEPT !.observations = @ \cup more] \in Transaction
BY DEF Transaction

LEMMA ChecksTyped ==
  ASSUME NEW contract \in BusinessEffectContract
  PROVE  Checks(contract) \in SUBSET Check
<1>1. contract.effects \subseteq EffectIds /\ contract.rules \subseteq VerificationRule
  BY DEF BusinessEffectContract
<1> QED BY <1>1 DEF Checks, Check

LEMMA ObservationsTyped ==
  ASSUME NEW t, NEW check \in Check
  PROVE  Observations(t, check) \subseteq EffectObservation
<1>1. check.effectId \in EffectIds /\ check.rule.strength \in Nat
  BY DEF Check, VerificationRule, NoRule
<1> QED BY <1>1, EngineAssumption DEF Observations, EffectObservation, VerificationResult

LEMMA DecideTyped ==
  ASSUME NEW tx \in Transaction, NEW contract
  PROVE  DecideVerificationOutcome(tx, contract) \in Transaction
<1>1. PICK to \in TransactionStatus :
        DecideVerificationOutcome(tx, contract) = [tx EXCEPT !.status = to]
  BY DEF DecideVerificationOutcome, TransactionStatus
<1> QED BY <1>1, StatusUpdateTyped

\* finishAction changes the status of one element of the list.
LEMMA FinishTyped ==
  ASSUME NEW tx \in Transaction, NEW status \in ActionStatus
  PROVE  [tx EXCEPT !.actions[Len(tx.actions)].status = status] \in Transaction
<1> DEFINE n == Len(tx.actions)
           actions == [tx.actions EXCEPT ![n].status = status]
<1>1. tx.actions \in Seq(TransactionAction) /\ n \in Nat
  BY DEF Transaction
<1>2. actions \in Seq(TransactionAction)
  <2>1. CASE n = 0
    <3>1. DOMAIN tx.actions = {}
      BY <1>1, <2>1
    <3>2. DOMAIN actions = {}
      BY <3>1
    <3>3. actions = [i \in DOMAIN actions |-> actions[i]]
      OBVIOUS
    <3>4. 1..0 = {}
      OBVIOUS
    <3>5. actions \in [1..0 -> TransactionAction]
      BY <3>2, <3>3, <3>4
    <3> QED BY <3>5, SeqDef
  <2>2. CASE n # 0
    <3>1. n \in 1..Len(tx.actions) /\ tx.actions[n] \in TransactionAction
      BY <1>1, <2>2
    <3>2. [tx.actions[n] EXCEPT !.status = status] \in TransactionAction
      BY <3>1 DEF TransactionAction
    <3> QED BY <1>1, <3>1, <3>2, ExceptSeq
  <2> QED BY <2>1, <2>2
<1>3. [tx EXCEPT !.actions = actions] \in Transaction
  BY <1>2, ActionsUpdateTyped
<1> QED BY <1>3

-----------------------------------------------------------------------------
(* Type correctness: every step of a run.                                  *)

LEMMA LoadTyped ==
  ASSUME EngineTypeOK, NEW w \in Workers, NEW t \in Txs, Load(w, t)
  PROVE  EngineTypeOK'
<1>1. transactions[t] \in Transaction
  BY RowOfStored DEF EngineTypeOK, Load
<1>2. PICK label \in {"reconcile", "loaded"} : Goto(w, label)
  BY DEF Load
<1>3. label \in Label \ {"event", "finish"}
  BY <1>2 DEF Label
<1>4. StoreTypeOK'
  BY DEF EngineTypeOK, StoreTypeOK, Load, storeVars
<1> QED BY <1>1, <1>2, <1>3, <1>4, RunTyped DEF EngineTypeOK, Load, worldVars

\* The steps that are one call of transition().
LEMMA TransitionStepTyped ==
  ASSUME EngineTypeOK, NEW w \in Workers,
         \/ BeginExecuting(w) \/ NoExecutor(w)
         \/ ExecutionUnknown(w) \/ ExecutionFailed(w) \/ BeginVerifying(w)
         \/ Commit(w) \/ CompensationUnavailable(w) \/ CompensationDone(w)
         \/ CompensationCaught(w) \/ RequireReconciliation(w)
  PROVE  EngineTypeOK'
<1>1. pc[w] # "idle"
  BY DEF BeginExecuting, NoExecutor, ExecutionUnknown, ExecutionFailed,
         BeginVerifying, Commit, CompensationUnavailable, CompensationDone,
         CompensationCaught, RequireReconciliation
<1>2. PICK to \in TransactionStatus, type \in EventType,
           next \in Label \ {"event", "finish"} :
        Transition(w, to, type, next)
  BY DEF BeginExecuting, NoExecutor, ExecutionUnknown, ExecutionFailed,
         BeginVerifying, Commit, CompensationUnavailable, CompensationDone,
         CompensationCaught, RequireReconciliation,
         TransactionStatus, EventType, Label
<1>3. todo' \in [Workers -> SUBSET Check]
  <2>1. Checks(DocOf(w)) \in SUBSET Check
    BY <1>1, CopyOfRun, ChecksTyped
  <2> QED BY <2>1 DEF EngineTypeOK, BeginExecuting, NoExecutor, ExecutionUnknown,
         ExecutionFailed, BeginVerifying, Commit, CompensationUnavailable,
         CompensationDone, CompensationCaught, RequireReconciliation
<1>4. UNCHANGED <<evidence, cases, result, worldVars>>
  BY DEF BeginExecuting, NoExecutor, ExecutionUnknown, ExecutionFailed,
         BeginVerifying, Commit, CompensationUnavailable, CompensationDone,
         CompensationCaught, RequireReconciliation
<1> QED BY <1>1, <1>2, <1>3, <1>4, TransitionTyped

\* The steps that store a changed copy without asking the table.
LEMMA StoreStepTyped ==
  ASSUME EngineTypeOK, NEW w \in Workers,
         \/ StartAction(w) \/ FinishAction(w) \/ VerificationNotRequired(w)
         \/ VerifyDone(w) \/ DecideOutcome(w)
  PROVE  EngineTypeOK'
<1>1. pc[w] # "idle"
  BY DEF StartAction, FinishAction, VerificationNotRequired, VerifyDone, DecideOutcome
<1>2. mem[w] \in Transaction /\ DocOf(w) \in BusinessEffectContract
  BY <1>1, CopyOfRun
<1>3. PICK tx \in Transaction : SetMem(w, tx) /\ PutTransaction(tx)
  <2>1. CASE StartAction(w)
    <3>1. PICK name \in Executors :
            LET tx == [mem[w] EXCEPT !.actions =
                         Append(@, [executor |-> name, status |-> "EXECUTING"])]
            IN SetMem(w, tx) /\ PutTransaction(tx)
      BY <2>1 DEF StartAction
    <3>2. [executor |-> name, status |-> "EXECUTING"] \in TransactionAction
      BY DEF TransactionAction, ActionStatus
    <3>3. Append(mem[w].actions, [executor |-> name, status |-> "EXECUTING"])
            \in Seq(TransactionAction)
      BY <1>2, <3>2, AppendProperties DEF Transaction
    <3> QED BY <1>2, <3>1, <3>3, ActionsUpdateTyped
  <2>2. CASE FinishAction(w)
    <3>1. ActionResult[result[w]] \in ActionStatus
      BY <2>2 DEF EngineTypeOK, FinishAction, ActionResult, ActionStatus,
                  ExecutionStatus, NoResult
    <3> QED BY <1>2, <2>2, <3>1, FinishTyped DEF FinishAction
  <2>3. CASE VerificationNotRequired(w)
    <3>1. {[effectId |-> e, result |-> "CONFIRMED", strength |-> 0] :
             e \in DocOf(w).effects} \in SUBSET EffectObservation
      BY <1>2 DEF BusinessEffectContract, EffectObservation, VerificationResult
    <3> QED BY <1>2, <2>3, <3>1, ObservationsUpdateTyped DEF VerificationNotRequired
  <2>4. CASE VerifyDone(w)
    BY <1>2, <2>4, KeepCopy DEF VerifyDone
  <2>5. CASE DecideOutcome(w)
    BY <1>2, <2>5, DecideTyped DEF DecideOutcome
  <2> QED BY <2>1, <2>2, <2>3, <2>4, <2>5
<1>4. StoreTypeOK'
  BY <1>3, PutTyped DEF EngineTypeOK, StoreTypeOK, StartAction, FinishAction,
                        VerificationNotRequired, VerifyDone, DecideOutcome
<1>5. PICK label \in Label \ {"finish"} : Goto(w, label)
  BY DEF StartAction, FinishAction, VerificationNotRequired, VerifyDone,
         DecideOutcome, Emit, Label
<1>6. /\ pending' \in [Workers -> PendingEvent]
      /\ \A v \in Workers \ {w} : pending'[v] = pending[v]
      /\ pc'[w] = "event" => pending'[w].type # "none"
  <2>1. \/ \E type \in EventType, next \in Label \ {"event", "finish"} :
             Emit(w, type, next)
        \/ /\ UNCHANGED pending
           /\ Goto(w, "call") \/ Goto(w, "outcome")
    BY DEF StartAction, FinishAction, VerificationNotRequired, VerifyDone,
           DecideOutcome, EventType, Label
  <2> QED BY <2>1, EmitTyped DEF EngineTypeOK, Goto
<1>7. /\ todo' \in [Workers -> SUBSET Check]
      /\ UNCHANGED <<result, worldVars>>
  BY DEF EngineTypeOK, StartAction, FinishAction, VerificationNotRequired,
         VerifyDone, DecideOutcome
<1>8. label = "event" => pending'[w].type # "none"
  BY <1>5, <1>6 DEF EngineTypeOK, Goto
<1> QED BY <1>3, <1>4, <1>5, <1>6, <1>7, <1>8, RunTyped DEF EngineTypeOK, worldVars

LEMMA ExecuteTyped ==
  ASSUME EngineTypeOK, NEW w \in Workers, Execute(w)
  PROVE  EngineTypeOK'
<1> DEFINE t == mem[w].id
<1>1. pc[w] # "idle" /\ SetMem(w, mem[w]) /\ mem[w] \in Transaction /\ t \in Txs
  BY CopyOfRun, KeepCopy DEF Execute
<1>2. PICK o \in Outcomes, done \in SUBSET DocOf(w).effects :
        /\ applied' = [applied EXCEPT ![t] =
                         [e \in EffectIds |->
                            IF e \in done THEN @[e] + 1 ELSE @[e]]]
        /\ calls' = [calls EXCEPT ![t] = Append(@, o.status)]
        /\ result' = [result EXCEPT ![w] = o.status]
  BY DEF Execute
<1>3. o.status \in ExecutionStatus
  BY EngineAssumption DEF ExecutionOutcome
<1>4. applied' \in [Txs -> [EffectIds -> Nat]]
  BY <1>1, <1>2 DEF EngineTypeOK
<1>5. calls' \in [Txs -> Seq(ExecutionStatus)]
  BY <1>1, <1>2, <1>3, AppendProperties DEF EngineTypeOK
<1>6. /\ result' \in [Workers -> ExecutionStatus \cup {NoResult}]
      /\ \A v \in Workers \ {w} : result'[v] = result[v]
      /\ result'[w] \in ExecutionStatus
  BY <1>2, <1>3 DEF EngineTypeOK
<1>7. StoreTypeOK' /\ Goto(w, "finish") /\ "finish" \in Label
  BY DEF EngineTypeOK, StoreTypeOK, Execute, storeVars, Label
<1> QED BY <1>1, <1>4, <1>5, <1>6, <1>7, RunTyped DEF EngineTypeOK, Execute

LEMMA VerifyTyped ==
  ASSUME EngineTypeOK, NEW w \in Workers, Verify(w)
  PROVE  EngineTypeOK'
<1>1. pc[w] = "verify" /\ mem[w] \in Transaction
  BY CopyOfRun DEF Verify
<1>2. PICK check \in todo[w] :
        /\ todo' = [todo EXCEPT ![w] = @ \ {check}]
        /\ \E o \in Observations(mem[w].id, check) :
             SetMem(w, AddObservation(mem[w], o))
        /\ IF check.rule.verifier \in Verifiers
           THEN Emit(w, "effect.observed", "verify")
           ELSE UNCHANGED <<pc, pending>>
  BY DEF Verify
<1>3. check \in Check
  BY DEF EngineTypeOK
<1>4. PICK o \in EffectObservation : SetMem(w, AddObservation(mem[w], o))
  BY <1>2, <1>3, ObservationsTyped
<1>5. AddObservation(mem[w], o) \in Transaction
  BY <1>1, ObservationsUpdateTyped DEF AddObservation
<1>6. PICK label \in Label \ {"finish"} :
        /\ Goto(w, label)
        /\ label = "event" => pending'[w].type # "none"
  <2>1. CASE check.rule.verifier \in Verifiers
    BY <1>2, <2>1, EmitTyped DEF EventType, Label
  <2>2. CASE check.rule.verifier \notin Verifiers
    <3>1. Goto(w, "verify")
      BY <1>1, <1>2, <2>2 DEF Goto, EngineTypeOK
    <3> QED BY <3>1 DEF Label
  <2> QED BY <2>1, <2>2
<1>7. /\ pending' \in [Workers -> PendingEvent]
      /\ \A v \in Workers \ {w} : pending'[v] = pending[v]
  BY <1>2, EmitTyped DEF EngineTypeOK, EventType, Label
<1>8. StoreTypeOK' /\ UNCHANGED <<result, applied, calls>>
  BY DEF EngineTypeOK, StoreTypeOK, Verify, storeVars, worldVars
<1>9. todo' \in [Workers -> SUBSET Check]
  BY <1>2 DEF EngineTypeOK
<1> QED BY <1>4, <1>5, <1>6, <1>7, <1>8, <1>9, RunTyped DEF EngineTypeOK

LEMMA CompensateTyped ==
  ASSUME EngineTypeOK, NEW w \in Workers, Compensate(w)
  PROVE  EngineTypeOK'
<1> DEFINE t == mem[w].id
<1>1. SetMem(w, mem[w]) /\ mem[w] \in Transaction /\ t \in Txs
  BY CopyOfRun, KeepCopy DEF Compensate
<1>2. PICK status \in ExecutionStatus \cup {"THROWN"}, undone \in SUBSET EffectIds :
        /\ applied' = [applied EXCEPT ![t] =
                         [e \in EffectIds |-> IF e \in undone THEN 0 ELSE @[e]]]
        /\ IF status = "THROWN"
           THEN Goto(w, "catch") /\ UNCHANGED result
           ELSE /\ Goto(w, "compensated")
                /\ result' = [result EXCEPT ![w] = status]
  BY DEF Compensate
<1>3. applied' \in [Txs -> [EffectIds -> Nat]]
  BY <1>1, <1>2 DEF EngineTypeOK
<1>4. /\ result' \in [Workers -> ExecutionStatus \cup {NoResult}]
      /\ \A v \in Workers \ {w} : result'[v] = result[v]
  BY <1>2 DEF EngineTypeOK
<1>5. PICK label \in Label \ {"event", "finish"} : Goto(w, label)
  BY <1>2 DEF Label
<1>6. StoreTypeOK' /\ UNCHANGED <<todo, pending, calls>>
  BY DEF EngineTypeOK, StoreTypeOK, Compensate, storeVars
<1> QED BY <1>1, <1>3, <1>4, <1>5, <1>6, RunTyped DEF EngineTypeOK

LEMMA CompensationStoreErrorTyped ==
  ASSUME EngineTypeOK, NEW w \in Workers, CompensationStoreError(w)
  PROVE  EngineTypeOK'
<1>1. mem[w] \in Transaction
  BY CopyOfRun DEF CompensationStoreError
<1>2. [mem[w] EXCEPT !.status = "COMPENSATING"] \in Transaction
  BY <1>1, StatusUpdateTyped DEF TransactionStatus
<1>3. StoreTypeOK' /\ UNCHANGED <<result, todo, applied, calls>>
  BY DEF EngineTypeOK, StoreTypeOK, CompensationStoreError, storeVars, worldVars
<1>4. /\ pending' \in [Workers -> PendingEvent]
      /\ \A v \in Workers \ {w} : pending'[v] = pending[v]
  BY DEF EngineTypeOK, CompensationStoreError, NoEvent, PendingEvent, Label
<1>5. SetMem(w, [mem[w] EXCEPT !.status = "COMPENSATING"]) /\ Goto(w, "catch")
      /\ "catch" \in Label
  BY DEF CompensationStoreError, Label
<1> QED BY <1>2, <1>3, <1>4, <1>5, RunTyped DEF EngineTypeOK

LEMMA RecordEventTyped ==
  ASSUME EngineTypeOK, NEW w \in Workers, RecordEvent(w)
  PROVE  EngineTypeOK'
<1>1. mem[w] \in Transaction /\ mem[w].id \in Txs
  BY CopyOfRun DEF RecordEvent
<1>2. StoreTypeOK'
  <2>1. pending[w].type \in EventType
    BY DEF EngineTypeOK, RecordEvent, PendingEvent
  <2> QED BY <1>1, <2>1 DEF EngineTypeOK, StoreTypeOK, RecordEvent, AppendEvidence
<1>3. CASE pending[w].next = "idle"
  BY <1>2, <1>3, EndRunTyped DEF RecordEvent
<1>4. CASE pending[w].next # "idle"
  <2>1. SetMem(w, mem[w])
    BY <1>4, KeepCopy DEF RecordEvent
  <2>2. Goto(w, pending[w].next) /\ pending[w].next \in Label \ {"event", "finish"}
    BY <1>4 DEF EngineTypeOK, RecordEvent, PendingEvent
  <2>3. /\ pending' \in [Workers -> PendingEvent]
        /\ \A v \in Workers \ {w} : pending'[v] = pending[v]
    BY <1>4 DEF EngineTypeOK, RecordEvent, NoEvent, PendingEvent, Label
  <2> QED BY <1>1, <1>2, <1>4, <2>1, <2>2, <2>3, RunTyped
          DEF EngineTypeOK, RecordEvent, worldVars
<1> QED BY <1>3, <1>4

LEMMA OpenCaseTyped ==
  ASSUME EngineTypeOK, NEW w \in Workers, OpenCase(w)
  PROVE  EngineTypeOK'
<1>1. mem[w].id \in Txs
  BY CopyOfRun DEF OpenCase
<1>2. StoreTypeOK'
  BY <1>1 DEF EngineTypeOK, StoreTypeOK, OpenCase, OpenReconciliation
<1> QED BY <1>2, EndRunTyped DEF OpenCase

LEMMA AbandonTyped ==
  ASSUME EngineTypeOK, NEW w \in Workers, Abandon(w)
  PROVE  EngineTypeOK'
<1>1. StoreTypeOK'
  BY DEF EngineTypeOK, StoreTypeOK, Abandon, storeVars
<1> QED BY <1>1, EndRunTyped DEF Abandon

LEMMA EngineStepTyped ==
  ASSUME EngineTypeOK, NEW w \in Workers,
         (\E t \in Txs : Load(w, t)) \/ RunStep(w) \/ RunFault(w)
  PROVE  EngineTypeOK'
<1>1. CASE \E t \in Txs : Load(w, t)
  BY <1>1, LoadTyped
<1>2. CASE RunStep(w)
  BY <1>2, TransitionStepTyped, StoreStepTyped, ExecuteTyped, VerifyTyped,
     CompensateTyped, OpenCaseTyped, RecordEventTyped DEF RunStep
<1>3. CASE RunFault(w)
  BY <1>3, CompensationStoreErrorTyped, AbandonTyped DEF RunFault
<1> QED BY <1>1, <1>2, <1>3

LEMMA RunInitTyped ==
  ASSUME StoreTypeOK, RunInit
  PROVE  EngineTypeOK
<1>1. << >> \in Seq(ExecutionStatus)
  OBVIOUS
<1> QED BY <1>1 DEF RunInit, EngineTypeOK, Label, NoResult, NoEvent, PendingEvent

LEMMA EngineStutterTyped ==
  ASSUME EngineTypeOK, UNCHANGED engineVars
  PROVE  EngineTypeOK'
BY DEF EngineTypeOK, StoreTypeOK, engineVars, storeVars, runVars, worldVars

-----------------------------------------------------------------------------
(* What the functions that make new transactions return.                   *)

LEMMA CreatedTyped ==
  ASSUME NEW t \in Txs, NEW contract \in Contracts, NEW key \in Keys,
         NEW now \in Instants
  PROVE  CreateTransaction(t, contract, key, now) \in Transaction
<1>1. << >> \in Seq(TransactionAction)
  OBVIOUS
<1> QED BY <1>1 DEF CreateTransaction, Transaction, TransactionStatus

LEMMA AdmitTyped ==
  ASSUME NEW tx \in Transaction, NEW decision,
         decision.required \in SUBSET ApprovalRule
  PROVE  Admit(tx, decision) \in Transaction
<1> DEFINE begun == [tx EXCEPT !.status = "POLICY_EVALUATION"]
<1>1. begun \in Transaction
  BY StatusUpdateTyped DEF TransactionStatus
<1> HIDE DEF begun
<1>2. ApplyPolicy(begun, decision) \in Transaction
  BY <1>1 DEF ApplyPolicy, Transaction, TransactionStatus
<1> QED BY <1>2, StatusUpdateTyped DEF Admit, TransactionStatus, begun

-----------------------------------------------------------------------------
(* What the steps of a run write.                                          *)

\* tx has the approvals, and the rules, that copy has.
SameApprovals(tx, copy) ==
  tx.approvals = copy.approvals /\ tx.required = copy.required

\* tx is about the transaction copy is about.
SameIdentity(tx, copy) ==
  tx.id = copy.id /\ tx.contract = copy.contract /\ tx.key = copy.key

(***************************************************************************)
(* What a run in progress may do to the approvals, the contract and the    *)
(* key: nothing.  Its copy keeps them, and if it writes, it writes that    *)
(* copy.                                                                   *)
(***************************************************************************)
RunWrites(w, tx) ==
  /\ SameApprovals(tx, mem[w]) /\ SameIdentity(tx, mem[w])
  /\ SetMem(w, tx) \/ SetMem(w, NoRow)
  /\ PutTransaction(tx) \/ UNCHANGED transactions

LEMMA TransitionWrites ==
  ASSUME EngineTypeOK, NEW w \in Workers, pc[w] # "idle",
         NEW to \in TransactionStatus, NEW type, NEW next,
         Transition(w, to, type, next)
  PROVE  \E tx \in Transaction : RunWrites(w, tx)
<1> DEFINE tx == [mem[w] EXCEPT !.status = to]
<1>1. mem[w] \in Transaction /\ tx \in Transaction
  BY CopyOfRun, StatusUpdateTyped
<1>2. SameApprovals(tx, mem[w]) /\ SameIdentity(tx, mem[w])
  BY <1>1 DEF SameApprovals, SameIdentity, Transaction
<1> QED BY <1>1, <1>2 DEF RunWrites, Transition

\* The steps that are one call of transition().
LEMMA TransitionStepWrites ==
  ASSUME EngineTypeOK, NEW w \in Workers,
         \/ BeginExecuting(w) \/ NoExecutor(w)
         \/ ExecutionUnknown(w) \/ ExecutionFailed(w) \/ BeginVerifying(w)
         \/ Commit(w) \/ CompensationUnavailable(w) \/ CompensationDone(w)
         \/ CompensationCaught(w) \/ RequireReconciliation(w)
  PROVE  \E tx \in Transaction : RunWrites(w, tx)
<1>1. pc[w] # "idle"
  BY DEF BeginExecuting, NoExecutor, ExecutionUnknown, ExecutionFailed,
         BeginVerifying, Commit, CompensationUnavailable, CompensationDone,
         CompensationCaught, RequireReconciliation
<1>2. PICK to \in TransactionStatus :
        \E type \in EventType, next \in Label : Transition(w, to, type, next)
  BY DEF BeginExecuting, NoExecutor, ExecutionUnknown, ExecutionFailed,
         BeginVerifying, Commit, CompensationUnavailable, CompensationDone,
         CompensationCaught, RequireReconciliation,
         TransactionStatus, EventType, Label
<1> QED BY <1>1, <1>2, TransitionWrites

\* The steps that change the list of actions, or the observations.
LEMMA CopyStepWrites ==
  ASSUME EngineTypeOK, NEW w \in Workers,
         \/ StartAction(w) \/ FinishAction(w) \/ VerificationNotRequired(w)
         \/ Verify(w) \/ VerifyDone(w) \/ DecideOutcome(w)
         \/ CompensationStoreError(w)
  PROVE  \E tx \in Transaction : RunWrites(w, tx)
<1>1. pc[w] # "idle"
  BY DEF StartAction, FinishAction, VerificationNotRequired, Verify, VerifyDone,
         DecideOutcome, CompensationStoreError
<1>2. mem[w] \in Transaction
  BY <1>1, CopyOfRun
<1>3. PICK tx : /\ SetMem(w, tx)
                /\ PutTransaction(tx) \/ UNCHANGED transactions
                /\ SameApprovals(tx, mem[w]) /\ SameIdentity(tx, mem[w])
  <2> USE <1>2 DEF SameApprovals, SameIdentity, Transaction
  <2>1. CASE StartAction(w)
    <3>1. PICK name \in Executors :
            LET tx == [mem[w] EXCEPT !.actions =
                         Append(@, [executor |-> name, status |-> "EXECUTING"])]
            IN SetMem(w, tx) /\ PutTransaction(tx)
      BY <2>1 DEF StartAction
    <3> QED BY <3>1
  <2>2. CASE FinishAction(w)
    BY <2>2 DEF FinishAction
  <2>3. CASE VerificationNotRequired(w)
    BY <2>3 DEF VerificationNotRequired
  <2>4. CASE Verify(w)
    BY <2>4 DEF Verify, AddObservation, storeVars
  <2>5. CASE VerifyDone(w)
    BY <2>5, KeepCopy DEF VerifyDone
  <2>6. CASE DecideOutcome(w)
    BY <2>6 DEF DecideOutcome, DecideVerificationOutcome
  <2>7. CASE CompensationStoreError(w)
    BY <2>7 DEF CompensationStoreError, storeVars
  <2> QED BY <2>1, <2>2, <2>3, <2>4, <2>5, <2>6, <2>7
<1>4. EngineTypeOK'
  BY EngineStepTyped DEF RunStep, RunFault
<1>5. tx \in Transaction
  <2>1. mem'[w] = tx /\ pc'[w] # "idle"
    BY <1>1, <1>3 DEF EngineTypeOK, SetMem, StartAction, FinishAction,
       VerificationNotRequired, Verify, VerifyDone, DecideOutcome,
       CompensationStoreError, Emit, Goto
  <2> QED BY <1>4, <2>1 DEF EngineTypeOK
<1> QED BY <1>3, <1>5 DEF RunWrites

\* The steps that leave the row alone.
LEMMA OtherStepWrites ==
  ASSUME EngineTypeOK, NEW w \in Workers,
         Execute(w) \/ Compensate(w) \/ OpenCase(w) \/ RecordEvent(w) \/ Abandon(w)
  PROVE  \E tx \in Transaction : RunWrites(w, tx)
<1>1. mem[w] \in Transaction
  BY CopyOfRun DEF Execute, Compensate, OpenCase, RecordEvent, Abandon
<1>2. UNCHANGED transactions
  BY DEF Execute, Compensate, OpenCase, RecordEvent, Abandon, storeVars
<1>3. SetMem(w, mem[w]) \/ SetMem(w, NoRow)
  BY KeepCopy DEF Execute, Compensate, OpenCase, RecordEvent, Abandon, EndRun
<1> QED BY <1>1, <1>2, <1>3 DEF RunWrites, SameApprovals, SameIdentity

LEMMA RunStepWrites ==
  ASSUME EngineTypeOK, NEW w \in Workers, RunStep(w) \/ RunFault(w)
  PROVE  /\ pc[w] # "idle"
         /\ \E tx \in Transaction : RunWrites(w, tx)
<1>1. pc[w] # "idle"
  BY DEF RunStep, RunFault, BeginExecuting, NoExecutor,
     StartAction, Execute, FinishAction, ExecutionUnknown, ExecutionFailed,
     BeginVerifying, VerificationNotRequired, Verify, VerifyDone, DecideOutcome,
     Commit, CompensationUnavailable, Compensate, CompensationDone,
     CompensationCaught, RequireReconciliation, OpenCase, RecordEvent,
     CompensationStoreError, Abandon
<1>2. \E tx \in Transaction : RunWrites(w, tx)
  BY TransitionStepWrites, CopyStepWrites, OtherStepWrites DEF RunStep, RunFault
<1> QED BY <1>1, <1>2

\* If a run writes, it writes the copy it goes on with.
LEMMA RunPutsItsCopy ==
  ASSUME EngineTypeOK, NEW w \in Workers, RunStep(w) \/ RunFault(w)
  PROVE  \/ UNCHANGED transactions
         \/ pc'[w] # "idle" /\ PutTransaction(mem'[w])
<1> USE DEF EngineTypeOK
<1>1. CASE \E to, type, next : Transition(w, to, type, next)
  BY <1>1 DEF Transition, SetMem, Emit, Goto
<1>2. CASE StartAction(w)
  BY <1>2 DEF StartAction, SetMem, Goto
<1>3. CASE FinishAction(w) \/ VerificationNotRequired(w) \/ VerifyDone(w)
           \/ DecideOutcome(w)
  BY <1>3 DEF FinishAction, VerificationNotRequired, VerifyDone, DecideOutcome,
              SetMem, Emit, Goto
<1>4. CASE Execute(w) \/ Verify(w) \/ Compensate(w) \/ OpenCase(w) \/ RecordEvent(w)
           \/ CompensationStoreError(w) \/ Abandon(w)
  BY <1>4 DEF Execute, Verify, Compensate, OpenCase, RecordEvent,
              CompensationStoreError, Abandon, storeVars
<1> QED BY <1>1, <1>2, <1>3, <1>4
        DEF RunStep, RunFault, BeginExecuting, NoExecutor, ExecutionUnknown,
            ExecutionFailed, BeginVerifying, Commit, CompensationUnavailable,
            CompensationDone, CompensationCaught, RequireReconciliation

-----------------------------------------------------------------------------
(***************************************************************************)
(* Where a run stands decides what status its copy has: the run is alone   *)
(* with its copy, so no other process can disturb this.  While it waits    *)
(* for the evidence insert, it is where it will go on that counts.         *)
(***************************************************************************)
Standing(w) == IF pc[w] = "event" THEN pending[w].next ELSE pc[w]

ExpectedStatus(label) ==
  CASE label = "loaded"
         -> {"READY", "FAILED_INFRASTRUCTURE"}
    [] label \in {"select", "call", "finish", "decide"}
         -> {"EXECUTING"}
    [] label \in {"verify", "outcome"}
         -> {"VERIFYING"}
    [] label = "commit"
         -> {"COMMITTING"}
    [] label \in {"compensate", "compensated", "catch"}
         -> {"COMPENSATING"}
    [] label = "reconcile"
         -> {"UNKNOWN_EFFECT", "RECONCILIATION_REQUIRED"}
    [] OTHER
         -> TransactionStatus

StatusInv ==
  \A w \in Workers : pc[w] # "idle" => mem[w].status \in ExpectedStatus(Standing(w))

\* A run that has just called transition() goes on at next with status to.
LEMMA TransitionStands ==
  ASSUME EngineTypeOK, NEW w \in Workers, pc[w] # "idle", NEW to, NEW type,
         NEW next, to \in ExpectedStatus(next), Transition(w, to, type, next)
  PROVE  mem'[w].status \in ExpectedStatus(Standing(w)')
<1>1. mem'[w] = [mem[w] EXCEPT !.status = to]
  BY DEF EngineTypeOK, Transition, SetMem
<1>2. mem'[w].status = to
  BY <1>1, CopyOfRun DEF Transaction
<1>3. Standing(w)' = next
  BY DEF EngineTypeOK, Transition, Emit, Goto, Standing
<1> QED BY <1>2, <1>3

LEMMA TransitionStepStands ==
  ASSUME EngineTypeOK, StatusInv, NEW w \in Workers,
         \/ BeginExecuting(w) \/ NoExecutor(w)
         \/ ExecutionUnknown(w) \/ ExecutionFailed(w) \/ BeginVerifying(w)
         \/ Commit(w) \/ CompensationUnavailable(w) \/ CompensationDone(w)
         \/ CompensationCaught(w) \/ RequireReconciliation(w)
  PROVE  mem'[w].status \in ExpectedStatus(Standing(w)')
<1>1. pc[w] # "idle"
  BY DEF BeginExecuting, NoExecutor, ExecutionUnknown, ExecutionFailed,
         BeginVerifying, Commit, CompensationUnavailable, CompensationDone,
         CompensationCaught, RequireReconciliation
<1>2. \E to, type, next : to \in ExpectedStatus(next) /\ Transition(w, to, type, next)
  <2> USE DEF ExpectedStatus, TransactionStatus
  <2>1. CASE BeginExecuting(w)
    BY <2>1 DEF BeginExecuting
  <2>2. CASE NoExecutor(w)
    BY <2>2 DEF NoExecutor
  <2>3. CASE ExecutionUnknown(w)
    BY <2>3 DEF ExecutionUnknown
  <2>4. CASE ExecutionFailed(w)
    BY <2>4 DEF ExecutionFailed
  <2>5. CASE BeginVerifying(w)
    BY <2>5 DEF BeginVerifying
  <2>6. CASE Commit(w)
    BY <2>6 DEF Commit
  <2>7. CASE CompensationUnavailable(w)
    BY <2>7 DEF CompensationUnavailable
  <2>8. CASE CompensationDone(w)
    BY <2>8 DEF CompensationDone
  <2>9. CASE CompensationCaught(w)
    BY <2>9 DEF CompensationCaught
  <2>10. CASE RequireReconciliation(w)
    BY <2>10 DEF RequireReconciliation
  <2> QED BY <2>1, <2>2, <2>3, <2>4, <2>5, <2>6, <2>7, <2>8, <2>9, <2>10
<1> QED BY <1>1, <1>2, TransitionStands

\* What decideVerificationOutcome answers is where run() branches to.
LEMMA DecideStands ==
  ASSUME EngineTypeOK, NEW w \in Workers, DecideOutcome(w)
  PROVE  mem'[w].status \in ExpectedStatus(Standing(w)')
<1> DEFINE tx == DecideVerificationOutcome(mem[w], DocOf(w))
<1>1. tx.status \in {"COMMITTING", "COMPENSATING", "RECONCILIATION_REQUIRED",
                     "UNKNOWN_EFFECT"}
  BY CopyOfRun DEF DecideOutcome, DecideVerificationOutcome, Transaction
<1>2. mem'[w] = tx
  BY DEF EngineTypeOK, DecideOutcome, SetMem
<1>3. Standing(w)' = CASE tx.status = "COMMITTING"   -> "commit"
                       [] tx.status = "COMPENSATING" -> "compensate"
                       [] OTHER                      -> "reconcile"
  BY DEF EngineTypeOK, DecideOutcome, Emit, Goto, Standing
<1> HIDE DEF tx
<1> QED BY <1>1, <1>2, <1>3 DEF ExpectedStatus

LEMMA StepStands ==
  ASSUME EngineTypeOK, StatusInv, NEW w \in Workers,
         (\E t \in Txs : Load(w, t)) \/ RunStep(w) \/ RunFault(w)
  PROVE  pc'[w] # "idle" => mem'[w].status \in ExpectedStatus(Standing(w)')
<1> USE DEF EngineTypeOK
<1>1. CASE \E t \in Txs : Load(w, t)
  BY <1>1 DEF Load, SetMem, Goto, Standing, ExpectedStatus, Runnable
<1>2. CASE Execute(w)
  BY <1>2 DEF StatusInv, Execute, Goto, Standing, ExpectedStatus
<1>3. CASE StartAction(w)
  <2>1. pc[w] # "idle" /\ mem[w] \in Transaction
    BY <1>3, CopyOfRun DEF StartAction
  <2>2. mem'[w].status = mem[w].status
    <3>1. PICK name \in Executors :
            SetMem(w, [mem[w] EXCEPT !.actions =
                         Append(@, [executor |-> name, status |-> "EXECUTING"])])
      BY <1>3 DEF StartAction
    <3> QED BY <2>1, <3>1 DEF SetMem, Transaction
  <2> QED BY <1>3, <2>2 DEF StatusInv, StartAction, Goto, Standing, ExpectedStatus
<1>4. CASE FinishAction(w)
  <2>1. mem'[w].status = mem[w].status
    BY <1>4, CopyOfRun DEF FinishAction, SetMem, Transaction
  <2> QED BY <1>4, <2>1 DEF StatusInv, FinishAction, Emit, Goto, Standing, ExpectedStatus
<1>5. CASE VerificationNotRequired(w)
  <2>1. mem'[w].status = mem[w].status
    BY <1>5, CopyOfRun DEF VerificationNotRequired, SetMem, Transaction
  <2> QED BY <1>5, <2>1 DEF StatusInv, VerificationNotRequired, Goto, Standing,
                            ExpectedStatus
<1>6. CASE Verify(w)
  <2>1. mem'[w].status = mem[w].status
    BY <1>6, CopyOfRun DEF Verify, AddObservation, SetMem, Transaction
  <2>2. pc[w] = "verify" /\ Standing(w)' = "verify"
    BY <1>6 DEF Verify, Emit, Goto, Standing
  <2>3. mem[w].status \in ExpectedStatus("verify")
    BY <2>2 DEF StatusInv, Standing
  <2> QED BY <2>1, <2>2, <2>3 DEF ExpectedStatus
<1>7. CASE VerifyDone(w)
  BY <1>7 DEF StatusInv, VerifyDone, Goto, Standing, ExpectedStatus
<1>8. CASE DecideOutcome(w)
  BY <1>8, DecideStands
<1>9. CASE Compensate(w)
  <2>1. mem' = mem /\ pc'[w] \in {"compensated", "catch"}
    BY <1>9 DEF Compensate, Goto
  <2>2. mem[w].status \in ExpectedStatus("compensate")
    BY <1>9 DEF StatusInv, Compensate, Standing
  <2> QED BY <2>1, <2>2 DEF Standing, ExpectedStatus
<1>10. CASE CompensationStoreError(w)
  BY <1>10, CopyOfRun
     DEF CompensationStoreError, SetMem, Goto, Standing, ExpectedStatus, Transaction
<1>11. CASE RecordEvent(w)
  <2>1. CASE pending[w].next = "idle"
    BY <1>11, <2>1 DEF RecordEvent, EndRun, Goto
  <2>2. CASE pending[w].next # "idle"
    <3>1. pc'[w] = pending[w].next /\ pc'[w] # "event" /\ mem' = mem
      BY <1>11, <2>2 DEF RecordEvent, Goto, PendingEvent
    <3> QED BY <1>11, <3>1 DEF StatusInv, RecordEvent, Standing
  <2> QED BY <2>1, <2>2
<1>12. CASE OpenCase(w) \/ Abandon(w)
  BY <1>12 DEF OpenCase, Abandon, EndRun, Goto
<1> QED BY <1>1, <1>2, <1>3, <1>4, <1>5, <1>6, <1>7, <1>8, <1>9, <1>10, <1>11,
           <1>12, TransitionStepStands DEF RunStep, RunFault

\* Every step of a run is its own: the other runs stay where they are.
LEMMA OthersStand ==
  ASSUME EngineTypeOK, NEW w \in Workers, NEW v \in Workers \ {w},
         (\E t \in Txs : Load(w, t)) \/ RunStep(w) \/ RunFault(w)
  PROVE  pc'[v] = pc[v] /\ mem'[v] = mem[v] /\ pending'[v] = pending[v]
<1> USE DEF EngineTypeOK
<1>1. CASE \E t \in Txs : Load(w, t)
  BY <1>1 DEF Load, SetMem, Goto
<1>2. CASE \E to, type, next : Transition(w, to, type, next)
  BY <1>2 DEF Transition, SetMem, Emit, Goto
<1>3. CASE StartAction(w) \/ FinishAction(w) \/ VerificationNotRequired(w)
           \/ Verify(w) \/ VerifyDone(w) \/ DecideOutcome(w)
  BY <1>3 DEF StartAction, FinishAction, VerificationNotRequired, Verify, VerifyDone,
              DecideOutcome, SetMem, Emit, Goto
<1>4. CASE Execute(w) \/ Compensate(w) \/ OpenCase(w) \/ RecordEvent(w)
           \/ CompensationStoreError(w) \/ Abandon(w)
  BY <1>4 DEF Execute, Compensate, OpenCase, RecordEvent, CompensationStoreError,
              Abandon, EndRun, SetMem, Goto
<1> QED BY <1>1, <1>2, <1>3, <1>4
        DEF RunStep, RunFault, BeginExecuting, NoExecutor, ExecutionUnknown,
            ExecutionFailed, BeginVerifying, Commit, CompensationUnavailable,
            CompensationDone, CompensationCaught, RequireReconciliation

\* No other run is moved, nor does it lose its answer.
LEMMA OthersKeep ==
  ASSUME EngineTypeOK, NEW w \in Workers, NEW v \in Workers \ {w},
         (\E t \in Txs : Load(w, t)) \/ RunStep(w) \/ RunFault(w)
  PROVE  /\ pc'[v] = pc[v] /\ mem'[v] = mem[v] /\ pending'[v] = pending[v]
         /\ result'[v] = result[v]
<1>1. result'[v] = result[v]
  BY DEF EngineTypeOK, Load, RunStep, RunFault, BeginExecuting, NoExecutor,
     StartAction, Execute, FinishAction, ExecutionUnknown, ExecutionFailed,
     BeginVerifying, VerificationNotRequired, Verify, VerifyDone, DecideOutcome,
     Commit, CompensationUnavailable, Compensate, CompensationDone,
     CompensationCaught, RequireReconciliation, OpenCase, RecordEvent,
     CompensationStoreError, Abandon, EndRun
<1> QED BY <1>1, OthersStand

LEMMA RunInitStands == RunInit => StatusInv
BY DEF RunInit, StatusInv

LEMMA RunStepStands ==
  ASSUME EngineTypeOK, StatusInv, NEW w \in Workers,
         (\E t \in Txs : Load(w, t)) \/ RunStep(w) \/ RunFault(w)
  PROVE  StatusInv'
<1>1. ASSUME NEW v \in Workers, pc'[v] # "idle"
      PROVE  mem'[v].status \in ExpectedStatus(Standing(v)')
  <2>1. CASE v = w
    BY <1>1, <2>1, StepStands
  <2>2. CASE v # w
    <3>1. pc'[v] = pc[v] /\ mem'[v] = mem[v] /\ pending'[v] = pending[v]
      BY <2>2, OthersStand
    <3> QED BY <1>1, <3>1 DEF StatusInv, Standing
  <2> QED BY <2>1, <2>2
<1> QED BY <1>1 DEF StatusInv

LEMMA StatusStutters ==
  ASSUME StatusInv, UNCHANGED runVars
  PROVE  StatusInv'
BY DEF StatusInv, Standing, runVars

-----------------------------------------------------------------------------
(* The engine on its own.                                                  *)

\* What the API admits without approval rules is ready.
LEMMA AdmittedReady ==
  ASSUME NEW tx \in Transaction
  PROVE  LET admitted == Admit(tx, [allow |-> TRUE, required |-> {}])
         IN /\ admitted \in Transaction
            /\ admitted.status = "READY"
            /\ admitted.id = tx.id /\ admitted.contract = tx.contract
            /\ admitted.actions = tx.actions
            /\ admitted.observations = tx.observations
<1> DEFINE decision == [allow |-> TRUE, required |-> {}]
<1>1. Admit(tx, decision) \in Transaction
  BY AdmitTyped
<1>2. decision.allow /\ decision.required = {}
  OBVIOUS
<1> HIDE DEF decision
<1>3. /\ Admit(tx, decision).status = "READY"
      /\ Admit(tx, decision).id = tx.id
      /\ Admit(tx, decision).contract = tx.contract
      /\ Admit(tx, decision).actions = tx.actions
      /\ Admit(tx, decision).observations = tx.observations
  BY <1>2 DEF Admit, ApplyPolicy, Transaction
<1> QED BY <1>1, <1>3 DEF decision

\* At the start every row is there, ready and untried.
LEMMA EngineInitRows ==
  ASSUME EngineInit, NEW t \in Txs
  PROVE  /\ transactions[t] \in Transaction
         /\ transactions[t].id = t
         /\ transactions[t].status = "READY"
         /\ transactions[t].actions = << >>
         /\ transactions[t].observations = {}
<1>1. PICK u \in Txs, contract \in Contracts, key \in Keys, now \in Instants :
        transactions[t] = Admit(CreateTransaction(u, contract, key, now),
                                [allow |-> TRUE, required |-> {}])
  BY DEF EngineInit
<1>2. CreateTransaction(u, contract, key, now) \in Transaction
  BY CreatedTyped
<1>3. /\ CreateTransaction(u, contract, key, now).actions = << >>
      /\ CreateTransaction(u, contract, key, now).observations = {}
  BY DEF CreateTransaction
<1> QED BY <1>1, <1>2, <1>3, AdmittedReady DEF EngineInit

LEMMA EngineInitTyped == EngineInit => EngineTypeOK
<1> SUFFICES ASSUME EngineInit PROVE EngineTypeOK
  OBVIOUS
<1>1. transactions \in [Txs -> Transaction \cup {NoRow}]
  BY EngineInitRows DEF EngineInit
<1>2. StoreTypeOK
  BY <1>1 DEF StoreTypeOK, EngineInit
<1> QED BY <1>2, RunInitTyped DEF EngineInit

LEMMA EngineNextTyped ==
  ASSUME EngineTypeOK, [EngineNext]_engineVars
  PROVE  EngineTypeOK'
BY EngineStepTyped, EngineStutterTyped DEF EngineNext

(***************************************************************************)
(* The tables and the runs keep their types whatever the adapters answer,  *)
(* wherever runs crash, and however many workers run a transaction at the  *)
(* same time (index.ts:45-155).                                            *)
(***************************************************************************)
THEOREM EngineTypeCorrect == EngineSpec => []EngineTypeOK
BY EngineInitTyped, EngineNextTyped, PTL DEF EngineSpec

LEMMA EngineNextStands ==
  ASSUME EngineTypeOK, StatusInv, [EngineNext]_engineVars
  PROVE  StatusInv'
<1>1. CASE EngineNext
  BY <1>1, RunStepStands DEF EngineNext
<1>2. CASE UNCHANGED engineVars
  BY <1>2, StatusStutters DEF engineVars
<1> QED BY <1>1, <1>2

(***************************************************************************)
(* Where a run stands decides what status its copy has (index.ts:49-141),  *)
(* also when other runs overwrite the row it once read.                    *)
(***************************************************************************)
THEOREM EngineStatusHolds == EngineSpec => []StatusInv
<1>1. EngineInit => StatusInv
  BY RunInitStands DEF EngineInit
<1> QED BY <1>1, EngineTypeCorrect, EngineNextStands, PTL DEF EngineSpec

=============================================================================
