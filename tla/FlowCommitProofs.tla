-------------------------- MODULE FlowCommitProofs --------------------------
(***************************************************************************)
(* Theorems of FlowCommit!Spec for any number of workers, requests and     *)
(* transactions: type correctness, the approval gate, and that no run is   *)
(* ever refused a change of status.                                        *)
(***************************************************************************)
EXTENDS FlowCommit, EngineProofs

-----------------------------------------------------------------------------
(* Type correctness: every step of a handler.                              *)

LEMMA RecordApprovalTyped ==
  ASSUME NEW tx \in Transaction, NEW approval \in ApprovalRecord
  PROVE  RecordApproval(tx, approval) \in Transaction
BY DEF RecordApproval, Transaction, TransactionStatus

LEMMA DecisionTyped ==
  ASSUME NEW decision \in Decisions
  PROVE  decision.required \in SUBSET ApprovalRule
BY ControlPlaneAssumption DEF PolicyDecision

LEMMA HoldTyped ==
  ASSUME ControlPlaneTypeOK, NEW r \in Requests, NEW tx \in Transaction,
         NEW to \in {"evaluating", "writing"}, Hold(r, to, tx)
  PROVE  ControlPlaneTypeOK'
BY NoRowAssumption DEF ControlPlaneTypeOK, Hold, Stage

LEMMA FinishRequestTyped ==
  ASSUME ControlPlaneTypeOK, NEW r \in Requests, NEW answer \in Reply,
         Finish(r, answer)
  PROVE  ControlPlaneTypeOK'
BY DEF ControlPlaneTypeOK, Finish, Stage

LEMMA AnswersTyped ==
  /\ \A code \in {200, 201}, tx \in Transaction : Answer(code, tx) \in Reply
  /\ \A code \in {409, 500} : Refusal(code) \in Reply
BY DEF Answer, Refusal, Reply, Transaction

LEMMA HeldTyped ==
  ASSUME ControlPlaneTypeOK, NEW r \in Requests, stage[r] \in {"evaluating", "writing"}
  PROVE  held[r] \in Transaction
BY DEF ControlPlaneTypeOK

\* A handler never touches what belongs to the runs.
LEMMA RunsUntouched ==
  ASSUME EngineTypeOK, StoreTypeOK', UNCHANGED <<runVars, worldVars>>
  PROVE  EngineTypeOK'
BY DEF EngineTypeOK, runVars, worldVars

LEMMA HandlerTyped ==
  ASSUME TypeOK, NEW r \in Requests, HandlerStep(r), UNCHANGED <<runVars, worldVars>>
  PROVE  TypeOK'
<1> USE DEF TypeOK
<1>0. StoreTypeOK
  BY DEF EngineTypeOK
<1>1. CASE CreateLookup(r)
  <2>1. StoreTypeOK'
    BY <1>0, <1>1 DEF StoreTypeOK, CreateLookup, storeVars
  <2>2. PICK contract \in Contracts, key \in Keys :
          \/ \E t \in FindByIdempotency(key) : Finish(r, Answer(200, transactions[t]))
          \/ \E t \in Txs, now \in Instants :
               Hold(r, "evaluating", CreateTransaction(t, contract, key, now))
    BY <1>1 DEF CreateLookup
  <2>3. \A t \in FindByIdempotency(key) : transactions[t] \in Transaction
    BY <1>0, RowOfStored DEF FindByIdempotency, Stored
  <2> QED BY <2>1, <2>2, <2>3, RunsUntouched, AnswersTyped, FinishRequestTyped,
             CreatedTyped, HoldTyped
<1>2. CASE CreateInsert(r)
  <2>1. PICK decision \in Decisions :
          LET tx == Admit(held[r], decision)
          IN IF KeyIsFree(tx)
             THEN PutTransaction(tx) /\ Finish(r, Answer(201, tx))
             ELSE Finish(r, Refusal(500)) /\ UNCHANGED transactions
    BY <1>2 DEF CreateInsert
  <2>2. Admit(held[r], decision) \in Transaction
    BY <1>2, HeldTyped, DecisionTyped, AdmitTyped DEF CreateInsert
  <2>3. StoreTypeOK'
    BY <1>0, <1>2, <2>1, <2>2, PutTyped DEF StoreTypeOK, CreateInsert
  <2> QED BY <2>1, <2>2, <2>3, RunsUntouched, AnswersTyped, FinishRequestTyped
<1>3. CASE ApproveRead(r)
  <2>1. StoreTypeOK'
    BY <1>0, <1>3 DEF StoreTypeOK, ApproveRead, storeVars
  <2>2. PICK t \in Stored :
          \/ \E approval \in ApprovalRecord :
               Hold(r, "writing", RecordApproval(transactions[t], approval))
          \/ Finish(r, Refusal(500))
    BY <1>3 DEF ApproveRead
  <2>3. transactions[t] \in Transaction
    BY <1>0, RowOfStored DEF Stored
  <2> QED BY <2>1, <2>2, <2>3, RunsUntouched, AnswersTyped, FinishRequestTyped,
             RecordApprovalTyped, HoldTyped
<1>4. CASE CancelRead(r)
  <2>1. StoreTypeOK'
    BY <1>0, <1>4 DEF StoreTypeOK, CancelRead, storeVars
  <2>2. PICK t \in Stored :
          \/ Hold(r, "writing", [transactions[t] EXCEPT !.status = "CANCELLED"])
          \/ Finish(r, Refusal(409))
    BY <1>4 DEF CancelRead
  <2>3. [transactions[t] EXCEPT !.status = "CANCELLED"] \in Transaction
    BY <1>0, RowOfStored, StatusUpdateTyped DEF Stored, TransactionStatus
  <2> QED BY <2>1, <2>2, <2>3, RunsUntouched, AnswersTyped, FinishRequestTyped, HoldTyped
<1>5. CASE WriteBack(r)
  <2>1. held[r] \in Transaction
    BY <1>5, HeldTyped DEF WriteBack
  <2>2. StoreTypeOK'
    BY <1>0, <1>5, <2>1, PutTyped DEF StoreTypeOK, WriteBack
  <2> QED BY <1>5, <2>1, <2>2, RunsUntouched, AnswersTyped, FinishRequestTyped
          DEF WriteBack
<1>6. CASE RequestFails(r)
  <2>1. StoreTypeOK'
    BY <1>0, <1>6 DEF StoreTypeOK, RequestFails, storeVars
  <2> QED BY <1>6, <2>1, RunsUntouched, AnswersTyped, FinishRequestTyped
          DEF RequestFails
<1> QED BY <1>1, <1>2, <1>3, <1>4, <1>5, <1>6 DEF HandlerStep

-----------------------------------------------------------------------------
LEMMA InitTyped == Init => TypeOK
<1> SUFFICES ASSUME Init PROVE TypeOK
  OBVIOUS
<1>1. StoreTypeOK
  BY DEF Init, StoreTypeOK
<1>2. EngineTypeOK
  BY <1>1, RunInitTyped DEF Init
<1>3. ControlPlaneTypeOK
  BY DEF Init, ControlPlaneInit, ControlPlaneTypeOK, Stage, NoReply, Reply
<1> QED BY <1>2, <1>3 DEF TypeOK

LEMMA StepTyped == TypeOK /\ [Next]_vars => TypeOK'
<1> SUFFICES ASSUME TypeOK, [Next]_vars PROVE TypeOK'
  OBVIOUS
<1>1. ASSUME NEW r \in Requests, HandlerStep(r), UNCHANGED <<runVars, worldVars>>
      PROVE  TypeOK'
  BY <1>1, HandlerTyped
<1>2. ASSUME NEW w \in Workers,
             (\E t \in Txs : Load(w, t)) \/ RunStep(w) \/ RunFault(w),
             UNCHANGED requestVars
      PROVE  TypeOK'
  <2>1. EngineTypeOK'
    BY <1>2, EngineStepTyped DEF TypeOK
  <2>2. ControlPlaneTypeOK'
    BY <1>2 DEF TypeOK, ControlPlaneTypeOK, requestVars
  <2> QED BY <2>1, <2>2 DEF TypeOK
<1>3. CASE UNCHANGED vars
  BY <1>3 DEF TypeOK, EngineTypeOK, StoreTypeOK, ControlPlaneTypeOK, vars, storeVars,
              requestVars, runVars, worldVars
<1> QED BY <1>1, <1>2, <1>3 DEF Next

(***************************************************************************)
(* Every variable of the API, the runs, the rows and the world keeps its   *)
(* type, and a run never waits for what it has not got: a copy, an answer  *)
(* of the executor, an event (Engine!EngineTypeOK; index.ts:45-155).       *)
(***************************************************************************)
THEOREM TypeCorrect == Spec => []TypeOK
<1> QED BY InitTyped, StepTyped, PTL DEF Spec

-----------------------------------------------------------------------------
(***************************************************************************)
(* The approval gate.  A run cannot look at the row again, so the          *)
(* invariant follows the approvals through every copy: the one of a run    *)
(* passed the gate when it was read, the one of a handler is either fit to *)
(* be written or is a new transaction nobody has approved yet.             *)
(***************************************************************************)
GateOpen(tx) ==
  /\ ~ApprovalRejected(tx.approvals)
  /\ ApprovalsSatisfy(tx.required, tx.approvals)

ApprovalInv ==
  /\ \A t \in Stored : ApprovalsHold(transactions[t])
  /\ \A w \in Workers : mem[w] # NoRow => GateOpen(mem[w])
  /\ \A r \in Requests : /\ stage[r] = "evaluating" => held[r].approvals = {}
                         /\ stage[r] = "writing" => ApprovalsHold(held[r])

LEMMA GateKept ==
  ASSUME NEW copy, NEW tx, SameApprovals(tx, copy), GateOpen(copy)
  PROVE  GateOpen(tx) /\ ApprovalsHold(tx)
BY DEF GateOpen, ApprovalsHold, SameApprovals

\* Status, rules and approvals are written together (db/src/index.ts:22-27).
LEMMA PutKeepsApprovals ==
  ASSUME StoreTypeOK, \A t \in Stored : ApprovalsHold(transactions[t]),
         NEW tx \in Transaction, ApprovalsHold(tx), PutTransaction(tx)
  PROVE  (\A t \in Stored : ApprovalsHold(transactions[t]))'
<1>1. tx.id \in Txs
  BY DEF Transaction
<1>2. LET row == Upsert(transactions[tx.id], tx)
      IN row.status = tx.status /\ SameApprovals(row, tx)
  <2>1. CASE transactions[tx.id] = NoRow
    BY <2>1 DEF Upsert, SameApprovals
  <2>2. CASE transactions[tx.id] # NoRow
    BY <1>1, <2>2, RowOfStored DEF Upsert, SameApprovals, Transaction
  <2> QED BY <2>1, <2>2
<1>3. ApprovalsHold(Upsert(transactions[tx.id], tx))
  BY <1>2 DEF ApprovalsHold, SameApprovals
<1>4. ASSUME NEW t \in Txs, transactions'[t] # NoRow
      PROVE  ApprovalsHold(transactions'[t])
  <2>1. CASE t = tx.id
    BY <1>3, <2>1 DEF PutTransaction, StoreTypeOK
  <2>2. CASE t # tx.id
    BY <1>4, <2>2 DEF PutTransaction, StoreTypeOK, Stored
  <2> QED BY <2>1, <2>2
<1> QED BY <1>4 DEF Stored

LEMMA RunKeepsApprovals ==
  ASSUME EngineTypeOK, ApprovalInv, NEW w \in Workers, UNCHANGED requestVars,
         (\E t \in Txs : Load(w, t)) \/ RunStep(w) \/ RunFault(w)
  PROVE  ApprovalInv'
<1> USE DEF ApprovalInv, requestVars
<1>1. CASE \E t \in Txs : Load(w, t)
  <2>1. PICK t \in Txs : Load(w, t)
    BY <1>1
  <2>2. ApprovalsHold(transactions[t]) /\ transactions[t].status \in Authorized
    BY <2>1 DEF Load, Stored, Runnable, Authorized
  <2>3. GateOpen(transactions[t])
    BY <2>2 DEF GateOpen, ApprovalsHold
  <2> QED BY <2>1, <2>3 DEF Load, SetMem, EngineTypeOK, storeVars, Stored
<1>2. CASE RunStep(w) \/ RunFault(w)
  <2>1. PICK tx \in Transaction : RunWrites(w, tx)
    BY <1>2, TransitionStepWrites, CopyStepWrites, OtherStepWrites
       DEF RunStep, RunFault
  <2>2. mem[w] # NoRow
    BY <1>2 DEF EngineTypeOK, RunStep, RunFault, BeginExecuting, NoExecutor,
       StartAction, Execute, FinishAction, ExecutionUnknown, ExecutionFailed,
       BeginVerifying, VerificationNotRequired, Verify, VerifyDone, DecideOutcome,
       Commit, CompensationUnavailable, Compensate, CompensationDone,
       CompensationCaught, RequireReconciliation, OpenCase, RecordEvent,
       CompensationStoreError, Abandon
  <2>3. GateOpen(tx) /\ ApprovalsHold(tx)
    BY <2>1, <2>2, GateKept DEF RunWrites
  <2>4. (\A t \in Stored : ApprovalsHold(transactions[t]))'
    BY <2>1, <2>3, PutKeepsApprovals DEF RunWrites, EngineTypeOK, Stored
  <2>5. (\A v \in Workers : mem[v] # NoRow => GateOpen(mem[v]))'
    BY <2>1, <2>3 DEF RunWrites, SetMem, EngineTypeOK
  <2> QED BY <2>4, <2>5
<1> QED BY <1>1, <1>2

LEMMA HandlerKeepsApprovals ==
  ASSUME TypeOK, ApprovalInv, NEW r \in Requests, HandlerStep(r), UNCHANGED runVars
  PROVE  ApprovalInv'
<1> USE DEF ApprovalInv, runVars, TypeOK
<1>0. StoreTypeOK
  BY DEF EngineTypeOK
<1>1. ASSUME NEW answer, Finish(r, answer), UNCHANGED transactions
      PROVE  ApprovalInv'
  BY <1>1 DEF Finish, ControlPlaneTypeOK, Stored
<1>2. ASSUME NEW answer, Finish(r, answer), NEW tx \in Transaction,
             PutTransaction(tx), ApprovalsHold(tx)
      PROVE  ApprovalInv'
  <2>1. (\A t \in Stored : ApprovalsHold(transactions[t]))'
    BY <1>0, <1>2, PutKeepsApprovals
  <2> QED BY <1>2, <2>1 DEF Finish, ControlPlaneTypeOK
<1>3. CASE CreateLookup(r)
  <2>1. UNCHANGED transactions
    BY <1>3 DEF CreateLookup, storeVars
  <2>2. PICK contract \in Contracts, key \in Keys :
          \/ \E t \in FindByIdempotency(key) : Finish(r, Answer(200, transactions[t]))
          \/ \E t \in Txs, now \in Instants :
               Hold(r, "evaluating", CreateTransaction(t, contract, key, now))
    BY <1>3 DEF CreateLookup
  <2> QED BY <1>1, <2>1, <2>2
          DEF Hold, CreateTransaction, ControlPlaneTypeOK, Stored
<1>4. CASE CreateInsert(r)
  <2>1. PICK decision \in Decisions :
          LET tx == Admit(held[r], decision)
          IN IF KeyIsFree(tx)
             THEN PutTransaction(tx) /\ Finish(r, Answer(201, tx))
             ELSE Finish(r, Refusal(500)) /\ UNCHANGED transactions
    BY <1>4 DEF CreateInsert
  <2>2. held[r] \in Transaction /\ held[r].approvals = {}
    BY <1>4, HeldTyped DEF CreateInsert
  <2>3. Admit(held[r], decision) \in Transaction
    BY <2>2, DecisionTyped, AdmitTyped
  <2>4. ApprovalsHold(Admit(held[r], decision))
    BY <2>2 DEF ApprovalsHold, Admit, ApplyPolicy, Authorized, ApprovalRejected,
                ApprovalsSatisfy, Transaction
  <2> QED BY <1>1, <1>2, <2>1, <2>3, <2>4
<1>5. CASE ApproveRead(r)
  <2>1. UNCHANGED transactions
    BY <1>5 DEF ApproveRead, storeVars
  <2>2. PICK t \in Stored :
          \/ \E approval \in ApprovalRecord :
               Hold(r, "writing", RecordApproval(transactions[t], approval))
          \/ Finish(r, Refusal(500))
    BY <1>5 DEF ApproveRead
  <2>3. transactions[t] \in Transaction
    BY <1>0, RowOfStored DEF Stored
  <2>4. ASSUME NEW approval \in ApprovalRecord
        PROVE  ApprovalsHold(RecordApproval(transactions[t], approval))
    BY <2>3 DEF ApprovalsHold, RecordApproval, Authorized, Transaction
  <2> QED BY <1>1, <2>1, <2>2, <2>4 DEF Hold, ControlPlaneTypeOK, Stored
<1>6. CASE CancelRead(r)
  <2>1. UNCHANGED transactions
    BY <1>6 DEF CancelRead, storeVars
  <2>2. PICK t \in Stored :
          \/ Hold(r, "writing", [transactions[t] EXCEPT !.status = "CANCELLED"])
          \/ Finish(r, Refusal(409))
    BY <1>6 DEF CancelRead
  <2>3. ApprovalsHold([transactions[t] EXCEPT !.status = "CANCELLED"])
    BY <1>0, RowOfStored DEF ApprovalsHold, Authorized, Stored, Transaction
  <2> QED BY <1>1, <2>1, <2>2, <2>3 DEF Hold, ControlPlaneTypeOK, Stored
<1>7. CASE WriteBack(r)
  BY <1>2, <1>7, HeldTyped DEF WriteBack
<1>8. CASE RequestFails(r)
  BY <1>1, <1>8 DEF RequestFails, storeVars
<1> QED BY <1>3, <1>4, <1>5, <1>6, <1>7, <1>8 DEF HandlerStep

LEMMA InitApproved == Init => ApprovalInv
BY DEF Init, RunInit, ControlPlaneInit, ApprovalInv, Stored

LEMMA StepApproved == TypeOK /\ ApprovalInv /\ [Next]_vars => ApprovalInv'
<1> SUFFICES ASSUME TypeOK, ApprovalInv, [Next]_vars PROVE ApprovalInv'
  OBVIOUS
<1>1. ASSUME NEW r \in Requests, HandlerStep(r), UNCHANGED <<runVars, worldVars>>
      PROVE  ApprovalInv'
  BY <1>1, HandlerKeepsApprovals
<1>2. ASSUME NEW w \in Workers,
             (\E t \in Txs : Load(w, t)) \/ RunStep(w) \/ RunFault(w),
             UNCHANGED requestVars
      PROVE  ApprovalInv'
  BY <1>2, RunKeepsApprovals DEF TypeOK
<1>3. CASE UNCHANGED vars
  BY <1>3 DEF ApprovalInv, Stored, vars, storeVars, requestVars, runVars
<1> QED BY <1>1, <1>2, <1>3 DEF Next

LEMMA ApprovedMeansGate == TypeOK /\ ApprovalInv => ApprovalGate
BY DEF TypeOK, EngineTypeOK, ApprovalInv, ApprovalGate, GateOpen

(***************************************************************************)
(* No adapter is called, and no row is past the gate, unless the approvals *)
(* the row records reach the number the policy asked for and none of them  *)
(* rejects, for any number of requests and workers and however their reads *)
(* and writes overlap (approval.ts:3-13, server.ts:71-77,                  *)
(* index.ts:45-79).  It speaks of recorded approvals: a rejection that was *)
(* answered and then overwritten by an older copy is not among them, see   *)
(* AnswersAreFinal.                                                        *)
(***************************************************************************)
THEOREM ApprovalGateHolds == Spec => []ApprovalGate
<1> QED BY InitTyped, StepTyped, InitApproved, StepApproved, ApprovedMeansGate, PTL
        DEF Spec

-----------------------------------------------------------------------------
(* Where a run stands decides what status its copy has (EngineProofs).     *)

LEMMA InitStands == Init => StatusInv
BY RunInitStands DEF Init

LEMMA NextStands == TypeOK /\ StatusInv /\ [Next]_vars => StatusInv'
BY RunStepStands, StatusStutters DEF TypeOK, Next, vars

LEMMA StandingMeansAllowed == TypeOK /\ StatusInv => NeverRefused
BY DEF TypeOK, EngineTypeOK, StatusInv, Standing, ExpectedStatus, NeverRefused,
       CanTransitionTransaction, transactionTransitions

(***************************************************************************)
(* transitionTransaction never throws inside a run: the engine asks only   *)
(* for changes of status the table of state-machine.ts has, whatever else  *)
(* happens to the row meanwhile (state-machine.ts:44-46; index.ts:52-141). *)
(***************************************************************************)
THEOREM NeverRefusedHolds == Spec => []NeverRefused
<1> QED BY InitTyped, StepTyped, InitStands, NextStands, StandingMeansAllowed, PTL
        DEF Spec

=============================================================================

