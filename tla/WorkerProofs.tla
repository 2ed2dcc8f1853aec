---------------------------- MODULE WorkerProofs ----------------------------
(***************************************************************************)
(* Theorems of Worker!WorkerSpec for any number of worker processes and    *)
(* any limit of the poll: type correctness, and that the processes         *)
(* implement the engine on its own, so that one process alone gives all    *)
(* OneRunProofs asks of the runs.                                          *)
(***************************************************************************)
EXTENDS WorkerProperties, OneRunProofs

-----------------------------------------------------------------------------
(* Every step of a process is a step of the engine, or none.               *)

LEMMA PollImplements ==
  ASSUME NEW w \in Workers, Poll(w) \/ Stop(w) \/ Exit(w)
  PROVE  UNCHANGED engineVars
BY DEF Poll, Stop, Exit

LEMMA RunNextImplements ==
  ASSUME WorkerTypeOK, NEW w \in Workers, RunNext(w)
  PROVE  [EngineNext]_engineVars
<1>1. PICK t \in batch[w] : Load(w, t) \/ UNCHANGED engineVars
  BY DEF RunNext
<1>2. t \in Txs
  BY <1>1 DEF WorkerTypeOK
<1> QED BY <1>1, <1>2 DEF EngineNext

LEMMA WorkerStepImplements ==
  ASSUME WorkerTypeOK, [WorkerNext]_workerVars
  PROVE  [EngineNext]_engineVars
<1>1. CASE UNCHANGED workerVars
  BY <1>1 DEF workerVars
<1>2. ASSUME NEW w \in Workers, Tick(w)
      PROVE  [EngineNext]_engineVars
  BY <1>2, PollImplements, RunNextImplements DEF Tick, EngineNext
<1>3. ASSUME NEW w \in Workers, Crash(w)
      PROVE  [EngineNext]_engineVars
  BY <1>3 DEF Crash, RunFault, EngineNext
<1>4. ASSUME NEW w \in Workers, RunFault(w)
      PROVE  EngineNext
  BY <1>4 DEF EngineNext
<1> QED BY <1>1, <1>2, <1>3, <1>4, PollImplements DEF WorkerNext

-----------------------------------------------------------------------------
(* The batch of a tick and the life of the process.                        *)

LEMMA PollTyped ==
  ASSUME WorkerTypeOK, NEW w \in Workers, Poll(w)
  PROVE  batch' \in [Workers -> SUBSET Txs] /\ life' = life
<1>1. PICK rows \in SUBSET Due : batch' = [batch EXCEPT ![w] = rows]
  BY DEF Poll
<1>2. rows \in SUBSET Txs
  BY <1>1 DEF Due, Stored
<1> QED BY <1>1, <1>2 DEF WorkerTypeOK, Poll

LEMMA LoopTyped ==
  ASSUME WorkerTypeOK, [WorkerNext]_workerVars
  PROVE  /\ batch' \in [Workers -> SUBSET Txs]
         /\ life' \in [Workers -> {"up", "stopping", "exited"}]
<1> USE DEF WorkerTypeOK
<1>1. CASE UNCHANGED workerVars
  BY <1>1 DEF workerVars, loopVars
<1>2. ASSUME NEW w \in Workers, Poll(w)
      PROVE  /\ batch' \in [Workers -> SUBSET Txs]
             /\ life' \in [Workers -> {"up", "stopping", "exited"}]
  BY <1>2, PollTyped
<1>3. ASSUME NEW w \in Workers, RunNext(w)
      PROVE  /\ batch' \in [Workers -> SUBSET Txs]
             /\ life' \in [Workers -> {"up", "stopping", "exited"}]
  <2>1. PICK left \in SUBSET Txs : batch' = [batch EXCEPT ![w] = left]
    BY <1>3 DEF RunNext
  <2> QED BY <1>3, <2>1 DEF RunNext
<1>4. ASSUME NEW w \in Workers, Stop(w) \/ Exit(w)
      PROVE  /\ batch' \in [Workers -> SUBSET Txs]
             /\ life' \in [Workers -> {"up", "stopping", "exited"}]
  BY <1>4 DEF Stop, Exit
<1>5. ASSUME NEW w \in Workers, Crash(w)
      PROVE  /\ batch' \in [Workers -> SUBSET Txs]
             /\ life' \in [Workers -> {"up", "stopping", "exited"}]
  BY <1>5 DEF Crash
<1>6. CASE UNCHANGED loopVars
  BY <1>6 DEF loopVars
<1> QED BY <1>1, <1>2, <1>3, <1>4, <1>5, <1>6 DEF WorkerNext, Tick

LEMMA WorkerStepTyped ==
  ASSUME WorkerTypeOK, [WorkerNext]_workerVars
  PROVE  WorkerTypeOK'
<1>1. EngineTypeOK'
  BY WorkerStepImplements, EngineNextTyped DEF WorkerTypeOK
<1> QED BY <1>1, LoopTyped DEF WorkerTypeOK

LEMMA WorkerInitTyped == WorkerInit => WorkerTypeOK
BY EngineInitTyped DEF WorkerInit, WorkerTypeOK

(***************************************************************************)
(* The processes, their ticks and the rows keep their types, also when     *)
(* processes are signalled, crash and start again at any await             *)
(* (worker.ts:12-21).                                                      *)
(***************************************************************************)
THEOREM WorkerTypeCorrect == WorkerSpec => []WorkerTypeOK
BY WorkerInitTyped, WorkerStepTyped, PTL DEF WorkerSpec

(***************************************************************************)
(* Worker processes do to the rows and to the world nothing that callers   *)
(* of run() could not do by themselves (worker.ts:12-21): what is proved   *)
(* of EngineSpec holds of them.                                            *)
(***************************************************************************)
THEOREM WorkersImplementEngine == WorkerSpec => ImplementsEngine
<1>1. WorkerInit => EngineInit
  BY DEF WorkerInit
<1> QED BY <1>1, WorkerTypeCorrect, WorkerStepImplements, PTL
        DEF WorkerSpec, EngineSpec, ImplementsEngine

(***************************************************************************)
(* With one worker process nothing is left to assume about the runs: an    *)
(* execution of unknown effect is the last, the evidence is never ahead of *)
(* the rows, the actions are the calls, the status of a row is true of the *)
(* effects, and what is closed is left alone (worker.ts:12-21,             *)
(* index.ts:45-155).                                                       *)
(***************************************************************************)
THEOREM OneWorkerTellsTheTruth ==
  ASSUME OneWorker
  PROVE  WorkerSpec =>
           /\ []( /\ UnknownNeverRetried
                  /\ EvidenceNeverAhead
                  /\ ActionsAreTheCalls
                  /\ StatusIsTrue )
           /\ ClosedForGood
<1>1. RunsApart
  BY OneWorkerIsApart
<1> QED BY <1>1, WorkersImplementEngine, OneWorkerIsEnough, ClosedForGoodHolds, PTL
        DEF ImplementsEngine

(***************************************************************************)
(* One worker process implements Lifecycle as long as no statement inside  *)
(* the try of compensate() fails.                                          *)
(***************************************************************************)
THEOREM OneWorkerImplementsLifecycle ==
  ASSUME OneWorker, ~StoreMayFail
  PROVE  WorkerSpec => ImplementsLifecycle
<1>1. RunsApart
  BY OneWorkerIsApart
<1> QED BY <1>1, WorkersImplementEngine, LifecycleIsImplemented, PTL
        DEF ImplementsEngine

=============================================================================
