------------------------------- MODULE Worker -------------------------------
(***************************************************************************)
(* The process of apps/worker/src/worker.ts around the engine: a tick      *)
(* polls the oldest runnable rows and runs them one after the other, the   *)
(* next tick starts when the last row is done, and a signal lets the tick  *)
(* finish before the process exits.                                        *)
(***************************************************************************)
EXTENDS Engine, FiniteSets

CONSTANTS Limit   \* rows a poll returns, LIMIT 20 in the query

ASSUME LimitAssumption == Limit \in Nat \ {0}

VARIABLES batch,   \* the rows of the tick in progress still to run
          life     \* "up", "stopping" after a signal, "exited"

loopVars == <<batch, life>>
workerVars == <<engineVars, loopVars>>

WorkerTypeOK ==
  /\ EngineTypeOK
  /\ batch \in [Workers -> SUBSET Txs]
  /\ life \in [Workers -> {"up", "stopping", "exited"}]

Older(t, u) == transactions[t].createdAt < transactions[u].createdAt

\* WHERE status IN (...) ORDER BY created_at ASC LIMIT 20
Due == {t \in Stored : transactions[t].status \in {"READY", "FAILED_INFRASTRUCTURE"}}

\* Faulty variant: one row fewer than the limit.
PolledShort(rows) ==
  /\ Cardinality(rows) = IF Cardinality(Due) < Limit THEN Cardinality(Due) ELSE Limit - 1
  /\ \A t \in rows, u \in Due \ rows : ~Older(u, t)

\* Rows of one instant come in any order.
Polled(rows) ==
  /\ Cardinality(rows) = IF Cardinality(Due) < Limit THEN Cardinality(Due) ELSE Limit
  /\ \A t \in rows, u \in Due \ rows : ~Older(u, t)

\* Faulty variant: the signal does not keep the timer from firing.
PollRegardless(w) ==
  /\ life[w] # "exited" /\ pc[w] = "idle" /\ batch[w] = {}
  /\ \E rows \in (SUBSET Due) \ {{}} :
       /\ Polled(rows)
       /\ batch' = [batch EXCEPT ![w] = rows]
  /\ UNCHANGED <<engineVars, life>>

Poll(w) ==
  /\ life[w] = "up" /\ pc[w] = "idle" /\ batch[w] = {}
  /\ \E rows \in (SUBSET Due) \ {{}} :
       /\ Polled(rows)
       /\ batch' = [batch EXCEPT ![w] = rows]
  /\ UNCHANGED <<engineVars, life>>

\* Faulty variant: the worker marks the row before it runs it.
RunNextMarked(w) ==
  /\ pc[w] = "idle"
  /\ \E t \in batch[w] :
       /\ batch' = [batch EXCEPT ![w] = @ \ {t}]
       /\ PutTransaction([transactions[t] EXCEPT !.status = "EXECUTING"])
  /\ UNCHANGED <<evidence, cases, runVars, worldVars, life>>

\* run() of the oldest row left; it returns at once when the row has moved on.
RunNext(w) ==
  /\ pc[w] = "idle"
  /\ \E t \in batch[w] :
       /\ \A u \in batch[w] : ~Older(u, t)
       /\ batch' = [batch EXCEPT ![w] = @ \ {t}]
       /\ \/ Load(w, t)
          \/ /\ \/ transactions[t].status \notin Runnable
                \/ Len(calls[t]) >= MaxCalls
             /\ UNCHANGED engineVars
  /\ UNCHANGED life

\* SIGTERM: no new tick, but the one in progress goes on to its end.
Stop(w) ==
  /\ life[w] = "up"
  /\ life' = [life EXCEPT ![w] = "stopping"]
  /\ UNCHANGED <<engineVars, batch>>

Exit(w) ==
  /\ life[w] = "stopping" /\ pc[w] = "idle" /\ batch[w] = {}
  /\ life' = [life EXCEPT ![w] = "exited"]
  /\ UNCHANGED <<engineVars, batch>>

(***************************************************************************)
(* The process dies, between two ticks or at an await of a run.  It may be *)
(* started again, and then knows nothing of a signal its predecessor got.  *)
(***************************************************************************)
Crash(w) ==
  /\ Faults /\ life[w] # "exited"
  /\ IF pc[w] = "idle" THEN UNCHANGED engineVars ELSE Abandon(w)
  /\ batch' = [batch EXCEPT ![w] = {}]
  /\ \E next \in {"up", "exited"} : life' = [life EXCEPT ![w] = next]

WorkerInit ==
  /\ EngineInit
  /\ batch = [w \in Workers |-> {}]
  /\ life = [w \in Workers |-> "up"]

\* What the process does by itself.
Tick(w) == Poll(w) \/ RunNext(w) \/ Exit(w) \/ (RunStep(w) /\ UNCHANGED loopVars)

WorkerNext ==
  \E w \in Workers :
    Tick(w) \/ Stop(w) \/ Crash(w) \/ (RunFault(w) /\ UNCHANGED loopVars)

\* The timer fires, and every await of a tick settles in the end.
WorkerFairness == \A w \in Workers : WF_workerVars(Tick(w))

WorkerSpec == WorkerInit /\ [][WorkerNext]_workerVars /\ WorkerFairness

=============================================================================
