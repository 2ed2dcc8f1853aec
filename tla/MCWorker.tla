------------------------------ MODULE MCWorker ------------------------------
(***************************************************************************)
(* Polls of at most two rows, of which the oldest can never be executed    *)
(* and is at the head of every poll.  Either two processes share the rows  *)
(* and the newest one has been cancelled, or the second process has gone   *)
(* and all three rows are ready.  Signals and crashes are MCOneWorker's.   *)
(***************************************************************************)
EXTENDS WorkerProperties, MCContracts, TLC

CONSTANTS stuck, second, third, w1, w2

MCTxs == {stuck, second, third}
MCWorkers == {w1, w2}
MCContractSet == {"legacy", "refund", "transfer"}
MCDocs == DocFor(MCContractSet)

MCContractOf == stuck :> "legacy" @@ second :> "refund" @@ third :> "transfer"
MCCreatedAt == stuck :> 0 @@ second :> 1 @@ third :> 2

\* Every transaction has a key of its own.
MCRow(t) ==
  Admit(CreateTransaction(t, MCContractOf[t], MCCreatedAt[t], MCCreatedAt[t]),
        [allow |-> TRUE, required |-> {}])

MCInit ==
  /\ \E alone \in BOOLEAN :
       /\ life = w1 :> "up" @@ w2 :> IF alone THEN "exited" ELSE "up"
       /\ transactions =
            [t \in Txs |-> IF t = third /\ ~alone
                           THEN [MCRow(t) EXCEPT !.status = "CANCELLED"]
                           ELSE MCRow(t)]
  /\ batch = [w \in Workers |-> {}]
  /\ evidence = [t \in Txs |-> {}]
  /\ cases = {}
  /\ RunInit

MCNext == \E w \in Workers : Tick(w) \/ (RunFault(w) /\ UNCHANGED loopVars)

MCSpec == MCInit /\ [][MCNext]_workerVars /\ WorkerFairness

(***************************************************************************)
(* ClosedForGood where a statement may fail inside the try of compensate() *)
(* (index.ts:129-136): the row that goes from COMPENSATED on to            *)
(* RECONCILIATION_REQUIRED is never run again, while no other process      *)
(* writes the rows.                                                        *)
(***************************************************************************)
ClosedWhileAlone ==
  [][life[w2] = "exited" =>
       \A t \in Txs :
         StatusOf(t) \in Closed =>
           /\ StatusOf(t)' \in Closed
           /\ calls'[t] = calls[t]
           /\ applied'[t] = applied[t]]_workerVars

=============================================================================
