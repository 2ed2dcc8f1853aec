------------------------------- MODULE Store --------------------------------
(***************************************************************************)
(* The tables of packages/db/schema.sql that the engine and the API share, *)
(* and the statements of packages/db/src/index.ts that change them.  Each  *)
(* statement is atomic and none of them is guarded by a version or a lock: *)
(* putTransaction overwrites whatever the row has become since it was      *)
(* read.                                                                   *)
(***************************************************************************)
EXTENDS Transactions

VARIABLES transactions,  \* the row of each transaction id, or NoRow
          evidence,      \* the event types recorded for each transaction
          cases          \* the transactions with a reconciliation case

storeVars == <<transactions, evidence, cases>>

EventType ==
  { "transaction.executing", "transaction.retrying", "transaction.no_executor",
    "action.finished", "transaction.unknown_effect",
    "transaction.execution_failed", "transaction.verifying",
    "effect.observed", "transaction.verification_decided",
    "transaction.verified", "compensation.unavailable",
    "transaction.compensated", "compensation.failed", "compensation.exception",
    "reconciliation.required" }

StoreTypeOK ==
  /\ transactions \in [Txs -> Transaction \cup {NoRow}]
  /\ \A t \in Txs : transactions[t] # NoRow => transactions[t].id = t
  /\ evidence \in [Txs -> SUBSET EventType]
  /\ cases \in SUBSET Txs

Stored == {t \in Txs : transactions[t] # NoRow}

\* getTransaction returns the row; findByIdempotency the row of a key.
FindByIdempotency(key) == {t \in Stored : transactions[t].key = key}

\* Faulty variant: the table has no unique key.
KeyIsAlwaysFree(tx) == tx.key \in Keys

\* UNIQUE (organization_id, environment_id, idempotency_key)
KeyIsFree(tx) == FindByIdempotency(tx.key) \subseteq {tx.id}

\* INSERT ... ON CONFLICT(id) DO UPDATE of the mutable columns.
Upsert(old, tx) ==
  IF old = NoRow
  THEN tx
  ELSE [old EXCEPT !.status = tx.status, !.required = tx.required,
                   !.approvals = tx.approvals, !.actions = tx.actions,
                   !.observations = tx.observations,
                   !.retryCount = tx.retryCount]

PutTransaction(tx) ==
  transactions' = [transactions EXCEPT ![tx.id] = Upsert(@, tx)]

AppendEvidence(t, type) ==
  evidence' = [evidence EXCEPT ![t] = @ \cup {type}]

\* One case per transaction: a second one updates the first.
OpenReconciliation(t) == cases' = cases \cup {t}

=============================================================================
