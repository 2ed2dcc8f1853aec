---------------------------- MODULE RecordProofs ----------------------------
(***************************************************************************)
(* More theorems of FlowCommit!Spec, for any number of workers, requests   *)
(* and transactions: what a row says of its outcome and of its history is  *)
(* so, one idempotency key creates one transaction, and a denial of the    *)
(* policy stands.  They rest on what FlowCommitProofs has shown of the     *)
(* types and of the statuses of runs.                                      *)
(***************************************************************************)
EXTENDS FlowCommitProofs

-----------------------------------------------------------------------------
(***************************************************************************)
(* Whose copy a copy is.  Every copy that can be written back is of a row  *)
(* that exists and carries the row's contract and key; a transaction that  *)
(* waits for the policy has no row, and its id is nobody else's.           *)
(***************************************************************************)
CopyOfRow(copy) ==
  LET row == transactions[copy.id]
  IN row # NoRow /\ row.contract = copy.contract /\ row.key = copy.key

Evaluating(r) == stage[r] = "evaluating"
Writing(r) == stage[r] = "writing"
Created(r) == reply[r].code = 201

CopiesAreOfRows ==
  /\ \A w \in Workers : mem[w] # NoRow => CopyOfRow(mem[w])
  /\ \A r \in Requests : Writing(r) => CopyOfRow(held[r])

NewIdsAreNew ==
  /\ \A r \in Requests : Evaluating(r) => transactions[held[r].id] = NoRow
  /\ \A q, r \in Requests :
       Evaluating(q) /\ Evaluating(r) /\ q # r => held[q].id # held[r].id

\* UNIQUE (organization_id, environment_id, idempotency_key) of schema.sql
KeysAreUnique ==
  \A t, u \in Stored : transactions[t].key = transactions[u].key => t = u

AnswersHaveRows ==
  /\ \A r \in Requests : Created(r) => reply[r].id \in Stored
  /\ \A q, r \in Requests :
       Created(q) /\ Created(r) /\ q # r => reply[q].id # reply[r].id

IdentityInv ==
  CopiesAreOfRows /\ NewIdsAreNew /\ KeysAreUnique /\ AnswersHaveRows

\* Nobody has read a denied row: no handler and no run takes one up.
DenialInv ==
  \A r \in Requests :
    Created(r) /\ reply[r].status = "REJECTED_BY_POLICY" =>
      /\ transactions[reply[r].id].status = "REJECTED_BY_POLICY"
      /\ \A w \in Workers : mem[w] # NoRow => mem[w].id # reply[r].id
      /\ \A q \in Requests : Writing(q) => held[q].id # reply[r].id

-----------------------------------------------------------------------------
(***************************************************************************)
(* What a row says of the outcome and of the attempts.  Between the read   *)
(* and the end of a run its copy alone has the news; the part of it that   *)
(* the next write relies on depends on where the run stands.               *)
(***************************************************************************)
\* The statuses a transaction passes through before it has a row (server.ts:56-58).
InMemoryOnly == {"VALIDATING", "POLICY_EVALUATION", "PREPARING"}

RecordHolds(tx) ==
  OutcomeHolds(tx) /\ HistoryHolds(tx) /\ tx.status \notin InMemoryOnly

LastExecuted(tx) ==
  Len(tx.actions) > 0 /\ tx.actions[Len(tx.actions)].status = "EXECUTED"

Progress(w) ==
  LET tx == mem[w]
  IN /\ Standing(w) \in {"loaded", "select"} =>
          AllFailed(tx.actions) /\ tx.observations = {}
     /\ Standing(w) \in {"call", "finish", "decide"} =>
          Len(tx.actions) > 0 /\ tx.observations = {}
     /\ Standing(w) = "decide" =>
          tx.actions[Len(tx.actions)].status = ActionResult[result[w]]
     /\ pc[w] = "event" /\ pending[w].type \in
                             {"transaction.compensated", "compensation.failed"} =>
          ToBeUndone(tx) /\ LastExecuted(tx)

\* A transaction that waits for the policy has neither actions nor observations.
Untried(tx) == tx.actions = << >> /\ tx.observations = {}

RecordInv ==
  /\ \A t \in Stored : RecordHolds(transactions[t])
  /\ \A w \in Workers : pc[w] # "idle" => RecordHolds(mem[w]) /\ Progress(w)
  /\ \A r \in Requests : /\ Evaluating(r) => Untried(held[r])
                         /\ Writing(r) => RecordHolds(held[r])

-----------------------------------------------------------------------------
(* What a write does to the rows.                                          *)

\* A copy of a row is written over that row: no row appears, none changes its
\* contract or its key (db/src/index.ts:22-27).
LEMMA PutOverRow ==
  ASSUME StoreTypeOK, NEW tx \in Transaction, CopyOfRow(tx), PutTransaction(tx)
  PROVE  /\ Stored' = Stored
         /\ \A copy : copy.id \in Txs /\ CopyOfRow(copy) => CopyOfRow(copy)'
         /\ \A t \in Stored : transactions'[t].key = transactions[t].key
         /\ \A t \in Txs \ {tx.id} : transactions'[t] = transactions[t]
<1>1. tx.id \in Txs /\ transactions[tx.id] \in Transaction
  BY DEF Transaction, CopyOfRow, StoreTypeOK
<1>2. transactions' = [transactions EXCEPT ![tx.id] = Upsert(transactions[tx.id], tx)]
  BY DEF PutTransaction
<1>3. /\ Upsert(transactions[tx.id], tx) \in Transaction
      /\ Upsert(transactions[tx.id], tx).contract = transactions[tx.id].contract
      /\ Upsert(transactions[tx.id], tx).key = transactions[tx.id].key
  BY <1>1 DEF Upsert, CopyOfRow, Transaction
<1>4. \A t \in Txs \ {tx.id} : transactions'[t] = transactions[t]
  BY <1>1, <1>2 DEF StoreTypeOK
<1>5. /\ transactions'[tx.id] # NoRow /\ transactions[tx.id] # NoRow
      /\ transactions'[tx.id].contract = transactions[tx.id].contract
      /\ transactions'[tx.id].key = transactions[tx.id].key
  BY <1>1, <1>2, <1>3, NoRowAssumption DEF StoreTypeOK
<1> HIDE DEF Upsert
<1> QED BY <1>4, <1>5 DEF Stored, CopyOfRow

\* A transaction without a row is inserted as it is.
LEMMA PutNewRow ==
  ASSUME StoreTypeOK, NEW tx \in Transaction, transactions[tx.id] = NoRow,
         PutTransaction(tx)
  PROVE  transactions' = [transactions EXCEPT ![tx.id] = tx]
BY DEF PutTransaction, Upsert, StoreTypeOK

LEMMA RowIsOfItself ==
  ASSUME StoreTypeOK, NEW t \in Stored
  PROVE  CopyOfRow(transactions[t])
BY DEF StoreTypeOK, CopyOfRow, Stored

\* Whose copy it is depends on three fields that no run and no handler changes.
LEMMA SameCopyOfRow ==
  ASSUME NEW copy, NEW tx, SameIdentity(tx, copy), CopyOfRow(copy)
  PROVE  CopyOfRow(tx)
BY DEF SameIdentity, CopyOfRow

-----------------------------------------------------------------------------
(* The identity of copies and rows: the steps of a run.                    *)

\* What a run leaves: the same rows, copies of rows, nothing of the denied.
LEMMA RunKeepsRows ==
  ASSUME TypeOK, IdentityInv, DenialInv, NEW w \in Workers, UNCHANGED requestVars,
         (\E t \in Txs : Load(w, t)) \/ RunStep(w) \/ RunFault(w)
  PROVE  /\ Stored' = Stored
         /\ \A copy : copy.id \in Txs /\ CopyOfRow(copy) => CopyOfRow(copy)'
         /\ \A t \in Stored : transactions'[t].key = transactions[t].key
         /\ \A v \in Workers : mem'[v] # NoRow =>
               /\ CopyOfRow(mem[v])'
               /\ \/ mem[v] # NoRow /\ mem'[v].id = mem[v].id
                  \/ \E t \in Stored : /\ transactions[t].status \in Runnable
                                        /\ mem'[v].id = t
         /\ \A t \in Txs : transactions'[t] = transactions[t]
                            \/ (mem[w] # NoRow /\ mem[w].id = t)
<1>0. EngineTypeOK /\ StoreTypeOK
  BY DEF TypeOK, EngineTypeOK
<1>1. CASE \E t \in Txs : Load(w, t)
  <2>1. PICK t \in Txs : Load(w, t)
    BY <1>1
  <2>2. /\ t \in Stored /\ transactions[t].status \in Runnable
        /\ UNCHANGED transactions /\ transactions[t].id = t
        /\ mem' = [mem EXCEPT ![w] = transactions[t]]
    BY <1>0, <2>1, RowOfStored DEF Load, Stored, SetMem, storeVars
  <2>3. \A v \in Workers : mem[v] # NoRow => CopyOfRow(mem[v])
    BY DEF IdentityInv, CopiesAreOfRows
  <2>4. CopyOfRow(transactions[t])
    BY <1>0, <2>2, RowIsOfItself
  <2>5. \A copy : CopyOfRow(copy) => CopyOfRow(copy)'
    BY <2>2 DEF CopyOfRow
  <2>6. ASSUME NEW v \in Workers, mem'[v] # NoRow
        PROVE  /\ CopyOfRow(mem[v])'
               /\ \/ mem[v] # NoRow /\ mem'[v].id = mem[v].id
                  \/ \E u \in Stored : /\ transactions[u].status \in Runnable
                                        /\ mem'[v].id = u
    <3>1. CASE v = w
      <4>1. mem'[v] = transactions[t]
        BY <1>0, <2>2, <3>1 DEF EngineTypeOK
      <4> QED BY <2>2, <2>4, <4>1 DEF CopyOfRow
    <3>2. CASE v # w
      <4>1. mem'[v] = mem[v]
        BY <1>0, <2>2, <3>2 DEF EngineTypeOK
      <4> QED BY <2>2, <2>3, <2>6, <4>1 DEF CopyOfRow
    <3> QED BY <3>1, <3>2
  <2> QED BY <2>2, <2>5, <2>6 DEF Stored
<1>2. CASE RunStep(w) \/ RunFault(w)
  <2>1. mem[w] # NoRow /\ mem[w] \in Transaction
    BY <1>0, <1>2, RunStepWrites, CopyOfRun, NoRowAssumption
  <2>2. PICK tx \in Transaction : RunWrites(w, tx)
    BY <1>0, <1>2, RunStepWrites
  <2>3. CopyOfRow(mem[w]) /\ CopyOfRow(tx) /\ tx.id = mem[w].id
    BY <2>1, <2>2, SameCopyOfRow DEF IdentityInv, CopiesAreOfRows, RunWrites, SameIdentity
  <2>4. /\ Stored' = Stored
        /\ \A copy : copy.id \in Txs /\ CopyOfRow(copy) => CopyOfRow(copy)'
        /\ \A t \in Stored : transactions'[t].key = transactions[t].key
        /\ \A t \in Txs \ {tx.id} : transactions'[t] = transactions[t]
    <3>1. CASE PutTransaction(tx)
      BY <1>0, <2>3, <3>1, PutOverRow
    <3>2. CASE UNCHANGED transactions
      BY <3>2 DEF Stored, CopyOfRow
    <3> QED BY <2>2, <3>1, <3>2 DEF RunWrites
  <2>5. ASSUME NEW v \in Workers, mem'[v] # NoRow
        PROVE  /\ CopyOfRow(mem[v])'
               /\ mem[v] # NoRow /\ mem'[v].id = mem[v].id
    <3>1. CASE v = w
      <4>1. mem'[v] = tx
        BY <1>0, <2>2, <2>5, <3>1 DEF RunWrites, SetMem, EngineTypeOK
      <4> QED BY <2>1, <2>3, <2>4, <3>1, <4>1 DEF CopyOfRow, Transaction
    <3>2. CASE v # w
      <4>1. mem'[v] = mem[v]
        BY <1>0, <2>2, <3>2 DEF RunWrites, SetMem, EngineTypeOK
      <4>2. mem[v] \in Transaction /\ CopyOfRow(mem[v])
        BY <1>0, <2>5, <4>1 DEF EngineTypeOK, IdentityInv, CopiesAreOfRows
      <4> QED BY <2>4, <2>5, <4>1, <4>2 DEF CopyOfRow, Transaction
    <3> QED BY <3>1, <3>2
  <2> QED BY <2>1, <2>3, <2>4, <2>5
<1> QED BY <1>1, <1>2

LEMMA RunKeepsIdentity ==
  ASSUME TypeOK, IdentityInv, DenialInv, NEW w \in Workers, UNCHANGED requestVars,
         (\E t \in Txs : Load(w, t)) \/ RunStep(w) \/ RunFault(w)
  PROVE  IdentityInv' /\ DenialInv'
<1> USE DEF requestVars
<1>1. /\ Stored' = Stored
      /\ \A copy : copy.id \in Txs /\ CopyOfRow(copy) => CopyOfRow(copy)'
      /\ \A t \in Stored : transactions'[t].key = transactions[t].key
      /\ \A v \in Workers : mem'[v] # NoRow =>
            /\ CopyOfRow(mem[v])'
            /\ \/ mem[v] # NoRow /\ mem'[v].id = mem[v].id
               \/ \E t \in Stored : /\ transactions[t].status \in Runnable
                                     /\ mem'[v].id = t
      /\ \A t \in Txs : transactions'[t] = transactions[t]
                         \/ (mem[w] # NoRow /\ mem[w].id = t)
  BY RunKeepsRows
<1>2. \A r \in Requests : stage[r] \in {"evaluating", "writing"} =>
        held[r] \in Transaction /\ held[r].id \in Txs
  BY HeldTyped DEF TypeOK, Transaction
<1>3. CopiesAreOfRows'
  <2>1. ASSUME NEW r \in Requests, Writing(r)
        PROVE  CopyOfRow(held[r])'
    BY <1>1, <1>2, <2>1 DEF IdentityInv, CopiesAreOfRows, Writing, CopyOfRow
  <2> QED BY <1>1, <2>1 DEF CopiesAreOfRows, Writing
<1>4. NewIdsAreNew'
  BY <1>1, <1>2 DEF IdentityInv, NewIdsAreNew, Evaluating, Stored
<1>5. KeysAreUnique'
  BY <1>1 DEF IdentityInv, KeysAreUnique
<1>6. AnswersHaveRows'
  BY <1>1 DEF IdentityInv, AnswersHaveRows, Created
<1>7. DenialInv'
  <2> SUFFICES ASSUME NEW r \in Requests, Created(r),
                      reply[r].status = "REJECTED_BY_POLICY"
               PROVE  /\ transactions'[reply[r].id].status = "REJECTED_BY_POLICY"
                      /\ \A v \in Workers : mem'[v] # NoRow => mem'[v].id # reply[r].id
                      /\ \A q \in Requests : Writing(q) => held[q].id # reply[r].id
    BY DEF DenialInv, Created, Writing
  <2>1. /\ transactions[reply[r].id].status = "REJECTED_BY_POLICY"
        /\ \A v \in Workers : mem[v] # NoRow => mem[v].id # reply[r].id
        /\ \A q \in Requests : Writing(q) => held[q].id # reply[r].id
    BY DEF DenialInv
  <2>2. reply[r].id \in Txs
    BY DEF IdentityInv, AnswersHaveRows, Stored
  <2>3. transactions'[reply[r].id] = transactions[reply[r].id]
    BY <1>1, <2>1, <2>2
  <2> QED BY <1>1, <2>1, <2>3 DEF Runnable
<1> QED BY <1>3, <1>4, <1>5, <1>6, <1>7 DEF IdentityInv

-----------------------------------------------------------------------------
(* The identity of copies and rows: the steps of a handler.                *)

\* A request is answered and nothing is created (server.ts:53, 72, 76, 99-101).
LEMMA AnswerKeepsIdentity ==
  ASSUME TypeOK, IdentityInv, DenialInv, NEW r \in Requests, NEW answer,
         answer.code # 201, Finish(r, answer), UNCHANGED <<transactions, mem>>
  PROVE  IdentityInv' /\ DenialInv'
<1>1. \A q \in Requests : q # r => /\ stage'[q] = stage[q] /\ held'[q] = held[q]
                                   /\ reply'[q] = reply[q]
  BY DEF Finish, TypeOK, ControlPlaneTypeOK
<1>2. ~Evaluating(r)' /\ ~Writing(r)' /\ ~Created(r)'
  BY DEF Finish, TypeOK, ControlPlaneTypeOK, Evaluating, Writing, Created
<1>3. \A q \in Requests : /\ Evaluating(q)' => Evaluating(q) /\ held'[q] = held[q]
                          /\ Writing(q)' => Writing(q) /\ held'[q] = held[q]
                          /\ Created(q)' => Created(q) /\ reply'[q] = reply[q]
  BY <1>1, <1>2 DEF Evaluating, Writing, Created
<1>4. Stored' = Stored
  BY DEF Stored
<1>5. CopiesAreOfRows'
  BY <1>3 DEF IdentityInv, CopiesAreOfRows, CopyOfRow
<1>6. NewIdsAreNew'
  BY <1>3 DEF IdentityInv, NewIdsAreNew
<1>7. KeysAreUnique' /\ AnswersHaveRows'
  BY <1>3, <1>4 DEF IdentityInv, KeysAreUnique, AnswersHaveRows
<1>8. DenialInv'
  BY <1>3 DEF DenialInv
<1> QED BY <1>5, <1>6, <1>7, <1>8 DEF IdentityInv

\* A request takes up a row it has read, to write it later (server.ts:72-76, 99-102).
LEMMA HoldRowKeepsIdentity ==
  ASSUME TypeOK, IdentityInv, DenialInv, NEW r \in Requests, NEW t \in Stored,
         stage[r] = "received",
         transactions[t].status # "REJECTED_BY_POLICY",
         NEW tx \in Transaction, SameIdentity(tx, transactions[t]),
         Hold(r, "writing", tx), UNCHANGED <<transactions, mem>>
  PROVE  IdentityInv' /\ DenialInv'
<1>0. StoreTypeOK /\ t \in Txs
  BY DEF TypeOK, EngineTypeOK, Stored
<1>1. \A q \in Requests : q # r => stage'[q] = stage[q] /\ held'[q] = held[q]
  BY DEF Hold, TypeOK, ControlPlaneTypeOK
<1>2. reply' = reply /\ ~Evaluating(r)' /\ held'[r] = tx
  BY DEF Hold, TypeOK, ControlPlaneTypeOK, Evaluating
<1>3. CopyOfRow(tx) /\ tx.id = t
  BY <1>0, RowIsOfItself, SameCopyOfRow, RowOfStored DEF SameIdentity, Stored
<1>4. \A q \in Requests : /\ Evaluating(q)' => Evaluating(q) /\ held'[q] = held[q]
                          /\ Writing(q)' /\ q # r => Writing(q) /\ held'[q] = held[q]
                          /\ Created(q)' <=> Created(q)
  BY <1>1, <1>2 DEF Evaluating, Writing, Created
<1>5. Stored' = Stored
  BY DEF Stored
<1>6. CopiesAreOfRows'
  BY <1>2, <1>3, <1>4 DEF IdentityInv, CopiesAreOfRows, CopyOfRow
<1>7. NewIdsAreNew'
  BY <1>4 DEF IdentityInv, NewIdsAreNew
<1>8. KeysAreUnique' /\ AnswersHaveRows'
  BY <1>2, <1>4, <1>5 DEF IdentityInv, KeysAreUnique, AnswersHaveRows
<1>9. DenialInv'
  BY <1>2, <1>3, <1>4 DEF DenialInv
<1> QED BY <1>6, <1>7, <1>8, <1>9 DEF IdentityInv

\* A request holds a new transaction (server.ts:55-56).
LEMMA HoldNewKeepsIdentity ==
  ASSUME TypeOK, IdentityInv, DenialInv, NEW r \in Requests,
         stage[r] = "received", NEW tx \in Transaction, FreshId(tx.id),
         Hold(r, "evaluating", tx), UNCHANGED <<transactions, mem>>
  PROVE  IdentityInv' /\ DenialInv'
<1>1. \A q \in Requests : q # r => stage'[q] = stage[q] /\ held'[q] = held[q]
  BY DEF Hold, TypeOK, ControlPlaneTypeOK
<1>2. reply' = reply /\ ~Writing(r)' /\ held'[r] = tx
  BY DEF Hold, TypeOK, ControlPlaneTypeOK, Writing
<1>3. \A q \in Requests : /\ Evaluating(q)' /\ q # r => Evaluating(q) /\ held'[q] = held[q]
                          /\ Writing(q)' => Writing(q) /\ held'[q] = held[q]
                          /\ Created(q)' <=> Created(q)
  BY <1>1, <1>2 DEF Evaluating, Writing, Created
<1>4. \A q \in Requests : Evaluating(q) => held[q] # NoRow /\ held[q].id # tx.id
  BY DEF FreshId, Evaluating, TypeOK, ControlPlaneTypeOK
<1>5. Stored' = Stored
  BY DEF Stored
<1>6. CopiesAreOfRows'
  BY <1>3 DEF IdentityInv, CopiesAreOfRows, CopyOfRow
<1>7. NewIdsAreNew'
  BY <1>2, <1>3, <1>4 DEF IdentityInv, NewIdsAreNew, FreshId
<1>8. KeysAreUnique' /\ AnswersHaveRows'
  BY <1>2, <1>3, <1>5 DEF IdentityInv, KeysAreUnique, AnswersHaveRows
<1>9. DenialInv'
  BY <1>2, <1>3 DEF DenialInv
<1> QED BY <1>6, <1>7, <1>8, <1>9 DEF IdentityInv

\* Admission changes neither the id nor the contract nor the key (server.ts:57-58).
LEMMA AdmitKeepsIdentity ==
  ASSUME NEW tx \in Transaction, NEW decision \in Decisions
  PROVE  SameIdentity(Admit(tx, decision), tx)
BY DEF Admit, ApplyPolicy, SameIdentity, Transaction

\* The insert of a new transaction whose key is free (server.ts:59-60).
LEMMA InsertKeepsIdentity ==
  ASSUME TypeOK, IdentityInv, DenialInv, NEW r \in Requests, Evaluating(r),
         NEW tx \in Transaction, SameIdentity(tx, held[r]), KeyIsFree(tx),
         PutTransaction(tx), Finish(r, Answer(201, tx)), UNCHANGED mem
  PROVE  IdentityInv' /\ DenialInv'
<1>0. StoreTypeOK /\ tx.id \in Txs
  BY DEF TypeOK, EngineTypeOK, Transaction
<1>1. transactions[tx.id] = NoRow
  BY DEF IdentityInv, NewIdsAreNew, SameIdentity
<1>2. transactions' = [transactions EXCEPT ![tx.id] = tx]
  BY <1>0, <1>1, PutNewRow
<1>3. /\ transactions'[tx.id] = tx /\ tx # NoRow
      /\ \A t \in Txs : t # tx.id => transactions'[t] = transactions[t]
  BY <1>0, <1>2, NoRowAssumption DEF StoreTypeOK
<1>4. Stored' = Stored \cup {tx.id} /\ tx.id \notin Stored
  BY <1>0, <1>1, <1>3 DEF Stored
<1>5. /\ \A q \in Requests : q # r => /\ stage'[q] = stage[q] /\ held'[q] = held[q]
                                      /\ reply'[q] = reply[q]
      /\ ~Evaluating(r)' /\ ~Writing(r)' /\ reply'[r] = Answer(201, tx)
  BY DEF Finish, TypeOK, ControlPlaneTypeOK, Evaluating, Writing
<1>6. \A q \in Requests : /\ Evaluating(q)' => Evaluating(q) /\ held'[q] = held[q] /\ q # r
                          /\ Writing(q)' => Writing(q) /\ held'[q] = held[q]
                          /\ Created(q)' /\ q # r => Created(q) /\ reply'[q] = reply[q]
  BY <1>5 DEF Evaluating, Writing, Created
<1>7. /\ \A q \in Requests : Evaluating(q) \/ Writing(q) => held[q].id \in Txs
      /\ \A w \in Workers : mem[w] # NoRow => mem[w].id \in Txs
  BY HeldTyped DEF Evaluating, Writing, TypeOK, EngineTypeOK, Transaction
<1>8. \A copy : CopyOfRow(copy) => copy.id # tx.id
  BY <1>1 DEF CopyOfRow
<1>9. CopiesAreOfRows'
  BY <1>3, <1>6, <1>7, <1>8 DEF IdentityInv, CopiesAreOfRows, CopyOfRow
<1>10. NewIdsAreNew'
  <2>1. \A q \in Requests : Evaluating(q)' => held[q].id # tx.id
    BY <1>6 DEF IdentityInv, NewIdsAreNew, SameIdentity
  <2> QED BY <1>3, <1>6, <1>7, <2>1 DEF IdentityInv, NewIdsAreNew
<1>11. KeysAreUnique'
  <2>1. \A t \in Stored : transactions[t].key # tx.key
    BY <1>4 DEF KeyIsFree, FindByIdempotency
  <2> QED BY <1>3, <1>4, <2>1 DEF IdentityInv, KeysAreUnique, Stored
<1>12. AnswersHaveRows'
  <2>1. reply'[r].id = tx.id
    BY <1>5 DEF Answer
  <2> QED BY <1>4, <1>6, <2>1 DEF IdentityInv, AnswersHaveRows
<1>13. DenialInv'
  <2> SUFFICES ASSUME NEW q \in Requests, Created(q)',
                      reply'[q].status = "REJECTED_BY_POLICY"
               PROVE  /\ transactions'[reply'[q].id].status = "REJECTED_BY_POLICY"
                      /\ \A v \in Workers : mem[v] # NoRow => mem[v].id # reply'[q].id
                      /\ \A p \in Requests : Writing(p)' => held'[p].id # reply'[q].id
    BY DEF DenialInv
  <2>1. CASE q = r
    <3>1. reply'[q].id = tx.id /\ tx.status = "REJECTED_BY_POLICY"
      BY <1>5, <2>1 DEF Answer
    <3> QED BY <1>3, <1>6, <1>8, <3>1 DEF IdentityInv, CopiesAreOfRows
  <2>2. CASE q # r
    <3>1. Created(q) /\ reply'[q] = reply[q]
      BY <1>6, <2>2
    <3>2. reply[q].id \in Txs /\ reply[q].id # tx.id
      BY <1>4, <3>1 DEF IdentityInv, AnswersHaveRows, Stored
    <3> QED BY <1>3, <1>6, <3>1, <3>2 DEF DenialInv
  <2> QED BY <2>1, <2>2
<1> QED BY <1>9, <1>10, <1>11, <1>12, <1>13 DEF IdentityInv

\* The write at the end of an approval or of a cancellation (server.ts:76, 102).
LEMMA WriteBackKeepsIdentity ==
  ASSUME TypeOK, IdentityInv, DenialInv, NEW r \in Requests, WriteBack(r),
         UNCHANGED mem
  PROVE  IdentityInv' /\ DenialInv'
<1> DEFINE tx == held[r]
<1>0. StoreTypeOK /\ Writing(r) /\ tx \in Transaction /\ tx.id \in Txs
  BY HeldTyped DEF TypeOK, EngineTypeOK, WriteBack, Writing, Transaction
<1>1. CopyOfRow(tx) /\ PutTransaction(tx) /\ Finish(r, Answer(200, tx))
  BY <1>0 DEF IdentityInv, CopiesAreOfRows, WriteBack
<1>2. /\ Stored' = Stored
      /\ \A copy : copy.id \in Txs /\ CopyOfRow(copy) => CopyOfRow(copy)'
      /\ \A t \in Stored : transactions'[t].key = transactions[t].key
      /\ \A t \in Txs \ {tx.id} : transactions'[t] = transactions[t]
  BY <1>0, <1>1, PutOverRow
<1>3. /\ \A q \in Requests : q # r => /\ stage'[q] = stage[q] /\ held'[q] = held[q]
                                      /\ reply'[q] = reply[q]
      /\ ~Evaluating(r)' /\ ~Writing(r)' /\ ~Created(r)'
  BY <1>1 DEF Finish, Answer, TypeOK, ControlPlaneTypeOK, Evaluating, Writing, Created
<1>4. \A q \in Requests : /\ Evaluating(q)' => Evaluating(q) /\ held'[q] = held[q]
                          /\ Writing(q)' => Writing(q) /\ held'[q] = held[q]
                          /\ Created(q)' => Created(q) /\ reply'[q] = reply[q]
  BY <1>3 DEF Evaluating, Writing, Created
<1>5. /\ \A q \in Requests : Evaluating(q) \/ Writing(q) => held[q].id \in Txs
      /\ \A w \in Workers : mem[w] # NoRow => mem[w].id \in Txs
  BY HeldTyped DEF Evaluating, Writing, TypeOK, EngineTypeOK, Transaction
<1>6. CopiesAreOfRows'
  <2>1. ASSUME NEW w \in Workers, mem[w] # NoRow
        PROVE  CopyOfRow(mem[w])'
    BY <1>2, <1>5, <2>1 DEF IdentityInv, CopiesAreOfRows, CopyOfRow
  <2>2. ASSUME NEW q \in Requests, Writing(q)'
        PROVE  CopyOfRow(held[q])'
    BY <1>2, <1>4, <1>5, <2>2 DEF IdentityInv, CopiesAreOfRows, CopyOfRow
  <2> QED BY <2>1, <2>2 DEF CopiesAreOfRows
<1>7. NewIdsAreNew'
  BY <1>2, <1>4, <1>5 DEF IdentityInv, NewIdsAreNew, Stored
<1>8. KeysAreUnique' /\ AnswersHaveRows'
  BY <1>2, <1>4 DEF IdentityInv, KeysAreUnique, AnswersHaveRows
<1>9. DenialInv'
  <2> SUFFICES ASSUME NEW q \in Requests, Created(q),
                      reply'[q] = reply[q], reply[q].status = "REJECTED_BY_POLICY"
               PROVE  /\ transactions'[reply[q].id].status = "REJECTED_BY_POLICY"
                      /\ \A v \in Workers : mem[v] # NoRow => mem[v].id # reply[q].id
                      /\ \A p \in Requests : Writing(p)' => held'[p].id # reply[q].id
    BY <1>4 DEF DenialInv
  <2>1. reply[q].id \in Txs /\ reply[q].id # tx.id
    BY <1>0 DEF IdentityInv, AnswersHaveRows, Stored, DenialInv
  <2> QED BY <1>2, <1>4, <2>1 DEF DenialInv
<1> QED BY <1>6, <1>7, <1>8, <1>9 DEF IdentityInv

LEMMA HandlerKeepsIdentity ==
  ASSUME TypeOK, IdentityInv, DenialInv, NEW r \in Requests, HandlerStep(r),
         UNCHANGED runVars
  PROVE  IdentityInv' /\ DenialInv'
<1>0. StoreTypeOK /\ UNCHANGED mem
  BY DEF TypeOK, EngineTypeOK, runVars
<1>1. Refusal(500).code # 201 /\ Refusal(409).code # 201
      /\ \A tx : Answer(200, tx).code # 201
  BY DEF Refusal, Answer
<1>2. CASE CreateLookup(r)
  <2>1. UNCHANGED transactions /\ stage[r] = "received"
    BY <1>2 DEF CreateLookup, Received, storeVars
  <2>2. PICK contract \in Contracts, key \in Keys :
          \/ \E t \in FindByIdempotency(key) : Finish(r, Answer(200, transactions[t]))
          \/ \E t \in Txs, now \in Instants :
               /\ FreshId(t)
               /\ Hold(r, "evaluating", CreateTransaction(t, contract, key, now))
    BY <1>2 DEF CreateLookup
  <2>3. ASSUME NEW t \in Txs, NEW now \in Instants, FreshId(t),
               Hold(r, "evaluating", CreateTransaction(t, contract, key, now))
        PROVE  IdentityInv' /\ DenialInv'
    <3>1. CreateTransaction(t, contract, key, now).id = t
      BY DEF CreateTransaction
    <3> QED BY <1>0, <2>1, <2>3, <3>1, CreatedTyped, HoldNewKeepsIdentity
  <2> QED BY <1>0, <1>1, <2>1, <2>2, <2>3, AnswerKeepsIdentity
<1>3. CASE CreateInsert(r)
  <2>1. PICK decision \in Decisions :
          LET tx == Admit(held[r], decision)
          IN IF KeyIsFree(tx)
             THEN PutTransaction(tx) /\ Finish(r, Answer(201, tx))
             ELSE Finish(r, Refusal(500)) /\ UNCHANGED transactions
    BY <1>3 DEF CreateInsert
  <2>2. held[r] \in Transaction /\ Evaluating(r)
    BY <1>3, HeldTyped DEF CreateInsert, TypeOK, Evaluating
  <2>3. Admit(held[r], decision) \in Transaction
        /\ SameIdentity(Admit(held[r], decision), held[r])
    BY <2>2, DecisionTyped, AdmitTyped, AdmitKeepsIdentity
  <2>4. CASE KeyIsFree(Admit(held[r], decision))
    BY <1>0, <2>1, <2>2, <2>3, <2>4, InsertKeepsIdentity
  <2>5. CASE ~KeyIsFree(Admit(held[r], decision))
    BY <1>0, <1>1, <2>1, <2>5, AnswerKeepsIdentity
  <2> QED BY <2>4, <2>5
<1>4. CASE ApproveRead(r)
  <2>1. UNCHANGED transactions /\ stage[r] = "received"
    BY <1>4 DEF ApproveRead, Received, storeVars
  <2>2. PICK t \in Stored :
          \/ \E approval \in ApprovalRecord :
               /\ transactions[t].status # "REJECTED_BY_POLICY"
               /\ Hold(r, "writing", RecordApproval(transactions[t], approval))
          \/ Finish(r, Refusal(500))
    BY <1>4 DEF ApproveRead
  <2>3. ASSUME NEW approval \in ApprovalRecord
        PROVE  /\ RecordApproval(transactions[t], approval) \in Transaction
               /\ SameIdentity(RecordApproval(transactions[t], approval), transactions[t])
    <3>1. transactions[t] \in Transaction
      BY <1>0, RowOfStored DEF Stored
    <3> QED BY <3>1, RecordApprovalTyped DEF RecordApproval, SameIdentity, Transaction
  <2> QED BY <1>0, <1>1, <2>1, <2>2, <2>3, AnswerKeepsIdentity, HoldRowKeepsIdentity
<1>5. CASE CancelRead(r)
  <2>1. UNCHANGED transactions /\ stage[r] = "received"
    BY <1>5 DEF CancelRead, Received, storeVars
  <2>2. PICK t \in Stored :
          \/ /\ transactions[t].status \notin Terminal
             /\ Hold(r, "writing", [transactions[t] EXCEPT !.status = "CANCELLED"])
          \/ Finish(r, Refusal(409))
    BY <1>5 DEF CancelRead
  <2>3. /\ [transactions[t] EXCEPT !.status = "CANCELLED"] \in Transaction
        /\ SameIdentity([transactions[t] EXCEPT !.status = "CANCELLED"], transactions[t])
    <3>1. transactions[t] \in Transaction
      BY <1>0, RowOfStored DEF Stored
    <3>2. [transactions[t] EXCEPT !.status = "CANCELLED"] \in Transaction
      BY <3>1, StatusUpdateTyped DEF TransactionStatus
    <3> QED BY <3>1, <3>2 DEF SameIdentity, Transaction
  <2>4. transactions[t].status \notin Terminal =>
          transactions[t].status # "REJECTED_BY_POLICY"
    BY DEF Terminal
  <2> QED BY <1>0, <1>1, <2>1, <2>2, <2>3, <2>4, AnswerKeepsIdentity, HoldRowKeepsIdentity
<1>6. CASE WriteBack(r)
  BY <1>0, <1>6, WriteBackKeepsIdentity
<1>7. CASE RequestFails(r)
  BY <1>0, <1>1, <1>7, AnswerKeepsIdentity DEF RequestFails, storeVars
<1> QED BY <1>2, <1>3, <1>4, <1>5, <1>6, <1>7 DEF HandlerStep

LEMMA InitIdentified == Init => IdentityInv /\ DenialInv
<1> SUFFICES ASSUME Init PROVE IdentityInv /\ DenialInv
  OBVIOUS
<1>1. Stored = {} /\ \A w \in Workers : mem[w] = NoRow
  BY DEF Init, RunInit, Stored
<1>2. \A r \in Requests : ~Evaluating(r) /\ ~Writing(r) /\ ~Created(r)
  BY DEF Init, ControlPlaneInit, NoReply, Evaluating, Writing, Created
<1> QED BY <1>1, <1>2 DEF IdentityInv, CopiesAreOfRows, NewIdsAreNew, KeysAreUnique,
                          AnswersHaveRows, DenialInv

LEMMA StepIdentified ==
  TypeOK /\ IdentityInv /\ DenialInv /\ [Next]_vars => IdentityInv' /\ DenialInv'
<1> SUFFICES ASSUME TypeOK, IdentityInv, DenialInv, [Next]_vars
             PROVE  IdentityInv' /\ DenialInv'
  OBVIOUS
<1>1. ASSUME NEW r \in Requests, HandlerStep(r), UNCHANGED <<runVars, worldVars>>
      PROVE  IdentityInv' /\ DenialInv'
  BY <1>1, HandlerKeepsIdentity
<1>2. ASSUME NEW w \in Workers,
             (\E t \in Txs : Load(w, t)) \/ RunStep(w) \/ RunFault(w),
             UNCHANGED requestVars
      PROVE  IdentityInv' /\ DenialInv'
  BY <1>2, RunKeepsIdentity
<1>3. CASE UNCHANGED vars
  BY <1>3 DEF IdentityInv, CopiesAreOfRows, NewIdsAreNew, KeysAreUnique,
              AnswersHaveRows, DenialInv, CopyOfRow, Stored, Evaluating, Writing,
              Created, vars, storeVars, requestVars, runVars
<1> QED BY <1>1, <1>2, <1>3 DEF Next

LEMMA IdentifiedMeansOnce == IdentityInv => CreatedOnce
BY DEF IdentityInv, KeysAreUnique, AnswersHaveRows, CreatedOnce, Created

LEMMA UnreadMeansFinal == DenialInv => DenialIsFinal
BY DEF DenialInv, DenialIsFinal, Created

(***************************************************************************)
(* Of the requests that carry one idempotency key at most one is answered  *)
(* 201, for any number of requests and however the lookup of one overlaps  *)
(* the insert of another (server.ts:52-60 and the unique key of            *)
(* schema.sql).                                                            *)
(***************************************************************************)
THEOREM CreatedOnceHolds == Spec => []CreatedOnce
<1> QED BY InitTyped, StepTyped, InitIdentified, StepIdentified, IdentifiedMeansOnce,
           PTL DEF Spec

(***************************************************************************)
(* A policy denial the client was told of stands: no handler and no run    *)
(* ever holds a copy of the denied row, so none can write over it          *)
(* (server.ts:99-101; runtime.ts:57, 70; index.ts:46).                     *)
(***************************************************************************)
THEOREM DenialIsFinalHolds == Spec => []DenialIsFinal
<1> QED BY InitTyped, StepTyped, InitIdentified, StepIdentified, UnreadMeansFinal,
           PTL DEF Spec

-----------------------------------------------------------------------------
(* What a row says of outcome and history.                                 *)

\* What a copy must show before its status may become to.
Deserves(copy, to) ==
  \/ to \in {"EXECUTING", "UNKNOWN_EFFECT", "RECONCILIATION_REQUIRED"}
  \/ /\ to \in {"CREATED", "AWAITING_APPROVAL", "READY", "REJECTED_BY_POLICY",
               "CANCELLED"}
     /\ Untried(copy)
  \/ to = "FAILED_INFRASTRUCTURE" /\ AllFailed(copy.actions) /\ copy.observations = {}
  \/ to = "VERIFYING" /\ LastExecuted(copy)
  \/ /\ to \in {"COMMITTING", "VERIFIED", "VERIFIED_AFTER_RETRY"}
     /\ LastExecuted(copy) /\ Confirmed(copy)
  \/ /\ to \in {"COMPENSATING", "COMPENSATED"}
     /\ LastExecuted(copy) /\ ToBeUndone(copy)

\* tx tells of the same attempts and observations as copy.
SameStory(tx, copy) ==
  /\ tx.contract = copy.contract /\ tx.actions = copy.actions
  /\ tx.observations = copy.observations

\* What the observations say of the outcome is part of the story.
LEMMA StoryDecides ==
  ASSUME NEW copy, NEW tx, SameStory(tx, copy)
  PROVE  /\ Confirmed(tx) <=> Confirmed(copy)
         /\ ToBeUndone(tx) <=> ToBeUndone(copy)
<1>1. \A e, what : Seen(tx, e, what) <=> Seen(copy, e, what)
  BY DEF SameStory, Seen
<1> QED BY <1>1 DEF SameStory, Confirmed, ToBeUndone

LEMMA StatusUpdateStory ==
  ASSUME NEW copy \in Transaction, NEW to
  PROVE  /\ SameStory([copy EXCEPT !.status = to], copy)
         /\ [copy EXCEPT !.status = to].status = to
BY DEF SameStory, Transaction

LEMMA DeservedHolds ==
  ASSUME NEW copy, NEW tx, SameStory(tx, copy), HistoryHolds(copy),
         Deserves(copy, tx.status)
  PROVE  RecordHolds(tx)
<1> USE DEF SameStory
<1>1. OutcomeHolds(tx)
  BY StoryDecides DEF OutcomeHolds, Deserves
<1>2. HistoryHolds(tx)
  BY DEF HistoryHolds, Deserves, Untried, LastExecuted
<1> QED BY <1>1, <1>2 DEF RecordHolds, Deserves, InMemoryOnly

\* Status, actions and observations are written together (db/src/index.ts:22-27).
LEMMA PutKeepsRecords ==
  ASSUME StoreTypeOK, \A t \in Stored : RecordHolds(transactions[t]),
         NEW tx \in Transaction, RecordHolds(tx), PutTransaction(tx),
         CopyOfRow(tx) \/ transactions[tx.id] = NoRow
  PROVE  (\A t \in Stored : RecordHolds(transactions[t]))'
<1> DEFINE row == Upsert(transactions[tx.id], tx)
<1>1. tx.id \in Txs
  BY DEF Transaction
<1>2. row.status = tx.status /\ SameStory(row, tx)
  <2>1. CASE transactions[tx.id] = NoRow
    BY <2>1 DEF Upsert, SameStory
  <2>2. CASE transactions[tx.id] # NoRow
    BY <1>1, <2>2, RowOfStored DEF Upsert, SameStory, Transaction, CopyOfRow
  <2> QED BY <2>1, <2>2
<1>3. transactions' = [transactions EXCEPT ![tx.id] = row]
  BY DEF PutTransaction
<1> HIDE DEF row
<1>4. RecordHolds(row)
  BY <1>2, StoryDecides DEF RecordHolds, OutcomeHolds, HistoryHolds, SameStory
<1>5. ASSUME NEW t \in Txs, transactions'[t] # NoRow
      PROVE  RecordHolds(transactions'[t])
  <2>1. CASE t = tx.id
    BY <1>3, <1>4, <2>1 DEF StoreTypeOK
  <2>2. CASE t # tx.id
    BY <1>3, <1>5, <2>2 DEF StoreTypeOK, Stored
  <2> QED BY <2>1, <2>2
<1> QED BY <1>5 DEF Stored

\* The copy of a run after a step, and what the next write may rely on.
Recorded(w) == RecordHolds(mem'[w]) /\ Progress(w)'

\* A run that has just called transition() goes on at next with status to.
LEMMA TransitionRecorded ==
  ASSUME EngineTypeOK, NEW w \in Workers, pc[w] # "idle", HistoryHolds(mem[w]),
         NEW to, Deserves(mem[w], to), NEW type, NEW next \in Label,
         next \notin {"loaded", "call", "finish", "decide"},
         next = "select" => AllFailed(mem[w].actions) /\ mem[w].observations = {},
         type \in {"transaction.compensated", "compensation.failed"} =>
           ToBeUndone(mem[w]) /\ LastExecuted(mem[w]),
         Transition(w, to, type, next)
  PROVE  Recorded(w)
<1>1. mem'[w] = [mem[w] EXCEPT !.status = to]
  BY DEF EngineTypeOK, Transition, SetMem
<1>2. SameStory(mem'[w], mem[w]) /\ mem'[w].status = to
  BY <1>1, CopyOfRun, StatusUpdateStory
<1>3. RecordHolds(mem'[w])
  BY <1>2, DeservedHolds
<1>4. /\ Standing(w)' = next
      /\ pc'[w] = "event" /\ pending'[w].type = type
  BY DEF EngineTypeOK, Transition, Emit, Goto, Standing
<1>5. Progress(w)'
  BY <1>2, <1>4, StoryDecides DEF Progress, SameStory, LastExecuted
<1> QED BY <1>3, <1>5 DEF Recorded

\* What the statuses of FlowCommitProofs!StatusInv say of the record.
LEMMA CopyShows ==
  ASSUME EngineTypeOK, StatusInv, NEW w \in Workers, pc[w] # "idle",
         RecordHolds(mem[w]), Progress(w)
  PROVE  /\ HistoryHolds(mem[w])
         /\ Standing(w) \in {"loaded", "select"} =>
              AllFailed(mem[w].actions) /\ mem[w].observations = {}
         /\ Standing(w) \in {"call", "finish", "decide"} =>
              Len(mem[w].actions) > 0 /\ mem[w].observations = {}
         /\ Standing(w) = "decide" =>
              mem[w].actions[Len(mem[w].actions)].status = ActionResult[result[w]]
         /\ Standing(w) \in {"verify", "outcome", "commit", "compensate",
                             "compensated", "catch"} => LastExecuted(mem[w])
         /\ Standing(w) = "commit" => Confirmed(mem[w])
         /\ Standing(w) \in {"compensate", "compensated", "catch"} => ToBeUndone(mem[w])
<1>1. mem[w].status \in ExpectedStatus(Standing(w))
  BY DEF StatusInv
<1>2. HistoryHolds(mem[w]) /\ OutcomeHolds(mem[w])
  BY DEF RecordHolds
<1>3. Standing(w) \in {"verify", "outcome", "commit", "compensate", "compensated",
                       "catch"} => LastExecuted(mem[w])
  BY <1>1, <1>2 DEF ExpectedStatus, HistoryHolds, LastExecuted
<1>4. Standing(w) = "commit" => Confirmed(mem[w])
  BY <1>1, <1>2 DEF ExpectedStatus, OutcomeHolds, Confirmed
<1>5. Standing(w) \in {"compensate", "compensated", "catch"} => ToBeUndone(mem[w])
  BY <1>1, <1>2 DEF ExpectedStatus, OutcomeHolds, ToBeUndone
<1> QED BY <1>2, <1>3, <1>4, <1>5 DEF Progress

\* Every attempt has failed once the last one has (index.ts:49-53).
LEMMA LastOneFailed ==
  ASSUME NEW tx \in Transaction, HistoryHolds(tx), Len(tx.actions) > 0,
         tx.actions[Len(tx.actions)].status = "FAILED"
  PROVE  AllFailed(tx.actions)
<1>1. tx.actions \in Seq(TransactionAction)
  BY DEF Transaction
<1>2. DOMAIN tx.actions = 1..Len(tx.actions) /\ Len(tx.actions) \in Nat
  BY <1>1
<1> QED BY <1>2 DEF AllFailed, HistoryHolds

LEMMA TransitionStepRecorded ==
  ASSUME EngineTypeOK, StatusInv, NEW w \in Workers, pc[w] # "idle",
         RecordHolds(mem[w]), Progress(w),
         \/ BeginExecuting(w) \/ NoExecutor(w)
         \/ ExecutionUnknown(w) \/ ExecutionFailed(w) \/ BeginVerifying(w)
         \/ Commit(w) \/ CompensationUnavailable(w) \/ CompensationDone(w)
         \/ CompensationCaught(w) \/ RequireReconciliation(w)
  PROVE  Recorded(w)
<1> DEFINE Fit(to, type, next) ==
      /\ Deserves(mem[w], to)
      /\ next \in Label \ {"loaded", "call", "finish", "decide"}
      /\ next = "select" => AllFailed(mem[w].actions) /\ mem[w].observations = {}
      /\ type \in {"transaction.compensated", "compensation.failed"} =>
           ToBeUndone(mem[w]) /\ LastExecuted(mem[w])
<1>1. \E to, type, next : Fit(to, type, next) /\ Transition(w, to, type, next)
  <2> USE CopyShows DEF Deserves, Label, Standing
  <2>1. CASE BeginExecuting(w)
    BY <2>1 DEF BeginExecuting
  <2>2. CASE NoExecutor(w)
    BY <2>2 DEF NoExecutor
  <2>3. CASE ExecutionUnknown(w)
    BY <2>3 DEF ExecutionUnknown
  <2>4. CASE ExecutionFailed(w)
    <3>1. AllFailed(mem[w].actions) /\ mem[w].observations = {}
      BY <2>4, CopyOfRun, LastOneFailed DEF ExecutionFailed, ActionResult
    <3> QED BY <2>4, <3>1 DEF ExecutionFailed
  <2>5. CASE BeginVerifying(w)
    <3>1. LastExecuted(mem[w])
      BY <2>5 DEF BeginVerifying, ActionResult, LastExecuted
    <3> QED BY <2>5, <3>1 DEF BeginVerifying
  <2>6. CASE Commit(w)
    BY <2>6 DEF Commit
  <2>7. CASE CompensationUnavailable(w)
    BY <2>7 DEF CompensationUnavailable
  <2>8. CASE CompensationDone(w)
    BY <2>8 DEF CompensationDone
  <2>9. CASE CompensationCaught(w)
    BY <2>9 DEF CompensationCaught
  <2>10. CASE RequireReconciliation(w)
    BY <2>10 DEF RequireReconciliation
  <2> QED BY <2>1, <2>2, <2>3, <2>4, <2>5, <2>6, <2>7, <2>8, <2>9, <2>10
<1> QED BY <1>1, CopyShows, TransitionRecorded

\* The action a run has begun is appended to attempts that failed (index.ts:62-64).
LEMMA StartActionRecorded ==
  ASSUME EngineTypeOK, StatusInv, NEW w \in Workers, RecordHolds(mem[w]), Progress(w),
         StartAction(w)
  PROVE  Recorded(w)
<1>1. PICK name \in Executors :
        LET tx == [mem[w] EXCEPT !.actions =
                     Append(@, [executor |-> name, status |-> "EXECUTING"])]
        IN SetMem(w, tx)
  BY DEF StartAction
<1> DEFINE actions == mem[w].actions
           action == [executor |-> name, status |-> "EXECUTING"]
<1>2. /\ mem[w] \in Transaction /\ actions \in Seq(TransactionAction)
      /\ pc[w] = "select" /\ Standing(w) = "select"
  BY CopyOfRun DEF StartAction, Transaction, Standing
<1>3. AllFailed(actions) /\ mem[w].observations = {} /\ mem[w].status = "EXECUTING"
  BY <1>2, CopyShows DEF StatusInv, ExpectedStatus
<1>4. mem'[w] = [mem[w] EXCEPT !.actions = Append(actions, action)]
  BY <1>1 DEF EngineTypeOK, SetMem
<1>5. /\ mem'[w].actions = Append(actions, action)
      /\ mem'[w].observations = {} /\ mem'[w].status = "EXECUTING"
  BY <1>2, <1>3, <1>4 DEF Transaction
<1> HIDE DEF action
<1>6. /\ Len(Append(actions, action)) = Len(actions) + 1
      /\ \A i \in 1..Len(actions) : Append(actions, action)[i] = actions[i]
      /\ Len(actions) \in Nat /\ DOMAIN actions = 1..Len(actions)
  BY <1>2
<1>7. HistoryHolds(mem'[w])
  BY <1>3, <1>5, <1>6 DEF HistoryHolds, AllFailed
<1>8. OutcomeHolds(mem'[w])
  BY <1>5 DEF OutcomeHolds
<1>9. Standing(w)' = "call" /\ pc'[w] = "call"
  BY DEF EngineTypeOK, StartAction, Goto, Standing
<1>10. Progress(w)'
  BY <1>5, <1>6, <1>9 DEF Progress
<1> QED BY <1>5, <1>7, <1>8, <1>10 DEF Recorded, RecordHolds, InMemoryOnly

\* finishAction() changes the last attempt only (index.ts:144-147).
LEMMA FinishActionRecorded ==
  ASSUME EngineTypeOK, StatusInv, NEW w \in Workers, RecordHolds(mem[w]), Progress(w),
         FinishAction(w)
  PROVE  Recorded(w)
<1> DEFINE actions == mem[w].actions
           n == Len(mem[w].actions)
           status == ActionResult[result[w]]
<1>1. /\ mem[w] \in Transaction /\ actions \in Seq(TransactionAction)
      /\ pc[w] = "finish" /\ Standing(w) = "finish"
  BY CopyOfRun DEF FinishAction, Transaction, Standing
<1>2. /\ n > 0 /\ mem[w].observations = {} /\ mem[w].status = "EXECUTING"
      /\ HistoryHolds(mem[w])
  BY <1>1, CopyShows DEF StatusInv, ExpectedStatus
<1>3. mem'[w] = [mem[w] EXCEPT !.actions[n].status = status]
  BY DEF EngineTypeOK, FinishAction, SetMem
<1>4. /\ mem'[w].actions = [actions EXCEPT ![n].status = status]
      /\ mem'[w].observations = {} /\ mem'[w].status = "EXECUTING"
  BY <1>1, <1>2, <1>3 DEF Transaction
<1>5. n \in DOMAIN actions /\ n \in Nat /\ actions[n] \in TransactionAction
  BY <1>1, <1>2
<1> HIDE DEF status, actions
<1>6. /\ Len(mem'[w].actions) = n
      /\ mem'[w].actions[n].status = status
      /\ \A i \in 1..(n - 1) : mem'[w].actions[i] = actions[i]
  <2>1. DOMAIN mem'[w].actions = DOMAIN actions
    BY <1>4
  <2>2. mem'[w].actions[n] = [actions[n] EXCEPT !.status = status]
    BY <1>4, <1>5
  <2>3. \A i \in DOMAIN actions : i # n => mem'[w].actions[i] = actions[i]
    BY <1>4
  <2> QED BY <1>1, <1>5, <2>1, <2>2, <2>3 DEF TransactionAction, actions
<1>7. HistoryHolds(mem'[w])
  BY <1>2, <1>4, <1>6 DEF HistoryHolds, actions
<1>8. OutcomeHolds(mem'[w])
  BY <1>4 DEF OutcomeHolds
<1>9. Standing(w)' = "decide" /\ pending'[w].type = "action.finished" /\ result' = result
  BY DEF EngineTypeOK, FinishAction, Emit, Goto, Standing
<1>10. Progress(w)'
  BY <1>2, <1>4, <1>6, <1>9 DEF Progress, status
<1> QED BY <1>4, <1>7, <1>8, <1>10 DEF Recorded, RecordHolds, InMemoryOnly

\* A run that has read a row relies on what the row says (index.ts:45-51).
LEMMA LoadRecorded ==
  ASSUME EngineTypeOK, NEW w \in Workers, NEW t \in Txs, Load(w, t),
         \A u \in Stored : RecordHolds(transactions[u])
  PROVE  Recorded(w)
<1>1. RecordHolds(transactions[t]) /\ mem'[w] = transactions[t]
  BY DEF EngineTypeOK, Load, SetMem, Stored
<1>2. transactions[t].status # "UNKNOWN_EFFECT" =>
        AllFailed(transactions[t].actions) /\ transactions[t].observations = {}
  <2>1. transactions[t].status \in Runnable /\ HistoryHolds(transactions[t])
    BY <1>1 DEF Load, RecordHolds
  <2>2. AllFailed(<< >>)
    BY DEF AllFailed
  <2> QED BY <2>1, <2>2 DEF Runnable, HistoryHolds
<1>3. /\ Standing(w)' \in {"loaded", "reconcile"} /\ pc'[w] # "event"
      /\ Standing(w)' = "loaded" => transactions[t].status # "UNKNOWN_EFFECT"
  BY DEF EngineTypeOK, Load, Goto, Standing
<1>4. Progress(w)'
  BY <1>1, <1>2, <1>3 DEF Progress
<1> QED BY <1>1, <1>4 DEF Recorded

\* The steps of verification: the copy gains observations (index.ts:104-127).
LEMMA ObservedRecorded ==
  ASSUME EngineTypeOK, StatusInv, NEW w \in Workers, RecordHolds(mem[w]), Progress(w),
         VerificationNotRequired(w) \/ Verify(w) \/ VerifyDone(w)
  PROVE  Recorded(w)
<1>1. mem[w] \in Transaction /\ pc[w] = "verify" /\ Standing(w) = "verify"
  BY CopyOfRun DEF VerificationNotRequired, Verify, VerifyDone, Standing
<1>2. LastExecuted(mem[w]) /\ HistoryHolds(mem[w]) /\ mem[w].status = "VERIFYING"
  BY <1>1, CopyShows DEF StatusInv, ExpectedStatus
<1>3. mem'[w].status = mem[w].status /\ mem'[w].actions = mem[w].actions
  <2> USE <1>1 DEF EngineTypeOK, SetMem, Transaction
  <2>1. CASE VerificationNotRequired(w)
    BY <2>1 DEF VerificationNotRequired
  <2>2. CASE Verify(w)
    BY <2>2 DEF Verify, AddObservation
  <2>3. CASE VerifyDone(w)
    BY <2>3 DEF VerifyDone
  <2> QED BY <2>1, <2>2, <2>3
<1>4. /\ Standing(w)' \in {"verify", "outcome"}
      /\ pc'[w] = "event" => pending'[w].type = "effect.observed"
  BY <1>1 DEF EngineTypeOK, VerificationNotRequired, Verify, VerifyDone, Emit, Goto,
              Standing
<1>5. HistoryHolds(mem'[w])
  BY <1>2, <1>3 DEF HistoryHolds, LastExecuted
<1>6. OutcomeHolds(mem'[w])
  BY <1>2, <1>3 DEF OutcomeHolds
<1>7. Progress(w)'
  BY <1>4 DEF Progress
<1> QED BY <1>2, <1>3, <1>5, <1>6, <1>7 DEF Recorded, RecordHolds, InMemoryOnly

\* The summary of verification.ts says what the observations say one by one.
LEMMA SummaryIsTrue ==
  ASSUME NEW tx \in Transaction
  PROVE  LET summary == SummarizeVerification(Doc[tx.contract], tx.observations)
         IN /\ summary.confirmed => Confirmed(tx)
            /\ summary.rejected /\ CanCompensate(Doc[tx.contract]) => ToBeUndone(tx)
<1> DEFINE contract == Doc[tx.contract]
           summary == SummarizeVerification(contract, tx.observations)
<1>1. contract \in BusinessEffectContract
  BY ContractsAssumption DEF Transaction
<1>2. /\ contract.minimumStrength \in Nat
      /\ \A o \in tx.observations : o.strength \in Nat
  BY <1>1 DEF BusinessEffectContract, Transaction, EffectObservation
<1>3. ASSUME summary.confirmed, NEW e \in contract.effects
      PROVE  \E o \in tx.observations :
               /\ o.effectId = e /\ o.result = "CONFIRMED"
               /\ o.strength >= contract.minimumStrength
  <2>1. \E o \in ConfirmedBy(tx.observations, e) : ~(o.strength < contract.minimumStrength)
    BY <1>3 DEF SummarizeVerification
  <2> QED BY <1>2, <2>1 DEF ConfirmedBy, Matches
<1>4. ASSUME summary.rejected
      PROVE  \E e \in contract.effects :
               Seen(tx, e, "REJECTED") /\ ~Seen(tx, e, "CONFIRMED")
  BY <1>4 DEF SummarizeVerification, ConfirmedBy, Matches, Seen
<1> QED BY <1>3, <1>4 DEF Confirmed, ToBeUndone

\* The decision is the one the observations call for (runtime.ts:83-92).
LEMMA DecideRecorded ==
  ASSUME EngineTypeOK, StatusInv, NEW w \in Workers, RecordHolds(mem[w]), Progress(w),
         DecideOutcome(w)
  PROVE  Recorded(w)
<1> DEFINE tx == DecideVerificationOutcome(mem[w], DocOf(w))
<1>1. mem[w] \in Transaction /\ pc[w] = "outcome" /\ Standing(w) = "outcome"
  BY CopyOfRun DEF DecideOutcome, Standing
<1>2. LastExecuted(mem[w]) /\ HistoryHolds(mem[w])
  BY <1>1, CopyShows
<1>3. SameStory(tx, mem[w]) /\ Deserves(mem[w], tx.status)
  <2>1. PICK to : tx = [mem[w] EXCEPT !.status = to] /\ Deserves(mem[w], to)
    BY <1>1, <1>2, SummaryIsTrue DEF DecideVerificationOutcome, DocOf, Deserves
  <2> QED BY <1>1, <2>1, StatusUpdateStory
<1>4. RecordHolds(tx)
  BY <1>2, <1>3, DeservedHolds
<1>5. mem'[w] = tx
  BY DEF EngineTypeOK, DecideOutcome, SetMem
<1>6. /\ Standing(w)' \in {"commit", "compensate", "reconcile"}
      /\ pending'[w].type = "transaction.verification_decided"
  BY DEF EngineTypeOK, DecideOutcome, Emit, Goto, Standing
<1>7. Progress(w)'
  BY <1>6 DEF Progress
<1> QED BY <1>4, <1>5, <1>7 DEF Recorded

\* The catch block starts again from the copy that was COMPENSATING
\* (index.ts:133-135): the outcome was decided before, and it has not changed.
LEMMA StoreErrorRecorded ==
  ASSUME EngineTypeOK, StatusInv, NEW w \in Workers, RecordHolds(mem[w]), Progress(w),
         CompensationStoreError(w)
  PROVE  Recorded(w)
<1>1. mem[w] \in Transaction /\ pc[w] # "idle"
  BY CopyOfRun DEF CompensationStoreError
<1>2. ToBeUndone(mem[w]) /\ LastExecuted(mem[w]) /\ HistoryHolds(mem[w])
  BY <1>1, CopyShows DEF CompensationStoreError, Progress, Standing
<1>3. mem'[w] = [mem[w] EXCEPT !.status = "COMPENSATING"]
  BY DEF EngineTypeOK, CompensationStoreError, SetMem
<1>4. RecordHolds(mem'[w])
  BY <1>1, <1>2, <1>3, StatusUpdateStory, DeservedHolds DEF Deserves
<1>5. pc'[w] = "catch" /\ Standing(w)' = "catch"
  BY DEF EngineTypeOK, CompensationStoreError, Goto, Standing
<1>6. Progress(w)'
  BY <1>5 DEF Progress
<1> QED BY <1>4, <1>6 DEF Recorded

\* The steps that leave the copy alone: calls of the adapter, and the evidence.
LEMMA CopyKeptRecorded ==
  ASSUME EngineTypeOK, StatusInv, NEW w \in Workers, RecordHolds(mem[w]), Progress(w),
         Execute(w) \/ Compensate(w) \/ (RecordEvent(w) /\ pending[w].next # "idle")
  PROVE  Recorded(w)
<1>1. mem'[w] = mem[w]
  BY DEF Execute, Compensate, RecordEvent
<1>2. Progress(w)'
  <2>1. CASE Execute(w)
    <3>1. pc'[w] = "finish" /\ Standing(w)' = "finish" /\ Standing(w) = "call"
      BY <2>1 DEF EngineTypeOK, Execute, Goto, Standing
    <3> QED BY <1>1, <3>1 DEF Progress
  <2>2. CASE Compensate(w)
    <3>1. pc'[w] \in {"catch", "compensated"} /\ Standing(w)' \in {"catch", "compensated"}
      BY <2>2 DEF EngineTypeOK, Compensate, Goto, Standing
    <3> QED BY <3>1 DEF Progress
  <2>3. CASE RecordEvent(w) /\ pending[w].next # "idle"
    <3>1. /\ pc'[w] = pending[w].next /\ pc'[w] # "event"
          /\ Standing(w) = pending[w].next /\ result' = result
      BY <2>3 DEF EngineTypeOK, PendingEvent, RecordEvent, Goto, Standing
    <3>2. Standing(w)' = Standing(w)
      BY <3>1 DEF Standing
    <3> QED BY <1>1, <3>1, <3>2 DEF Progress
  <2> QED BY <2>1, <2>2, <2>3
<1> QED BY <1>1, <1>2 DEF Recorded

LEMMA RunRecorded ==
  ASSUME EngineTypeOK, StatusInv, NEW w \in Workers,
         \A t \in Stored : RecordHolds(transactions[t]),
         pc[w] # "idle" => RecordHolds(mem[w]) /\ Progress(w),
         (\E t \in Txs : Load(w, t)) \/ RunStep(w) \/ RunFault(w)
  PROVE  pc'[w] # "idle" => Recorded(w)
<1>1. CASE \E t \in Txs : Load(w, t)
  BY <1>1, LoadRecorded
<1>2. CASE RunStep(w) \/ RunFault(w)
  <2>1. pc[w] # "idle"
    BY <1>2, RunStepWrites
  <2>2. CASE OpenCase(w) \/ Abandon(w) \/ (RecordEvent(w) /\ pending[w].next = "idle")
    BY <2>2 DEF EngineTypeOK, OpenCase, Abandon, RecordEvent, EndRun, Goto
  <2> QED BY <1>2, <2>1, <2>2, TransitionStepRecorded, StartActionRecorded,
             FinishActionRecorded, ObservedRecorded, DecideRecorded,
             StoreErrorRecorded, CopyKeptRecorded DEF RunStep, RunFault
<1> QED BY <1>1, <1>2

LEMMA RunKeepsRecords ==
  ASSUME TypeOK, StatusInv, IdentityInv, DenialInv, RecordInv, NEW w \in Workers,
         UNCHANGED requestVars,
         (\E t \in Txs : Load(w, t)) \/ RunStep(w) \/ RunFault(w)
  PROVE  RecordInv'
<1>0. EngineTypeOK /\ StoreTypeOK
  BY DEF TypeOK, EngineTypeOK
<1>1. pc'[w] # "idle" => Recorded(w)
  BY <1>0, RunRecorded DEF RecordInv
<1>2. (\A t \in Stored : RecordHolds(transactions[t]))'
  <2>1. CASE UNCHANGED transactions
    BY <2>1 DEF RecordInv, Stored
  <2>2. CASE ~ UNCHANGED transactions
    <3>1. RunStep(w) \/ RunFault(w)
      BY <2>2 DEF Load, storeVars
    <3>2. pc'[w] # "idle" /\ PutTransaction(mem'[w])
      BY <1>0, <2>2, <3>1, RunPutsItsCopy
    <3>3. PICK tx \in Transaction : RunWrites(w, tx)
      BY <1>0, <3>1, RunStepWrites
    <3>4. mem'[w] # NoRow
      BY <1>0, <3>2, EngineStepTyped DEF EngineTypeOK
    <3>5. mem'[w] = tx
      BY <1>0, <3>3, <3>4 DEF RunWrites, SetMem, EngineTypeOK
    <3>6. CopyOfRow(tx)
      <4>1. pc[w] # "idle" /\ mem[w] # NoRow
        BY <1>0, <3>1, RunStepWrites DEF EngineTypeOK
      <4> QED BY <3>3, <4>1, SameCopyOfRow DEF IdentityInv, CopiesAreOfRows, RunWrites
    <3>7. RecordHolds(tx) /\ PutTransaction(tx)
      BY <1>1, <3>2, <3>5 DEF Recorded
    <3> QED BY <1>0, <3>6, <3>7, PutKeepsRecords DEF RecordInv
  <2> QED BY <2>1, <2>2
<1>3. ASSUME NEW v \in Workers, pc'[v] # "idle"
      PROVE  RecordHolds(mem'[v]) /\ Progress(v)'
  <2>1. CASE v = w
    BY <1>1, <1>3, <2>1 DEF Recorded
  <2>2. CASE v # w
    <3>1. /\ pc'[v] = pc[v] /\ mem'[v] = mem[v] /\ pending'[v] = pending[v]
          /\ result'[v] = result[v]
      BY <1>0, <2>2, OthersKeep
    <3>2. RecordHolds(mem[v]) /\ Progress(v)
      BY <1>3, <3>1 DEF RecordInv
    <3> QED BY <3>1, <3>2 DEF Progress, Standing
  <2> QED BY <2>1, <2>2
<1> QED BY <1>2, <1>3 DEF RecordInv, Evaluating, Writing, requestVars

-----------------------------------------------------------------------------
(* Outcome and history: the steps of a handler.                            *)

\* A handler that answers without a write, or holds a copy fit to be written.
LEMMA HeldKeepsRecords ==
  ASSUME TypeOK, RecordInv, NEW r \in Requests,
         UNCHANGED <<transactions, runVars>>,
         \/ \E answer : Finish(r, answer)
         \/ \E tx : Untried(tx) /\ Hold(r, "evaluating", tx)
         \/ \E tx : RecordHolds(tx) /\ Hold(r, "writing", tx)
  PROVE  RecordInv'
<1>1. ASSUME NEW q \in Requests
      PROVE  /\ Evaluating(q)' => Untried(held'[q])
             /\ Writing(q)' => RecordHolds(held'[q])
  BY DEF RecordInv, Finish, Hold, Evaluating, Writing, TypeOK, ControlPlaneTypeOK
<1>2. (\A t \in Stored : RecordHolds(transactions[t]))'
  BY DEF RecordInv, Stored
<1>3. (\A w \in Workers : pc[w] # "idle" => RecordHolds(mem[w]) /\ Progress(w))'
  BY DEF RecordInv, Progress, Standing, runVars
<1> QED BY <1>1, <1>2, <1>3 DEF RecordInv

\* A handler that writes a copy of a row, or a new row.
LEMMA WriteKeepsRecords ==
  ASSUME TypeOK, RecordInv, NEW r \in Requests, UNCHANGED runVars,
         NEW tx \in Transaction, RecordHolds(tx), PutTransaction(tx),
         CopyOfRow(tx) \/ transactions[tx.id] = NoRow,
         NEW answer, Finish(r, answer)
  PROVE  RecordInv'
<1>1. ASSUME NEW q \in Requests
      PROVE  /\ Evaluating(q)' => Untried(held'[q])
             /\ Writing(q)' => RecordHolds(held'[q])
  BY DEF RecordInv, Finish, Evaluating, Writing, TypeOK, ControlPlaneTypeOK
<1>2. (\A t \in Stored : RecordHolds(transactions[t]))'
  BY PutKeepsRecords DEF RecordInv, TypeOK, EngineTypeOK
<1>3. (\A w \in Workers : pc[w] # "idle" => RecordHolds(mem[w]) /\ Progress(w))'
  BY DEF RecordInv, Progress, Standing, runVars
<1> QED BY <1>1, <1>2, <1>3 DEF RecordInv

\* A transaction nobody has tried is a sound record in every status it can
\* have before it is run (runtime.ts:56-58, 73-76).
LEMMA UntriedHolds ==
  ASSUME NEW tx, Untried(tx),
         tx.status \in {"CREATED", "AWAITING_APPROVAL", "READY",
                        "REJECTED_BY_POLICY", "CANCELLED"}
  PROVE  RecordHolds(tx)
<1>1. Len(tx.actions) = 0
  BY DEF Untried
<1> QED BY <1>1 DEF Untried, RecordHolds, OutcomeHolds, HistoryHolds, InMemoryOnly

LEMMA AdmittedHolds ==
  ASSUME NEW tx \in Transaction, Untried(tx), NEW decision \in Decisions
  PROVE  RecordHolds(Admit(tx, decision))
<1>1. Untried(Admit(tx, decision))
  BY DEF Admit, ApplyPolicy, Untried, Transaction
<1>2. Admit(tx, decision).status \in {"REJECTED_BY_POLICY", "AWAITING_APPROVAL", "READY"}
  <2>1. decision.allow \in BOOLEAN
    BY ControlPlaneAssumption DEF PolicyDecision
  <2> QED BY <2>1 DEF Admit, ApplyPolicy, Transaction
<1> QED BY <1>1, <1>2, UntriedHolds

LEMMA HandlerKeepsRecords ==
  ASSUME TypeOK, IdentityInv, RecordInv, NEW r \in Requests, HandlerStep(r),
         UNCHANGED runVars
  PROVE  RecordInv'
<1>0. StoreTypeOK /\ \A t \in Stored : /\ transactions[t] \in Transaction
                                       /\ RecordHolds(transactions[t])
  BY RowOfStored DEF TypeOK, EngineTypeOK, Stored, RecordInv
<1>1. CASE CreateLookup(r)
  <2>1. UNCHANGED transactions
    BY <1>1 DEF CreateLookup, storeVars
  <2>2. PICK contract \in Contracts, key \in Keys :
          \/ \E t \in FindByIdempotency(key) : Finish(r, Answer(200, transactions[t]))
          \/ \E t \in Txs, now \in Instants :
               Hold(r, "evaluating", CreateTransaction(t, contract, key, now))
    BY <1>1 DEF CreateLookup
  <2>3. \A t, now : Untried(CreateTransaction(t, contract, key, now))
    BY DEF Untried, CreateTransaction
  <2> QED BY <2>1, <2>2, <2>3, HeldKeepsRecords
<1>2. CASE CreateInsert(r)
  <2>1. PICK decision \in Decisions :
          LET tx == Admit(held[r], decision)
          IN IF KeyIsFree(tx)
             THEN PutTransaction(tx) /\ Finish(r, Answer(201, tx))
             ELSE Finish(r, Refusal(500)) /\ UNCHANGED transactions
    BY <1>2 DEF CreateInsert
  <2>2. held[r] \in Transaction /\ Evaluating(r)
    BY <1>2, HeldTyped DEF CreateInsert, TypeOK, Evaluating
  <2>3. /\ Admit(held[r], decision) \in Transaction
        /\ RecordHolds(Admit(held[r], decision))
        /\ transactions[Admit(held[r], decision).id] = NoRow
    BY <2>2, DecisionTyped, AdmitTyped, AdmittedHolds, AdmitKeepsIdentity
       DEF RecordInv, IdentityInv, NewIdsAreNew, SameIdentity
  <2>4. CASE KeyIsFree(Admit(held[r], decision))
    BY <2>1, <2>3, <2>4, WriteKeepsRecords
  <2>5. CASE ~KeyIsFree(Admit(held[r], decision))
    BY <2>1, <2>5, HeldKeepsRecords
  <2> QED BY <2>4, <2>5
<1>3. CASE ApproveRead(r)
  <2>1. UNCHANGED transactions
    BY <1>3 DEF ApproveRead, storeVars
  <2>2. PICK t \in Stored :
          \/ \E approval \in ApprovalRecord :
               /\ transactions[t].status = "AWAITING_APPROVAL"
               /\ Hold(r, "writing", RecordApproval(transactions[t], approval))
          \/ Finish(r, Refusal(500))
    BY <1>3 DEF ApproveRead
  <2>3. ASSUME NEW approval \in ApprovalRecord,
               transactions[t].status = "AWAITING_APPROVAL"
        PROVE  RecordHolds(RecordApproval(transactions[t], approval))
    <3>1. Untried(transactions[t])
      BY <1>0, <2>3 DEF RecordHolds, HistoryHolds, Untried
    <3>2. /\ Untried(RecordApproval(transactions[t], approval))
          /\ RecordApproval(transactions[t], approval).status \in
               {"AWAITING_APPROVAL", "READY", "REJECTED_BY_POLICY"}
      BY <1>0, <3>1 DEF RecordApproval, Untried, Transaction
    <3> QED BY <3>2, UntriedHolds
  <2> QED BY <2>1, <2>2, <2>3, HeldKeepsRecords
<1>4. CASE CancelRead(r)
  <2>1. UNCHANGED transactions
    BY <1>4 DEF CancelRead, storeVars
  <2>2. PICK t \in Stored :
          \/ /\ CanTransitionTransaction(transactions[t].status, "CANCELLED")
             /\ Hold(r, "writing", [transactions[t] EXCEPT !.status = "CANCELLED"])
          \/ Finish(r, Refusal(409))
    BY <1>4 DEF CancelRead
  <2>3. ASSUME CanTransitionTransaction(transactions[t].status, "CANCELLED")
        PROVE  RecordHolds([transactions[t] EXCEPT !.status = "CANCELLED"])
    <3>1. transactions[t].status \in InMemoryOnly \cup {"CREATED", "AWAITING_APPROVAL", "READY"}
      BY <1>0, <2>3 DEF CanTransitionTransaction, transactionTransitions, Transaction,
                        TransactionStatus, InMemoryOnly
    <3>2. Untried(transactions[t]) /\ HistoryHolds(transactions[t])
      BY <1>0, <3>1 DEF RecordHolds, HistoryHolds, Untried
    <3> QED BY <1>0, <3>2, StatusUpdateStory, DeservedHolds DEF Deserves
  <2> QED BY <2>1, <2>2, <2>3, HeldKeepsRecords
<1>5. CASE WriteBack(r)
  <2>1. held[r] \in Transaction /\ Writing(r)
    BY <1>5, HeldTyped DEF WriteBack, TypeOK, Writing
  <2> QED BY <1>5, <2>1, WriteKeepsRecords
          DEF WriteBack, RecordInv, IdentityInv, CopiesAreOfRows
<1>6. CASE RequestFails(r)
  BY <1>6, HeldKeepsRecords DEF RequestFails, storeVars
<1> QED BY <1>1, <1>2, <1>3, <1>4, <1>5, <1>6 DEF HandlerStep

LEMMA InitRecorded == Init => RecordInv
<1> SUFFICES ASSUME Init PROVE RecordInv
  OBVIOUS
<1>1. Stored = {} /\ \A w \in Workers : pc[w] = "idle"
  BY DEF Init, RunInit, Stored
<1>2. \A r \in Requests : ~Evaluating(r) /\ ~Writing(r)
  BY DEF Init, ControlPlaneInit, Evaluating, Writing
<1> QED BY <1>1, <1>2 DEF RecordInv

LEMMA StepRecorded ==
  TypeOK /\ StatusInv /\ IdentityInv /\ DenialInv /\ RecordInv /\ [Next]_vars
    => RecordInv'
<1> SUFFICES ASSUME TypeOK, StatusInv, IdentityInv, DenialInv, RecordInv, [Next]_vars
             PROVE  RecordInv'
  OBVIOUS
<1>1. ASSUME NEW r \in Requests, HandlerStep(r), UNCHANGED <<runVars, worldVars>>
      PROVE  RecordInv'
  BY <1>1, HandlerKeepsRecords
<1>2. ASSUME NEW w \in Workers,
             (\E t \in Txs : Load(w, t)) \/ RunStep(w) \/ RunFault(w),
             UNCHANGED requestVars
      PROVE  RecordInv'
  BY <1>2, RunKeepsRecords
<1>3. CASE UNCHANGED vars
  BY <1>3 DEF RecordInv, Stored, Progress, Standing, Evaluating, Writing, vars,
              storeVars, requestVars, runVars
<1> QED BY <1>1, <1>2, <1>3 DEF Next

LEMMA RecordedMeansBacked == RecordInv => OutcomeBacked /\ OnlyFailuresRetried
BY DEF RecordInv, RecordHolds, OutcomeBacked, OnlyFailuresRetried

(***************************************************************************)
(* A row that says VERIFIED carries the observations that confirm it, and  *)
(* one that says COMPENSATED the refuted effect of a contract that can be  *)
(* compensated, whichever copy was written last and whoever approves,      *)
(* cancels or runs the transaction meanwhile (runtime.ts:83-92;            *)
(* index.ts:93-136; db/src/index.ts:14-33).                                *)
(***************************************************************************)
THEOREM OutcomeBackedHolds == Spec => []OutcomeBacked
<1> QED BY InitTyped, StepTyped, InitStands, NextStands, InitIdentified,
           StepIdentified, InitRecorded, StepRecorded, RecordedMeansBacked, PTL
        DEF Spec

(***************************************************************************)
(* In the record of a transaction every attempt before the last one        *)
(* FAILED, and a row that can be run, approved or cancelled has no effect  *)
(* on record, for any number of overlapping runs (index.ts:49-53, 62-64,   *)
(* 78-88).                                                                 *)
(***************************************************************************)
THEOREM OnlyFailuresRetriedHolds == Spec => []OnlyFailuresRetried
<1> QED BY InitTyped, StepTyped, InitStands, NextStands, InitIdentified,
           StepIdentified, InitRecorded, StepRecorded, RecordedMeansBacked, PTL
        DEF Spec

=============================================================================
