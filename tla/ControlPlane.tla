---------------------------- MODULE ControlPlane ----------------------------
(***************************************************************************)
(* The handlers of apps/api/src/server.ts that change a transaction.  A    *)
(* request r runs one handler once.  held[r] is the handler's copy of the  *)
(* transaction between its await of the read (or of the policy) and its    *)
(* await of the write; stage[r] says which of the two it waits for.  Other *)
(* requests, and the workers, run in between.                              *)
(***************************************************************************)
EXTENDS Store

CONSTANTS Requests,
          Kind,       \* the handler each request runs
          Decisions   \* what the policy provider may answer

RequestKind == {"create", "approve", "cancel"}

PolicyDecision == [allow : BOOLEAN, required : SUBSET ApprovalRule]

ASSUME ControlPlaneAssumption ==
  /\ Kind \in [Requests -> RequestKind]
  /\ Decisions \subseteq PolicyDecision

VARIABLES stage, held, reply

requestVars == <<stage, held, reply>>

Stage == {"received", "evaluating", "writing", "answered"}

\* What the client is told: the HTTP code and the transaction in the body.
NoReply == [code |-> 0, id |-> NoRow, status |-> "none"]
Refusal(code) == [code |-> code, id |-> NoRow, status |-> "none"]
Answer(code, tx) == [code |-> code, id |-> tx.id, status |-> tx.status]

Reply == [code : {0, 200, 201, 409, 500}, id : Txs \cup {NoRow},
          status : TransactionStatus \cup {"none"}]

ControlPlaneTypeOK ==
  /\ stage \in [Requests -> Stage]
  /\ held \in [Requests -> Transaction \cup {NoRow}]
  /\ reply \in [Requests -> Reply]
  /\ \A r \in Requests : stage[r] \in {"evaluating", "writing"} <=> held[r] # NoRow

ControlPlaneInit ==
  /\ stage = [r \in Requests |-> "received"]
  /\ held = [r \in Requests |-> NoRow]
  /\ reply = [r \in Requests |-> NoReply]

Hold(r, to, tx) ==
  /\ stage' = [stage EXCEPT ![r] = to]
  /\ held' = [held EXCEPT ![r] = tx]
  /\ UNCHANGED reply

\* Faulty variant: the copy outlives its request.
FinishKeeping(r, answer) ==
  /\ stage' = [stage EXCEPT ![r] = "answered"]
  /\ reply' = [reply EXCEPT ![r] = answer]
  /\ UNCHANGED held

Finish(r, answer) ==
  /\ stage' = [stage EXCEPT ![r] = "answered"]
  /\ held' = [held EXCEPT ![r] = NoRow]
  /\ reply' = [reply EXCEPT ![r] = answer]

Received(r, kind) == Kind[r] = kind /\ stage[r] = "received"

-----------------------------------------------------------------------------
(* POST /api/v1/transactions                                               *)

\* randomUUID(): an id nobody has.
FreshId(t) ==
  /\ transactions[t] = NoRow
  /\ \A q \in Requests : held[q] # NoRow => held[q].id # t

\* An explicit key is looked up; a fingerprint taken as the key is not.
CreateLookup(r) ==
  /\ Received(r, "create")
  /\ \E contract \in Contracts, key \in Keys, explicit \in BOOLEAN :
       \/ \E t \in FindByIdempotency(key) :
            explicit /\ Finish(r, Answer(200, transactions[t]))
       \/ /\ explicit => FindByIdempotency(key) = {}
          /\ \E t \in Txs, now \in Instants :
               /\ FreshId(t)
               /\ Hold(r, "evaluating", CreateTransaction(t, contract, key, now))
  /\ UNCHANGED storeVars

\* The policy has answered; a taken key makes the insert fail.
CreateInsert(r) ==
  /\ Kind[r] = "create" /\ stage[r] = "evaluating"
  /\ \E decision \in Decisions :
       LET tx == Admit(held[r], decision)
       IN IF KeyIsFree(tx)
          THEN PutTransaction(tx) /\ Finish(r, Answer(201, tx))
          ELSE Finish(r, Refusal(500)) /\ UNCHANGED transactions
  /\ UNCHANGED <<evidence, cases>>

-----------------------------------------------------------------------------
(* POST /api/v1/transactions/:id/approvals                                 *)

\* Faulty variant: any transaction may be approved.
ApproveReadUnchecked(r) ==
  /\ Received(r, "approve")
  /\ \E t \in Stored, approval \in ApprovalRecord :
       Hold(r, "writing", RecordApproval(transactions[t], approval))
  /\ UNCHANGED storeVars

ApproveRead(r) ==
  /\ Received(r, "approve")
  /\ \E t \in Stored :
       IF transactions[t].status = "AWAITING_APPROVAL"
       THEN \E approval \in ApprovalRecord :
              Hold(r, "writing", RecordApproval(transactions[t], approval))
       ELSE Finish(r, Refusal(500))
  /\ UNCHANGED storeVars

-----------------------------------------------------------------------------
(* POST /api/v1/transactions/:id/cancel                                    *)

\* The set named terminal in the handler.
Terminal == {"VERIFIED", "VERIFIED_AFTER_RETRY", "COMPENSATED",
             "REJECTED_BY_POLICY", "HALTED_BEFORE_EFFECT", "CANCELLED"}

CancelRead(r) ==
  /\ Received(r, "cancel")
  /\ \E t \in Stored :
       LET status == transactions[t].status
       IN IF status \notin Terminal /\ CanTransitionTransaction(status, "CANCELLED")
          THEN Hold(r, "writing", [transactions[t] EXCEPT !.status = "CANCELLED"])
          ELSE Finish(r, Refusal(409))
  /\ UNCHANGED storeVars

-----------------------------------------------------------------------------
\* putTransaction at the end of an approval or of a cancellation.
WriteBack(r) ==
  /\ stage[r] = "writing"
  /\ PutTransaction(held[r])
  /\ Finish(r, Answer(200, held[r]))
  /\ UNCHANGED <<evidence, cases>>

\* The policy provider or a statement fails: the error handler answers.
RequestFails(r) ==
  /\ stage[r] # "answered"
  /\ Finish(r, Refusal(500))
  /\ UNCHANGED storeVars

HandlerStep(r) ==
  \/ CreateLookup(r) \/ CreateInsert(r) \/ ApproveRead(r) \/ CancelRead(r)
  \/ WriteBack(r) \/ RequestFails(r)

=============================================================================
