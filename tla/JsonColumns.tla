----------------------------- MODULE JsonColumns -----------------------------
(***************************************************************************)
(* What becomes of the list approvals of a transaction on its way through  *)
(* a jsonb column (packages/db/src/index.ts:28-32, 122); actions and       *)
(* observations go the same way.  The driver, node-postgres, is external:  *)
(* it renders an array parameter as a PostgreSQL array literal and any     *)
(* other object as JSON.  The rest of the project takes the store to keep  *)
(* lists, as the types of RuntimeStore ask of every store                  *)
(* (packages/core/src/types.ts, packages/runtime/src/index.ts).            *)
(***************************************************************************)
EXTENDS Naturals

CONSTANTS Requests,    \* creations and approvals
          MaxApprovals

\* A value of JavaScript, or of a jsonb column: a list of n records, or the
\* empty object.
List(n) == [type |-> "list", length |-> n]
Object == [type |-> "object", length |-> 0]
NoRow == [type |-> "no row", length |-> 0]
NotJson == [type |-> "not JSON", length |-> 0]

VARIABLES column,   \* the stored approvals, NoRow before the creation
          held,     \* the approvals of each request's copy
          stage, reply

vars == <<column, held, stage, reply>>

JsonInit ==
  /\ column = NoRow
  /\ held = [r \in Requests |-> NoRow]
  /\ stage = [r \in Requests |-> "received"]
  /\ reply = [r \in Requests |-> 0]

Goto(r, place) == stage' = [stage EXCEPT ![r] = place]
Answer(r, code) == Goto(r, "answered") /\ reply' = [reply EXCEPT ![r] = code]

\* `[]` becomes `{}`, which jsonb reads as an object; a list of records
\* becomes `{"..."}`, which is no JSON; an object is rendered as it is.
Encoded(value) == IF value \in {List(0), Object} THEN Object ELSE NotJson

\* putTransaction: the statement fails when the value is not JSON.
Put(r, value, code) ==
  IF Encoded(value) = NotJson
  THEN Answer(r, 500) /\ UNCHANGED column
  ELSE Answer(r, code) /\ column' = Encoded(value)

\* createTransaction starts with no approvals; the insert.
Create(r) ==
  /\ stage[r] = "received" /\ column = NoRow
  /\ Put(r, List(0), 201)
  /\ UNCHANGED held

\* getTransaction and mapTransaction: `r.approvals ?? []`.
ApproveRead(r) ==
  /\ stage[r] = "received" /\ column # NoRow
  /\ held' = [held EXCEPT ![r] = column]
  /\ Goto(r, "append")
  /\ UNCHANGED <<column, reply>>

\* `[...tx.approvals, approval]` throws unless it is a list.
ApproveAppend(r) ==
  /\ stage[r] = "append"
  /\ IF held[r].type = "list" /\ held[r].length < MaxApprovals
     THEN /\ held' = [held EXCEPT ![r] = List(@.length + 1)]
          /\ Goto(r, "put") /\ UNCHANGED reply
     ELSE Answer(r, 500) /\ UNCHANGED held
  /\ UNCHANGED column

ApprovePut(r) ==
  /\ stage[r] = "put"
  /\ Put(r, held[r], 200)
  /\ UNCHANGED held

JsonNext ==
  \E r \in Requests : Create(r) \/ ApproveRead(r) \/ ApproveAppend(r) \/ ApprovePut(r)

JsonSpec == JsonInit /\ [][JsonNext]_vars

(***************************************************************************)
(* What is read where Transaction has a list is a list (types.ts:187;      *)
(* schema.sql:69 gives the column the default '[]').  It is an object from *)
(* the creation on; no approval is ever added, and the engine fails when   *)
(* it appends an action (runtime/src/index.ts:63).                         *)
(***************************************************************************)
ListsStayLists == \A r \in Requests : held[r] # NoRow => held[r].type = "list"

==============================================================================
