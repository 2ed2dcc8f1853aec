------------------------------ MODULE Evidence ------------------------------
(***************************************************************************)
(* appendEvidence of packages/db/src/index.ts:55-68, statement by          *)
(* statement.  Several processes append to the table evidence_entries at   *)
(* the same time; a call is one invocation of appendEvidence, and pc[c] is *)
(* the await at which it stands.  PostgreSQL is external: READ COMMITTED,  *)
(* row locks, and the primary key of schema.sql:80-91.                     *)
(***************************************************************************)
EXTENDS Naturals, Sequences, FiniteSets

CONSTANTS Txs, Calls, Processes,
          About,       \* the transaction whose evidence a call appends to
          ProcessOf,   \* the process that makes a call
          PoolMax      \* DB_POOL_MAX, the clients of a process's pool

ASSUME EvidenceAssumption ==
  /\ About \in [Calls -> Txs]
  /\ ProcessOf \in [Calls -> Processes]
  /\ PoolMax \in Nat \ {0}

VARIABLES entries,   \* the committed rows of evidence_entries
          holds,     \* what each call's open transaction has: a lock, a row
          pc, prev,  \* where a call stands, and the last entry it has read
          inUse      \* the clients each process has taken from its pool

vars == <<entries, holds, pc, prev, inUse>>

-----------------------------------------------------------------------------
(* The rows of evidence_entries and their chain.                           *)

\* The hash covers the row itself and, by the hash it was given, all rows before
\* it.  SHA-256 is taken to be injective; input stands for type, timestamp,
\* actor and payload.
Hash(body) ==
  Append(body.previous_hash, <<body.transaction_id, body.sequence, body.input>>)

\* `prev.rows[0]?.sequence ?? 0` and `prev.rows[0]?.hash ?? "GENESIS"`.
Genesis == [sequence |-> 0, hash |-> << >>]

\* Faulty variant: every entry starts a chain of its own.
NextEntryUnlinked(previous, transaction_id, input) ==
  LET body == [transaction_id |-> transaction_id, input |-> input,
               sequence |-> previous.sequence + 1, previous_hash |-> Genesis.hash]
  IN [transaction_id |-> transaction_id, input |-> input, sequence |-> body.sequence,
      previous_hash |-> body.previous_hash, hash |-> Hash(body)]

\* The row appendEvidence builds behind the one it has read.
NextEntry(previous, transaction_id, input) ==
  LET body == [transaction_id |-> transaction_id, input |-> input,
               sequence |-> previous.sequence + 1, previous_hash |-> previous.hash]
  IN [transaction_id |-> transaction_id, input |-> input, sequence |-> body.sequence,
      previous_hash |-> body.previous_hash, hash |-> Hash(body)]

EntriesOf(t) == {e \in entries : e.transaction_id = t}

\* SELECT ... ORDER BY sequence DESC LIMIT 1, on what is committed.
LastEntry(t) ==
  IF EntriesOf(t) = {} THEN Genesis
  ELSE LET last == CHOOSE e \in EntriesOf(t) :
                     \A f \in EntriesOf(t) : f.sequence <= e.sequence
       IN [sequence |-> last.sequence, hash |-> last.hash]

-----------------------------------------------------------------------------
(* A call.  "answered" stands for a COMMIT whose answer has not arrived,   *)
(* "severed" for an open transaction whose process is gone.                *)

Place == {"called", "select", "lock", "insert", "commit", "answered", "rollback",
          "resolved", "rejected", "severed", "lost"}
Ended == {"resolved", "rejected", "lost"}

EvidenceInit ==
  /\ entries = {}
  /\ holds = [c \in Calls |-> {}]
  /\ pc = [c \in Calls |-> "called"]
  /\ prev = [c \in Calls |-> Genesis]
  /\ inUse = [p \in Processes |-> 0]

Goto(c, place) == pc' = [pc EXCEPT ![c] = place]
Take(c, what) == holds' = [holds EXCEPT ![c] = @ \cup {what}]
EndTransaction(c) == holds' = [holds EXCEPT ![c] = {}]

NewEntry(c) == NextEntry(prev[c], About[c], c)
SameKey(e, f) == e.transaction_id = f.transaction_id /\ e.sequence = f.sequence

\* pool.connect() waits for a free client; BEGIN.
Connect(c) ==
  /\ pc[c] = "called"
  /\ inUse[ProcessOf[c]] < PoolMax
  /\ inUse' = [inUse EXCEPT ![ProcessOf[c]] = @ + 1]
  /\ Goto(c, "select")
  /\ UNCHANGED <<entries, holds, prev>>

ConnectFails(c) ==
  /\ pc[c] = "called"
  /\ Goto(c, "rejected")
  /\ UNCHANGED <<entries, holds, prev, inUse>>

\* The statement's snapshot: with no row there is nothing to lock.
Select(c) ==
  /\ pc[c] = "select"
  /\ prev' = [prev EXCEPT ![c] = LastEntry(About[c])]
  /\ Goto(c, IF EntriesOf(About[c]) = {} THEN "insert" ELSE "lock")
  /\ UNCHANGED <<entries, holds, inUse>>

\* FOR UPDATE: the call waits for the lock of the row it has found.  Entries
\* are never updated, so the row is returned as found, newer ones or not.
Lock(c) ==
  /\ pc[c] = "lock"
  /\ \A d \in Calls :
       "lock" \in holds[d] /\ About[d] = About[c] => prev[d] # prev[c]
  /\ Take(c, "lock")
  /\ Goto(c, "insert")
  /\ UNCHANGED <<entries, prev, inUse>>

\* An INSERT waits for an open transaction that has inserted the same key.
KeyIsPending(c) ==
  \E d \in Calls : "entry" \in holds[d] /\ SameKey(NewEntry(d), NewEntry(c))

\* Faulty variant: the table has no primary key.
KeyIsNeverTaken(c) == FALSE

KeyIsTaken(c) == \E e \in entries : SameKey(e, NewEntry(c))

Insert(c) ==
  /\ pc[c] = "insert"
  /\ ~KeyIsPending(c) /\ ~KeyIsTaken(c)
  /\ Take(c, "entry")
  /\ Goto(c, "commit")
  /\ UNCHANGED <<entries, prev, inUse>>

InsertRefused(c) ==
  /\ pc[c] = "insert"
  /\ ~KeyIsPending(c) /\ KeyIsTaken(c)
  /\ Goto(c, "rollback")
  /\ UNCHANGED <<entries, holds, prev, inUse>>

\* Faulty variant: the call forgets its COMMIT.
CommitForgotten(c) ==
  /\ pc[c] = "commit"
  /\ Goto(c, "answered")
  /\ UNCHANGED <<entries, holds, prev, inUse>>

Commit(c) ==
  /\ pc[c] = "commit"
  /\ entries' = entries \cup {NewEntry(c)}
  /\ EndTransaction(c)
  /\ Goto(c, "answered")
  /\ UNCHANGED <<prev, inUse>>

Release(c) == inUse' = [inUse EXCEPT ![ProcessOf[c]] = @ - 1]

Resolve(c) ==
  /\ pc[c] = "answered"
  /\ Goto(c, "resolved")
  /\ Release(c)
  /\ UNCHANGED <<entries, holds, prev>>

\* A statement rejects: the database failed it, or its answer was lost.
StatementFails(c) ==
  /\ pc[c] \in {"select", "lock", "insert", "commit", "answered"}
  /\ Goto(c, "rollback")
  /\ UNCHANGED <<entries, holds, prev, inUse>>

\* Faulty variant: the client is released by the successful path only.
RollbackKeepsClient(c) ==
  /\ pc[c] = "rollback"
  /\ EndTransaction(c)
  /\ Goto(c, "rejected")
  /\ UNCHANGED <<entries, prev, inUse>>

\* The catch and the finally; a ROLLBACK that fails ends the connection, and
\* with it the transaction.
Rollback(c) ==
  /\ pc[c] = "rollback"
  /\ EndTransaction(c)
  /\ Goto(c, "rejected")
  /\ Release(c)
  /\ UNCHANGED <<entries, prev>>

-----------------------------------------------------------------------------
(* A process dies and its supervisor starts it again, with a new pool.     *)
(* The server aborts what it had open as soon as it notices.               *)

Crash(p) ==
  LET running == {c \in Calls : ProcessOf[c] = p /\ pc[c] \notin Ended
                                  /\ pc[c] \notin {"called", "severed"}}
  IN /\ running # {}
     /\ pc' = [c \in Calls |-> IF c \notin running THEN pc[c]
                               ELSE IF holds[c] # {} THEN "severed" ELSE "lost"]
     /\ inUse' = [inUse EXCEPT ![p] = 0]
     /\ UNCHANGED <<entries, holds, prev>>

ServerAborts(c) ==
  /\ pc[c] = "severed"
  /\ EndTransaction(c)
  /\ Goto(c, "lost")
  /\ UNCHANGED <<entries, prev, inUse>>

CallStep(c) ==
  \/ Connect(c) \/ Select(c) \/ Lock(c) \/ Insert(c) \/ InsertRefused(c)
  \/ Commit(c) \/ Resolve(c) \/ Rollback(c) \/ ServerAborts(c)

EvidenceNext ==
  \/ \E c \in Calls : CallStep(c) \/ ConnectFails(c) \/ StatementFails(c)
  \/ \E p \in Processes : Crash(p)

\* Statements are answered in the end, unless they wait for another's.
EvidenceSpec ==
  EvidenceInit /\ [][EvidenceNext]_vars /\ \A c \in Calls : WF_vars(CallStep(c))

-----------------------------------------------------------------------------
(* Properties.                                                             *)

Entry ==
  [transaction_id : Txs, input : Calls, sequence : Nat \ {0},
   previous_hash : Seq(Txs \X Nat \X Calls), hash : Seq(Txs \X Nat \X Calls)]

\* The rows of t in the order of their numbers.
ChainOf(t) ==
  CHOOSE chain \in [1..Cardinality(EntriesOf(t)) -> EntriesOf(t)] :
    \A i, j \in DOMAIN chain :
      i < j => chain[i].sequence <= chain[j].sequence /\ chain[i] # chain[j]

IsHashChain(chain) ==
  \A i \in DOMAIN chain :
    /\ chain[i].sequence = i
    /\ chain[i].previous_hash = IF i = 1 THEN Genesis.hash ELSE chain[i - 1].hash
    /\ chain[i].hash = Hash(chain[i])

\* Types; and a client of the pool is taken exactly while a call uses it
\* (index.ts:56, 67).
EvidenceTypeOK ==
  /\ entries \subseteq Entry
  /\ holds \in [Calls -> SUBSET {"lock", "entry"}]
  /\ pc \in [Calls -> Place]
  /\ prev \in [Calls -> [sequence : Nat, hash : Seq(Txs \X Nat \X Calls)]]
  /\ inUse \in [Processes -> 0..PoolMax]
  /\ \A p \in Processes :
       inUse[p] = Cardinality({c \in Calls :
         ProcessOf[c] = p /\ pc[c] \notin Ended \cup {"called", "severed"}})

(***************************************************************************)
(* Whatever calls overlap, fail or die, the rows of a transaction are one  *)
(* chain without a gap or a fork: numbered from 1, each with the hash of   *)
(* the one before, and a hash of its own over what db/src/index.ts:63-64   *)
(* says (SECURITY.md:14, "append-only and hash chained").  FOR UPDATE      *)
(* alone does not ensure it (index.ts:59): it locks nothing for the first  *)
(* entry, and a waiter gets a stale row.  This is about the table only:    *)
(* verifyEvidenceChain (core/src/evidence.ts:15-25) hashes another text.   *)
(***************************************************************************)
ChainIsWhole == \A t \in Txs : IsHashChain(ChainOf(t))

(***************************************************************************)
(* A call that resolved is in the evidence once, one that did not begin or *)
(* whose transaction is open is not in it, and none is there twice         *)
(* (index.ts:55-68; the engine records every event by one call).           *)
(***************************************************************************)
AnswersAreKept ==
  \A c \in Calls :
    LET its == {e \in entries : e.input = c}
    IN /\ Cardinality(its) <= 1
       /\ pc[c] \in {"answered", "resolved"} => its # {}
       /\ holds[c] # {} \/ pc[c] \in {"called", "select", "lock"} => its = {}

(***************************************************************************)
(* The table of entries implements the append-only log (SECURITY.md:14):   *)
(* a commit appends one entry behind all others (index.ts:59-66).          *)
(***************************************************************************)
Log == INSTANCE EvidenceLog WITH
         log <- [t \in Txs |-> [i \in DOMAIN ChainOf(t) |-> ChainOf(t)[i].input]]

ImplementsLog == Log!Spec

(***************************************************************************)
(* Every call ends: neither the row locks, nor the wait of an INSERT for   *)
(* another's key, nor the pool keep one for ever, and a failure gives its  *)
(* client back (index.ts:56-67).                                           *)
(***************************************************************************)
AppendsEnd == \A c \in Calls : pc[c] = "called" ~> pc[c] \in Ended

=============================================================================
