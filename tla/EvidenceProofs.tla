--------------------------- MODULE EvidenceProofs ---------------------------
(***************************************************************************)
(* Theorems about Evidence, for any calls, processes and pools.            *)
(*                                                                         *)
(* What a call is about to insert was made from a row it read long before, *)
(* so that the chain depends on what an open transaction may still do:     *)
(* ChainInv says what holds of the committed rows, and PendingInv what     *)
(* holds of the rows the open transactions have inserted.                  *)
(***************************************************************************)
EXTENDS Evidence, FiniteSetTheorems, WellFoundedInduction, SequenceTheorems, TLAPS

Covered == Txs \X Nat \X Calls

\* The calls that use a client of a process's pool.
Users(p) ==
  {c \in Calls : ProcessOf[c] = p /\ pc[c] \notin Ended \cup {"called", "severed"}}

PoolInv ==
  \A p \in Processes : IsFiniteSet(Users(p)) /\ inUse[p] = Cardinality(Users(p))

TypedInv ==
  /\ entries \subseteq Entry
  /\ holds \in [Calls -> SUBSET {"lock", "entry"}]
  /\ pc \in [Calls -> Place]
  /\ prev \in [Calls -> [sequence : Nat, hash : Seq(Covered)]]
  /\ inUse \in [Processes -> 0..PoolMax]

\* The entry before e in its chain, or none.
Linked(e) ==
  IF e.sequence = 1 THEN e.previous_hash = Genesis.hash
  ELSE \E f \in EntriesOf(e.transaction_id) :
         f.sequence = e.sequence - 1 /\ e.previous_hash = f.hash

\* The numbers of a chain have no gap, its keys are unique, its hashes match.
ChainInv ==
  /\ IsFiniteSet(entries)
  /\ \A t \in Txs : {e.sequence : e \in EntriesOf(t)} = 1..Cardinality(EntriesOf(t))
  /\ \A e, f \in entries : SameKey(e, f) => e = f
  /\ \A e \in entries : e.hash = Hash(e) /\ Linked(e)

\* What a call has read is Genesis or an entry of its chain, old or not.
ReadInv ==
  \A c \in Calls :
    prev[c] = Genesis \/ \E e \in EntriesOf(About[c]) :
                            prev[c] = [sequence |-> e.sequence, hash |-> e.hash]

\* The row of an open transaction has a key nobody else has.
PendingInv ==
  /\ \A c \in Calls : pc[c] = "commit" => "entry" \in holds[c]
  /\ \A c \in Calls : "entry" \in holds[c] =>
       /\ pc[c] \in {"commit", "rollback", "severed"}
       /\ \A e \in entries : ~SameKey(e, NewEntry(c))
       /\ \A d \in Calls : "entry" \in holds[d] /\ SameKey(NewEntry(d), NewEntry(c)) => d = c

\* Every entry is that of one call, which is past its COMMIT.
CallsInv ==
  /\ \A e \in entries :
       /\ e.transaction_id = About[e.input]
       /\ pc[e.input] \in {"answered", "resolved", "rollback", "rejected", "lost"}
       /\ holds[e.input] = {}
  /\ \A e, f \in entries : e.input = f.input => e = f
  /\ \A c \in Calls :
       pc[c] \in {"answered", "resolved"} => \E e \in entries : e.input = c

EvidenceInv ==
  TypedInv /\ PoolInv /\ ChainInv /\ ReadInv /\ PendingInv /\ CallsInv

-----------------------------------------------------------------------------
(* The entry a call is about to insert.                                    *)

LEMMA NewEntryIs ==
  ASSUME TypedInv, NEW c \in Calls
  PROVE  /\ NewEntry(c).transaction_id = About[c] /\ NewEntry(c).input = c
         /\ NewEntry(c).sequence = prev[c].sequence + 1
         /\ NewEntry(c).previous_hash = prev[c].hash
         /\ NewEntry(c).hash = Hash(NewEntry(c))
         /\ NewEntry(c) \in Entry
         /\ About[c] \in Txs /\ prev[c].sequence \in Nat
<1>1. About[c] \in Txs /\ prev[c].sequence \in Nat /\ prev[c].hash \in Seq(Covered)
  BY EvidenceAssumption DEF TypedInv
<1>2. <<About[c], prev[c].sequence + 1, c>> \in Covered
  BY <1>1 DEF Covered
<1>3. Append(prev[c].hash, <<About[c], prev[c].sequence + 1, c>>) \in Seq(Covered)
  BY <1>1, <1>2
<1>4. QED
  BY <1>1, <1>3 DEF NewEntry, NextEntry, Hash, Entry, Covered

-----------------------------------------------------------------------------
(* Where the calls start.                                                  *)

LEMMA EvidenceInitially ==
  ASSUME EvidenceInit
  PROVE  EvidenceInv
<1>1. TypedInv
  <2>1. Genesis \in [sequence : Nat, hash : Seq(Covered)]
    BY DEF Genesis
  <2>2. inUse \in [Processes -> 0..PoolMax]
    BY EvidenceAssumption DEF EvidenceInit
  <2>3. QED
    BY <2>1, <2>2 DEF EvidenceInit, TypedInv, Place
<1>2. PoolInv
  <2>1. \A p \in Processes : Users(p) = {}
    BY DEF EvidenceInit, Users
  <2>2. QED
    BY <2>1, FS_EmptySet DEF EvidenceInit, PoolInv
<1>3. ChainInv
  <2>1. \A t : EntriesOf(t) = {}
    BY DEF EvidenceInit, EntriesOf
  <2>2. \A t : {e.sequence : e \in EntriesOf(t)} = {}
    BY <2>1
  <2>3. IsFiniteSet({}) /\ Cardinality({}) = 0 /\ 1..0 = {}
    BY FS_EmptySet
  <2>4. QED
    BY <2>1, <2>2, <2>3 DEF EvidenceInit, ChainInv
<1>4. ReadInv /\ PendingInv /\ CallsInv
  BY DEF EvidenceInit, ReadInv, PendingInv, CallsInv
<1>5. QED
  BY <1>1, <1>2, <1>3, <1>4 DEF EvidenceInv

-----------------------------------------------------------------------------
(* The pool.                                                               *)

Idle == Ended \cup {"called", "severed"}

\* A call that moves joins the users of its process, or leaves them.
LEMMA OneMoves ==
  ASSUME TypedInv, NEW c \in Calls, NEW place, pc' = [pc EXCEPT ![c] = place]
  PROVE  /\ \A p \in Processes : p # ProcessOf[c] => Users(p)' = Users(p)
         /\ place \notin Idle => Users(ProcessOf[c])' = Users(ProcessOf[c]) \cup {c}
         /\ place \in Idle => Users(ProcessOf[c])' = Users(ProcessOf[c]) \ {c}
BY DEF TypedInv, Users, Idle

LEMMA PoolStands ==
  ASSUME TypedInv, PoolInv, NEW c \in Calls, NEW place, pc' = [pc EXCEPT ![c] = place],
         pc[c] \in Idle <=> place \in Idle, inUse' = inUse
  PROVE  PoolInv' /\ inUse' \in [Processes -> 0..PoolMax]
<1>1. pc[c] \in Idle <=> c \notin Users(ProcessOf[c])
  BY DEF Users, Idle
<1>2. Users(ProcessOf[c])' = Users(ProcessOf[c])
  <2>1. CASE place \in Idle
    <3>1. Users(ProcessOf[c])' = Users(ProcessOf[c]) \ {c}
      BY <2>1, OneMoves
    <3>2. c \notin Users(ProcessOf[c])
      BY <1>1, <2>1
    <3>3. QED
      BY <3>1, <3>2
  <2>2. CASE place \notin Idle
    <3>1. Users(ProcessOf[c])' = Users(ProcessOf[c]) \cup {c}
      BY <2>2, OneMoves
    <3>2. c \in Users(ProcessOf[c])
      BY <1>1, <2>2
    <3>3. QED
      BY <3>1, <3>2
  <2>3. QED
    BY <2>1, <2>2
<1>3. \A p \in Processes : Users(p)' = Users(p)
  BY <1>2, OneMoves
<1>4. QED
  BY <1>3 DEF PoolInv, TypedInv

LEMMA ClientTaken ==
  ASSUME TypedInv, PoolInv, NEW c \in Calls, Connect(c)
  PROVE  PoolInv' /\ inUse' \in [Processes -> 0..PoolMax]
<1> DEFINE p == ProcessOf[c]
<1>1. /\ p \in Processes /\ inUse[p] < PoolMax /\ inUse[p] \in Nat /\ PoolMax \in Nat
      /\ inUse' = [inUse EXCEPT ![p] = inUse[p] + 1]
  BY EvidenceAssumption DEF Connect, TypedInv
<1>2. Users(p)' = Users(p) \cup {c} /\ \A q \in Processes : q # p => Users(q)' = Users(q)
  <2>1. pc' = [pc EXCEPT ![c] = "select"] /\ "select" \notin Idle
    BY DEF Connect, Goto, Idle, Ended
  <2>2. QED
    BY <2>1, OneMoves
<1>3. c \notin Users(p)
  BY DEF Users, Connect
<1>4. IsFiniteSet(Users(p)') /\ Cardinality(Users(p)') = Cardinality(Users(p)) + 1
  BY <1>1, <1>2, <1>3, FS_AddElement DEF PoolInv
<1>5. PoolInv'
  BY <1>1, <1>2, <1>4 DEF PoolInv, TypedInv
<1>6. inUse' \in [Processes -> 0..PoolMax]
  BY <1>1 DEF TypedInv
<1>7. QED
  BY <1>5, <1>6

LEMMA ClientReleased ==
  ASSUME TypedInv, PoolInv, NEW c \in Calls, Resolve(c) \/ Rollback(c)
  PROVE  PoolInv' /\ inUse' \in [Processes -> 0..PoolMax]
<1> DEFINE p == ProcessOf[c]
<1>1. /\ p \in Processes /\ inUse[p] \in 0..PoolMax /\ PoolMax \in Nat
      /\ inUse' = [inUse EXCEPT ![p] = inUse[p] - 1]
  BY EvidenceAssumption DEF Resolve, Rollback, Release, TypedInv
<1>2. Users(p)' = Users(p) \ {c} /\ \A q \in Processes : q # p => Users(q)' = Users(q)
  BY OneMoves DEF Resolve, Rollback, Goto, Idle, Ended
<1>3. c \in Users(p)
  BY DEF Users, Resolve, Rollback, Ended
<1>4. /\ IsFiniteSet(Users(p)') /\ Cardinality(Users(p)') = Cardinality(Users(p)) - 1
      /\ Cardinality(Users(p)') \in Nat
  BY <1>1, <1>2, <1>3, FS_RemoveElement, FS_CardinalityType DEF PoolInv
<1>5. PoolInv'
  BY <1>1, <1>2, <1>4 DEF PoolInv, TypedInv
<1>6. inUse' \in [Processes -> 0..PoolMax]
  <2>1. inUse[p] - 1 \in 0..PoolMax
    BY <1>1, <1>4 DEF PoolInv
  <2>2. QED
    BY <1>1, <2>1 DEF TypedInv
<1>7. QED
  BY <1>5, <1>6

LEMMA PoolRestarts ==
  ASSUME TypedInv, PoolInv, NEW p \in Processes, Crash(p)
  PROVE  PoolInv' /\ inUse' \in [Processes -> 0..PoolMax]
<1>1. /\ \A c \in Calls : IF c \in Users(p) THEN pc'[c] \in {"severed", "lost"}
                          ELSE pc'[c] = pc[c]
      /\ inUse' = [inUse EXCEPT ![p] = 0]
  BY DEF Crash, Users, Ended
<1>2. Users(p)' = {}
  BY <1>1 DEF Users, Ended
<1>3. \A q \in Processes : q # p => Users(q)' = Users(q)
  BY <1>1 DEF Users, Ended
<1>4. PoolInv'
  BY <1>1, <1>2, <1>3, FS_EmptySet DEF PoolInv, TypedInv
<1>5. QED
  BY <1>1, <1>4, EvidenceAssumption DEF TypedInv

-----------------------------------------------------------------------------
(* The chain.                                                              *)

LEMMA NumbersOf ==
  ASSUME TypedInv, ChainInv, NEW t \in Txs
  PROVE  /\ IsFiniteSet(EntriesOf(t)) /\ Cardinality(EntriesOf(t)) \in Nat
         /\ \A e \in EntriesOf(t) :
              /\ e \in entries /\ e \in Entry /\ e.transaction_id = t
              /\ e.sequence \in 1..Cardinality(EntriesOf(t))
         /\ \A i \in 1..Cardinality(EntriesOf(t)) :
              \E e \in EntriesOf(t) : e.sequence = i
         /\ \A e, f \in EntriesOf(t) : e.sequence = f.sequence => e = f
<1>1. EntriesOf(t) \in SUBSET entries
  BY DEF EntriesOf
<1>2. IsFiniteSet(EntriesOf(t)) /\ Cardinality(EntriesOf(t)) \in Nat
  BY <1>1, FS_Subset, FS_CardinalityType DEF ChainInv
<1>3. \A e \in EntriesOf(t) : e \in entries /\ e \in Entry /\ e.transaction_id = t
  BY DEF EntriesOf, TypedInv
<1>4. {e.sequence : e \in EntriesOf(t)} = 1..Cardinality(EntriesOf(t))
  BY DEF ChainInv
<1>5. /\ \A e \in EntriesOf(t) : e.sequence \in 1..Cardinality(EntriesOf(t))
      /\ \A i \in 1..Cardinality(EntriesOf(t)) : \E e \in EntriesOf(t) : e.sequence = i
  BY <1>4
<1>6. \A e, f \in EntriesOf(t) : e.sequence = f.sequence => e = f
  BY <1>3 DEF ChainInv, SameKey
<1>7. QED
  BY <1>2, <1>3, <1>5, <1>6

\* What the SELECT finds is an entry, if there is one.
LEMMA LastIsAnEntry ==
  ASSUME TypedInv, ChainInv, NEW t \in Txs
  PROVE  LastEntry(t) = Genesis \/ \E e \in EntriesOf(t) :
                                     LastEntry(t) = [sequence |-> e.sequence, hash |-> e.hash]
<1> DEFINE IsLast(e) == \A f \in EntriesOf(t) : f.sequence <= e.sequence
<1>1. CASE EntriesOf(t) = {}
  BY <1>1 DEF LastEntry
<1>2. CASE EntriesOf(t) # {}
  <2>1. PICK n \in Nat : n = Cardinality(EntriesOf(t))
    BY NumbersOf
  <2>2. PICK some \in EntriesOf(t) : TRUE
    BY <1>2
  <2>3. n \in 1..n
    BY <2>1, <2>2, NumbersOf
  <2>4. PICK e \in EntriesOf(t) : e.sequence = n
    BY <2>1, <2>3, NumbersOf
  <2>5. IsLast(e)
    BY <2>1, <2>4, NumbersOf
  <2>6. PICK last : last = CHOOSE f \in EntriesOf(t) : IsLast(f)
    OBVIOUS
  <2>7. last \in EntriesOf(t)
    <3> HIDE DEF IsLast
    <3>1. QED
      BY <2>4, <2>5, <2>6
  <2>8. LastEntry(t) = [sequence |-> last.sequence, hash |-> last.hash]
    BY <1>2, <2>6 DEF LastEntry
  <2>9. QED
    BY <2>7, <2>8
<1>3. QED
  BY <1>1, <1>2

\* An entry about to be committed comes right behind the last one, although
\* the row it was made from may have been read before others were committed.
LEMMA NextInChain ==
  ASSUME EvidenceInv, NEW c \in Calls, "entry" \in holds[c]
  PROVE  /\ NewEntry(c).sequence = Cardinality(EntriesOf(About[c])) + 1
         /\ NewEntry(c) \notin entries
         /\ Linked(NewEntry(c))
<1>1. /\ TypedInv /\ ChainInv /\ About[c] \in Txs
      /\ \A e \in entries : ~SameKey(e, NewEntry(c))
  BY NewEntryIs DEF EvidenceInv, PendingInv
<1>2. PICK n \in Nat : n = Cardinality(EntriesOf(About[c]))
  BY <1>1, NumbersOf
<1>3. PICK x \in Entry :
        /\ x = NewEntry(c) /\ x.transaction_id = About[c]
        /\ x.sequence = prev[c].sequence + 1 /\ x.previous_hash = prev[c].hash
  BY <1>1, NewEntryIs
<1>4. x.sequence \notin 1..n
  <2>1. ASSUME x.sequence \in 1..n
        PROVE  FALSE
    <3>1. PICK e \in EntriesOf(About[c]) : e.sequence = x.sequence
      BY <1>1, <1>2, <2>1, NumbersOf
    <3>2. e \in entries /\ SameKey(e, x)
      BY <1>1, <1>3, <3>1, NumbersOf DEF SameKey
    <3>3. QED
      BY <1>1, <1>3, <3>2
  <2>2. QED
    BY <2>1
<1>5. x \notin entries
  BY <1>1, <1>3 DEF SameKey
<1>6. CASE prev[c] = Genesis
  <2>1. x.sequence = 1 /\ x.previous_hash = Genesis.hash
    BY <1>3, <1>6 DEF Genesis
  <2>2. n = 0
    BY <1>4, <2>1
  <2>3. QED
    BY <1>2, <1>3, <1>5, <2>1, <2>2 DEF Linked
<1>7. ASSUME NEW e \in EntriesOf(About[c]), prev[c] = [sequence |-> e.sequence, hash |-> e.hash]
      PROVE  x.sequence = n + 1 /\ Linked(x)
  <2>1. e.sequence \in 1..n
    BY <1>1, <1>2, NumbersOf
  <2>2. x.sequence = e.sequence + 1 /\ x.previous_hash = e.hash
    BY <1>3, <1>7
  <2>3. x.sequence = n + 1 /\ x.sequence # 1 /\ e.sequence = x.sequence - 1
    BY <1>4, <2>1, <2>2
  <2>4. QED
    BY <1>3, <1>7, <2>2, <2>3 DEF Linked
<1>8. QED
  BY <1>2, <1>3, <1>5, <1>6, <1>7 DEF EvidenceInv, ReadInv

\* A COMMIT changes one chain, by one entry.
LEMMA CommitAdds ==
  ASSUME NEW c \in Calls, Commit(c), NewEntry(c) \notin entries, TypedInv
  PROVE  /\ EntriesOf(About[c])' = EntriesOf(About[c]) \cup {NewEntry(c)}
         /\ NewEntry(c) \notin EntriesOf(About[c])
         /\ \A t : t # About[c] => EntriesOf(t)' = EntriesOf(t)
         /\ \A t : EntriesOf(t) \subseteq EntriesOf(t)'
<1>1. entries' = entries \cup {NewEntry(c)} /\ NewEntry(c).transaction_id = About[c]
  BY NewEntryIs DEF Commit
<1>2. QED
  BY <1>1 DEF EntriesOf

LEMMA ChainGrows ==
  ASSUME EvidenceInv, NEW c \in Calls, Commit(c)
  PROVE  ChainInv'
<1>1. /\ TypedInv /\ ChainInv /\ "entry" \in holds[c] /\ About[c] \in Txs
      /\ entries' = entries \cup {NewEntry(c)}
      /\ \A e \in entries : ~SameKey(e, NewEntry(c))
  BY NewEntryIs DEF EvidenceInv, PendingInv, Commit
<1>2. PICK x \in Entry, t \in Txs, n \in Nat :
        /\ x = NewEntry(c) /\ t = About[c] /\ n = Cardinality(EntriesOf(t))
        /\ x.transaction_id = t /\ x.hash = Hash(x) /\ x.sequence = n + 1
        /\ x \notin entries /\ Linked(x)
  <2>1. /\ NewEntry(c).transaction_id = About[c] /\ NewEntry(c).hash = Hash(NewEntry(c))
        /\ Cardinality(EntriesOf(About[c])) \in Nat /\ NewEntry(c) \in Entry
    BY <1>1, NewEntryIs, NumbersOf
  <2>2. /\ NewEntry(c).sequence = Cardinality(EntriesOf(About[c])) + 1
        /\ NewEntry(c) \notin entries /\ Linked(NewEntry(c))
    BY <1>1, NextInChain
  <2>3. QED
    BY <1>1, <2>1, <2>2
<1>3. /\ EntriesOf(t)' = EntriesOf(t) \cup {x} /\ x \notin EntriesOf(t)
      /\ \A s : s # t => EntriesOf(s)' = EntriesOf(s)
      /\ \A s : EntriesOf(s) \subseteq EntriesOf(s)'
  BY <1>1, <1>2, CommitAdds
<1>4. IsFiniteSet(entries')
  BY <1>1, FS_AddElement DEF ChainInv
<1>5. {e.sequence : e \in EntriesOf(t)'} = 1..Cardinality(EntriesOf(t)')
  <2>1. Cardinality(EntriesOf(t)') = n + 1
    <3>1. IsFiniteSet(EntriesOf(t))
      BY <1>1, NumbersOf
    <3>2. Cardinality(EntriesOf(t) \cup {x}) = Cardinality(EntriesOf(t)) + 1
      BY <1>3, <3>1, FS_AddElement
    <3>3. QED
      BY <1>2, <1>3, <3>2
  <2>2. {e.sequence : e \in EntriesOf(t)} = 1..n
    BY <1>1, <1>2 DEF ChainInv
  <2>3. {e.sequence : e \in EntriesOf(t)'} = (1..n) \cup {n + 1}
    BY <1>2, <1>3, <2>2
  <2>4. QED
    BY <2>1, <2>3
<1>6. \A s \in Txs : {e.sequence : e \in EntriesOf(s)'} = 1..Cardinality(EntriesOf(s)')
  BY <1>1, <1>3, <1>5 DEF ChainInv
<1>7. \A e, f \in entries' : SameKey(e, f) => e = f
  <2>1. \A e \in entries : ~SameKey(e, x) /\ ~SameKey(x, e)
    BY <1>1, <1>2 DEF SameKey
  <2>2. QED
    BY <1>1, <1>2, <2>1 DEF ChainInv
<1>8. \A e \in entries' : e.hash = Hash(e) /\ Linked(e)'
  <2>1. \A e : Linked(e) => Linked(e)'
    BY <1>3 DEF Linked
  <2>2. QED
    BY <1>1, <1>2, <2>1 DEF ChainInv
<1>9. QED
  BY <1>4, <1>6, <1>7, <1>8 DEF ChainInv

-----------------------------------------------------------------------------
(* Every step keeps every part of the invariant.                           *)

LEMMA PoolStep ==
  ASSUME TypedInv, PoolInv, [EvidenceNext]_vars
  PROVE  PoolInv' /\ inUse' \in [Processes -> 0..PoolMax]
<1>1. ASSUME NEW c \in Calls,
             Select(c) \/ Lock(c) \/ Insert(c) \/ InsertRefused(c) \/ Commit(c) \/ StatementFails(c)
      PROVE  PoolInv' /\ inUse' \in [Processes -> 0..PoolMax]
  <2>1. PICK place \in {"insert", "lock", "commit", "rollback", "answered"} :
          pc' = [pc EXCEPT ![c] = place]
    BY <1>1 DEF Select, Lock, Insert, InsertRefused, Commit, StatementFails, Goto
  <2>2. inUse' = inUse
    BY <1>1 DEF Select, Lock, Insert, InsertRefused, Commit, StatementFails
  <2>3. pc[c] \notin Idle
    BY <1>1
    DEF Select, Lock, Insert, InsertRefused, Commit, StatementFails, Idle, Ended
  <2>4. place \notin Idle
    BY <2>1 DEF Idle, Ended
  <2>5. QED
    BY <2>1, <2>2, <2>3, <2>4, PoolStands
<1>2. ASSUME NEW c \in Calls, ConnectFails(c) \/ ServerAborts(c)
      PROVE  PoolInv' /\ inUse' \in [Processes -> 0..PoolMax]
  <2>1. PICK place \in {"rejected", "lost"} : pc' = [pc EXCEPT ![c] = place]
    BY <1>2 DEF ConnectFails, ServerAborts, Goto
  <2>2. inUse' = inUse /\ pc[c] \in Idle
    BY <1>2 DEF ConnectFails, ServerAborts, Idle
  <2>3. place \in Idle
    BY <2>1 DEF Idle, Ended
  <2>4. QED
    BY <2>1, <2>2, <2>3, PoolStands
<1>3. CASE UNCHANGED vars
  BY <1>3 DEF vars, PoolInv, Users, TypedInv
<1>4. QED
  BY <1>1, <1>2, <1>3, ClientTaken, ClientReleased, PoolRestarts DEF EvidenceNext, CallStep

LEMMA TypedStep ==
  ASSUME EvidenceInv, [EvidenceNext]_vars
  PROVE  TypedInv'
<1>1. TypedInv /\ ChainInv /\ inUse' \in [Processes -> 0..PoolMax]
  BY PoolStep DEF EvidenceInv
<1>2. entries' \subseteq Entry
  <2>1. entries' = entries \/ \E c \in Calls : entries' = entries \cup {NewEntry(c)}
    BY DEF EvidenceNext, CallStep, vars, Connect, ConnectFails, Select, Lock, Insert,
           InsertRefused, Commit, Resolve, StatementFails, Rollback, Crash, ServerAborts
  <2>2. QED
    BY <1>1, <2>1, NewEntryIs DEF TypedInv
<1>3. prev' \in [Calls -> [sequence : Nat, hash : Seq(Covered)]]
  <2>1. ASSUME NEW c \in Calls, Select(c)
        PROVE  LastEntry(About[c]) \in [sequence : Nat, hash : Seq(Covered)]
    <3>1. Genesis \in [sequence : Nat, hash : Seq(Covered)]
      BY DEF Genesis
    <3>2. About[c] \in Txs
      BY EvidenceAssumption
    <3>3. \A e \in EntriesOf(About[c]) : e.sequence \in Nat /\ e.hash \in Seq(Covered)
      BY <1>1 DEF TypedInv, EntriesOf, Entry, Covered
    <3>4. QED
      BY <1>1, <3>1, <3>2, <3>3, LastIsAnEntry
  <2>2. \/ prev' = prev
        \/ \E c \in Calls : Select(c) /\ prev' = [prev EXCEPT ![c] = LastEntry(About[c])]
    BY DEF EvidenceNext, CallStep, vars, Connect, ConnectFails, Select, Lock, Insert,
           InsertRefused, Commit, Resolve, StatementFails, Rollback, Crash, ServerAborts
  <2>3. QED
    BY <1>1, <2>1, <2>2 DEF TypedInv
<1>4. pc' \in [Calls -> Place]
  <2>1. \/ pc' = pc
        \/ \E c \in Calls : \E place \in Place : pc' = [pc EXCEPT ![c] = place]
        \/ \E p \in Processes : Crash(p)
    BY DEF EvidenceNext, CallStep, vars, Connect, ConnectFails, Select, Lock, Insert,
           InsertRefused, Commit, Resolve, StatementFails, Rollback, ServerAborts, Goto, Place
  <2>2. ASSUME NEW p \in Processes, Crash(p) PROVE pc' \in [Calls -> Place]
    BY <1>1, <2>2 DEF TypedInv, Crash, Place
  <2>3. QED
    BY <1>1, <2>1, <2>2 DEF TypedInv
<1>5. holds' \in [Calls -> SUBSET {"lock", "entry"}]
  <2>1. \/ holds' = holds
        \/ \E c \in Calls :
             \/ holds' = [holds EXCEPT ![c] = {}]
             \/ holds' = [holds EXCEPT ![c] = holds[c] \cup {"lock"}]
             \/ holds' = [holds EXCEPT ![c] = holds[c] \cup {"entry"}]
    BY DEF EvidenceNext, CallStep, vars, Connect, ConnectFails, Select, Lock, Insert,
           InsertRefused, Commit, Resolve, StatementFails, Rollback, Crash, ServerAborts,
           Take, EndTransaction
  <2>2. QED
    BY <1>1, <2>1 DEF TypedInv
<1>6. QED
  BY <1>1, <1>2, <1>3, <1>4, <1>5 DEF TypedInv

\* Entries are only added, so that what a call has read stays in the chain.
LEMMA ReadStep ==
  ASSUME EvidenceInv, [EvidenceNext]_vars
  PROVE  ReadInv'
<1>1. \A t : EntriesOf(t) \subseteq EntriesOf(t)'
  BY DEF EvidenceNext, CallStep, vars, Connect, ConnectFails, Select, Lock, Insert,
         InsertRefused, Commit, Resolve, StatementFails, Rollback, Crash, ServerAborts, EntriesOf
<1>2. CASE prev' = prev
  BY <1>1, <1>2 DEF EvidenceInv, ReadInv
<1>3. ASSUME NEW c \in Calls, Select(c)
      PROVE  ReadInv'
  <2>1. prev' = [prev EXCEPT ![c] = LastEntry(About[c])]
    BY <1>3 DEF Select
  <2>2. \/ LastEntry(About[c]) = Genesis
        \/ \E e \in EntriesOf(About[c]) :
             LastEntry(About[c]) = [sequence |-> e.sequence, hash |-> e.hash]
    BY EvidenceAssumption, LastIsAnEntry DEF EvidenceInv
  <2>3. prev'[c] = LastEntry(About[c]) /\ \A d \in Calls : d # c => prev'[d] = prev[d]
    BY <2>1 DEF EvidenceInv, TypedInv
  <2>4. QED
    BY <1>1, <2>2, <2>3 DEF EvidenceInv, ReadInv
<1>4. QED
  BY <1>2, <1>3
  DEF EvidenceNext, CallStep, vars, Connect, ConnectFails, Lock, Insert, InsertRefused,
      Commit, Resolve, StatementFails, Rollback, Crash, ServerAborts

LEMMA PendingStands ==
  ASSUME EvidenceInv, entries' = entries,
         \A d \in Calls : pc'[d] = "commit" => "entry" \in holds'[d],
         \A d \in Calls : "entry" \in holds'[d] =>
           /\ "entry" \in holds[d] /\ prev'[d] = prev[d]
           /\ pc'[d] \in {"commit", "rollback", "severed"}
  PROVE  PendingInv'
<1>1. \A d \in Calls : "entry" \in holds'[d] => NewEntry(d)' = NewEntry(d)
  BY DEF NewEntry
<1>2. QED
  BY <1>1 DEF EvidenceInv, PendingInv

LEMMA PendingInserted ==
  ASSUME EvidenceInv, NEW c \in Calls, Insert(c)
  PROVE  PendingInv'
<1>1. /\ UNCHANGED <<entries, prev>>
      /\ holds'[c] = holds[c] \cup {"entry"} /\ pc'[c] = "commit"
      /\ \A d \in Calls : d # c => holds'[d] = holds[d] /\ pc'[d] = pc[d]
      /\ \A e \in entries : ~SameKey(e, NewEntry(c))
      /\ \A d \in Calls : "entry" \in holds[d] => ~SameKey(NewEntry(d), NewEntry(c))
  BY DEF Insert, Take, Goto, KeyIsTaken, KeyIsPending, EvidenceInv, TypedInv
<1>2. \A d \in Calls : NewEntry(d)' = NewEntry(d)
  BY <1>1 DEF NewEntry
<1>3. \A e, f : SameKey(e, f) => SameKey(f, e)
  BY DEF SameKey
<1>4. QED
  BY <1>1, <1>2, <1>3 DEF EvidenceInv, PendingInv

\* What is committed was pending, and so has nobody else's key.
LEMMA PendingCommitted ==
  ASSUME EvidenceInv, NEW c \in Calls, Commit(c)
  PROVE  PendingInv'
<1>1. /\ entries' = entries \cup {NewEntry(c)} /\ prev' = prev
      /\ holds'[c] = {} /\ pc'[c] = "answered" /\ "entry" \in holds[c]
      /\ \A d \in Calls : d # c => holds'[d] = holds[d] /\ pc'[d] = pc[d]
  BY DEF Commit, EndTransaction, Goto, EvidenceInv, TypedInv, PendingInv
<1>2. \A d \in Calls : NewEntry(d)' = NewEntry(d)
  BY <1>1 DEF NewEntry
<1>3. \A d \in Calls : d # c /\ "entry" \in holds[d] => ~SameKey(NewEntry(c), NewEntry(d))
  BY <1>1 DEF EvidenceInv, PendingInv
<1>4. QED
  BY <1>1, <1>2, <1>3 DEF EvidenceInv, PendingInv

LEMMA PendingStep ==
  ASSUME EvidenceInv, [EvidenceNext]_vars
  PROVE  PendingInv'
<1>1. ASSUME NEW c \in Calls,
             Connect(c) \/ ConnectFails(c) \/ Select(c) \/ Lock(c) \/ InsertRefused(c)
             \/ Resolve(c) \/ StatementFails(c) \/ Rollback(c) \/ ServerAborts(c)
      PROVE  PendingInv'
  <2>1. /\ entries' = entries
        /\ \A d \in Calls : d # c => holds'[d] = holds[d] /\ pc'[d] = pc[d] /\ prev'[d] = prev[d]
        /\ pc'[c] # "commit"
        /\ "entry" \in holds'[c] => "entry" \in holds[c] /\ prev'[c] = prev[c] /\ pc'[c] = "rollback"
    BY <1>1
    DEF Connect, ConnectFails, Select, Lock, InsertRefused, Resolve, StatementFails,
        Rollback, ServerAborts, Goto, Take, EndTransaction, EvidenceInv, TypedInv, PendingInv
  <2>2. QED
    BY <2>1, PendingStands DEF EvidenceInv, PendingInv
<1>2. ASSUME NEW p \in Processes, Crash(p)
      PROVE  PendingInv'
  <2>1. /\ UNCHANGED <<entries, holds, prev>>
        /\ \A d \in Calls : \/ pc'[d] = pc[d]
                            \/ pc'[d] = "severed"
                            \/ pc'[d] = "lost" /\ holds[d] = {}
    BY <1>2 DEF Crash
  <2>2. QED
    BY <2>1, PendingStands DEF EvidenceInv, PendingInv
<1>3. CASE UNCHANGED vars
  BY <1>3, PendingStands DEF vars, EvidenceInv, PendingInv
<1>4. QED
  BY <1>1, <1>2, <1>3, PendingInserted, PendingCommitted DEF EvidenceNext, CallStep

\* The places of a call that may have an entry.
Past == {"answered", "resolved", "rollback", "rejected", "lost"}

LEMMA CallsStand ==
  ASSUME EvidenceInv, entries' = entries,
         \A c \in Calls : pc[c] \in Past /\ holds[c] = {} => pc'[c] \in Past /\ holds'[c] = {},
         \A c \in Calls : pc'[c] \in {"answered", "resolved"} => pc[c] \in {"answered", "resolved"}
  PROVE  CallsInv'
<1>1. \A e \in entries : e.input \in Calls
  BY DEF EvidenceInv, TypedInv, Entry
<1>2. QED
  BY <1>1 DEF EvidenceInv, CallsInv, Past

\* A call commits once: nothing brings it back to its COMMIT.
LEMMA CallCommits ==
  ASSUME EvidenceInv, NEW c \in Calls, Commit(c)
  PROVE  CallsInv'
<1>1. /\ entries' = entries \cup {NewEntry(c)}
      /\ holds'[c] = {} /\ pc[c] = "commit" /\ pc'[c] = "answered"
      /\ \A d \in Calls : d # c => holds'[d] = holds[d] /\ pc'[d] = pc[d]
  BY DEF Commit, EndTransaction, Goto, EvidenceInv, TypedInv
<1>2. NewEntry(c).transaction_id = About[c] /\ NewEntry(c).input = c
  BY NewEntryIs DEF EvidenceInv
<1>3. \A e \in entries : e.input \in Calls /\ e.input # c
  BY <1>1 DEF EvidenceInv, TypedInv, Entry, CallsInv
<1>4. QED
  BY <1>1, <1>2, <1>3 DEF EvidenceInv, CallsInv

LEMMA CallsStep ==
  ASSUME EvidenceInv, [EvidenceNext]_vars
  PROVE  CallsInv'
<1>1. ASSUME NEW c \in Calls,
             Connect(c) \/ ConnectFails(c) \/ Select(c) \/ Lock(c) \/ Insert(c)
             \/ InsertRefused(c) \/ Resolve(c) \/ StatementFails(c) \/ Rollback(c)
             \/ ServerAborts(c)
      PROVE  CallsInv'
  <2>1. /\ entries' = entries
        /\ \A d \in Calls : d # c => holds'[d] = holds[d] /\ pc'[d] = pc[d]
        /\ pc[c] \in Past /\ holds[c] = {} => pc'[c] \in Past /\ holds'[c] = {}
        /\ pc'[c] \in {"answered", "resolved"} => pc[c] = "answered"
    BY <1>1
    DEF Connect, ConnectFails, Select, Lock, Insert, InsertRefused, Resolve, StatementFails,
        Rollback, ServerAborts, Goto, Take, EndTransaction, EvidenceInv, TypedInv, Past
  <2>2. QED
    BY <2>1, CallsStand
<1>2. ASSUME NEW p \in Processes, Crash(p)
      PROVE  CallsInv'
  <2>1. /\ UNCHANGED <<entries, holds>>
        /\ \A d \in Calls : \/ pc'[d] = pc[d]
                            \/ pc'[d] = "severed" /\ holds[d] # {}
                            \/ pc'[d] = "lost"
    BY <1>2 DEF Crash
  <2>2. QED
    BY <2>1, CallsStand DEF Past
<1>3. CASE UNCHANGED vars
  BY <1>3, CallsStand DEF vars
<1>4. QED
  BY <1>1, <1>2, <1>3, CallCommits DEF EvidenceNext, CallStep

LEMMA ChainStep ==
  ASSUME EvidenceInv, [EvidenceNext]_vars
  PROVE  ChainInv'
<1>1. CASE entries' = entries
  BY <1>1 DEF EvidenceInv, ChainInv, EntriesOf, Linked
<1>2. QED
  BY <1>1, ChainGrows
  DEF EvidenceNext, CallStep, vars, Connect, ConnectFails, Select, Lock, Insert,
      InsertRefused, Resolve, StatementFails, Rollback, Crash, ServerAborts

LEMMA EvidenceStep ==
  ASSUME EvidenceInv, [EvidenceNext]_vars
  PROVE  EvidenceInv'
BY TypedStep, PoolStep, ChainStep, ReadStep, PendingStep, CallsStep DEF EvidenceInv

LEMMA EvidenceInvariant == EvidenceSpec => []EvidenceInv
BY EvidenceInitially, EvidenceStep, PTL DEF EvidenceSpec

-----------------------------------------------------------------------------
(* The theorems.                                                           *)

(***************************************************************************)
(* Each process has taken exactly as many clients as its calls use, never  *)
(* more than DB_POOL_MAX, whatever fails and whoever dies: the finally of  *)
(* appendEvidence gives every client back once (db/src/index.ts:56, 67).   *)
(***************************************************************************)
THEOREM EvidenceTypeCorrect == EvidenceSpec => []EvidenceTypeOK
<1>1. EvidenceInv => EvidenceTypeOK
  BY DEF EvidenceInv, TypedInv, PoolInv, Users, Covered, EvidenceTypeOK
<1>2. QED
  BY <1>1, EvidenceInvariant, PTL

(***************************************************************************)
(* An appendEvidence that resolved has left its entry, one that has not    *)
(* reached its COMMIT has left none, and no call leaves two                *)
(* (index.ts:55-68).                                                       *)
(***************************************************************************)
THEOREM AnswersAreKeptHolds == EvidenceSpec => []AnswersAreKept
<1>1. EvidenceInv => AnswersAreKept
  <2> SUFFICES ASSUME EvidenceInv, NEW c \in Calls
               PROVE  LET its == {e \in entries : e.input = c}
                      IN /\ Cardinality(its) <= 1
                         /\ pc[c] \in {"answered", "resolved"} => its # {}
                         /\ holds[c] # {} \/ pc[c] \in {"called", "select", "lock"} => its = {}
    BY DEF AnswersAreKept
  <2> DEFINE its == {e \in entries : e.input = c}
  <2>1. its = {} \/ \E e : its = {e}
    <3>1. ASSUME NEW e \in its
          PROVE  its = {e}
      BY <3>1 DEF EvidenceInv, CallsInv
    <3>2. QED
      BY <3>1
  <2>2. Cardinality(its) <= 1
    <3>1. Cardinality(its) \in {0, 1}
      <4> HIDE DEF its
      <4>1. QED
        BY <2>1, FS_EmptySet, FS_Singleton
    <3>2. QED
      BY <3>1
  <2>3. pc[c] \in {"answered", "resolved"} => its # {}
    BY DEF EvidenceInv, CallsInv
  <2>4. holds[c] # {} \/ pc[c] \in {"called", "select", "lock"} => its = {}
    BY DEF EvidenceInv, CallsInv
  <2>5. QED
    BY <2>2, <2>3, <2>4
<1>2. QED
  BY <1>1, EvidenceInvariant, PTL

-----------------------------------------------------------------------------
(* What getEvidence returns.                                               *)

LEMMA LeastNumber ==
  ASSUME NEW T \in SUBSET Nat, T # {}
  PROVE  \E m \in T : \A k \in T : ~(k < m)
<1>1. PICK m \in T : \A k \in T : ~(<<k, m>> \in OpToRel(<, Nat))
  BY WFMin, NatLessThanWellFounded
<1>2. \A k \in T : ~(k < m)
  BY <1>1 DEF OpToRel
<1>3. QED
  BY <1>2

\* A list of n numbers of 1..n that grows at every place counts up from 1.
LEMMA GrowingListCounts ==
  ASSUME NEW n \in Nat, NEW list \in [1..n -> 1..n],
         \A i, j \in 1..n : i < j => list[i] < list[j]
  PROVE  \A i \in 1..n : list[i] = i
<1>1. \A i \in 1..n : ~(list[i] < i)
  <2> DEFINE Low == {i \in 1..n : list[i] < i}
  <2>1. ASSUME Low # {} PROVE FALSE
    <3>1. PICK m \in Low : \A k \in Low : ~(k < m)
      <4>1. Low \in SUBSET Nat
        OBVIOUS
      <4> HIDE DEF Low
      <4>2. QED
        BY <2>1, <4>1, LeastNumber
    <3>2. m \in 1..n /\ list[m] \in 1..n /\ list[m] < m
      OBVIOUS
    <3>3. m - 1 \in 1..n /\ list[m - 1] \in 1..n
      BY <3>2
    <3>4. ~(list[m - 1] < m - 1)
      BY <3>1, <3>2, <3>3
    <3>5. list[m - 1] < list[m]
      BY <3>2, <3>3
    <3>6. QED
      BY <3>2, <3>3, <3>4, <3>5
  <2>2. QED
    BY <2>1
<1>2. \A i \in 1..n : ~(i < list[i])
  <2> DEFINE High == {d \in 0..n : \E i \in 1..n : d = n - i /\ i < list[i]}
  <2>1. ASSUME High # {} PROVE FALSE
    <3>1. PICK d \in High : \A k \in High : ~(k < d)
      <4>1. High \in SUBSET Nat
        OBVIOUS
      <4> HIDE DEF High
      <4>2. QED
        BY <2>1, <4>1, LeastNumber
    <3>2. PICK i \in 1..n : d = n - i /\ i < list[i]
      OBVIOUS
    <3>3. list[i] \in 1..n /\ i + 1 \in 1..n /\ list[i + 1] \in 1..n
      BY <3>2
    <3>4. list[i] < list[i + 1]
      BY <3>2, <3>3
    <3>5. i + 1 < list[i + 1]
      BY <3>2, <3>3, <3>4
    <3>6. n - (i + 1) \in High /\ n - (i + 1) < d
      BY <3>2, <3>3, <3>5
    <3>7. QED
      BY <3>1, <3>6
  <2>2. \A i \in 1..n : n - i \in 0..n
    OBVIOUS
  <2>3. QED
    BY <2>1, <2>2
<1>3. QED
  BY <1>1, <1>2

\* What getEvidence makes of a set of entries.
Sorted(its) ==
  CHOOSE chain \in [1..Cardinality(its) -> its] :
    \A i, j \in DOMAIN chain :
      i < j => chain[i].sequence <= chain[j].sequence /\ chain[i] # chain[j]

LEMMA EvidenceIsSorted ==
  ASSUME NEW t
  PROVE  ChainOf(t) = Sorted(EntriesOf(t)) /\ ChainOf(t)' = Sorted(EntriesOf(t)')
BY DEF ChainOf, Sorted

\* Entries numbered from 1 to n stand in a list by number at these numbers.
LEMMA SortedByNumber ==
  ASSUME NEW n \in Nat, NEW its, n = Cardinality(its),
         \A e \in its : e.sequence \in 1..n,
         \A i \in 1..n : \E e \in its : e.sequence = i,
         \A e, f \in its : e.sequence = f.sequence => e = f,
         NEW list, list = Sorted(its)
  PROVE  list \in [1..n -> its] /\ \A i \in 1..n : list[i].sequence = i
<1> DEFINE Ordered(chain) ==
             \A i, j \in DOMAIN chain :
               i < j => chain[i].sequence <= chain[j].sequence /\ chain[i] # chain[j]
<1>1. \E chain \in [1..n -> its] : Ordered(chain)
  <2>1. PICK chain : chain = [i \in 1..n |-> CHOOSE e \in its : e.sequence = i]
    OBVIOUS
  <2>2. \A i \in 1..n : chain[i] \in its /\ chain[i].sequence = i
    BY <2>1
  <2>3. chain \in [1..n -> its] /\ DOMAIN chain = 1..n
    BY <2>1, <2>2
  <2>4. Ordered(chain)
    BY <2>2, <2>3
  <2>5. QED
    BY <2>3, <2>4
<1>2. list = CHOOSE chain \in [1..n -> its] : Ordered(chain)
  BY DEF Sorted
<1>3. list \in [1..n -> its] /\ Ordered(list)
  <2> HIDE DEF Ordered
  <2>1. QED
    BY <1>1, <1>2
<1>4. PICK numbers : numbers = [i \in 1..n |-> list[i].sequence]
  OBVIOUS
<1>5. \A i \in 1..n : list[i] \in its /\ numbers[i] = list[i].sequence /\ numbers[i] \in 1..n
  BY <1>3, <1>4
<1>6. ASSUME NEW i \in 1..n, NEW j \in 1..n, i < j PROVE numbers[i] < numbers[j]
  <2>1. list[i].sequence <= list[j].sequence /\ list[i] # list[j]
    BY <1>3, <1>6
  <2>2. list[i].sequence # list[j].sequence
    BY <1>5, <2>1
  <2>3. QED
    BY <1>5, <2>1, <2>2
<1>7. numbers \in [1..n -> 1..n]
  BY <1>4, <1>5
<1>8. \A i \in 1..n : numbers[i] = i
  BY <1>6, <1>7, GrowingListCounts
<1>9. QED
  BY <1>3, <1>5, <1>8

\* The entry with number i is at place i of the evidence.
LEMMA EvidenceInOrder ==
  ASSUME TypedInv, ChainInv, NEW t \in Txs
  PROVE  /\ ChainOf(t) \in [1..Cardinality(EntriesOf(t)) -> EntriesOf(t)]
         /\ \A i \in 1..Cardinality(EntriesOf(t)) : ChainOf(t)[i].sequence = i
<1>1. PICK n \in Nat, its \in SUBSET entries :
        /\ n = Cardinality(EntriesOf(t)) /\ its = EntriesOf(t)
        /\ \A e \in its : e.sequence \in 1..n
        /\ \A i \in 1..n : \E e \in its : e.sequence = i
        /\ \A e, f \in its : e.sequence = f.sequence => e = f
  BY NumbersOf
<1>2. PICK list : list = ChainOf(t) /\ list = Sorted(its)
  BY <1>1, EvidenceIsSorted
<1>3. list \in [1..n -> its] /\ \A i \in 1..n : list[i].sequence = i
  BY <1>1, <1>2, SortedByNumber
<1>4. QED
  BY <1>1, <1>2, <1>3

(***************************************************************************)
(* The rows of a transaction are one hash chain without a gap or a fork,   *)
(* for any number of processes that append to it at once, fail and die:    *)
(* FOR UPDATE may return a stale row, and the primary key refuses what     *)
(* would be made from it (index.ts:59-66, schema.sql:80-91).               *)
(***************************************************************************)
THEOREM ChainIsWholeHolds == EvidenceSpec => []ChainIsWhole
<1>1. EvidenceInv => ChainIsWhole
  <2> SUFFICES ASSUME EvidenceInv, NEW t \in Txs
               PROVE  IsHashChain(ChainOf(t))
    BY DEF ChainIsWhole
  <2>1. PICK n \in Nat, its \in SUBSET entries :
          /\ n = Cardinality(EntriesOf(t)) /\ its = EntriesOf(t)
          /\ \A e \in its : e \in entries /\ e.transaction_id = t /\ e.sequence \in 1..n
          /\ \A e, f \in its : e.sequence = f.sequence => e = f
    BY NumbersOf DEF EvidenceInv
  <2>2. PICK chain :
          /\ chain = ChainOf(t) /\ chain \in [1..n -> its]
          /\ \A i \in 1..n : chain[i].sequence = i
    BY <2>1, EvidenceInOrder DEF EvidenceInv
  <2>3. ASSUME NEW i \in DOMAIN chain
        PROVE  /\ chain[i].sequence = i
               /\ chain[i].previous_hash = IF i = 1 THEN Genesis.hash ELSE chain[i - 1].hash
               /\ chain[i].hash = Hash(chain[i])
    <3>1. i \in 1..n /\ chain[i] \in its /\ chain[i].sequence = i
      BY <2>2
    <3>2. chain[i].hash = Hash(chain[i]) /\ Linked(chain[i])
      BY <2>1, <3>1 DEF EvidenceInv, ChainInv
    <3>3. CASE i = 1
      BY <3>1, <3>2, <3>3 DEF Linked
    <3>4. CASE i # 1
      <4>1. PICK f \in its : f.sequence = i - 1 /\ chain[i].previous_hash = f.hash
        BY <2>1, <3>1, <3>2, <3>4 DEF Linked
      <4>2. i - 1 \in 1..n
        BY <3>1, <3>4
      <4>3. chain[i - 1] = f
        BY <2>1, <2>2, <4>1, <4>2
      <4>4. QED
        BY <3>1, <3>2, <3>4, <4>1, <4>3
    <3>5. QED
      BY <3>3, <3>4
  <2>4. QED
    BY <2>2, <2>3 DEF IsHashChain
<1>2. QED
  BY <1>1, EvidenceInvariant, PTL

-----------------------------------------------------------------------------
(* The append-only log.                                                    *)

Inputs(t) == [i \in DOMAIN ChainOf(t) |-> ChainOf(t)[i].input]

\* The list of a transaction with one more entry is the old one and that entry.
LEMMA CommitAppends ==
  ASSUME EvidenceInv, NEW c \in Calls, Commit(c)
  PROVE  /\ Inputs(About[c])' = Append(Inputs(About[c]), c)
         /\ \A s : s # About[c] => Inputs(s)' = Inputs(s)
<1>1. /\ TypedInv /\ ChainInv /\ ChainInv' /\ "entry" \in holds[c] /\ About[c] \in Txs
      /\ NewEntry(c).input = c /\ NewEntry(c) \notin entries
  BY ChainGrows, NextInChain, NewEntryIs DEF EvidenceInv, PendingInv, Commit
<1>2. PICK t \in Txs, n \in Nat, x \in Entry, its \in SUBSET entries :
        /\ t = About[c] /\ n = Cardinality(EntriesOf(t))
        /\ x = NewEntry(c) /\ x.input = c /\ x.sequence = n + 1
        /\ its = EntriesOf(t) /\ IsFiniteSet(its)
        /\ \A e \in its : e.sequence \in 1..n
        /\ \A i \in 1..n : \E e \in its : e.sequence = i
        /\ \A e, f \in its : e.sequence = f.sequence => e = f
  <2>1. NewEntry(c) \in Entry /\ NewEntry(c).sequence = Cardinality(EntriesOf(About[c])) + 1
    BY <1>1, NewEntryIs, NextInChain
  <2>2. PICK t \in Txs, n \in Nat : t = About[c] /\ n = Cardinality(EntriesOf(t))
    BY <1>1, NumbersOf
  <2>3. QED
    BY <1>1, <2>1, <2>2, NumbersOf
<1>3. /\ EntriesOf(t)' = its \cup {x} /\ x \notin its
      /\ \A s : s # t => EntriesOf(s)' = EntriesOf(s)
  BY <1>1, <1>2, CommitAdds
<1>4. PICK now : now = its \cup {x} /\ now = EntriesOf(t)' /\ Cardinality(now) = n + 1
  BY <1>2, <1>3, FS_AddElement
<1>5. PICK old : /\ old = ChainOf(t) /\ old \in [1..n -> its]
                 /\ \A i \in 1..n : old[i].sequence = i
  BY <1>1, <1>2, EvidenceInOrder
<1>6. PICK list : list = ChainOf(t)' /\ list = Sorted(now)
  BY <1>4, EvidenceIsSorted
<1>7. list \in [1..(n + 1) -> now] /\ \A i \in 1..(n + 1) : list[i].sequence = i
  <2>1. PICK m \in Nat : m = n + 1
    OBVIOUS
  <2>2. m = Cardinality(now) /\ \A e \in now : e.sequence \in 1..m
    BY <1>2, <1>4, <2>1
  <2>3. \A i \in 1..m : \E e \in now : e.sequence = i
    <3>1. \A i \in 1..m : i \in 1..n \/ i = n + 1
      BY <2>1
    <3>2. QED
      BY <1>2, <1>4, <3>1
  <2>4. \A e, f \in now : e.sequence = f.sequence => e = f
    BY <1>2, <1>4
  <2>5. list \in [1..m -> now] /\ \A i \in 1..m : list[i].sequence = i
    BY <1>6, <2>2, <2>3, <2>4, SortedByNumber
  <2>6. QED
    BY <2>1, <2>5
<1>8. \A i \in 1..n : list[i] = old[i]
  BY <1>2, <1>4, <1>5, <1>7
<1>9. list[n + 1] = x
  BY <1>2, <1>4, <1>7
<1>10. PICK before, after :
         /\ before = [i \in DOMAIN old |-> old[i].input]
         /\ after = [i \in DOMAIN list |-> list[i].input]
  OBVIOUS
<1>11. after = Append(before, c)
  <2>1. before \in [1..n -> Calls] /\ before \in Seq(Calls) /\ Len(before) = n
    <3>1. \A e \in its : e.input \in Calls
      BY <1>1, <1>2 DEF TypedInv, EntriesOf, Entry
    <3>2. QED
      BY <1>5, <1>10, <3>1
  <2>2. after = [i \in 1..(n + 1) |-> after[i]]
    BY <1>7, <1>10
  <2>3. \A i \in 1..n : after[i] = before[i]
    BY <1>5, <1>7, <1>8, <1>10
  <2>4. after[n + 1] = c
    BY <1>2, <1>7, <1>9, <1>10
  <2>5. PICK last : /\ last = Append(before, c)
                    /\ last = [i \in 1..(n + 1) |-> last[i]]
                    /\ \A i \in 1..n : last[i] = before[i]
                    /\ last[n + 1] = c
    <3>1. PICK last \in Seq(Calls) : last = Append(before, c)
      <4>1. Append(before, c) \in Seq(Calls)
        BY <2>1
      <4>2. QED
        BY Zenon, <4>1
    <3>2. Len(last) = n + 1 /\ last[n + 1] = c /\ \A i \in 1..n : last[i] = before[i]
      BY <2>1, <3>1
    <3>3. last = [i \in 1..(n + 1) |-> last[i]]
      <4>1. last \in [1..Len(last) -> Calls]
        OBVIOUS
      <4>2. QED
        BY <3>2, <4>1
    <3>4. QED
      BY <3>1, <3>2, <3>3
  <2>6. \A i \in 1..(n + 1) : after[i] = last[i]
    <3>1. \A i \in 1..(n + 1) : i \in 1..n \/ i = n + 1
      OBVIOUS
    <3>2. QED
      BY <2>3, <2>4, <2>5, <3>1
  <2>7. QED
    BY <2>2, <2>5, <2>6
<1>12. Inputs(t) = before /\ Inputs(t)' = after
  BY <1>5, <1>6, <1>10 DEF Inputs
<1>13. ASSUME NEW s, s # t PROVE Inputs(s)' = Inputs(s)
  <2>1. ChainOf(s)' = ChainOf(s)
    BY <1>3, <1>13, EvidenceIsSorted
  <2>2. QED
    BY <2>1 DEF Inputs
<1>14. QED
  BY <1>2, <1>11, <1>12, <1>13

(***************************************************************************)
(* appendEvidence implements the append-only log: each COMMIT puts one     *)
(* entry behind all others of its transaction, no entry is ever taken      *)
(* away, moved or put in twice, and nothing else changes the evidence      *)
(* (index.ts:55-68, SECURITY.md:14).                                       *)
(***************************************************************************)
THEOREM AppendImplementsLog == EvidenceSpec => ImplementsLog
<1> DEFINE theLog == [t \in Txs |-> [i \in DOMAIN ChainOf(t) |-> ChainOf(t)[i].input]]
<1>1. EvidenceInit => Log!Init
  <2> SUFFICES ASSUME EvidenceInit PROVE theLog = [t \in Txs |-> << >>]
    BY DEF Log!Init
  <2>1. ASSUME NEW t \in Txs PROVE Inputs(t) = << >>
    <3>1. EvidenceInv /\ EntriesOf(t) = {}
      BY EvidenceInitially DEF EvidenceInit, EntriesOf
    <3>2. Cardinality(EntriesOf(t)) = 0
      BY <3>1, FS_EmptySet
    <3>3. ChainOf(t) \in [1..0 -> {}]
      BY <3>1, <3>2, EvidenceInOrder DEF EvidenceInv
    <3>4. QED
      BY <3>3 DEF Inputs
  <2>2. QED
    BY <2>1 DEF Inputs
<1>2. EvidenceInv /\ [EvidenceNext]_vars => [Log!Next]_theLog
  <2> SUFFICES ASSUME EvidenceInv, [EvidenceNext]_vars PROVE [Log!Next]_theLog
    OBVIOUS
  <2>1. CASE entries' = entries
    <3>1. \A t : ChainOf(t)' = ChainOf(t)
      BY <2>1 DEF ChainOf, EntriesOf
    <3>2. theLog' = theLog
      BY <3>1
    <3>3. QED
      BY <3>2
  <2>2. ASSUME NEW c \in Calls, Commit(c)
        PROVE  Log!Next
    <3>1. /\ Inputs(About[c])' = Append(Inputs(About[c]), c)
          /\ \A s : s # About[c] => Inputs(s)' = Inputs(s)
      BY <2>2, CommitAppends
    <3>2. PICK t \in Txs : t = About[c]
      BY EvidenceAssumption
    <3>3. /\ theLog = [s \in Txs |-> Inputs(s)]
          /\ theLog' = [s \in Txs |-> Inputs(s)']
      BY DEF Inputs
    <3>4. theLog' = [theLog EXCEPT ![t] = Append(theLog[t], c)]
      <4> HIDE DEF theLog
      <4>1. DOMAIN theLog = Txs /\ theLog[t] = Inputs(t)
        BY <3>3
      <4>2. \A s \in Txs : theLog'[s] = IF s = t THEN Append(Inputs(t), c) ELSE theLog[s]
        BY <3>1, <3>2, <3>3
      <4>3. QED
        BY <3>3, <4>1, <4>2
    <3>5. ASSUME NEW other \in Txs PROVE c \notin Log!Recorded(other)
      <4>1. ChainOf(other) \in [1..Cardinality(EntriesOf(other)) -> EntriesOf(other)]
        BY EvidenceInOrder DEF EvidenceInv
      <4>2. \A e \in EntriesOf(other) : e.input # c
        BY <2>2 DEF EvidenceInv, CallsInv, EntriesOf, Commit
      <4>3. QED
        BY <4>1, <4>2 DEF Log!Recorded
    <3>6. QED
      BY <3>2, <3>4, <3>5 DEF Log!Next, Log!Record
  <2>3. QED
    BY <2>1, <2>2
    DEF EvidenceNext, CallStep, vars, Connect, ConnectFails, Select, Lock, Insert,
        InsertRefused, Resolve, StatementFails, Rollback, Crash, ServerAborts
<1>3. QED
  BY <1>1, <1>2, EvidenceInvariant, PTL DEF EvidenceSpec, ImplementsLog, Log!Spec

-----------------------------------------------------------------------------
(* Who waits for whom.                                                     *)

\* A call waits for the one that has the lock of its row, or its key.
WaitsFor(c, d) ==
  \/ pc[c] = "lock" /\ "lock" \in holds[d] /\ About[d] = About[c] /\ prev[d] = prev[c]
  \/ pc[c] = "insert" /\ "entry" \in holds[d] /\ SameKey(NewEntry(d), NewEntry(c))

\* Whoever is waited for by one that waits is past all waits itself.
WaitsAreShort ==
  \A c, d, e \in Calls :
    WaitsFor(c, d) /\ WaitsFor(d, e) => pc[e] \in {"commit", "rollback", "severed"}

\* A lock is taken once, after the wait for it.
LockInv ==
  \A c \in Calls :
    "lock" \in holds[c] => pc[c] \in {"insert", "commit", "rollback", "severed"}

LEMMA LockStep ==
  ASSUME TypedInv, LockInv, [EvidenceNext]_vars
  PROVE  LockInv'
<1>1. ASSUME NEW c \in Calls, CallStep(c) \/ ConnectFails(c) \/ StatementFails(c)
      PROVE  LockInv'
  <2>1. \A d \in Calls : d # c => holds'[d] = holds[d] /\ pc'[d] = pc[d]
    BY <1>1
    DEF CallStep, Connect, ConnectFails, Select, Lock, Insert, InsertRefused, Commit,
        Resolve, StatementFails, Rollback, ServerAborts, Goto, Take, EndTransaction, TypedInv
  <2>2. "lock" \in holds'[c] => pc'[c] \in {"insert", "commit", "rollback", "severed"}
    BY <1>1
    DEF CallStep, Connect, ConnectFails, Select, Lock, Insert, InsertRefused, Commit,
        Resolve, StatementFails, Rollback, ServerAborts, Goto, Take, EndTransaction,
        TypedInv, LockInv
  <2>3. QED
    BY <2>1, <2>2 DEF LockInv
<1>2. ASSUME NEW p \in Processes, Crash(p)
      PROVE  LockInv'
  BY <1>2 DEF Crash, LockInv
<1>3. CASE UNCHANGED vars
  BY <1>3 DEF vars, LockInv
<1>4. QED
  BY <1>1, <1>2, <1>3 DEF EvidenceNext

(***************************************************************************)
(* The waits of appendEvidence never form a circle, however many calls     *)
(* append to however many chains: a call that waits for a row lock may     *)
(* wait for one that waits for a key, and that one waits for nobody        *)
(* (index.ts:58-66).  This is the part of AppendsEnd that does not depend  *)
(* on fairness.                                                            *)
(***************************************************************************)
THEOREM WaitsAreShortHolds == EvidenceSpec => []WaitsAreShort
<1>1. EvidenceInit => LockInv
  BY DEF EvidenceInit, LockInv
<1>2. EvidenceInv => TypedInv
  BY DEF EvidenceInv
<1>3. EvidenceSpec => []LockInv
  BY <1>1, <1>2, LockStep, EvidenceInvariant, PTL DEF EvidenceSpec
<1>4. EvidenceInv /\ LockInv => WaitsAreShort
  <2> SUFFICES ASSUME EvidenceInv, LockInv, NEW c \in Calls, NEW d \in Calls, NEW e \in Calls,
                      WaitsFor(c, d), WaitsFor(d, e)
               PROVE  pc[e] \in {"commit", "rollback", "severed"}
    BY DEF WaitsAreShort
  <2>1. pc[d] \in {"insert", "commit", "rollback", "severed"}
    BY DEF WaitsFor, LockInv, EvidenceInv, PendingInv
  <2>2. "entry" \in holds[e]
    BY <2>1 DEF WaitsFor
  <2>3. QED
    BY <2>2 DEF EvidenceInv, PendingInv
<1>5. QED
  BY <1>3, <1>4, EvidenceInvariant, PTL

=============================================================================
