--------------------------- MODULE RegistryProofs ---------------------------
(***************************************************************************)
(* Theorems about Registry, for any requests, documents and versions.      *)
(***************************************************************************)
EXTENDS Registry, FiniteSetTheorems, TLAPS

-----------------------------------------------------------------------------
(* One turn of the loop, on its variables alone.                           *)

InOrder(order) == {order[j] : j \in DOMAIN order}

\* The edges to n that the loop has not taken away yet.
Waiting(w, order, n) == {e \in EdgesTo(w, n) : Source(w, e) \notin InOrder(order)}

NoRepeat(order) == \A i, j \in DOMAIN order : i # j => order[i] # order[j]

Respects(w, order) ==
  \A j \in DOMAIN order : \A e \in EdgesTo(w, order[j]) :
    Before(order, Source(w, e), order[j])

\* A step's count is that of its waiting edges; it is ready when none is left.
Counted(w, order, degree, queue) ==
  /\ DOMAIN degree = Ids(w)
  /\ \A n \in Ids(w) : degree[n] = Cardinality(Waiting(w, order, n))
  /\ queue = {n \in Ids(w) : degree[n] = 0 /\ n \notin InOrder(order)}

LEMMA InOrderAppend ==
  ASSUME NEW S, NEW order \in Seq(S), NEW id \in S
  PROVE  /\ Append(order, id) \in Seq(S)
         /\ DOMAIN order = 1..Len(order) /\ Len(order) \in Nat
         /\ DOMAIN Append(order, id) = 1..(Len(order) + 1)
         /\ \A j \in DOMAIN order : Append(order, id)[j] = order[j]
         /\ Append(order, id)[Len(order) + 1] = id
         /\ InOrder(Append(order, id)) = InOrder(order) \cup {id}
<1>1. /\ Append(order, id) \in Seq(S)
      /\ DOMAIN order = 1..Len(order) /\ Len(order) \in Nat
      /\ DOMAIN Append(order, id) = 1..(Len(order) + 1)
      /\ \A j \in DOMAIN order : Append(order, id)[j] = order[j]
      /\ Append(order, id)[Len(order) + 1] = id
  OBVIOUS
<1>2. \A j : j \in DOMAIN Append(order, id) <=> j \in DOMAIN order \/ j = Len(order) + 1
  BY <1>1
<1>3. QED
  BY <1>1, <1>2 DEF InOrder

LEMMA WaitingIsFinite ==
  ASSUME NEW w, IsFiniteSet(Edges(w)), NEW order, NEW n
  PROVE  /\ IsFiniteSet(Waiting(w, order, n)) /\ Cardinality(Waiting(w, order, n)) \in Nat
         /\ Cardinality(Waiting(w, order, n)) = 0 <=> Waiting(w, order, n) = {}
<1>1. Waiting(w, order, n) \in SUBSET Edges(w)
  BY DEF Waiting, EdgesTo
<1>2. IsFiniteSet(Waiting(w, order, n))
  BY <1>1, FS_Subset
<1>3. QED
  BY <1>2, FS_CardinalityType, FS_EmptySet

\* What comes before a step in an order is in the order.
LEMMA BeforeIsInOrder ==
  ASSUME NEW order, NEW a, NEW b, Before(order, a, b)
  PROVE  a \in InOrder(order)
BY DEF Before, InOrder

LEMMA TurnKeepsOrder ==
  ASSUME NEW w, IsFiniteSet(Edges(w)), NEW order \in Seq(Ids(w)),
         NoRepeat(order), Respects(w, order), NEW degree, NEW queue,
         Counted(w, order, degree, queue), NEW id \in queue
  PROVE  /\ id \in Ids(w) /\ id \notin InOrder(order) /\ Waiting(w, order, id) = {}
         /\ NoRepeat(Append(order, id)) /\ Respects(w, Append(order, id))
<1> DEFINE longer == Append(order, id)
<1>1. id \in Ids(w) /\ id \notin InOrder(order) /\ Waiting(w, order, id) = {}
  BY WaitingIsFinite DEF Counted
<1>2. /\ DOMAIN order = 1..Len(order) /\ Len(order) \in Nat
      /\ DOMAIN longer = 1..(Len(order) + 1)
      /\ \A j \in DOMAIN order : longer[j] = order[j]
      /\ longer[Len(order) + 1] = id
  BY <1>1, InOrderAppend
<1> HIDE DEF longer
<1>3. \A j \in DOMAIN order : order[j] # id
  BY <1>1 DEF InOrder
<1>4. NoRepeat(longer)
  BY <1>2, <1>3 DEF NoRepeat
<1>5. ASSUME NEW j \in DOMAIN longer, NEW e \in EdgesTo(w, longer[j])
      PROVE  Before(longer, Source(w, e), longer[j])
  <2>1. CASE j \in DOMAIN order
    <3>1. Before(order, Source(w, e), order[j])
      BY <2>1, <1>2 DEF Respects
    <3>2. QED
      BY <3>1, <2>1, <1>2 DEF Before
  <2>2. CASE j \notin DOMAIN order
    <3>1. j = Len(order) + 1 /\ longer[j] = id
      BY <2>2, <1>2
    <3>2. Source(w, e) \in InOrder(order)
      BY <3>1, <1>1 DEF Waiting
    <3>3. PICK i \in DOMAIN order : order[i] = Source(w, e)
      BY <3>2 DEF InOrder
    <3>4. i \in DOMAIN longer /\ i < j /\ longer[i] = Source(w, e)
      BY <3>1, <3>3, <1>2
    <3>5. QED
      BY <3>1, <3>4 DEF Before
  <2>3. QED
    BY <2>1, <2>2
<1>6. Respects(w, longer)
  BY <1>5 DEF Respects
<1>7. QED
  BY <1>1, <1>4, <1>6 DEF longer

LEMMA TurnKeepsCounts ==
  ASSUME NEW w, IsFiniteSet(Edges(w)), NEW order \in Seq(Ids(w)),
         NoRepeat(order), Respects(w, order), NEW degree, NEW queue,
         Counted(w, order, degree, queue), NEW id \in queue,
         NEW left, left = [n \in Ids(w) |-> degree[n] - Released(w, id, n)],
         NEW rest, rest = (queue \ {id})
                            \cup {n \in Ids(w) : Released(w, id, n) > 0 /\ left[n] = 0}
  PROVE  Counted(w, Append(order, id), left, rest)
<1> DEFINE longer == Append(order, id)
           Freed(n) == {e \in EdgesTo(w, n) : Source(w, e) = id}
<1>1. id \in Ids(w) /\ id \notin InOrder(order) /\ Waiting(w, order, id) = {}
  BY TurnKeepsOrder
<1>2. InOrder(longer) = InOrder(order) \cup {id}
  BY <1>1, InOrderAppend
<1>3. ASSUME NEW n \in Ids(w)
      PROVE  /\ IsFiniteSet(Freed(n)) /\ Released(w, id, n) \in Nat
             /\ Released(w, id, n) = 0 <=> Freed(n) = {}
             /\ Freed(n) \subseteq Waiting(w, order, n)
             /\ Waiting(w, longer, n) = Waiting(w, order, n) \ Freed(n)
             /\ left[n] = Cardinality(Waiting(w, longer, n))
  <2>1. Freed(n) \subseteq Waiting(w, order, n)
    BY <1>1 DEF Waiting
  <2>2. IsFiniteSet(Waiting(w, order, n)) /\ Cardinality(Waiting(w, order, n)) \in Nat
    BY WaitingIsFinite
  <2>3. IsFiniteSet(Freed(n))
    BY <2>1, <2>2, FS_Subset
  <2>4. Released(w, id, n) = Cardinality(Freed(n))
    BY DEF Released
  <2>5. Released(w, id, n) \in Nat /\ (Released(w, id, n) = 0 <=> Freed(n) = {})
    BY <2>3, <2>4, FS_CardinalityType, FS_EmptySet
  <2>6. Waiting(w, longer, n) = Waiting(w, order, n) \ Freed(n)
    BY <1>2 DEF Waiting
  <2>7. Waiting(w, order, n) \cap Freed(n) = Freed(n)
    BY <2>1
  <2>8. Cardinality(Waiting(w, longer, n)) = Cardinality(Waiting(w, order, n)) - Cardinality(Freed(n))
    BY <2>2, <2>6, <2>7, FS_Difference
  <2>9. left[n] = degree[n] - Released(w, id, n) /\ degree[n] = Cardinality(Waiting(w, order, n))
    BY DEF Counted
  <2>10. left[n] = Cardinality(Waiting(w, longer, n))
    BY <2>4, <2>8, <2>9
  <2>11. QED
    BY <2>1, <2>3, <2>5, <2>6, <2>10
<1>4. ASSUME NEW n \in Ids(w)
      PROVE  n \in queue \ {id} \/ (Released(w, id, n) > 0 /\ left[n] = 0)
               <=> left[n] = 0 /\ n \notin InOrder(longer)
  <2>1. n \in queue <=> Waiting(w, order, n) = {} /\ n \notin InOrder(order)
    BY WaitingIsFinite DEF Counted
  <2>2. left[n] = 0 <=> Waiting(w, longer, n) = {}
    BY <1>3, WaitingIsFinite
  <2>3. n \in InOrder(order) => Waiting(w, order, n) = {}
    BY BeforeIsInOrder DEF InOrder, Waiting, Respects
  <2> HIDE DEF Freed
  <2>4. Released(w, id, n) > 0 <=> Freed(n) # {}
    <3>1. Released(w, id, n) \in Nat /\ (Released(w, id, n) = 0 <=> Freed(n) = {})
      BY <1>3
    <3>2. QED
      BY <3>1
  <2>5. QED
    BY <1>1, <1>2, <1>3, <2>1, <2>2, <2>3, <2>4
<1>5. DOMAIN left = Ids(w)
  OBVIOUS
<1>6. QED
  BY <1>3, <1>4, <1>5 DEF Counted

-----------------------------------------------------------------------------
(* The invariant of the loop.                                              *)

Shape ==
  /\ body \in Bodies
  /\ stage \in [Requests -> {"received", "sort", "publish", "answered"}]
  /\ DOMAIN indegree = Requests /\ DOMAIN ready = Requests /\ DOMAIN ordered = Requests

Orderly(r) ==
  /\ ordered[r] \in Seq(Ids(body[r]))
  /\ NoRepeat(ordered[r])
  /\ Respects(body[r], ordered[r])

\* Between two turns the variables of the loop agree with the order so far.
Sorting(r) ==
  stage[r] = "sort" =>
    /\ body[r].kind = "Workflow"
    /\ Counted(body[r], ordered[r], indegree[r], ready[r])

LoopInv == Shape /\ \A r \in Requests : Orderly(r) /\ Sorting(r)

LEMMA EmptyOrder ==
  ASSUME NEW w
  PROVE  /\ << >> \in Seq(Ids(w)) /\ NoRepeat(<< >>) /\ Respects(w, << >>)
         /\ InOrder(<< >>) = {} /\ \A n : Waiting(w, << >>, n) = EdgesTo(w, n)
BY DEF NoRepeat, Respects, InOrder, Waiting

LEMMA LoopInit == RegistryInit => LoopInv
<1> SUFFICES ASSUME RegistryInit PROVE LoopInv
  OBVIOUS
<1>1. Shape
  BY DEF RegistryInit, Shape
<1>2. ASSUME NEW r \in Requests PROVE Orderly(r) /\ Sorting(r)
  BY EmptyOrder DEF RegistryInit, Orderly, Sorting
<1>3. QED
  BY <1>1, <1>2 DEF LoopInv

\* Steps outside of the loop leave its variables alone.
LEMMA OutsideLoop ==
  ASSUME LoopInv, UNCHANGED <<body, loopVars>>, NEW r \in Requests,
         NEW place \in {"publish", "answered"}, stage' = [stage EXCEPT ![r] = place]
  PROVE  LoopInv'
BY DEF LoopInv, Shape, Orderly, Sorting, loopVars

LEMMA BeginSortKeeps ==
  ASSUME LoopInv, NEW r \in Requests, BeginSort(r)
  PROVE  LoopInv'
<1> DEFINE w == body[r]
<1>1. /\ body' = body /\ w.kind = "Workflow"
      /\ stage' = [stage EXCEPT ![r] = "sort"]
      /\ indegree' = [indegree EXCEPT ![r] = [id \in Ids(w) |-> Count(w, id)]]
      /\ ready' = [ready EXCEPT ![r] = {id \in Ids(w) : Count(w, id) = 0}]
      /\ ordered' = [ordered EXCEPT ![r] = << >>]
  BY DEF BeginSort, Goto
<1>2. Shape'
  BY <1>1 DEF LoopInv, Shape
<1>3. Orderly(r)' /\ Sorting(r)'
  <2>1. /\ ordered'[r] = << >> /\ indegree'[r] = [id \in Ids(w) |-> Count(w, id)]
        /\ ready'[r] = {id \in Ids(w) : Count(w, id) = 0}
    BY <1>1 DEF LoopInv, Shape
  <2>2. Counted(w, << >>, [id \in Ids(w) |-> Count(w, id)], {id \in Ids(w) : Count(w, id) = 0})
    BY EmptyOrder DEF Counted, Count
  <2>3. QED
    BY <1>1, <2>1, <2>2, EmptyOrder DEF Orderly, Sorting
<1>4. ASSUME NEW s \in Requests, s # r PROVE Orderly(s)' /\ Sorting(s)'
  BY <1>1, <1>4 DEF LoopInv, Shape, Orderly, Sorting
<1>5. QED
  BY <1>2, <1>3, <1>4 DEF LoopInv

LEMMA SortStepKeeps ==
  ASSUME LoopInv, NEW r \in Requests, SortStep(r)
  PROVE  LoopInv'
<1> DEFINE w == body[r]
           Left(id) == [n \in Ids(w) |-> indegree[r][n] - Released(w, id, n)]
           Queue(id) == (ready[r] \ {id})
                          \cup {n \in Ids(w) : Released(w, id, n) > 0 /\ Left(id)[n] = 0}
<1>1. PICK id \in ready[r] :
        /\ ordered' = [ordered EXCEPT ![r] = Append(ordered[r], id)]
        /\ indegree' = [indegree EXCEPT ![r] = Left(id)]
        /\ ready' = [ready EXCEPT ![r] = Queue(id)]
  BY DEF SortStep
<1>2. stage[r] = "sort" /\ UNCHANGED <<stage, body>>
  BY DEF SortStep
<1>3. /\ w.kind = "Workflow" /\ Counted(w, ordered[r], indegree[r], ready[r])
      /\ ordered[r] \in Seq(Ids(w)) /\ NoRepeat(ordered[r]) /\ Respects(w, ordered[r])
      /\ IsFiniteSet(Edges(w))
  BY <1>2, RegistryAssumption DEF LoopInv, Shape, Orderly, Sorting
<1>4. /\ ordered'[r] = Append(ordered[r], id) /\ indegree'[r] = Left(id)
      /\ ready'[r] = Queue(id)
  BY <1>1 DEF LoopInv, Shape
<1>5. /\ id \in Ids(w) /\ NoRepeat(ordered'[r]) /\ Respects(w, ordered'[r])
  BY <1>3, <1>4, TurnKeepsOrder
<1>6. ordered'[r] \in Seq(Ids(w))
  BY <1>3, <1>4, <1>5, InOrderAppend
<1>7. Counted(w, ordered'[r], indegree'[r], ready'[r])
  <2>1. Counted(w, Append(ordered[r], id), Left(id), Queue(id))
    BY <1>3, TurnKeepsCounts
  <2> HIDE DEF Left, Queue
  <2>2. QED
    BY <1>4, <2>1
<1>8. Orderly(r)' /\ Sorting(r)'
  BY <1>2, <1>3, <1>5, <1>6, <1>7 DEF Orderly, Sorting
<1>9. Shape'
  BY <1>1, <1>2 DEF LoopInv, Shape
<1>10. ASSUME NEW s \in Requests, s # r PROVE Orderly(s)' /\ Sorting(s)'
  BY <1>1, <1>2, <1>10 DEF LoopInv, Shape, Orderly, Sorting
<1>11. QED
  BY <1>8, <1>9, <1>10 DEF LoopInv

LEMMA LoopStep ==
  ASSUME LoopInv, [RegistryNext]_vars
  PROVE  LoopInv'
<1>1. ASSUME NEW r \in Requests, CheckContract(r) PROVE LoopInv'
  BY <1>1, OutsideLoop DEF CheckContract, Answer, Goto
<1>2. ASSUME NEW r \in Requests, EndSort(r) PROVE LoopInv'
  BY <1>2, OutsideLoop DEF EndSort, Answer, Goto
<1>3. ASSUME NEW r \in Requests, Publish(r) \/ PublishFails(r) PROVE LoopInv'
  BY <1>3, OutsideLoop DEF Publish, PublishFails, Answer, Goto
<1>4. CASE UNCHANGED vars
  BY <1>4 DEF vars, loopVars, LoopInv, Shape, Orderly, Sorting
<1>5. QED
  BY <1>1, <1>2, <1>3, <1>4, BeginSortKeeps, SortStepKeeps DEF RegistryNext, RequestStep

LEMMA LoopInvariant == RegistrySpec => []LoopInv
BY LoopInit, LoopStep, PTL DEF RegistrySpec

(***************************************************************************)
(* For any number of requests and any finite documents, topologicalOrder   *)
(* puts a step behind all its known dependencies, repeated mentions        *)
(* counted (workflow.ts:22).                                               *)
(***************************************************************************)
THEOREM OrderIsRight == RegistrySpec => []OrderRespectsDependencies
<1>1. LoopInv => OrderRespectsDependencies
  BY DEF LoopInv, Orderly, Respects, OrderRespectsDependencies
<1>2. QED
  BY <1>1, LoopInvariant, PTL

-----------------------------------------------------------------------------
(* Lists without repetitions, and ranks.                                   *)

LEMMA DistinctList ==
  ASSUME NEW S, NEW list \in Seq(S), NoRepeat(list)
  PROVE  IsFiniteSet(InOrder(list)) /\ Cardinality(InOrder(list)) = Len(list)
<1>1. Len(list) \in Nat /\ DOMAIN list = 1..Len(list) /\ list \in [1..Len(list) -> InOrder(list)]
  BY DEF InOrder
<1>2. list \in Bijection(1..Len(list), InOrder(list))
  BY <1>1 DEF Bijection, Injection, Surjection, IsInjective, NoRepeat, InOrder
<1>3. ExistsBijection(1..Len(list), InOrder(list))
  BY <1>2 DEF ExistsBijection
<1>4. IsFiniteSet(1..Len(list)) /\ Cardinality(1..Len(list)) = Len(list)
  BY <1>1, FS_Interval
<1>5. QED
  BY <1>3, <1>4, FS_Bijection

\* A nonempty set of ranked steps has one of least rank.
LEMMA LeastRank ==
  ASSUME NEW T, T # {}, NEW rank, \A x \in T : rank[x] \in Nat
  PROVE  \E x \in T : \A y \in T : ~(rank[y] < rank[x])
<1> DEFINE Ranks == {rank[x] : x \in T}
<1>1. Ranks \subseteq Nat /\ Ranks # {}
  OBVIOUS
<1>2. PICK m \in Ranks : \A k \in Ranks : ~(<<k, m>> \in OpToRel(<, Nat))
  BY <1>1, WFMin, NatLessThanWellFounded
<1>3. \A k \in Ranks : ~(k < m)
  BY <1>1, <1>2 DEF OpToRel
<1>4. QED
  BY <1>3

LEMMA IdsOfDistinctSteps ==
  ASSUME NEW w, IsList(w.steps), ~DuplicateId(w)
  PROVE  IsFiniteSet(Ids(w)) /\ Cardinality(Ids(w)) = Len(w.steps) /\ Len(w.steps) \in Nat
<1> DEFINE ids == [i \in 1..Len(w.steps) |-> w.steps[i].id]
<1>1. Len(w.steps) \in Nat /\ DOMAIN w.steps = 1..Len(w.steps)
  BY DEF IsList
<1>2. ids \in Seq(Ids(w)) /\ Len(ids) = Len(w.steps) /\ DOMAIN ids = 1..Len(w.steps)
  BY <1>1 DEF Ids
<1>3. NoRepeat(ids)
  BY <1>1, <1>2 DEF NoRepeat, DuplicateId
<1>4. InOrder(ids) = Ids(w)
  BY <1>1, <1>2 DEF InOrder, Ids
<1>5. QED
  BY <1>1, <1>2, <1>3, <1>4, DistinctList

-----------------------------------------------------------------------------
(* What the end of the loop means.                                         *)

LEMMA SourcesAreSteps ==
  ASSUME NEW w, NEW n, NEW e \in EdgesTo(w, n)
  PROVE  e \in Edges(w) /\ Source(w, e) \in Ids(w) /\ Target(w, e) = n
BY DEF EdgesTo, Edges, Source

LEMMA TargetsAreSteps ==
  ASSUME NEW w, NEW e \in Edges(w)
  PROVE  Target(w, e) \in Ids(w)
<1>1. PICK i \in DOMAIN w.steps : e \in {<<i, k>> : k \in {k \in DOMAIN w.steps[i].dependsOn :
                                          w.steps[i].dependsOn[k] \in Ids(w)}}
  BY DEF Edges
<1>2. e[1] = i
  BY <1>1
<1>3. QED
  BY <1>2 DEF Target, Ids

\* A loop that stops early has met a cycle: no order of the steps exists.
LEMMA StoppedEarly ==
  ASSUME NEW w, IsList(w.steps), IsFiniteSet(Edges(w)), ~DuplicateId(w),
         NEW order \in Seq(Ids(w)), NoRepeat(order), NEW degree,
         Counted(w, order, degree, {}), Len(order) # Len(w.steps)
  PROVE  ~HasOrder(w)
<1> SUFFICES ASSUME HasOrder(w) PROVE FALSE
  OBVIOUS
<1>1. PICK rank \in [Ids(w) -> 1..Cardinality(Ids(w))] :
        \A e \in Edges(w) : rank[Source(w, e)] < rank[Target(w, e)]
  BY DEF HasOrder
<1>2. IsFiniteSet(Ids(w)) /\ Cardinality(Ids(w)) = Len(w.steps) /\ Len(w.steps) \in Nat
  BY IdsOfDistinctSteps
<1>3. Ids(w) \ InOrder(order) # {}
  <2>1. InOrder(order) \subseteq Ids(w)
    BY DEF InOrder
  <2>2. Cardinality(InOrder(order)) # Cardinality(Ids(w))
    BY <1>2, DistinctList
  <2>3. QED
    BY <2>1, <2>2
<1>4. PICK n \in Ids(w) \ InOrder(order) :
        \A m \in Ids(w) \ InOrder(order) : ~(rank[m] < rank[n])
  <2>1. \A m \in Ids(w) \ InOrder(order) : rank[m] \in Nat
    BY <1>1, <1>2
  <2>2. QED
    BY <1>3, <2>1, LeastRank
<1>5. Waiting(w, order, n) # {}
  BY <1>4, WaitingIsFinite DEF Counted
<1>6. PICK e \in EdgesTo(w, n) : Source(w, e) \notin InOrder(order)
  BY <1>5 DEF Waiting
<1>7. QED
  BY <1>1, <1>4, <1>6, SourcesAreSteps

\* A loop that has ordered every step has found an order of the workflow.
LEMMA OrderedAll ==
  ASSUME NEW w, IsList(w.steps), ~DuplicateId(w),
         NEW order \in Seq(Ids(w)), NoRepeat(order), Respects(w, order),
         Len(order) = Len(w.steps)
  PROVE  HasOrder(w)
<1> DEFINE rank == [n \in Ids(w) |-> CHOOSE j \in DOMAIN order : order[j] = n]
<1>1. IsFiniteSet(Ids(w)) /\ Cardinality(Ids(w)) = Len(order) /\ Len(order) \in Nat
  BY IdsOfDistinctSteps
<1>2. InOrder(order) = Ids(w)
  <2>1. InOrder(order) \in SUBSET Ids(w)
    BY DEF InOrder
  <2>2. Cardinality(InOrder(order)) = Cardinality(Ids(w))
    BY <1>1, DistinctList
  <2>3. QED
    BY <1>1, <2>1, <2>2, FS_Subset
<1>3. DOMAIN order = 1..Len(order)
  OBVIOUS
<1>4. \A n \in Ids(w) : rank[n] \in DOMAIN order /\ order[rank[n]] = n
  BY <1>2 DEF InOrder
<1> HIDE DEF rank
<1>5. rank \in [Ids(w) -> 1..Cardinality(Ids(w))]
  BY <1>1, <1>3, <1>4 DEF rank
<1>6. ASSUME NEW e \in Edges(w) PROVE rank[Source(w, e)] < rank[Target(w, e)]
  <2> DEFINE n == Target(w, e)
             j == rank[n]
  <2>1. n \in Ids(w) /\ e \in EdgesTo(w, n) /\ Source(w, e) \in Ids(w)
    <3>1. e \in EdgesTo(w, n)
      BY DEF EdgesTo
    <3>2. QED
      BY <3>1, SourcesAreSteps, TargetsAreSteps
  <2>2. j \in DOMAIN order /\ order[j] = n
    BY <1>4, <2>1
  <2>3. PICK i \in DOMAIN order, k \in DOMAIN order :
          i < k /\ order[i] = Source(w, e) /\ order[k] = n
    BY <2>1, <2>2 DEF Respects, Before
  <2>4. k = j /\ i = rank[Source(w, e)]
    BY <1>4, <2>1, <2>2, <2>3 DEF NoRepeat
  <2>5. QED
    BY <2>3, <2>4
<1>7. QED
  BY <1>5, <1>6 DEF HasOrder

-----------------------------------------------------------------------------
(* What is accepted, and what is refused.                                  *)

\* The tables have a place for every version.
Tables == DOMAIN published = Versions

Judged(r) ==
  /\ stage[r] = "publish" /\ body[r].kind = "Workflow"
       => HasOrder(body[r]) /\ ~UnknownDependency(body[r])
  /\ reply[r] = 400 => WorkflowIssue(body[r]) \/ ~HasOrder(body[r])

\* Documents in the tables and documents about to be inserted were accepted.
RegistryInv ==
  /\ Tables /\ DOMAIN reply = Requests
  /\ \A r \in Requests : Judged(r)
  /\ PublishedHasOrder

LEMMA RegistryInitially == RegistryInit => RegistryInv
BY DEF RegistryInit, RegistryInv, Tables, Judged, PublishedHasOrder

LEMMA CheckContractJudges ==
  ASSUME LoopInv, RegistryInv, NEW r \in Requests, CheckContract(r)
  PROVE  RegistryInv'
<1>1. /\ UNCHANGED <<body, published>> /\ body[r].kind = "Contract"
      /\ reply' = reply \/ reply' = [reply EXCEPT ![r] = 500]
      /\ \E place : stage' = [stage EXCEPT ![r] = place]
  BY DEF CheckContract, Answer, Goto
<1>2. QED
  BY <1>1 DEF LoopInv, Shape, RegistryInv, Tables, Judged, PublishedHasOrder

LEMMA EndSortJudges ==
  ASSUME LoopInv, RegistryInv, NEW r \in Requests, EndSort(r)
  PROVE  RegistryInv'
<1> DEFINE w == body[r]
           refused == WorkflowIssue(w) \/ Len(ordered[r]) # Len(w.steps)
<1>1. /\ UNCHANGED <<body, published>> /\ stage[r] = "sort" /\ w.kind = "Workflow"
      /\ IsList(w.steps) /\ IsFiniteSet(Edges(w))
      /\ ordered[r] \in Seq(Ids(w)) /\ NoRepeat(ordered[r]) /\ Respects(w, ordered[r])
      /\ Counted(w, ordered[r], indegree[r], {})
  BY RegistryAssumption DEF EndSort, LoopInv, Shape, Orderly, Sorting
<1>2. CASE refused
  <2>1. WorkflowIssue(w) \/ ~HasOrder(w)
    BY <1>1, <1>2, StoppedEarly DEF WorkflowIssue
  <2>2. stage' = [stage EXCEPT ![r] = "answered"] /\ reply' = [reply EXCEPT ![r] = 400]
    BY <1>2 DEF EndSort, Answer, Goto
  <2>3. QED
    BY <1>1, <2>1, <2>2 DEF LoopInv, Shape, RegistryInv, Tables, Judged, PublishedHasOrder
<1>3. CASE ~refused
  <2>1. HasOrder(w) /\ ~UnknownDependency(w)
    BY <1>1, <1>3, OrderedAll DEF WorkflowIssue
  <2>2. stage' = [stage EXCEPT ![r] = "publish"] /\ reply' = reply
    BY <1>3 DEF EndSort, Goto
  <2>3. QED
    BY <1>1, <2>1, <2>2 DEF LoopInv, Shape, RegistryInv, Tables, Judged, PublishedHasOrder
<1>4. QED
  BY <1>2, <1>3

LEMMA PublishJudges ==
  ASSUME LoopInv, RegistryInv, NEW r \in Requests, Publish(r) \/ PublishFails(r)
  PROVE  RegistryInv'
<1>1. /\ body' = body /\ stage[r] = "publish" /\ stage' = [stage EXCEPT ![r] = "answered"]
      /\ \E code \in {201, 500} : reply' = [reply EXCEPT ![r] = code]
      /\ published' = published \/ InsertOnce(body[r])
  BY DEF Publish, PublishFails, Answer, Goto
<1>2. Tables' /\ PublishedHasOrder'
  BY <1>1 DEF RegistryInv, Tables, Judged, PublishedHasOrder, InsertOnce
<1>3. DOMAIN reply' = Requests /\ \A s \in Requests : Judged(s)'
  BY <1>1 DEF LoopInv, Shape, RegistryInv, Judged
<1>4. QED
  BY <1>2, <1>3 DEF RegistryInv

LEMMA RegistryStep ==
  ASSUME LoopInv, RegistryInv, [RegistryNext]_vars
  PROVE  RegistryInv'
<1>1. ASSUME NEW r \in Requests, BeginSort(r) \/ SortStep(r) PROVE RegistryInv'
  BY <1>1
  DEF BeginSort, SortStep, Goto, LoopInv, Shape, RegistryInv, Tables, Judged, PublishedHasOrder
<1>2. CASE UNCHANGED vars
  BY <1>2 DEF vars, RegistryInv, Tables, Judged, PublishedHasOrder
<1>3. QED
  BY <1>1, <1>2, CheckContractJudges, EndSortJudges, PublishJudges
  DEF RegistryNext, RequestStep

LEMMA RegistryInvariant == RegistrySpec => []RegistryInv
BY LoopInvariant, RegistryInitially, RegistryStep, PTL DEF RegistrySpec

(***************************************************************************)
(* Every published workflow has an order of all its steps and names no     *)
(* unknown one, for any number of requests and documents of any size       *)
(* (workflow.ts:15-23).                                                    *)
(***************************************************************************)
THEOREM PublishedHasOrderHolds == RegistrySpec => []PublishedHasOrder
BY RegistryInvariant, PTL DEF RegistryInv

(***************************************************************************)
(* A workflow that is refused has an issue or no order of its steps at     *)
(* all: the loop ends early on a cycle only (workflow.ts:16-22).           *)
(***************************************************************************)
THEOREM RefusedForAReasonHolds == RegistrySpec => []RefusedForAReason
<1>1. RegistryInv => RefusedForAReason
  BY DEF RegistryInv, Judged, RefusedForAReason
<1>2. QED
  BY <1>1, RegistryInvariant, PTL

-----------------------------------------------------------------------------
(* Types.                                                                  *)

\* Counts and queues that agree with an order are typed.
LEMMA CountedIsTyped ==
  ASSUME NEW w, NEW order, NEW degree, NEW queue,
         IsFiniteSet(Edges(w)), Counted(w, order, degree, queue)
  PROVE  (\A id \in DOMAIN degree : degree[id] \in Nat) /\ queue \subseteq DOMAIN degree
BY WaitingIsFinite DEF Counted

CountsTyped(r) ==
  /\ \A id \in DOMAIN indegree[r] : indegree[r][id] \in Nat
  /\ ready[r] \subseteq DOMAIN indegree[r]

\* The part of the type invariant that LoopInv does not say.
TypedInv ==
  /\ reply \in [Requests -> {0, 201, 400, 500}]
  /\ \A r \in Requests : CountsTyped(r)
  /\ \A v \in Versions :
       published[v] = NoDocument \/ \E r \in Requests : published[v] = body[r]

\* A request whose loop has just made a turn has the counts of LoopInv.
LEMMA SortingIsTyped ==
  ASSUME LoopInv, LoopInv', TypedInv, NEW r \in Requests, BeginSort(r) \/ SortStep(r)
  PROVE  TypedInv'
<1>1. /\ stage'[r] = "sort" /\ UNCHANGED <<body, reply, published>>
      /\ \A s \in Requests : s # r => indegree'[s] = indegree[s] /\ ready'[s] = ready[s]
  BY DEF BeginSort, SortStep, Goto, LoopInv, Shape
<1>2. PICK w : w = body[r]
  OBVIOUS
<1>3. w.kind = "Workflow" /\ Counted(w, ordered'[r], indegree'[r], ready'[r])
  BY <1>1, <1>2 DEF LoopInv, Sorting
<1>4. IsFiniteSet(Edges(w))
  BY <1>2, <1>3, RegistryAssumption DEF LoopInv, Shape
<1>5. CountsTyped(r)'
  BY <1>3, <1>4, CountedIsTyped DEF CountsTyped
<1>6. \A s \in Requests : CountsTyped(s)'
  BY <1>1, <1>5 DEF TypedInv, CountsTyped
<1>7. QED
  BY <1>1, <1>6 DEF TypedInv

LEMMA AnswersAreTyped ==
  ASSUME LoopInv, RegistryInv, TypedInv, NEW r \in Requests,
         CheckContract(r) \/ EndSort(r) \/ Publish(r) \/ PublishFails(r)
  PROVE  TypedInv'
<1>1. /\ UNCHANGED <<body, loopVars>>
      /\ \/ reply' = reply
         \/ \E code \in {201, 400, 500} : reply' = [reply EXCEPT ![r] = code]
      /\ published' = published \/ InsertOnce(body[r])
  BY DEF CheckContract, EndSort, Publish, PublishFails, Answer, Goto
<1>2. \A v \in Versions :
        published'[v] = NoDocument \/ \E s \in Requests : published'[v] = body[s]
  BY <1>1 DEF TypedInv, InsertOnce, RegistryInv, Tables
<1>3. reply' \in [Requests -> {0, 201, 400, 500}]
  BY <1>1 DEF TypedInv
<1>4. QED
  BY <1>1, <1>2, <1>3 DEF TypedInv, CountsTyped, loopVars

LEMMA TypedStep ==
  ASSUME LoopInv, LoopInv', RegistryInv, TypedInv, [RegistryNext]_vars
  PROVE  TypedInv'
<1>1. CASE UNCHANGED vars
  BY <1>1 DEF vars, loopVars, TypedInv, CountsTyped
<1>2. QED
  BY <1>1, SortingIsTyped, AnswersAreTyped DEF RegistryNext, RequestStep

(***************************************************************************)
(* The variables of the loop keep their types for any documents: no count  *)
(* falls below zero, no step is put into an order twice, and what is in    *)
(* the tables is a document somebody sent (workflow.ts:22,                 *)
(* server.ts:25-30, 40-43).                                                *)
(***************************************************************************)
THEOREM RegistryTypeCorrect == RegistrySpec => []RegistryTypeOK
<1>1. RegistryInit => TypedInv
  BY DEF RegistryInit, TypedInv, CountsTyped, NoIndegree
<1>2. RegistrySpec => []TypedInv
  BY <1>1, TypedStep, LoopInvariant, RegistryInvariant, PTL DEF RegistrySpec
<1>3. LoopInv /\ TypedInv => RegistryTypeOK
  BY DEF LoopInv, Shape, Orderly, NoRepeat, TypedInv, CountsTyped, RegistryTypeOK
<1>4. QED
  BY <1>2, <1>3, LoopInvariant, PTL

-----------------------------------------------------------------------------
(* The end of the loop.                                                    *)

\* A workflow has no more ids than steps, also when steps share an id.
LEMMA IdsAreFew ==
  ASSUME NEW w, IsList(w.steps)
  PROVE  /\ IsFiniteSet(Ids(w)) /\ Cardinality(Ids(w)) \in Nat
         /\ Len(w.steps) \in Nat /\ Cardinality(Ids(w)) <= Len(w.steps)
<1> DEFINE ids == [i \in 1..Len(w.steps) |-> w.steps[i].id]
<1>1. Len(w.steps) \in Nat /\ DOMAIN w.steps = 1..Len(w.steps)
  BY DEF IsList
<1>2. ids \in Surjection(1..Len(w.steps), Ids(w))
  BY <1>1 DEF Surjection, Ids
<1>3. IsFiniteSet(1..Len(w.steps)) /\ Cardinality(1..Len(w.steps)) = Len(w.steps)
  BY <1>1, FS_Interval
<1>4. IsFiniteSet(Ids(w)) /\ Cardinality(Ids(w)) <= Cardinality(1..Len(w.steps))
  BY <1>2, <1>3, FS_Surjection
<1>5. QED
  BY <1>1, <1>3, <1>4, FS_CardinalityType

\* The turns the loop has made, and the turns it can make at most.
LoopIsShort ==
  \A r \in Requests : stage[r] = "sort" => Len(ordered[r]) <= Len(body[r].steps)

(***************************************************************************)
(* The loop of topologicalOrder makes no more turns than the workflow has  *)
(* steps, whatever the document says, cycles and duplicate ids included:   *)
(* each turn puts another id into the order (workflow.ts:22).  What is     *)
(* left of RequestsAreAnswered is that the code goes on.                   *)
(***************************************************************************)
THEOREM LoopIsShortHolds == RegistrySpec => []LoopIsShort
<1>1. LoopInv => LoopIsShort
  <2> SUFFICES ASSUME LoopInv, NEW r \in Requests, stage[r] = "sort"
               PROVE  Len(ordered[r]) <= Len(body[r].steps)
    BY DEF LoopIsShort
  <2>1. PICK w, order :
          /\ w = body[r] /\ order = ordered[r] /\ w.kind = "Workflow"
          /\ order \in Seq(Ids(w)) /\ NoRepeat(order)
    BY DEF LoopInv, Orderly, Sorting
  <2>2. IsList(w.steps)
    BY <2>1, RegistryAssumption DEF LoopInv, Shape
  <2>3. Cardinality(InOrder(order)) = Len(order) /\ Len(order) \in Nat
    BY <2>1, DistinctList
  <2>4. InOrder(order) \in SUBSET Ids(w)
    BY <2>1 DEF InOrder
  <2>5. Cardinality(InOrder(order)) <= Cardinality(Ids(w))
    BY <2>2, <2>4, IdsAreFew, FS_Subset
  <2>6. QED
    BY <2>1, <2>2, <2>3, <2>5, IdsAreFew
<1>2. QED
  BY <1>1, LoopInvariant, PTL

=============================================================================
