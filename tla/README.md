# FlowCommit: formal model

FlowCommit runs business transactions against external systems: a contract says
which effects a transaction must have, an executor adapter is asked to bring
them about, verifiers look whether it did, and the transaction ends verified,
compensated, or as a case for a human. This directory holds a TLA+ model of the
parts that decide about that, the TLC runs that check it on small instances and
the theorems TLAPS proves about it. Paths below are relative to `src/`.

## 1. Inventory

| Part | Source | State | Operations | Hard |
|---|---|---|---|---|
| State machine | `packages/core/src/state-machine.ts`, `types.ts` | none | `canTransitionTransaction` | which statuses are final |
| Transaction record | `packages/core/src/runtime.ts`, `approval.ts`, `verification.ts` | the record | create, apply a policy, record an approval, add an observation, decide the outcome | functions that set a status without asking the table |
| Engine | `packages/runtime/src/index.ts` | a private copy of the row per run | `run`, `verifyAll`, `compensate`, `reconcileUnknown` | one read, many awaits, whole-row writes; exceptions and crashes between any two of them |
| Worker | `apps/worker/src/worker.ts` | `stopping`, `running`, the rows of a tick | `tick`, `stop` | no claim on a row; LIMIT 20; signals |
| Control plane | `apps/api/src/server.ts` | a copy of the row per request | create, approve, cancel; read-only routes | read, then await, then write |
| Registry | `apps/api/src/server.ts`, `packages/core/src/workflow.ts`, `contract.ts` | contract and workflow versions | publish a workflow, publish a contract; `validateWorkflow`, `topologicalOrder`, `validateContract` | cycles, duplicates, repeated mentions; sections a document does not have |
| Database | `packages/db/src/index.ts`, `schema.sql` | the tables, a pool of clients | `putTransaction`, `getTransaction`, `findByIdempotency`, `appendEvidence`, `openReconciliation`, `putContract`, `putWorkflow` | unguarded upsert; lists in jsonb columns |
| Evidence chain | `packages/db/src/index.ts`, `packages/core/src/evidence.ts`, `packages/evidence` | the chain of a transaction | append; the verifier of the packages reads other fields and another text | sequence numbers under contention; a lock on the last entry only; lost commits |
| Temporal workflow | `packages/temporal/src/index.ts` | one workflow | five activities, approval signal | signal against timeout; attempts that go on after they were given up |
| Adapters | `adapters/*` | none | validate, prepare, execute; verify | FAILED or UNKNOWN_EFFECT |
| Policy | `packages/policy` | external (OPA) | `evaluate` | I/O only |
| Risk, router, keys, hashes | `packages/core/src/risk.ts`, `router.ts`, `idempotency.ts`, `canonical.ts` | none | pure functions | rounding and boundaries |
| Studio, CLI, deployment | `apps/studio`, `apps/cli`, `deploy` | none | clients of the API | - |

How they interact: the API inserts a row in status READY, AWAITING_APPROVAL or
REJECTED_BY_POLICY. Approvals move it to READY. Workers poll READY and
FAILED_INFRASTRUCTURE rows and call the engine, which calls adapters and
verifiers and stores the row after every change. All of them meet only in the
database: there are no locks, no versions and no messages. JavaScript runs one
piece of code at a time, so the unit of interleaving is the code between two
awaits, within a process as well as between processes.

What makes them correct:

- approvals: nothing is executed that was not approved as the policy asked;
- execution: an effect is never carried out twice, an attempt of unknown effect
  is never followed by another, and a row says VERIFIED or COMPENSATED only
  with the observations that make it so;
- records: the evidence and the list of actions are never ahead of what
  happened, and lose nothing;
- handlers: one creation per idempotency key, a denial stands;
- evidence: one chain of rows per transaction, without gap, fork or loss, whoever
  appends to it and whatever fails;
- registry: a published workflow has an order, a published contract has the
  sections the engine reads (it need not, see the run `incomplete`);
- orchestration: an approval in time counts and a timeout never is one;
- progress: ready transactions are run, runs end, an unknown effect reaches a
  human, a signal stops a worker, appends and requests end.

`PROJECT.json` lists the hazards behind these with the line where each bites.

## 2. Modules

```
StateMachine  Approval  Verification          vocabulary and pure functions
        \        |        /
           Transactions                       the record and its functions
                 |
               Store ------- Records          the tables; what a row must show
            /         \
        Engine      ControlPlane              runs; requests
        /    \         /
   Worker     FlowCommit                       (with Records)
     |
WorkerProperties --- EngineProperties          (with Records)
                           |
                       Lifecycle               abstract, refined by the engine

Evidence ------- EvidenceLog (abstract, refined by it)
Registry         Temporal      JsonColumns      boundaries of their own
Adapters ------- MCContracts                    what a call of an adapter tells

Proofs:
EngineProofs <-- FlowCommitProofs <-- RecordProofs       (Engine, FlowCommit)
EngineProofs <-- OneRunProofs <-- WorkerProofs           (Engine, Worker)
EvidenceProofs     TemporalProofs     RegistryProofs
```

- **StateMachine, Approval, Verification, Transactions.** One operator per
  function of `packages/core/src`, on the fields that anything reads. A contract
  is a constant, on the ground that both inserts of a version say `ON CONFLICT
  DO NOTHING` and no statement updates one. Approvals and observations are sets,
  because the functions that read them look neither at order nor at
  multiplicity; actions are a sequence. Comparisons of proposal hashes are left
  out: the handler copies the hash from the row it is compared with. `required`
  stands for `policyDecision.requiredApprovals`.
- **Store.** `transactions`, `evidence`, `cases`. A statement is atomic.
  `Upsert` is the column list of ON CONFLICT. Evidence is the set of event types
  recorded for each transaction; what `appendEvidence` does to insert one is
  the module Evidence.
- **Engine.** A worker is a process with a program counter. `pc[w]` names the
  await at which its run stands, `mem[w]` is its copy of the row, and an action
  is the code from that await to the next: the read of the contract, the
  decision, the put. `Transition` is the method `transition()`: it asks the
  table, changes the copy, puts it and goes to the await of the evidence insert
  (`pc = "event"`), after which `RecordEvent` continues where `pending[w]` says.
  `Execute` is the whole `try` of validate, prepare and execute, whose effect on
  the outside world is `applied` and whose answers are kept in `calls`; both
  exist in the model only. `Abandon` ends a run at any await, which covers a
  crash of the process and every exception that `run()` does not catch
  (credentials, verifier, hook, database). `CompensationStoreError` is the one
  exception it does catch around database calls.
- **ControlPlane.** A request runs one handler once. `held[r]` is the handler's
  copy between its await of the read (or of the policy) and its await of the
  write, so anything happens in between. `RequestFails` is the error handler.
- **Records** states what a row must show for its status: the observations behind
  an outcome, the attempts behind a repetition. It does so from the contract
  and the record alone, without the functions the engine decides with.
- **FlowCommit** composes the API and the engine over one store. Its `Load` lets
  any worker start on any runnable row at any time, which includes everything a
  poll can do (`ImplementsEngine` below checks that it does).
- **Worker** adds the poll loop: `Poll` takes the oldest `Limit` due rows,
  `RunNext` runs them in order, `Stop` and `Exit` are the signal, `Crash` kills
  the process anywhere; it is perhaps started again, and then knows nothing of a
  signal the old one got.
- **Lifecycle** is the abstract specification: a status that moves along the
  published table and effects that are absent or in force once. FAILED and
  COMPENSATED transactions left nothing behind; VERIFIED ones did everything
  unless the contract asks for no verification. **EngineProperties** holds
  the refinement mapping and the properties about the world;
  **WorkerProperties** those of the loop.
- **Evidence** takes `appendEvidence` apart into the statements of its database
  transaction. `holds[c]` is what the open transaction of a call has: the lock
  of a row or an entry that is not committed. `Select` is the snapshot of the
  SELECT and `Lock` the wait of its FOR UPDATE: in READ COMMITTED a waiter gets
  the row it had found, because an entry is never updated, so two calls that
  waited for one row number their entries alike, and the primary key refuses
  the second (`InsertRefused`; an INSERT waits while the other is open). `inUse`
  counts the clients taken from each process's pool. `StatementFails` at
  "answered" is a COMMIT whose answer was lost. `Crash` leaves the open
  transactions of a process to the server, which aborts them later
  (`ServerAborts`) and keeps their locks until then. **EvidenceLog** is the
  promise: a list per transaction that grows at its end. A hash is the list of
  what it covers. The model ends at the table: what `verifyEvidenceChain` would
  say of its rows is not modelled (section 5).
- **Registry** models the two POST routes. A contract has some of the sections
  `risk`, `verification` and `reversibility`, and `ContractIssue` passes over a
  missing one as the optional chains of `validateContract` do. `body` is the
  document of a request, chosen at the start; `SortStep` is one turn of the loop
  of `topologicalOrder`. The queue is a set, because the order among ready steps
  matters to nobody, so every order the loop could find is covered. `Answer` 400
  is the handler's, 500 the error handler's.
- **Temporal** is the workflow function with the service around it: `at` is the
  await, `attempt` counts the attempts of each activity, `running` holds those
  that may still act although the service gave them up. `Signal`, `Expire` and
  `Resume` are separate because a workflow task delivers all signals that came
  before it, also one that came after the timer.
- **Adapters** says how each shipped executor classifies a call (sent or not,
  acted upon or not, how it was answered). `MCContracts` takes the outcomes the
  engine meets from it.
- **JsonColumns** is what the driver and a jsonb column make of the list of
  approvals. The other modules keep lists, as the types of `RuntimeStore` and
  `Transaction` ask of a store; this one shows what the shipped store does
  instead.
- **Proofs.** `EngineProofs` has what every composition of the engine needs: types
  and where a run stands. `FlowCommitProofs` and `RecordProofs` are about
  overlapping runs and requests, `OneRunProofs` and `WorkerProofs` about the
  world outside, `EvidenceProofs`, `TemporalProofs` and `RegistryProofs` about
  their components. The operators
  named "Faulty variant" in the modules are mutations used to test that the
  properties can fail; no specification uses them.

## 3. Runs

`MCContracts` defines five contracts, one for each way through the engine: a
refund that can be compensated and whose preferred executor is not registered;
a transfer with two effects, an executor that cannot compensate and a rule that
names an unknown verifier; an irreversible wire with an effect no rule covers; a
notice that is not verified; a legacy contract nobody can execute.

| Run | Instance | Shows |
|---|---|---|
| `one_worker` | 1 process, 1 transaction of any of the five contracts, strengths 0 and 2, up to 3 calls; signals, crashes and uncaught exceptions at any await, but no statement that fails inside the `try` of `compensate` | rows and world implement Lifecycle (`ImplementsLifecycle`), the loop adds no change of its own (`ImplementsEngine`); `OutcomeBacked`; `UnknownNeverRetried`; `EvidenceNeverAhead`; `ActionsAreTheCalls`; `ClosedForGood`; a signal is obeyed (`StopsInTheEnd`) |
| `workers` | LIMIT 2, 3 rows of which the oldest can never be executed, 1 call each, executors that accept every call; 2 processes on 2 of the rows, or 1 on all 3; statements may fail inside `compensate` | `ReadyIsRun`, `EffectsAreSettled` (also of two effects), `RunsEnd`, `UnknownIsEscalated` although runs overlap; `ClosedWhileAlone`, with one process |
| `flowcommit` | two workloads: 1 creation, 2 approvals, 1 cancellation, 2 workers on 1 row; and 2 creations with 2 keys, 1 approval, 1 cancellation; 2 calls per transaction, the second after a FAILED one | `ApprovalGate`, `OutcomeBacked`, `OnlyFailuresRetried`, `NeverRefused`, `CreatedOnce`, `DenialIsFinal` under every overlap of stale copies |
| `evidence` | 4 calls of 2 processes on 2 chains, a pool of 2 clients, failing statements, crashes | the table implements the append-only log (`ImplementsLog`), its rows are one chain per transaction (`ChainIsWhole`), what was acknowledged is there once (`AnswersAreKept`), every call ends (`AppendsEnd`) |
| `temporal` | 3 attempts per activity, 2 signals | `NothingUnapproved`, `ApprovalInTimeCounts`, `OutcomeIsTrue`, `WorkflowEnds` |
| `registry` | 2 requests for one version; any workflow of up to 3 steps and 2 mentions per step, any small contract, with and without sections | `OrderRespectsDependencies`, `PublishedHasOrder`, `RefusedForAReason`, `RequestsAreAnswered` |
| `race_retry` | 2 workers, 1 call each, no faults | **violated**: two workers execute one transaction, an unknown effect is followed by another attempt |
| `answers` | the same requests and workers, 1 row | **violated**: a cancellation or rejection that was answered is overwritten |
| `compensated` | 1 worker, the refund, a statement may fail inside `compensate` | **violated**: RECONCILIATION_REQUIRED is stored over COMPENSATED, which the table calls final |
| `crash` | as `one_worker` | **violated**: a crash right after UNKNOWN_EFFECT was stored leaves a row nobody takes up |
| `columns` | 1 creation, 1 approval | **violated**: a list comes back from its jsonb column as an object |
| `incomplete` | as `registry` | **violated**: a contract without `verification`, `risk` or `reversibility` is published |

The findings in `PROJECT.json` quote the line each violated property comes from.

**Bounds.** `MaxCalls` stops new runs of a transaction after so many calls of
its executor: three calls are one attempt, its repetition and one more. In
`flowcommit` it is two: an attempt and its repetition, which overlaps with one
request and both workers, or with the approvals and one worker (`RetryAllowed`);
that is enough for a record with two actions to be overwritten by an older copy.
Two workers are enough for a lost update, and three transactions for a poll of
two rows to leave one out. Two approvals and two actors reach a rule of count 2,
a repeated actor and a rejection. `Strengths` contains 0 because 0 falls back to
the rule's strength. Four calls are enough for three to wait on one chain while
a fourth uses another, and a pool of two makes the third wait for a client.
Three attempts are a first, a middle and a last one; two signals can contradict
each other. Three steps give every shape of cycle the loop can meet, with a
repeated mention, an unknown step and a duplicate id. `flowcommit`, `race_retry`
and `answers` use the refund contract only, which reaches confirmation,
refutation, compensation and its failures; its rule has a strength of its own
that is below the minimum, so that the strength a verifier reports decides.
`flowcommit` declares workers, actors and the two approvals symmetric and lets
ids and keys be taken in order (`NamesInOrder`); it checks invariants only.

**Deadlock** is not checked: requests are answered once, transactions end, and
processes exit; calls and workflows end.

**Fairness.** `WorkerFairness` says that the timer fires while the process is up
and that an await of a run that has begun settles in the end (drivers and
adapters answer or fail). Nothing is assumed of requests, signals or crashes,
and no strong fairness is used. `StopsInTheEnd` holds in spite of crashes; the
other liveness properties of workers are checked where `Faults` is off.
`EvidenceSpec` assumes that each statement that waits for nobody is answered and
that the server notices a lost connection; nothing makes a statement fail or a
process crash. `TemporalSpec` assumes that workers take attempts, that an
attempt ends or times out, and that timers fire, which is what the Temporal
service promises; signals need not come. `RegistrySpec` assumes that code
between two awaits goes on.

**Assumptions on the outside.** `HonestAdapters` (`docs/adapter-sdk.md:5-9`): a
call that reports FAILED did nothing. `Adapters` shows what this asks of the
outside (`Trustworthy`): a system that refuses a call, with any answer above
299, has not acted on it, also a gateway whose 504 hides an accepted request;
and a browser that has acted can be closed, because an exception of
`execute` is FAILED to the engine. The theorems of `OneRunProofs` and
`WorkerProofs` that speak of effects need it; those about records, approvals and
requests do not. Verifiers confirm only effects that are in force.
Compensation that reports EXECUTED undid everything. PostgreSQL behaves as its
documentation says of READ COMMITTED, and SHA-256 is injective.

**What the runs do not excuse.** `ImplementsLog` holds because of the primary
key, at the price that an append which lost the race fails, and with it the run
that wanted to record something (`Abandon` in Engine). `OutcomeIsTrue` says of
COMPENSATED only that the last execution was undone: earlier attempts that were
given up may act later. `ApprovalGate`
speaks of the approvals on record: a rejection answered 200 may be overwritten by
the copy of another handler, and the adapter is called then; that is what
`AnswersAreFinal` is about, and it is violated. `ClosedForGood` says that a
transaction the engine is through with is not run again, and counts
RECONCILIATION_REQUIRED among its statuses, because the catch of `compensate`
stores it over COMPENSATED; that this step is against the table is the finding of
the run `compensated`. `ReadyIsRun` holds with fewer stuck rows than LIMIT; as
many as LIMIT starve the others. Version conflicts are answered 201.

## 4. Proofs

Every safety property of the passing runs (`ClosedWhileAlone` as
`ClosedForGood`) is a theorem, for any sets of transactions, contracts, actors,
requests, workers, calls and documents and any bounds. `PROJECT.json` lists the
theorems; TLC has also checked each inductive invariant below on the instance of
its component's run. The runs and the theorems overlap on purpose: a run would
show at once that a changed model no longer has the property, the proof that no
larger instance loses it.

**Engine** (`EngineProofs`, about `EngineSpec`). `EngineTypeCorrect`:
`EngineTypeOK` is inductive. Apart from types it says that a run that is not idle
has a copy, that one at `finish` has an answer and one at `event` an event. One
lemma per kind of step: the ten actions that are one `transition()`, the five
that put a changed copy, and the others one by one. `EngineStatusHolds`:
`StatusInv` says that where a run stands in `run()` determines the status of its
copy, also while it records an event before it goes on there; `NextStands` shows
that a step of the run keeps it and that no other step touches the copy.

**Overlapping runs and requests** (`FlowCommitProofs`, `RecordProofs`, about
`FlowCommit!Spec`). Rows are written from copies that may be arbitrarily old, so
none of these properties is inductive; each invariant speaks of every copy.

- `TypeCorrect`: `[]TypeOK`.
- `ApprovalGateHolds`, about the approvals on record: in `ApprovalInv` each
  stored row in an authorised status satisfies its rules; each copy of a run
  passed the gate when it was read, and the engine changes neither rules nor
  approvals (`RunWrites`); each copy a handler is about to write satisfies its
  own status, and one still being evaluated has no approvals yet. Because
  status, rules and approvals are columns of one upsert, the last writer leaves
  a row that satisfies the gate (`PutKeepsApprovals`).
- `NeverRefusedHolds`: by `StatusInv`, every place that changes a status asks
  for a pair the table allows.
- `OutcomeBackedHolds`, `OnlyFailuresRetriedHolds`: in `RecordInv` the record of
  every row, of every run's copy and of every copy a handler is about to write
  is consistent in itself, and `Progress` adds what a run's copy must say where
  the run stands, which the next write relies on: no observation before the
  answer, the answer on the last action, a refuted effect while a compensation
  is being recorded.
- `CreatedOnceHolds`, `DenialIsFinalHolds`: `IdentityInv` says that a copy has
  the id, key and contract of a row, that the id a creation has drawn is nobody
  else's, that no two rows share a key and that each answer 201 has a row of
  its own. `DenialInv` adds that nobody holds a copy of a denied row that it
  could write.

**The world outside** (`OneRunProofs`, about `EngineSpec`). The theorems have the
hypothesis `[]RunsApart`: no two runs work on one transaction at once. Any
number of transactions may be run side by side. Nothing in `src/` keeps runs
apart, and `race_retry` shows that `UnknownNeverRetried` fails with two; one worker
process does (`OneWorkerIsApart`), so the hypothesis is dropped in
`OneWorkerIsEnough` and in `WorkerProofs`. `WorldInv` relates four pieces of state
for each row (`RowHolds`) and, in addition, for each run (`RunHolds`): the copy
is the row, but for what is not stored yet; the actions are the calls with their
answers, but for a last one that is open; the evidence is not ahead of the
status, nor is the event about to be recorded; and the effects are as the status
says. All four are needed at once: that nothing was done before a repetition
follows from the calls, that they are known from the actions, that the actions
are current from the copy. `Sound` says which change of status a run may ask for
in a given world, one lemma shows it for each place that asks, and `StepKeeps`
that every step keeps the invariant. From `WorldHolds` follow:

- `UnknownNeverRetriedHolds`, `EvidenceNeverAheadHolds`,
  `ActionsAreTheCallsHolds`;
- `StatusIsTrueHolds`: at every moment, not only in the end, a transaction that may
  be run and one that is COMPENSATED have left nothing behind, and one that is
  VERIFIED did everything the contract lists, once, unless it asks for no
  verification;
- `ClosedForGoodHolds`, an action property, also when statements fail inside
  `compensate`: a row that is VERIFIED, COMPENSATED or waits for reconciliation is
  not the row of a run that could call an executor or undo anything;
- `LifecycleIsImplemented`: every step of the engine is a step of Lifecycle or a
  stutter. It assumes `~StoreMayFail`: when a statement fails inside the `try` of
  `compensate`, RECONCILIATION_REQUIRED may be stored over COMPENSATED, and the
  table has no such edge.

**Worker** (`WorkerProofs`, about `WorkerSpec`). `WorkersImplementEngine`: every
step of any number of worker processes, with any LIMIT, is one of the engine's
or leaves rows and world alone, so what is proved of `EngineSpec` holds of them;
`WorkerTypeCorrect`; `OneWorkerTellsTheTruth` and `OneWorkerImplementsLifecycle`
for one process, with nothing assumed about the runs.

**Evidence** (`EvidenceProofs`, about `EvidenceSpec`, also for infinitely many
calls). `ChainIsWhole` speaks of a sorted list, about which nothing can be shown
step by step; `ChainInv` speaks of entries instead: the sequence numbers of a
transaction are 1 to the number of its entries, no two entries have one key,
each has its hash and its predecessor's. `ReadInv` says that what a call has read
is an entry of its chain, perhaps an old one; `PendingInv` that an uncommitted
row has a key nobody else has; `CallsInv` whose entries there are. A COMMIT then
adds the next number, and the list is recovered from the set of entries
(`ChainIsWholeHolds`). `AppendImplementsLog` shows that this COMMIT is the
`Append` of the log and all else a stutter. `PoolInv` counts a pool's users
(`EvidenceTypeCorrect`); `AnswersAreKeptHolds` follows from `CallsInv`.
`WaitsAreShortHolds`: whoever is waited for by a call that waits itself is past
all waits, so waits never form a circle.

**Temporal** (`TemporalProofs`, about `TemporalSpec`). `WorkflowInv`: no attempt has
a number that was not begun (`AttemptsInv`), execution and compensation are behind
the gate (`GateInv`), the signals that counted when the timer fired are a prefix
of those that came (`SignalsInv`), and which attempts may still act, given where
the workflow stands (`EffectsInv`): from verification on none of the last
execution, so what a later attempt does cannot touch the outcome. It gives
`TemporalTypeCorrect`, `NothingUnapprovedHolds`, `ApprovalInTimeCountsHolds` and
`OutcomeIsTrueHolds`.

**Registry** (`RegistryProofs`, about `RegistrySpec`, for documents of any size).

- `OrderIsRight`: `[]OrderRespectsDependencies`. The order alone is not
  inductive: `LoopInv` adds that between two turns a step's count is the
  cardinality of its edges from steps not yet taken (`Counted`), and that the
  queue holds exactly the steps with count 0 that are not in the order.
  `TurnKeepsOrder` and `TurnKeepsCounts` are about one turn on plain values.
- `PublishedHasOrderHolds` and `RefusedForAReasonHolds`: `RegistryInv` says that
  a request about to insert a workflow carries one that has an order.
  `OrderedAll` turns the finished order into ranks; `StoppedEarly` takes, of the
  steps left out, one of least rank, which would have to wait for another of
  them.
- `RegistryTypeCorrect` from `LoopInv`, and `LoopIsShortHolds`: the loop makes
  no more turns than there are steps, cycles and duplicate ids included.

**Assumptions.** `ContractsAssumption`, `NoRowAssumption`, `EngineAssumption`,
`ControlPlaneAssumption`, `EvidenceAssumption` and `TemporalAssumption` are
typings of the constants;
`RegistryAssumption` says that the lists of a document are finite lists.
`HonestAdapters` is the one assumption about behaviour that the proofs name; that
verifiers and compensations tell the truth is in the model (section 3). TLC
evaluates all of them in the runs of their modules.

**Only model-checked**: liveness, since fairness and ENABLED are beyond the
prover (`ReadyIsRun`, `EffectsAreSettled`, `RunsEnd`, `UnknownIsEscalated`,
`StopsInTheEnd`, `AppendsEnd`, `WorkflowEnds`, `RequestsAreAnswered`). Of
`AppendsEnd` and `RequestsAreAnswered` the part that needs no fairness is proved
(`WaitsAreShortHolds`, `LoopIsShortHolds`). The six violated properties stay
with TLC, which shows their counterexamples.

## 5. Not modelled

Risk scores and executor routing: arithmetic on floating-point inputs that no
modelled code reads (the engine takes the first registered executor). Hashes and
canonical JSON, rendering of idempotency keys: string processing; a hash is what
it covers. The chain functions of `packages/core` and `packages/evidence`:
`verifyEvidenceChain` hashes the canonical JSON of camelCase fields, while
`appendEvidence` of the database hashes the plain JSON of its own body and
`getEvidence` returns snake_case rows, so the verifier rejects every chain the
database has stored; nothing under `src/` applies it to one. Tenants (every
operation works within one), credentials, timestamps other than the order of
creation, read-only routes, authentication, the 404 answers, a failing poll and
the unref of its timer, Studio and CLI. The steps of a published workflow are
executed by no code of the repository. `policyDecision.allowedExecutors` and
`requiredVerifiers`, `contract.approval` and `execution.timeoutMs` are stored
but read by no code of the engine; so are they here. The engine's contracts have
every section; that published ones need not is the run `incomplete`. Whether an
activity of the Temporal workflow makes its retries safe: the service retries
`execute` after any failure, while `docs/production.md:24` forbids to do so
after an ambiguous one unless the external system is idempotent; the activities
are not in this repository, and `OutcomeIsTrue` allows a VERIFIED workflow
several attempts in force.

## 6. Plan

Done: all modules above, the twelve runs, and the proof of every safety property
and refinement the passing runs check.

Left:

- the safety halves of the other liveness properties, as for `AppendsEnd`: that
  a run makes a bounded number of steps between two calls of its executor
  (`RunsEnd`), and that a workflow makes a bounded number of attempts
  (`WorkflowEnds`);
- what remains true of the world when runs of one transaction do overlap, for
  instance that an effect is in force at most once per call and that a call is
  on record in the copy of the run that made it;
- what `FlowCommit` promises of the world when one worker serves the API:
  `WorldInv` with handlers that write over the row of a run.
