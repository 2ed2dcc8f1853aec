SPECIFICATION MCSpec
SYMMETRY Interchangeable
CONSTANTS
  create1 = create1
  create2 = create2
  approve1 = approve1
  approve2 = approve2
  cancel1 = cancel1
  w1 = w1
  w2 = w2
  ann = ann
  bob = bob
  t1 = t1
  t2 = t2
  k1 = k1
  k2 = k2
  Txs = {t1}
  Contracts <- MCContractSet
  Doc <- MCDocs
  Keys = {k1}
  Roles <- MCRoles
  Actors <- MCActors
  Executors <- MCExecutors
  VerifierNames <- MCVerifierNames
  EffectIds <- MCOneEffect
  NoRow = NoRow
  Requests <- MCRequests
  Kind <- MCKind
  Decisions <- MCDecisions
  Instants = {0}
  Workers <- MCWorkers
  Registered <- MCRegistered
  Compensable <- MCCompensable
  Verifiers <- MCVerifiers
  Outcomes <- HonestOutcomes
  Strengths = {2}
  Faults = FALSE
  StoreMayFail = TRUE
  MaxCalls = 1
INVARIANT AnswersAreFinal
CHECK_DEADLOCK FALSE
