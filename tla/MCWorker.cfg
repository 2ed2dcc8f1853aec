SPECIFICATION MCSpec
CONSTANTS
  stuck = stuck
  second = second
  third = third
  w1 = w1
  w2 = w2
  Txs <- MCTxs
  Workers <- MCWorkers
  Limit = 2
  Contracts <- MCContractSet
  Doc <- MCDocs
  Keys = {0, 1, 2}
  Instants = {0, 1, 2}
  Roles <- MCRoles
  Actors = {ann}
  Executors <- MCExecutors
  VerifierNames <- MCVerifierNames
  EffectIds <- MCEffects
  NoRow = NoRow
  Registered <- MCRegistered
  Compensable <- MCCompensable
  Verifiers <- MCVerifiers
  Outcomes <- AcceptingOutcomes
  Strengths = {2}
  Faults = FALSE
  StoreMayFail = TRUE
  MaxCalls = 1
PROPERTIES ReadyIsRun EffectsAreSettled RunsEnd UnknownIsEscalated ClosedWhileAlone
CHECK_DEADLOCK FALSE
