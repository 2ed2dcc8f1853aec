SPECIFICATION WorkerSpec
CONSTANTS
  Txs = {t1}
  Contracts <- MCContractSet
  Doc <- MCDocs
  Keys = {k1}
  Instants = {0}
  Roles <- MCRoles
  Actors = {ann}
  Executors <- MCExecutors
  VerifierNames <- MCVerifierNames
  EffectIds <- MCEffects
  NoRow = NoRow
  Workers = {w1}
  Registered <- MCRegistered
  Compensable <- MCCompensable
  Verifiers <- MCVerifiers
  Outcomes <- HonestOutcomes
  Strengths = {0, 2}
  Faults = TRUE
  StoreMayFail = FALSE
  MaxCalls = 1
  Limit = 1
PROPERTY UnknownSurvivesCrash
CHECK_DEADLOCK FALSE
