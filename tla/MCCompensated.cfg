SPECIFICATION EngineSpec
CONSTANTS
  Txs = {t1}
  Contracts <- MCOneContract
  Doc <- MCOneDoc
  Keys = {k1}
  Instants = {0}
  Roles <- MCRoles
  Actors = {ann}
  Executors <- MCExecutors
  VerifierNames <- MCVerifierNames
  EffectIds <- MCOneEffect
  NoRow = NoRow
  Workers = {w1}
  Registered <- MCRegistered
  Compensable <- MCCompensable
  Verifiers <- MCVerifiers
  Outcomes <- HonestOutcomes
  Strengths = {2}
  Faults = FALSE
  StoreMayFail = TRUE
  MaxCalls = 1
PROPERTY FinalStatusStays
CHECK_DEADLOCK FALSE
