SPECIFICATION EngineSpec
CONSTANTS
  Txs = {t1}
  Contracts <- MCOneContract
  Doc <- MCOneDoc
  Keys = {k1}
  Instants = {0}
  Roles <- MCRoles
  Actors = {ann}
  Executors <- MCExecutors
  VerifierNames <- MCVerifierNames
  EffectIds <- MCOneEffect
  NoRow = NoRow
  Workers = {w1, w2}
  Registered <- MCRegistered
  Compensable <- MCCompensable
  Verifiers <- MCVerifiers
  Outcomes <- HonestOutcomes
  Strengths = {2}
  Faults = FALSE
  StoreMayFail = FALSE
  MaxCalls = 1
INVARIANT UnknownNeverRetried
CHECK_DEADLOCK FALSE
