SPECIFICATION TemporalSpec
CONSTANTS
  MaxAttempts = 3
  MaxSignals = 2
  NotFired = NotFired
INVARIANTS TemporalTypeOK NothingUnapproved ApprovalInTimeCounts OutcomeIsTrue
PROPERTY WorkflowEnds
CHECK_DEADLOCK FALSE
