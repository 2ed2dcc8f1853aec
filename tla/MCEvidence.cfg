SPECIFICATION EvidenceSpec
CONSTANTS
  t1 = t1
  t2 = t2
  p1 = p1
  p2 = p2
  c1 = c1
  c2 = c2
  c3 = c3
  c4 = c4
  Txs <- MCTxs
  Calls <- MCCalls
  Processes <- MCProcesses
  About <- MCAbout
  ProcessOf <- MCProcessOf
  PoolMax = 2
INVARIANTS EvidenceTypeOK ChainIsWhole AnswersAreKept
PROPERTIES ImplementsLog AppendsEnd
CHECK_DEADLOCK FALSE
