CONSTANTS
  c1 = c1
  c2 = c2
  Callers = {c1, c2}
  Free = Free
  MaxRetries = 3
SPECIFICATION FairSpec
INVARIANTS TypeOK OneAttemptAtATime SerialNeverCrashes OpenHasClient
PROPERTIES ContractKept ExecReturns
