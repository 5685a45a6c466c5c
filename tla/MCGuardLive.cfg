\* Every call ends and the lock comes back: one call of each kind, crashes
\* included, under the fairness of running processes.
SPECIFICATION LiveSpec
CONSTANTS
  None = None
  Approvals = {a1}
  Guards = {g1}
  Freezes = {f1}
  Actions <- DeployOnly
  Branches = {main}
  Heads = {h1}
  Trees = {t1}
  TTLs = {1, 2}
  MaxTTL = 1
  MaxTime = 0
  MaxEdits = 0
\* Every call ends.
CHECK_DEADLOCK FALSE
PROPERTIES
  EveryCallReturns
  LockReleased
