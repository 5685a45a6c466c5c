\* Two calls that set the freeze file race with each other and with the
\* approval and the guard of a deployment or an emergency override; the records of
\* the two, written after the file, do not fail.
SPECIFICATION FreezeSpec
CONSTANTS
  None = None
  Approvals = {a1}
  Guards = {g1}
  Freezes = {f1, f2}
  Actions <- DeployEmergency
  Branches = {main}
  Heads = {h1}
  Trees = {t1}
  TTLs = {1}
  MaxTTL = 1
  MaxTime = 0
  MaxEdits = 0
SYMMETRY Symmetry
\* Every call ends.
CHECK_DEADLOCK FALSE
INVARIANTS
  FreezeRespected
