\* The same calls against the wording of docs/AGENT_ACTION_GUARD.md:192.
SPECIFICATION Spec
CONSTANTS
  None = None
  Approvals = {a1}
  Guards = {g1}
  Freezes = {f1}
  Actions <- DeployOnly
  Branches = {main}
  Heads = {h1}
  Trees = {t1}
  TTLs = {1}
  MaxTTL = 1
  MaxTime = 0
  MaxEdits = 0
SYMMETRY Symmetry
\* Every call ends.
CHECK_DEADLOCK FALSE
PROPERTIES
  FreezeBlocks
