\* Two guard calls race for the token of one approval, while the repository
\* changes once and the clock passes the expiry.
SPECIFICATION Spec
CONSTANTS
  None = None
  Approvals = {a1}
  Guards = {g1, g2}
  Freezes = {}
  Actions <- DeployOnly
  Branches = {main}
  Heads = {h1, h2}
  Trees = {t1}
  TTLs = {1}
  MaxTTL = 1
  MaxTime = 1
  MaxEdits = 1
SYMMETRY Symmetry
\* Every call ends.
CHECK_DEADLOCK FALSE
INVARIANTS
  TypeOK
  ChainValid
  OneTimeUse
  AcceptedWasApproved
  RedeemedBeforeExpiry
  TokenLostOnlyByFailure
  ReconcileSound
PROPERTIES
  DeadHolderStopsLedger
  ImplementsOneTimeApproval
