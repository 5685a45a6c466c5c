\* Two fetches; the site's policy stops charging at a restart; the site's ledger
\* may break; the middleware has no network of its own.
SPECIFICATION Spec
CONSTANTS
  None = None
  Fetches = {f1, f2}
  RuleDecision <- ChargeThenAllow
  RuleNetwork <- NamedThenNone
  DefaultNetwork = None
  Fragile = {"site"}
SYMMETRY Symmetry
\* Every fetch ends, and so does the reconciliation.
CHECK_DEADLOCK FALSE
INVARIANTS
  MissingSiteIsMissing
  ReturnedIsFound
  ValidMeansPaired
  SmokeReconciles
