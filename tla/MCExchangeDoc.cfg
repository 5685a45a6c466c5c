\* One fetch of a free route, and a middleware with a network of its own.
SPECIFICATION Spec
CONSTANTS
  None = None
  Fetches = {f1, f2}
  RuleDecision <- Allow
  RuleNetwork <- Unnamed
  DefaultNetwork = "testnet"
  Fragile = {}
SYMMETRY Symmetry
CHECK_DEADLOCK FALSE
INVARIANTS
  SmokeReconciles
