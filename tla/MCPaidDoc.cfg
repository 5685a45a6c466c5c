\* Two requests to one process that present one proof, against README.md:299.
SPECIFICATION Spec
CONSTANTS
  None = None
  Requests = {r1, r2}
  Processes = {p1}
  Agents = {a1}
  Routes = {u1}
  Rules = {rule}
  RuleOf <- OneRule
  Proofs = {x}
  Keys = {k1, k2}
  Verdicts = {"charge"}
  Shared = FALSE
  Payment = "trusted"
  FailOpen = FALSE
  RequireKey = FALSE
  TTL = 1
  MaxEntries = 1
  Limit = 0
  Window = 1
  MaxTime = 0
  MaxEdits = 0
  MaxCrashes = 0
SYMMETRY Symmetry
\* Every request ends.
CHECK_DEADLOCK FALSE
INVARIANTS
  ProofPaysOnce
