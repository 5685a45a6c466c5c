\* Two requests to two processes with a shared store, on free and on paid routes,
\* with every option set: the stop signal or the policy changes, a process dies, a proof expires.
SPECIFICATION Spec
CONSTANTS
  None = None
  Requests = {r1, r2}
  Processes = {p1, p2}
  Agents = {a1}
  Routes = {u1}
  Rules = {rule}
  RuleOf <- OneRule
  Proofs = {x}
  Keys = {k1}
  Verdicts = {"allow", "charge"}
  Shared = TRUE
  Payment = "trusted"
  FailOpen = TRUE
  RequireKey = TRUE
  TTL = 1
  MaxEntries = 1
  Limit = 0
  Window = 1
  MaxTime = 1
  MaxEdits = 1
  MaxCrashes = 1
SYMMETRY Symmetry
\* Every request ends.
CHECK_DEADLOCK FALSE
INVARIANTS
  ReplayRejected
  StopHonoured
