\* Three requests to one process with a memory store for one proof, within InBounds: the
\* policy changes, the process dies, proofs expire and are evicted.  Or five requests of an
\* agent, one after the other to two routes of one rule, at a limit of two per window of
\* two: three may pass within a window's length, across two windows.
SPECIFICATION BoundedSpec
CONSTANTS
  None = None
  Requests = {r1, r2, r3, 1, 2, 3, 4, 5}
  Processes = {p1}
  Agents = {a1}
  Routes = {u1, u2}
  Rules = {rule}
  RuleOf <- OneRule
  Proofs = {x, y}
  Keys = {k1, k2}
  Verdicts = {"charge"}
  Shared = FALSE
  Payment = "trusted"
  FailOpen = FALSE
  RequireKey = FALSE
  TTL = 1
  MaxEntries = 1
  Limit = 2
  Window = 2
  MaxTime = 2
  MaxEdits = 1
  MaxCrashes = 1
SYMMETRY Symmetry
\* Every request ends.
CHECK_DEADLOCK FALSE
INVARIANTS
  TypeOK
  LocksExact
  ReplayRejected
  OnceUnderOneKey
  ReceiptsTellTheTruth
  RateBounded
PROPERTIES
  StoreKeepsProofs
