\* Four appends to a receipt ledger, two failing file operations, any number of
\* crashes; every log of up to five entries; two bundles over a trail of up to
\* two events, two edits, and answers that are lost.
SPECIFICATION LedgersSpec
CONSTANTS
  None = None
  Absent = Absent
  Nothing = Nothing
  Appends = {c1, c2, c3, c4}
  MaxFaults = 2
  Receipts <- SomeReceipts
  MaxEntries = 5
  MaxAnchors = 2
  Writers = {w1, w2}
  Notices = {"m", "n"}
  PolicyHashes <- SomePolicyHashes
  MandateHashes <- SomeMandateHashes
  MaxTrail = 2
  MaxEdits = 2
  MaxTries = 1
SYMMETRY Symmetry
\* Every call ends, the log is full.
CHECK_DEADLOCK FALSE
INVARIANTS
  ChainHolds
  ReturnedIsKept
  VerifiedIsLogged
  RefusedIsStored
PROPERTIES
  DamageStays
