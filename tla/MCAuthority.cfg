\* Three mandates over two days; signed requests, changed and delayed, and stops; signed
\* policies, altered and revoked; two calls to four sites whose policy file changes.
SPECIFICATION AuthoritySpec
CONSTANTS
  None = None
  NotADate = NotADate
  Methods = {"GET", "POST"}
  Paths <- SomePaths
  Patterns <- SomePatterns
  Purposes = {"research", "ai-training"}
  Uses = {"read", "ai-train"}
  Agents = {"agent", "other"}
  Ids = {"docs", "shop"}
  AgentMandate <- SomeMandates
  ToolCalls <- SomeCalls
  ToolPolicy <- GuardPolicy
  ToolUrl <- SomeToolUrl
  MaxMandates = 3
  MaxTime = 2
  Errands <- SomeErrands
  Signers <- SomeSigners
  Credentials <- SomeCredentials
  TrustedKeys <- SomeTrustedKeys
  MaxSkew = 1
  Drift = 1
  SitePolicy <- OpenPolicy
  StopSignals <- SomeStops
  MaxClock = 3
  MaxWire = 3
  MaxSigned = 2
  Changeable <- SomeChangeable
  HeaderValues <- SomeHeaderValues
  Bodies = {"policy1", "policy2"}
  Controllers <- SomeControllers
  TrustRecords <- SomeTrustRecords
  NoSignature = NoSignature
  MaxDay = 2
  MaxCopies = 4
  Calls = {c1, c2}
  Sites = {"file", "vercel", "worker", "broken"}
  Config <- SomeConfig
  Visits <- SomeVisits
  Versions <- SomeVersions
  Broken = Broken
  Limit = 1
  Window = 1
  MaxMoment = 1
  MaxWrites = 2
\* The clocks end, and every call is answered.
CHECK_DEADLOCK FALSE
INVARIANTS
  RanWasDelegated
  VerifiedWasSigned
  ServedIsRecorded
PROPERTIES
  FirstMandateRules
