\* Policies written by hand or made by any generator, sent through ODRL, over
\* three moments; and every set of the 19 keywords of an action.
SPECIFICATION BothSpec
CONSTANTS
  None = None
  NotADate = NotADate
  Methods = {"GET", "POST"}
  Paths <- AllPaths
  Patterns <- AllPatterns
  Purposes = {"research", "ai-training"}
  Uses = {"read", "ai-training", "ai-train"}
  Agents = {"agent"}
  Ids = {"a", "l"}
  InitExpiry = 2
  ToolUrlBase = None
  HandPolicies <- WrittenPolicies
  HandRules <- WrittenRules
  Options <- ProfileOptions
  Templates <- AllTemplates
  InitTemplates <- AllInitTemplates
  ProtectedPaths <- Essays
  Passports <- SomePassports
  AssetPaths <- AssetPathChoices
  Bindings <- SomeBindings
  Documents <- SomeDocuments
  OdrlDefaults <- ReviewOrAllow
  Requests <- AskedRequests
  MaxRules = 3
  MaxTime = 2
\* The dates end, and all keywords are there.
CHECK_DEADLOCK FALSE
INVARIANTS
  DuplicatesAreDead
  ProductionAnswers
  ViewsNameTheRule
  TrainingStaysForbidden
PROPERTIES
  NoTalkDown
  OdrlInventsNothing
