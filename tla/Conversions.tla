---------------------------- MODULE Conversions ----------------------------
(***************************************************************************)
(* Where policies come from and what they are turned into: the templates   *)
(* of core and of the command line, the industry profiles, creative asset  *)
(* passports, tool bindings, OpenAPI documents, ODRL, Rego and Cedar.      *)
(* Pure operators on the policies of module Policy.                        *)
(***************************************************************************)
EXTENDS Policy, SequencesExt

CONSTANTS
  InitExpiry,    \* the expiry that oaa init writes into a policy
  ToolUrlBase    \* the path of the toolUrlBase of tool bindings, or None

Or(optional, otherwise) == IF optional = None THEN otherwise ELSE optional

\* "/a/**", for the directory "/a".
Beneath(dir) == dir \o <<"/", "**">>

Dir(name) == Beneath(<<"/", name>>)

Training == {"ai-training", "ai-train", "model-training"}

-----------------------------------------------------------------------------
(* The parts every generator starts from; an id is a sequence of texts *)

Rule(id, methods, paths, decision, purposes, uses) ==
  [id |-> <<id>>, methods |-> methods, paths |-> paths, decision |-> decision,
   purposes |-> purposes, deniedPurposes |-> None,
   uses |-> uses, allowedUses |-> None, deniedUses |-> None,
   rateLimit |-> FALSE, price |-> FALSE, payment |-> FALSE, receipt |-> TRUE,
   noTraining |-> FALSE, attribution |-> FALSE, expiresAt |-> None]

Base(default, rules) ==
  [default |-> default, respectRobotsTxt |-> TRUE, requireAgentIdentity |-> TRUE,
   requirePurpose |-> TRUE, requireReceipt |-> TRUE, securityContact |-> FALSE,
   signing |-> FALSE, receipt |-> TRUE, reviewUrl |-> FALSE, expiresAt |-> None,
   rules |-> rules]

\* A charge; paid is "none", "price" or "payment" (a price and how to pay it).
Charged(rule, paid) ==
  [rule EXCEPT !.decision = "charge", !.price = TRUE, !.payment = paid = "payment"]

OnlyIfPaid(paid, rule) == IF paid = "none" THEN <<>> ELSE <<Charged(rule, paid)>>

-----------------------------------------------------------------------------
(* Industry profiles: options give paths, a price and a review URL *)

profile(options, rules) ==
  [Base("review", rules) EXCEPT !.signing = TRUE, !.reviewUrl = options.reviewUrl]

DeniesTraining(rule) ==
  [rule EXCEPT !.decision = "deny", !.deniedPurposes = {"ai-training", "model-training"},
               !.deniedUses = {"ai-training", "model-training"}]

createPublishingDataProfilePolicy(options) ==
  profile(options,
    << [Rule("publishing-public-research", {"GET"},
             Or(options.public, {Dir("articles"), Dir("docs")}), "allow",
             {"research", "accessibility", "indexing"},
             {"read", "summarize", "quote", "ai-input"})
        EXCEPT !.deniedUses = {"ai-training", "model-training"}, !.attribution = TRUE],
       DeniesTraining(Rule("publishing-ai-training-denied", {"GET"}, {<<"/", "**">>},
                           "deny", None, None)) >>
    \o OnlyIfPaid(options.paid,
         [Rule("publishing-premium-paid-access", {"GET"},
               Or(options.premium, {Dir("premium"), Dir("archive")}), "charge",
               {"research", "monitoring", "agentic-commerce"},
               {"read", "summarize", "ai-input"}) EXCEPT !.attribution = TRUE]))

createSaasApiProfilePolicy(options) ==
  profile(options,
    << [Rule("saas-api-free-agent-read", {"GET"},
             Or(options.public, {Beneath(<<"/", "api", "/", "public">>)}), "allow",
             {"research", "monitoring", "agentic-commerce"}, {"read", "api-call"})
        EXCEPT !.rateLimit = TRUE],
       Rule("saas-api-mutating-review", {"POST", "PUT", "PATCH", "DELETE"}, {Dir("api")},
            "review", {"agentic-commerce", "workflow-automation"}, {"api-call", "write"}) >>
    \o OnlyIfPaid(options.paid,
         [Rule("saas-api-premium-paid", {"GET", "POST"},
               Or(options.premium, {Beneath(<<"/", "api", "/", "premium">>)}), "charge",
               {"research", "monitoring", "agentic-commerce"}, {"api-call", "ai-input"})
          EXCEPT !.rateLimit = TRUE]))

createSupplyChainProductProfilePolicy(options) ==
  profile(options,
    << [Rule("supply-chain-product-passport-read", {"GET"},
             Or(options.public, {Dir("products"), Dir("digital-link")}), "allow",
             {"traceability", "procurement", "sustainability", "research"},
             {"read", "verify", "ai-input"}) EXCEPT !.attribution = TRUE],
       Rule("supply-chain-private-events-review", {"GET", "POST"},
            {Dir("epcis"), Dir("events")}, "review",
            {"traceability", "audit", "procurement"}, {"read", "verify", "write"}) >>)

createHealthcareConsentProfilePolicy(options) ==
  profile(options,
    << Rule("healthcare-public-metadata", {"GET"}, {<<"/", "metadata">>, Dir(".well-known")},
            "allow", {"discovery", "interoperability"}, {"read"}),
       Rule("healthcare-patient-data-human-review", {"GET", "POST"},
            Or(options.public, {Beneath(<<"/", "fhir", "/", kind>>) :
                                  kind \in {"Patient", "Observation", "DocumentReference"}}),
            "review", {"care", "patient-authorized-research", "operations"},
            {"read", "write", "ai-input"}),
       DeniesTraining(Rule("healthcare-ai-training-denied", {"GET", "POST"}, {Dir("fhir")},
                           "deny", None, None)) >>)

createEnergyInfrastructureProfilePolicy(options) ==
  profile(options,
    << [Rule("energy-device-read", {"GET"},
             Or(options.public, {Dir("devices"), Dir("meters")}), "allow",
             {"monitoring", "grid-optimization", "maintenance"},
             {"read", "verify", "ai-input"}) EXCEPT !.rateLimit = TRUE],
       Rule("energy-device-control-review", {"POST", "PUT", "PATCH"},
            {Dir("devices"), Dir("ocpp")}, "review",
            {"maintenance", "demand-response", "grid-optimization"},
            {"control", "write", "api-call"}) >>
    \o OnlyIfPaid(options.paid,
         Rule("energy-paid-data-access", {"GET"}, {Dir("market-data"), Dir("tariffs")},
              "charge", {"monitoring", "grid-optimization", "agentic-commerce"},
              {"read", "ai-input"})))

industryProfile(kind, options) ==
  CASE kind = "publishing-data" -> createPublishingDataProfilePolicy(options)
    [] kind = "saas-api" -> createSaasApiProfilePolicy(options)
    [] kind = "supply-chain" -> createSupplyChainProductProfilePolicy(options)
    [] kind = "healthcare" -> createHealthcareConsentProfilePolicy(options)
    [] kind = "energy-infrastructure" -> createEnergyInfrastructureProfilePolicy(options)

-----------------------------------------------------------------------------
(* The templates of core and of oaa init *)

\* No training, at a limited rate.
Careful(rule) == [rule EXCEPT !.deniedUses = {"ai-train"}, !.rateLimit = TRUE]

Cited(rule) == [Careful(rule) EXCEPT !.attribution = TRUE, !.receipt = FALSE]

TemplateRules(name) ==
  CASE name = "paid-api" ->
         << Charged(Careful(Rule("metered-api-x402", {"GET", "POST"}, {Dir("api")}, "charge",
              {"research", "monitoring", "agentic-commerce"}, {"read", "ai-input"})), "payment") >>
    [] name = "mcp-tool" ->
         << Cited(Rule("mcp-read-tools", {"POST"},
              {Beneath(<<"/", "mcp", "/", "tools", "/", "read">>)}, "allow",
              {"research", "accessibility", "workflow-automation"},
              {"read", "summarize", "ai-input"})),
            Charged(Careful(Rule("mcp-paid-actions", {"POST"},
              {Beneath(<<"/", "mcp", "/", "tools", "/", "action">>)}, "charge",
              {"agentic-commerce", "workflow-automation"}, {"tool-call", "ai-input"})), "payment") >>
    [] name \in {"docs-site", "research-friendly"} ->
         << [Cited(Rule("public-docs-research", {"GET"},
              {Dir("docs"), Dir("blog"), Dir("reference")}, "allow",
              {"research", "indexing", "accessibility"},
              {"read", "summarize", "quote", "ai-input"})) EXCEPT !.noTraining = TRUE] >>
    [] name = "publisher" ->
         << [Cited(Rule("public-research-summaries", {"GET"},
              {Dir("news"), Dir("analysis"), Dir("blog")}, "allow",
              {"research", "accessibility", "indexing"},
              {"read", "summarize", "quote", "ai-input"})) EXCEPT !.noTraining = TRUE],
            Charged(Careful(Rule("premium-archive-x402", {"GET"},
              {Beneath(<<"/", "archive", "/", "premium">>), Dir("premium")}, "charge",
              {"research", "monitoring"}, {"read", "summarize", "ai-input"})), "payment") >>

createPolicyTemplate(name) ==
  [Base(IF name = "research-friendly" THEN "allow" ELSE "review", TemplateRules(name))
   EXCEPT !.securityContact = TRUE, !.receipt = FALSE]

\* What oaa init writes: whatever no rule mentions is allowed.
buildPolicy(template, protectedPath) ==
  [Base("allow",
    << Cited(Rule("public-site-open", {"GET"},
         {<<"/">>, <<"/", "index.html">>, Dir("assets"), Dir("public")}, "allow",
         {"research", "indexing", "accessibility"}, {"read", "summarize", "quote", "ai-input"})),
       [Careful(Rule("agent-passport-required", {"GET"}, {protectedPath, Beneath(protectedPath)},
         "review", {"research", "accessibility", "citation"}, {"read", "summarize", "quote"}))
        EXCEPT !.deniedUses = {"ai-train", "bulk-export", "dataset-build"}, !.attribution = TRUE] >>
    \o OnlyIfPaid(IF template = "algorand-x402" THEN "payment" ELSE "none",
         Careful(Rule("premium-x402-algorand", {"GET", "POST"},
           {Dir("premium"), Beneath(<<"/", "api", "/", "premium">>)}, "charge",
           {"research", "agentic-commerce", "monitoring"}, {"read", "summarize", "ai-input"}))))
   EXCEPT !.securityContact = TRUE, !.receipt = FALSE, !.reviewUrl = TRUE,
          !.expiresAt = InitExpiry]

-----------------------------------------------------------------------------
(* Creative asset passports *)

\* A licence option of a passport, an absent list being an empty one.
CreativeLicenseOption ==
  [id : Ids, decision : {"allow", "charge", "review", "deny"}, purposes : SUBSET Purposes,
   uses : SUBSET Uses, price : BOOLEAN, payment : BOOLEAN]

\* aiTraining is what aiTraining.allowed says.
CreativeAssetPassport ==
  [asset : Ids, default : {None, "review", "deny"}, deniedUses : Optional(SUBSET Uses),
   aiTraining : Optional(BOOLEAN), reviewUrl : BOOLEAN, licenses : Seq(CreativeLicenseOption)]

safeValidateCreativeAssetPassport(passport) ==
  /\ passport.licenses # <<>>
  /\ \A i \in DOMAIN passport.licenses :
       LET option == passport.licenses[i]
       IN  /\ option.purposes # {} /\ option.uses # {}
           /\ option.decision = "charge" => option.price

ForbidsTraining(passport) == passport.aiTraining = FALSE

\* A slip: training is denied as a use, by one of its names.
DeniedUsesOf_OneName(passport) ==
  Listed(passport.deniedUses) \cup (IF ForbidsTraining(passport) THEN {"ai-training"} ELSE {})

DeniedUsesOf(passport) ==
  Listed(passport.deniedUses) \cup (IF ForbidsTraining(passport) THEN Training ELSE {})

createCreativeAssetAccessPolicy(passport, assetPaths, default) ==
  LET RuleOf(license) ==
        [Rule(license.id, {"GET", "POST"},
              Or(assetPaths, {<<"/", "creative-assets", "/", passport.asset, "/", "licenses",
                                "/", license.id>>}),
              license.decision, license.purposes, license.uses)
         EXCEPT !.id = <<passport.asset, license.id>>,
                !.deniedPurposes = IF ForbidsTraining(passport) THEN Training ELSE None,
                !.deniedUses = DeniedUsesOf(passport), !.attribution = TRUE,
                !.price = license.price, !.payment = license.payment]
  IN  [Base(Or(default, Or(passport.default, "review")),
            [i \in DOMAIN passport.licenses |-> RuleOf(passport.licenses[i])])
       EXCEPT !.signing = TRUE, !.reviewUrl = passport.reviewUrl]

-----------------------------------------------------------------------------
(* Tool bindings and OpenAPI documents *)

\* A binding without a path gets that of its tool.
createToolPolicyBindingsPolicy(bindings) ==
  LET RuleOf(b) ==
        [Rule(b.ruleId, {"POST"},
              {Or(b.path, Or(ToolUrlBase, <<"/", "mcp", "/", "tools">>) \o <<"/", b.toolName>>)},
              Or(b.decision, IF b.price THEN "charge" ELSE "allow"), b.purposes, b.uses)
         EXCEPT !.price = b.price]
  IN  Base("review", [i \in DOMAIN bindings |-> RuleOf(bindings[i])])

\* A parameter of a path, "{...}", is written "{}".
openApiPathToAgentAccessPath(path) ==
  [i \in DOMAIN path |-> IF path[i] = "{}" THEN "*" ELSE path[i]]

\* document: the operations that carry x-open-agent-access, in their order; of
\* an operation's extension only path and method are replaced.
extractAgentAccessPolicyFromOpenApi(document, default) ==
  LET RuleOf(operation) ==
        [operation.extension EXCEPT
           !.methods = {operation.method},
           !.paths = {openApiPathToAgentAccessPath(operation.path)},
           !.expiresAt = None]
  IN  Base(Or(default, "review"), [i \in DOMAIN document |-> RuleOf(document[i])])

-----------------------------------------------------------------------------
(* ODRL *)

mapOaaUseToOdrlAction(use) ==
  CASE use \in {"summarize", "summarise"} -> "oaa:summarize"
    [] use \in Training -> "oaa:trainAiModel"
    [] OTHER -> use   \* behind "odrl:" or "oaa:", which the way back drops

\* The keyword that an action contains names the use.
mapOdrlActionToOaaUse(action) ==
  CASE action \in {"read", "display"} -> "read"
    [] action \in {"oaa:summarize", "summarization"} -> "summarize"
    [] action \in {"index", "indexing"} -> "index"
    [] action = "oaa:trainAiModel" -> "ai-training"
    [] action \in {"derive", "transform"} -> "derivative-use"
    [] action = "oaa:anyAction" -> "anyaction"
    [] OTHER -> action

\* A permission or a prohibition; charge is its duty to compensate.
OdrlRule(id, target, action, purposes, rateLimit, charge, payment) ==
  [uid |-> id, target |-> target, action |-> action, purposes |-> purposes,
   rateLimit |-> rateLimit, charge |-> charge, payment |-> payment]

Actions(uses) == {mapOaaUseToOdrlAction(use) : use \in uses}

StatedUses(rule) == Or(rule.uses, Or(rule.allowedUses, {"read"}))

\* The duty to obtain a review is not read by the way back, nor attribution.
ruleToOdrl(rule) ==
  OdrlRule(rule.id, rule.paths, Actions(StatedUses(rule)), Listed(rule.purposes),
           rule.rateLimit, rule.decision = "charge" /\ rule.price, rule.payment)

denialsToOdrl(rule) ==
  LET uses == Or(rule.deniedUses, IF rule.decision = "deny" THEN StatedUses(rule) ELSE {})
      Denial(id, action, purposes) ==
        OdrlRule(Append(rule.id, id), rule.paths, action, purposes, FALSE, FALSE, FALSE)
      purposes == SetToSeq(Listed(rule.deniedPurposes))
  IN  (IF uses = {} THEN <<>> ELSE <<Denial("uses", Actions(uses), {})>>)
      \o [i \in DOMAIN purposes |-> Denial(purposes[i], {"oaa:anyAction"}, {purposes[i]})]

\* A slip: the constraints on the purpose are not read back.
odrlRuleToAgentAccessRule_AnyPurpose(odrl, decision) ==
  Rule(odrl.uid, None, odrl.target, decision, None,
       IF decision = "deny" THEN None
       ELSE {mapOdrlActionToOaaUse(action) : action \in odrl.action})

odrlRuleToAgentAccessRule(odrl, decision) ==
  LET uses == {mapOdrlActionToOaaUse(action) : action \in odrl.action}
  IN  [Rule(odrl.uid, None, odrl.target, IF odrl.charge THEN "charge" ELSE decision,
            IF odrl.purposes = {} THEN None ELSE odrl.purposes,
            IF decision = "deny" THEN None ELSE uses)
       EXCEPT !.id = odrl.uid,
              !.deniedUses = IF decision = "deny" THEN uses ELSE None,
              !.rateLimit = odrl.rateLimit, !.price = odrl.charge,
              !.payment = odrl.charge /\ odrl.payment]

permissionsToOdrl(rule) == IF rule.decision = "deny" THEN <<>> ELSE <<ruleToOdrl(rule)>>

exportAgentAccessPolicyToOdrl(policy) ==
  LET rules == policy.rules
  IN  [permission |-> FlattenSeq([i \in DOMAIN rules |-> permissionsToOdrl(rules[i])]),
       prohibition |-> FlattenSeq([i \in DOMAIN rules |-> denialsToOdrl(rules[i])])]

\* The permissions come first, wherever the denials stood.
importOdrlPolicyToAgentAccessPolicy(odrl, default) ==
  LET Imported(rules, decision) ==
        [i \in DOMAIN rules |-> odrlRuleToAgentAccessRule(rules[i], decision)]
  IN  Base(Or(default, "review"),
           Imported(odrl.permission, "allow") \o Imported(odrl.prohibition, "deny"))

-----------------------------------------------------------------------------
(* Rego and Cedar *)

\* How the exported module matches a list: "*" is written for an absent one, and
\* an empty one matches nothing.
Accepts(list, value) == list = None \/ list \cap {value, "*"} # {}

matching_rules(policy, request) ==
  {i \in DOMAIN policy.rules :
     LET rule == policy.rules[i]
     IN  /\ rule.methods # None => rule.methods \cap {request.method, "*"} # {}
         /\ rule.paths # None => \E pattern \in rule.paths : request.path \in Covered[pattern]
         /\ Accepts(rule.purposes, request.purpose)
         /\ Accepts(Or(rule.uses, rule.allowedUses), request.use)
         /\ request.purpose \notin Listed(rule.deniedPurposes)
         /\ request.use \notin Listed(rule.deniedUses)}

\* Both wildcards become one that stands for anything.
CedarCovers(pattern, path) ==
  pathMatches([k \in DOMAIN pattern |-> IF pattern[k] = "*" THEN "**" ELSE pattern[k]], path)

\* The condition of the rule's Cedar policy, asked with the id of the rule: an
\* absent list of methods is GET, and absent purposes or uses equal only "*".
cedarPolicyForRule(rule, request) ==
  [effect |-> IF Granting(rule) THEN "permit" ELSE "forbid",
   holds |-> /\ request.method \in Or(rule.methods, {"GET"})
             /\ rule.paths = None \/ \E pattern \in rule.paths : CedarCovers(pattern, request.path)
             /\ request.purpose \in Or(rule.purposes, {"*"})
             /\ request.use \in Or(rule.uses, Or(rule.allowedUses, {"*"}))
             /\ request.use \notin Listed(rule.deniedUses)]
=============================================================================
