---------------------------- MODULE MCDecisions ----------------------------
(***************************************************************************)
(* PolicyFile on a small universe of texts, and ActionNames.  The two      *)
(* share nothing, so each moves only while the other is where it began.    *)
(***************************************************************************)
EXTENDS PolicyFile, ActionNames

-----------------------------------------------------------------------------
(* What is asked *)

AskedPaths == {<<"/">>, <<"/", "docs", "/", "x">>, <<"/", "premium", "/", "x">>,
               <<"/", "fhir", "/", "x">>, <<"/", "api", "/", "premium", "/", "x">>}

AllRequests ==
  [method : {"GET", "POST"}, path : AskedPaths,
   purpose : {None, "research", "ai-training"}, use : {None, "read", "ai-training", "ai-train"},
   agent : {None, "agent"}]

\* Who asks matters only to policies that require an identity.
AskedRequests == {r \in AllRequests : r.agent = "agent" \/ r.path = <<"/">>}

Everything == {<<"/", "**">>}

-----------------------------------------------------------------------------
(* What a hand writes: a rule that may be read as another one's duplicate *)

Written(id, methods, paths, decision, purposes) ==
  [Rule(id, methods, paths, decision, purposes, None) EXCEPT !.rateLimit = TRUE]

WrittenRules ==
  {Written("any", None, None, "allow", {"research"}),
   Written("star", {"*"}, {<<"*">>}, "deny", None),
   [Written("read", {"GET"}, Everything, "allow", {"research"}) EXCEPT !.uses = {"read"}],
   [Written("rest", {"GET"}, Everything, "allow", None)
      EXCEPT !.deniedUses = {"ai-training"}, !.receipt = FALSE],
   [Written("sold", {"GET"}, {Dir("premium")}, "charge", {"research"})
      EXCEPT !.expiresAt = 1, !.price = TRUE, !.payment = TRUE, !.allowedUses = {"read"}],
   [Written("odd", {}, Everything, "review", {})
      EXCEPT !.expiresAt = NotADate, !.deniedPurposes = {"ai-training"}],
   [Written("free", {"GET", "POST"}, {<<"/", "docs", "/", "*">>}, "allow", {"research"})
      EXCEPT !.uses = {"read", "ai-train"}, !.rateLimit = FALSE]}

WrittenPolicies ==
  {[Base(default, <<>>) EXCEPT !.requireAgentIdentity = identity, !.receipt = receipt,
                               !.expiresAt = date] :
     default \in {None, "allow"}, identity \in BOOLEAN, receipt \in BOOLEAN,
     date \in {None, 1, NotADate}}

-----------------------------------------------------------------------------
(* What the generators are given *)

ProfileOptions ==
  [public : {None, Everything}, premium : {None, Everything}, paid : {"none", "payment"},
   reviewUrl : {TRUE}]

AllTemplates == {"publisher", "paid-api", "mcp-tool", "docs-site", "research-friendly"}

AllInitTemplates == {"hono", "algorand-x402"}

Essays == {<<"/", "essays">>}

Licenses ==
  [id : {"l"}, decision : {"allow", "charge", "deny"}, purposes : {{"research", "ai-training"}},
   uses : {{"read", "ai-training", "ai-train"}}, price : {TRUE}, payment : {FALSE}]

SomePassports ==
  [asset : {"a"}, default : {None, "deny"}, deniedUses : {None, {"read"}},
   aiTraining : {None, TRUE, FALSE}, reviewUrl : {FALSE}, licenses : {<<l>> : l \in Licenses}]

AssetPathChoices == {None, Everything}

SomeBindings ==
  {<<[ruleId |-> "b", toolName |-> "x", path |-> path, purposes |-> {"research"},
      uses |-> {"read"}, decision |-> None, price |-> price]>> :
     path \in {None, <<"/", "docs", "/", "x">>}, price \in BOOLEAN}

SomeDocuments ==
  {<<[method |-> "GET", path |-> <<"/", "docs", "/", "{}">>,
      extension |-> Written("item", None, None, "review", {"research"})],
     [method |-> "GET", path |-> <<"/", "docs", "/", "x">>,
      extension |-> Written("x", None, None, "allow", {"research"})]>>}

ReviewOrAllow == {None, "allow"}

-----------------------------------------------------------------------------
(* The universe of module Policy *)

MadePolicies ==
  {industryProfile(kind, options) : options \in Options, kind \in Profiles}
  \cup {createPolicyTemplate(name) : name \in Templates}
  \cup {buildPolicy(template, path) : template \in InitTemplates, path \in ProtectedPaths}
  \cup {createCreativeAssetAccessPolicy(p, None, None) : p \in Passports}
  \cup {createToolPolicyBindingsPolicy(b) : b \in Bindings}
  \cup {extractAgentAccessPolicyFromOpenApi(d, None) : d \in Documents}

AllPatterns ==
  UNION {UNION {Listed(p.rules[i].paths) : i \in DOMAIN p.rules} : p \in MadePolicies}
  \cup UNION {Listed(rule.paths) : rule \in HandRules}

AllPaths == {r.path : r \in Requests}

-----------------------------------------------------------------------------
FirstHand == CHOOSE p \in HandPolicies : p.default = "allow"

AtRest == policy = FirstHand /\ origin = "hand" /\ now = 0

BothInit == Init /\ ActionInit

BothNext ==
  \/ action = {} /\ Next /\ UNCHANGED action
  \/ AtRest /\ AddWord /\ UNCHANGED vars

BothSpec == BothInit /\ [][BothNext]_<<vars, action>>
=============================================================================
