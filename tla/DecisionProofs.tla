--------------------------- MODULE DecisionProofs ---------------------------
(***************************************************************************)
(* What decides, grants and refuses in a policy file, whatever wrote it:   *)
(* the linter, the production profile, the explanations, the generators    *)
(* that rule training out and the conversion to ODRL; and the              *)
(* classification of actions, for every set of keywords.                   *)
(***************************************************************************)
EXTENDS MCDecisions, PolicyProofs, FiniteSetTheorems

-----------------------------------------------------------------------------
(* Policies *)

\* Its rules are a list, of whatever.
HasList(p) == \E n \in Nat : DOMAIN p.rules = 1 .. n

\* The rule that decides is the first one that matches.
LEMMA DecidedByFirst ==
  ASSUME NEW p, HasList(p), NEW request, NEW at,
         decideAccess(p, request, at).rule # 0
  PROVE  LET i == decideAccess(p, request, at).rule
         IN  /\ i \in DOMAIN p.rules
             /\ ruleMatchesRequest(p.rules[i], request, at)
             /\ \A j \in DOMAIN p.rules : ruleMatchesRequest(p.rules[j], request, at) => i <= j
             /\ decideAccess(p, request, at) = RuleAnswer(p.rules[i], i, request)
<1> DEFINE S == Matching(p, request, at)
<1>1. S # {} /\ decideAccess(p, request, at) = RuleAnswer(p.rules[First(S)], First(S), request)
  BY DEF decideAccess, Answer
<1>2. decideAccess(p, request, at).rule = First(S)
  BY <1>1 DEF RuleAnswer, Answer
<1>3. S \subseteq Nat
  BY DEF Matching, HasList
<1>4. First(S) \in S /\ \A j \in S : First(S) <= j
  BY <1>1, <1>3, FirstIsLeast
<1> QED
  BY <1>1, <1>2, <1>4 DEF Matching

\* Without a rule, the decision is a review or the default.
LEMMA DecidedByNone ==
  ASSUME NEW p, HasList(p), NEW request, NEW at,
         decideAccess(p, request, at).rule = 0
  PROVE  decideAccess(p, request, at).decision \in {"review", p.default}
<1> DEFINE S == Matching(p, request, at)
<1>1. S # {} => First(S) # 0
  <2>1. S \subseteq Nat /\ 0 \notin S
    BY DEF Matching, HasList
  <2> QED
    BY <2>1, FirstIsLeast
<1> QED
  BY <1>1 DEF decideAccess, RuleAnswer, Answer

\* Rules the linter takes for the same match, the first of them in force and
\* without a "*" in its lists: whatever the second matches, the first does.
LEMMA SameFingerprint ==
  ASSUME NEW earlier, NEW later, NEW request, NEW at,
         ruleMatchFingerprint(earlier) = ruleMatchFingerprint(later),
         ~Expired(earlier.expiresAt, at),
         "*" \notin Listed(earlier.methods), <<"*">> \notin Listed(earlier.paths),
         ruleMatchesRequest(later, request, at)
  PROVE  ruleMatchesRequest(earlier, request, at)
<1>1. earlier.methods # None => earlier.methods = later.methods
  BY DEF ruleMatchFingerprint, Listed
<1>2. earlier.paths # None => earlier.paths = later.paths
  BY DEF ruleMatchFingerprint, Listed
<1>3. methodMatched(earlier, request)
  BY <1>1 DEF methodMatched, ruleMatchesRequest, Listed
<1>4. pathMatched(earlier, request)
  BY <1>2 DEF pathMatched, ruleMatchesRequest, Listed
<1> QED
  BY <1>3, <1>4 DEF ruleMatchesRequest

\* A rule that repeats the match of an earlier one never decides (policy-lint.ts
\* reports it, decision.ts never reaches it), whatever the policy and the time.
LEMMA DuplicatesWhereListed ==
  ASSUME HasList(policy)
  PROVE  DuplicatesAreDead
<1> SUFFICES ASSUME NEW i \in DuplicateMatches(policy), NEW j \in 1 .. i - 1,
                    ruleMatchFingerprint(policy.rules[j]) = ruleMatchFingerprint(policy.rules[i]),
                    Shadows(j), NEW request \in Requests, Decided(request).rule = i
             PROVE  FALSE
  BY DEF DuplicatesAreDead
<1>1. i \in Nat \ {0} /\ i \in DOMAIN policy.rules
  BY DEF DuplicateMatches, HasList
<1>2. /\ ruleMatchesRequest(policy.rules[i], request, now)
      /\ \A k \in DOMAIN policy.rules : ruleMatchesRequest(policy.rules[k], request, now) => i <= k
  BY <1>1, DecidedByFirst DEF Decided
<1>3. ruleMatchesRequest(policy.rules[j], request, now)
  BY <1>2, SameFingerprint DEF Shadows
<1>4. j \in DOMAIN policy.rules /\ ~ (i <= j)
  BY <1>1 DEF HasList
<1> QED
  BY <1>2, <1>3, <1>4

\* A policy that has passed the production profile (security-profiles) allows only
\* by a rule that is in force, limits the rate and asks for a receipt, and only
\* agents that name themselves and their purpose, whatever time it has become.
LEMMA ProductionWhereListed ==
  ASSUME HasList(policy)
  PROVE  ProductionAnswers
<1> SUFFICES ASSUME NEW t \in 0 .. now, evaluateSecurityProfile(policy, "production", t),
                    NEW request \in Requests, Decided(request).decision = "allow"
             PROVE  LET i == Decided(request).rule
                    IN  /\ i # 0
                        /\ policy.rules[i].rateLimit
                        /\ policy.rules[i].receipt \/ policy.receipt
                        /\ request.agent # None /\ request.purpose # None
                        /\ ~Expired(policy.expiresAt, now)
                        /\ ~Expired(policy.rules[i].expiresAt, now)
  BY DEF ProductionAnswers
<1> DEFINE i == Decided(request).rule
           rule == policy.rules[i]
<1>1. /\ policy.default # "allow"
      /\ policy.requireAgentIdentity /\ policy.requirePurpose
      /\ \A k \in DOMAIN policy.rules :
           Granting(policy.rules[k]) =>
             policy.rules[k].rateLimit /\ (policy.rules[k].receipt \/ policy.receipt)
  BY DEF evaluateSecurityProfile, profileStrictness, DefaultAccepted
<1>2. /\ ~Expired(policy.expiresAt, now)
      /\ request.agent # None /\ request.purpose # None
      /\ i # 0
  <2>1. i # 0
    BY <1>1, DecidedByNone DEF Decided
  <2> QED
    BY <1>1, <2>1 DEF Decided, decideAccess, Answer
<1>3. /\ i \in DOMAIN policy.rules
      /\ ruleMatchesRequest(rule, request, now)
      /\ Decided(request) = RuleAnswer(rule, i, request)
  BY <1>2, DecidedByFirst DEF Decided
<1>4. rule.decision = "allow"
  BY <1>3 DEF RuleAnswer, Answer
<1> QED
  BY <1>1, <1>2, <1>3, <1>4 DEF Granting, ruleMatchesRequest

\* A pattern covers no more than its Cedar form, in which every wildcard stands for
\* anything.
LEMMA CedarCoversMore ==
  ASSUME NEW pattern \in Patterns, NEW path \in Covered[pattern]
  PROVE  CedarCovers(pattern, path)
<1> DEFINE q == [k \in DOMAIN pattern |-> IF pattern[k] = "*" THEN "**" ELSE pattern[k]]
<1>1. pathMatches(pattern, path)
  BY DEF Covered
<1>2. pattern \in Seq({pattern[i] : i \in DOMAIN pattern})
  BY PiecesAssumption DEF IsList
<1>3. Len(pattern) \in Nat /\ DOMAIN pattern = 1 .. Len(pattern)
  BY <1>2
<1>4. Len(q) = Len(pattern)
  BY <1>3
<1>5. \A i \in 1 .. Len(pattern) : \A part : Stands(pattern[i], part) => Stands(q[i], part)
  BY <1>3 DEF Stands
<1>6. pathMatches(q, path)
  <2> HIDE DEF q
  <2> QED
    BY <1>1, <1>3, <1>4, <1>5, WiderMatchesMore
<1> QED
  BY <1>6 DEF CedarCovers

\* The explanation, the Rego module and the Cedar policies agree with decideAccess
\* about the rule that matched (policy-explain.ts, policy-as-code), whatever the
\* policy and the time.
LEMMA ViewsWhereListed ==
  ASSUME HasList(policy), PathsKnown(policy)
  PROVE  ViewsNameTheRule
<1> SUFFICES ASSUME NEW i \in DOMAIN policy.rules, NEW request \in Requests,
                    request.purpose # None, request.use # None,
                    Decided(request).rule = i, Decided(request).reason = "matched_rule"
             PROVE  LET rule == policy.rules[i]
                        Full(list) == list \notin {None, {}}
                    IN  /\ explainRule(rule, request, now).reasons = {}
                        /\ \A j \in 1 .. i - 1 :
                             explainRule(policy.rules[j], request, now).reasons # {}
                        /\ {} \notin {rule.methods, rule.paths, rule.purposes,
                                      Or(rule.uses, rule.allowedUses)}
                           => i \in matching_rules(policy, request)
                        /\ /\ Granting(rule) /\ rule.paths # {}
                           /\ \A list \in {rule.methods, rule.purposes,
                                           Or(rule.uses, rule.allowedUses)} : Full(list)
                           => cedarPolicyForRule(rule, request) = [effect |-> "permit", holds |-> TRUE]
  BY DEF ViewsNameTheRule
<1> DEFINE rule == policy.rules[i]
<1>1. PICK n \in Nat : DOMAIN policy.rules = 1 .. n
  BY DEF HasList
<1>2. /\ ruleMatchesRequest(rule, request, now)
      /\ \A j \in DOMAIN policy.rules : ruleMatchesRequest(policy.rules[j], request, now) => i <= j
      /\ Decided(request) = RuleAnswer(rule, i, request)
  BY <1>1, DecidedByFirst DEF Decided
<1>3. purposeAllowed(rule, request) /\ useAllowed(rule, request)
  BY <1>2 DEF RuleAnswer, Answer
<1>4. /\ ~Expired(rule.expiresAt, now) /\ methodMatched(rule, request)
      /\ pathMatched(rule, request)
  BY <1>2 DEF ruleMatchesRequest
<1>5. explainRule(rule, request, now).reasons = {}
  BY <1>3, <1>4 DEF explainRule
<1>6. ASSUME NEW j \in 1 .. i - 1
      PROVE  explainRule(policy.rules[j], request, now).reasons # {}
  <2>1. ~ruleMatchesRequest(policy.rules[j], request, now)
    BY <1>1, <1>2
  <2>2. \/ Expired(policy.rules[j].expiresAt, now) \/ ~methodMatched(policy.rules[j], request)
        \/ ~pathMatched(policy.rules[j], request)
    BY <2>1 DEF ruleMatchesRequest
  <2> QED
    BY <2>2 DEF explainRule
<1>7. /\ request.purpose \notin Listed(rule.deniedPurposes)
      /\ Listed(rule.purposes) = {} \/ request.purpose \in rule.purposes
      /\ request.use \notin Listed(rule.deniedUses)
      /\ UsesOf(rule) = {} \/ request.use \in UsesOf(rule)
  BY <1>3 DEF purposeAllowed, useAllowed
<1>8. ASSUME {} \notin {rule.methods, rule.paths, rule.purposes, Or(rule.uses, rule.allowedUses)}
      PROVE  i \in matching_rules(policy, request)
  <2>1. rule.methods # None => rule.methods \cap {request.method, "*"} # {}
    BY <1>4, <1>8 DEF methodMatched, Listed
  <2>2. rule.paths # None => \E pattern \in rule.paths : request.path \in Covered[pattern]
    BY <1>4, <1>8 DEF pathMatched, Listed
  <2>3. Accepts(rule.purposes, request.purpose)
    BY <1>7, <1>8 DEF Accepts, Listed
  <2>4. Accepts(Or(rule.uses, rule.allowedUses), request.use)
    BY <1>7, <1>8 DEF Accepts, Listed, UsesOf, Or
  <2> QED
    BY <1>7, <2>1, <2>2, <2>3, <2>4 DEF matching_rules
<1>9. ASSUME Granting(rule), rule.paths # {},
             \A list \in {rule.methods, rule.purposes, Or(rule.uses, rule.allowedUses)} :
               list \notin {None, {}}
      PROVE  cedarPolicyForRule(rule, request) = [effect |-> "permit", holds |-> TRUE]
  <2>1. request.method \in Or(rule.methods, {"GET"})
    BY <1>4, <1>9 DEF methodMatched, Listed, Or
  <2>2. rule.paths = None \/ \E pattern \in rule.paths : CedarCovers(pattern, request.path)
    <3>1. CASE Listed(rule.paths) = {}
      BY <1>9, <3>1 DEF Listed
    <3>2. ASSUME NEW pattern \in rule.paths, request.path \in Covered[pattern],
                 Listed(rule.paths) # {}
          PROVE  CedarCovers(pattern, request.path)
      <4>1. pattern \in Patterns
        BY <3>2 DEF PathsKnown, Listed
      <4> QED
        BY <3>2, <4>1, CedarCoversMore
    <3> QED
      BY <1>4, <3>1, <3>2 DEF pathMatched
  <2>3. request.purpose \in Or(rule.purposes, {"*"})
    BY <1>7, <1>9 DEF Listed, Or
  <2>4. request.use \in Or(rule.uses, Or(rule.allowedUses, {"*"}))
    BY <1>7, <1>9 DEF Listed, Or, UsesOf
  <2> QED
    BY <1>7, <1>9, <2>1, <2>2, <2>3, <2>4 DEF cedarPolicyForRule
<1> QED
  BY <1>5, <1>6, <1>8, <1>9

-----------------------------------------------------------------------------
(* Training *)

\* None is not a list of anything.
NoneIsNothing == \A x : x \notin None

\* A rule that lets nobody train: by a list of what it is for, or of what it denies.
Refuses(rule) ==
  \A word \in Training :
    /\ \/ word \in Listed(rule.deniedPurposes)
       \/ Listed(rule.purposes) # {} /\ word \notin rule.purposes
    /\ \/ word \in Listed(rule.deniedUses)
       \/ UsesOf(rule) # {} /\ word \notin UsesOf(rule)

DeniesFew(rule) == IsFiniteSet(Listed(rule.deniedPurposes))

\* A list of rules that deny finitely many purposes by name.
WellMade(rules) == IsList(rules) /\ \A i \in DOMAIN rules : DeniesFew(rules[i])

\* Of such rules, those that let nobody train, or do not grant.
Fits(rule) == (Granting(rule) => Refuses(rule)) /\ DeniesFew(rule)

NoTraining(rules) == WellMade(rules) /\ \A i \in DOMAIN rules : Fits(rules[i])

\* No rule that grants, nor the default, lets anybody train.
RulesTrainingOut(p) == p.default \notin {"allow", "charge"} /\ NoTraining(p.rules)

\* A list of other things than training.
OtherThings(list) == (\E x : x \in list) /\ \A word \in Training : word \notin list

\* A rule for other purposes and other uses, and one that grants nothing.
ForOthers(rule) ==
  OtherThings(rule.purposes) /\ OtherThings(rule.uses) /\ rule.deniedPurposes = None

GrantsNothing(rule) ==
  ~Granting(rule) /\ rule.deniedPurposes \in {None, {"ai-training", "model-training"}}

LEMMA NamesAreFinite ==
  IsFiniteSet({}) /\ IsFiniteSet({"ai-training", "model-training"}) /\ IsFiniteSet(Training)
<1>1. IsFiniteSet({})
  BY FS_EmptySet
<1>2. IsFiniteSet({} \cup {"ai-training"})
  BY <1>1, FS_AddElement
<1>3. IsFiniteSet(({} \cup {"ai-training"}) \cup {"model-training"})
  BY <1>2, FS_AddElement
<1>4. IsFiniteSet((({} \cup {"ai-training"}) \cup {"model-training"}) \cup {"ai-train"})
  BY <1>3, FS_AddElement
<1>5. ({} \cup {"ai-training"}) \cup {"model-training"} = {"ai-training", "model-training"}
  OBVIOUS
<1>6. (({} \cup {"ai-training"}) \cup {"model-training"}) \cup {"ai-train"} = Training
  BY DEF Training
<1> QED
  BY <1>1, <1>3, <1>4, <1>5, <1>6

\* Both fit.
LEMMA TheyFit ==
  ASSUME NoneIsNothing, NEW rule, ForOthers(rule) \/ GrantsNothing(rule)
  PROVE  Fits(rule)
<1>1. Granting(rule) => Refuses(rule)
  BY DEF NoneIsNothing, ForOthers, GrantsNothing, OtherThings, Refuses, Listed, UsesOf
<1>2. Listed(rule.deniedPurposes) \in {{}, {"ai-training", "model-training"}}
  BY DEF ForOthers, GrantsNothing, Listed
<1>3. DeniesFew(rule)
  BY <1>2, NamesAreFinite DEF DeniesFew
<1> QED
  BY <1>1, <1>3 DEF Fits

LEMMA InItsRange ==
  ASSUME NEW S, NEW s \in Seq(S)
  PROVE  IsList(s) /\ \A i \in DOMAIN s : s[i] \in S
  BY DEF IsList

LEMMA ListOfRules ==
  ASSUME NEW S, \A rule \in S : Fits(rule), NEW rules \in Seq(S)
  PROVE  NoTraining(rules)
  BY InItsRange DEF NoTraining, WellMade, Fits

\* A list made of a list, entry by entry.
LEMMA MappedList ==
  ASSUME NEW s, IsList(s), NEW t, t = [i \in DOMAIN s |-> t[i]]
  PROVE  IsList(t)
<1> DEFINE S == {s[i] : i \in DOMAIN s}
           T == {t[i] : i \in DOMAIN t}
<1>1. s \in Seq(S)
  BY DEF IsList
<1> HIDE DEF S
<1>2. DOMAIN t = DOMAIN s /\ DOMAIN s = 1 .. Len(s) /\ Len(s) \in Nat
  BY <1>1
<1>3. \A i \in DOMAIN t : t[i] \in T
  OBVIOUS
<1> HIDE DEF T
<1>4. t \in Seq(T)
  BY <1>2, <1>3
<1> QED
  BY <1>4 DEF IsList, T

LEMMA ListHas ==
  ASSUME NEW p, IsList(p.rules)
  PROVE  HasList(p)
<1> DEFINE S == {p.rules[i] : i \in DOMAIN p.rules}
<1>1. p.rules \in Seq(S)
  BY DEF IsList
<1> HIDE DEF S
<1> QED
  BY <1>1 DEF HasList

\* A policy that decides by such rules grants nothing to those who train.
LEMMA TrainingRefused ==
  ASSUME None \notin Training, NEW p, RulesTrainingOut(p), NEW request, NEW at,
         {request.use, request.purpose} \cap Training # {}
  PROVE  decideAccess(p, request, at).decision \notin {"allow", "charge"}
<1> DEFINE i == decideAccess(p, request, at).rule
<1>1. HasList(p)
  BY ListHas DEF RulesTrainingOut, NoTraining, WellMade
<1>2. CASE i = 0
  BY <1>1, <1>2, DecidedByNone DEF RulesTrainingOut
<1>3. CASE i # 0
  <2>1. /\ i \in DOMAIN p.rules
        /\ decideAccess(p, request, at) = RuleAnswer(p.rules[i], i, request)
    BY <1>1, <1>3, DecidedByFirst
  <2> HIDE DEF i
  <2> DEFINE rule == p.rules[i]
  <2>2. CASE ~Granting(rule)
    BY <2>1, <2>2 DEF RuleAnswer, Answer, Granting
  <2>3. CASE Granting(rule)
    <3>1. Refuses(rule)
      BY <2>1, <2>3 DEF RulesTrainingOut, NoTraining, Fits
    <3>2. ~ (purposeAllowed(rule, request) /\ useAllowed(rule, request))
      <4>1. CASE request.use \in Training
        <5>1. /\ request.use # None
              /\ \/ request.use \in Listed(rule.deniedUses)
                 \/ UsesOf(rule) # {} /\ request.use \notin UsesOf(rule)
          BY <3>1, <4>1 DEF Refuses
        <5> QED
          BY <5>1 DEF useAllowed
      <4>2. CASE request.purpose \in Training
        <5>1. /\ request.purpose # None
              /\ \/ request.purpose \in Listed(rule.deniedPurposes)
                 \/ Listed(rule.purposes) # {} /\ request.purpose \notin rule.purposes
          BY <3>1, <4>2 DEF Refuses
        <5> QED
          BY <5>1 DEF purposeAllowed
      <4> QED
        BY <4>1, <4>2
    <3> QED
      BY <2>1, <3>2 DEF RuleAnswer, Answer
  <2> QED
    BY <2>2, <2>3
<1> QED
  BY <1>2, <1>3

\* The rules of a generator: <<a, b>>, and c where something is sold.
LEMMA TwoOrThree ==
  ASSUME NEW a, NEW b, NEW c, NEW paid,
         Fits(a), Fits(b), Fits(Charged(c, paid))
  PROVE  NoTraining(<<a, b>> \o OnlyIfPaid(paid, c)) /\ NoTraining(<<a, b>>)
<1> DEFINE S == {a, b, Charged(c, paid)}
<1>1. <<a, b>> \in Seq(S)
  OBVIOUS
<1>2. <<a, b>> \o OnlyIfPaid(paid, c) \in Seq(S)
  <2>1. <<a, b>> \o <<>> = <<a, b>> /\ <<a, b>> \o <<Charged(c, paid)>> \in Seq(S)
    OBVIOUS
  <2> QED
    BY <1>1, <2>1 DEF OnlyIfPaid
<1>3. \A rule \in S : Fits(rule)
  OBVIOUS
<1> HIDE DEF S
<1> QED
  BY <1>1, <1>2, <1>3, ListOfRules

LEMMA Publishing ==
  ASSUME NoneIsNothing, NEW options
  PROVE  RulesTrainingOut(createPublishingDataProfilePolicy(options))
<1> DEFINE a == [Rule("publishing-public-research", {"GET"},
                      Or(options.public, {Dir("articles"), Dir("docs")}), "allow",
                      {"research", "accessibility", "indexing"},
                      {"read", "summarize", "quote", "ai-input"})
                 EXCEPT !.deniedUses = {"ai-training", "model-training"}, !.attribution = TRUE]
           b == DeniesTraining(Rule("publishing-ai-training-denied", {"GET"}, {<<"/", "**">>},
                                    "deny", None, None))
           c == [Rule("publishing-premium-paid-access", {"GET"},
                      Or(options.premium, {Dir("premium"), Dir("archive")}), "charge",
                      {"research", "monitoring", "agentic-commerce"},
                      {"read", "summarize", "ai-input"}) EXCEPT !.attribution = TRUE]
           rules == <<a, b>> \o OnlyIfPaid(options.paid, c)
<1>1. ForOthers(a)
  BY DEF Rule, ForOthers, OtherThings, Training
<1>2. GrantsNothing(b)
  BY DEF DeniesTraining, Rule, GrantsNothing, Granting
<1>3. ForOthers(Charged(c, options.paid))
  BY DEF Charged, Rule, ForOthers, OtherThings, Training
<1>4. createPublishingDataProfilePolicy(options) = profile(options, rules)
  BY DEF createPublishingDataProfilePolicy
<1> HIDE DEF a, b, c
<1>5. NoTraining(rules)
  BY <1>1, <1>2, <1>3, TheyFit, TwoOrThree
<1> HIDE DEF rules
<1> QED
  BY <1>4, <1>5 DEF RulesTrainingOut, profile, Base

LEMMA SaasApi ==
  ASSUME NoneIsNothing, NEW options
  PROVE  RulesTrainingOut(createSaasApiProfilePolicy(options))
<1> DEFINE a == [Rule("saas-api-free-agent-read", {"GET"},
                      Or(options.public, {Beneath(<<"/", "api", "/", "public">>)}), "allow",
                      {"research", "monitoring", "agentic-commerce"}, {"read", "api-call"})
                 EXCEPT !.rateLimit = TRUE]
           b == Rule("saas-api-mutating-review", {"POST", "PUT", "PATCH", "DELETE"}, {Dir("api")},
                     "review", {"agentic-commerce", "workflow-automation"}, {"api-call", "write"})
           c == [Rule("saas-api-premium-paid", {"GET", "POST"},
                      Or(options.premium, {Beneath(<<"/", "api", "/", "premium">>)}), "charge",
                      {"research", "monitoring", "agentic-commerce"}, {"api-call", "ai-input"})
                 EXCEPT !.rateLimit = TRUE]
           rules == <<a, b>> \o OnlyIfPaid(options.paid, c)
<1>1. ForOthers(a)
  BY DEF Rule, ForOthers, OtherThings, Training
<1>2. GrantsNothing(b)
  BY DEF Rule, GrantsNothing, Granting
<1>3. ForOthers(Charged(c, options.paid))
  BY DEF Charged, Rule, ForOthers, OtherThings, Training
<1>4. createSaasApiProfilePolicy(options) = profile(options, rules)
  BY DEF createSaasApiProfilePolicy
<1> HIDE DEF a, b, c
<1>5. NoTraining(rules)
  BY <1>1, <1>2, <1>3, TheyFit, TwoOrThree
<1> HIDE DEF rules
<1> QED
  BY <1>4, <1>5 DEF RulesTrainingOut, profile, Base

LEMMA SupplyChain ==
  ASSUME NoneIsNothing, NEW options
  PROVE  RulesTrainingOut(createSupplyChainProductProfilePolicy(options))
<1> DEFINE a == [Rule("supply-chain-product-passport-read", {"GET"},
                      Or(options.public, {Dir("products"), Dir("digital-link")}), "allow",
                      {"traceability", "procurement", "sustainability", "research"},
                      {"read", "verify", "ai-input"}) EXCEPT !.attribution = TRUE]
           b == Rule("supply-chain-private-events-review", {"GET", "POST"},
                     {Dir("epcis"), Dir("events")}, "review",
                     {"traceability", "audit", "procurement"}, {"read", "verify", "write"})
<1>1. ForOthers(a)
  BY DEF Rule, ForOthers, OtherThings, Training
<1>2. GrantsNothing(b)
  BY DEF Rule, GrantsNothing, Granting
<1>3. createSupplyChainProductProfilePolicy(options) = profile(options, <<a, b>>)
  BY DEF createSupplyChainProductProfilePolicy
<1> HIDE DEF a, b
<1>4. NoTraining(<<a, b>>)
  <2>1. Fits(a)
    BY <1>1, TheyFit
  <2>2. \A rule \in {a, b} : Fits(rule)
    BY <1>2, <2>1, TheyFit
  <2>3. <<a, b>> \in Seq({a, b})
    OBVIOUS
  <2> QED
    BY <2>2, <2>3, ListOfRules
<1> QED
  BY <1>3, <1>4 DEF RulesTrainingOut, profile, Base

LEMMA Healthcare ==
  ASSUME NoneIsNothing, NEW options
  PROVE  RulesTrainingOut(createHealthcareConsentProfilePolicy(options))
<1> DEFINE a == Rule("healthcare-public-metadata", {"GET"},
                     {<<"/", "metadata">>, Dir(".well-known")},
                     "allow", {"discovery", "interoperability"}, {"read"})
           b == Rule("healthcare-patient-data-human-review", {"GET", "POST"},
                     Or(options.public, {Beneath(<<"/", "fhir", "/", kind>>) :
                                           kind \in {"Patient", "Observation", "DocumentReference"}}),
                     "review", {"care", "patient-authorized-research", "operations"},
                     {"read", "write", "ai-input"})
           c == DeniesTraining(Rule("healthcare-ai-training-denied", {"GET", "POST"}, {Dir("fhir")},
                                    "deny", None, None))
<1>1. ForOthers(a)
  BY DEF Rule, ForOthers, OtherThings, Training
<1>2. GrantsNothing(b)
  BY DEF Rule, GrantsNothing, Granting
<1>3. GrantsNothing(c)
  BY DEF DeniesTraining, Rule, GrantsNothing, Granting
<1>4. createHealthcareConsentProfilePolicy(options) = profile(options, <<a, b, c>>)
  BY DEF createHealthcareConsentProfilePolicy
<1> HIDE DEF a, b, c
<1>5. NoTraining(<<a, b, c>>)
  <2>1. Fits(a)
    BY <1>1, TheyFit
  <2>2. \A rule \in {a, b, c} : Fits(rule)
    BY <1>2, <1>3, <2>1, TheyFit
  <2>3. <<a, b, c>> \in Seq({a, b, c})
    OBVIOUS
  <2> QED
    BY <2>2, <2>3, ListOfRules
<1> QED
  BY <1>4, <1>5 DEF RulesTrainingOut, profile, Base

LEMMA EnergyInfrastructure ==
  ASSUME NoneIsNothing, NEW options
  PROVE  RulesTrainingOut(createEnergyInfrastructureProfilePolicy(options))
<1> DEFINE a == [Rule("energy-device-read", {"GET"},
                      Or(options.public, {Dir("devices"), Dir("meters")}), "allow",
                      {"monitoring", "grid-optimization", "maintenance"},
                      {"read", "verify", "ai-input"}) EXCEPT !.rateLimit = TRUE]
           b == Rule("energy-device-control-review", {"POST", "PUT", "PATCH"},
                     {Dir("devices"), Dir("ocpp")}, "review",
                     {"maintenance", "demand-response", "grid-optimization"},
                     {"control", "write", "api-call"})
           c == Rule("energy-paid-data-access", {"GET"}, {Dir("market-data"), Dir("tariffs")},
                     "charge", {"monitoring", "grid-optimization", "agentic-commerce"},
                     {"read", "ai-input"})
           rules == <<a, b>> \o OnlyIfPaid(options.paid, c)
<1>1. ForOthers(a)
  BY DEF Rule, ForOthers, OtherThings, Training
<1>2. GrantsNothing(b)
  BY DEF Rule, GrantsNothing, Granting
<1>3. ForOthers(Charged(c, options.paid))
  BY DEF Charged, Rule, ForOthers, OtherThings, Training
<1>4. createEnergyInfrastructureProfilePolicy(options) = profile(options, rules)
  BY DEF createEnergyInfrastructureProfilePolicy
<1> HIDE DEF a, b, c
<1>5. NoTraining(rules)
  BY <1>1, <1>2, <1>3, TheyFit, TwoOrThree
<1> HIDE DEF rules
<1> QED
  BY <1>4, <1>5 DEF RulesTrainingOut, profile, Base

\* Every policy of an industry profile.
LEMMA ProfilesRefuse ==
  ASSUME NoneIsNothing, NEW options,
         NEW kind \in {"publishing-data", "saas-api", "supply-chain", "healthcare",
                       "energy-infrastructure"}
  PROVE  RulesTrainingOut(industryProfile(kind, options))
  BY Publishing, SaasApi, SupplyChain, Healthcare, EnergyInfrastructure DEF industryProfile

\* Every policy of a template whose default is a review; the rules of the other one
\* are the same.
LEMMA TemplatesRefuse ==
  ASSUME NoneIsNothing, NEW name \in Templates
  PROVE  /\ NoTraining(createPolicyTemplate(name).rules)
         /\ name # "research-friendly" => RulesTrainingOut(createPolicyTemplate(name))
<1> DEFINE api == Charged(Careful(Rule("metered-api-x402", {"GET", "POST"}, {Dir("api")}, "charge",
                     {"research", "monitoring", "agentic-commerce"}, {"read", "ai-input"})), "payment")
           readTools == Cited(Rule("mcp-read-tools", {"POST"},
                     {Beneath(<<"/", "mcp", "/", "tools", "/", "read">>)}, "allow",
                     {"research", "accessibility", "workflow-automation"},
                     {"read", "summarize", "ai-input"}))
           actions == Charged(Careful(Rule("mcp-paid-actions", {"POST"},
                     {Beneath(<<"/", "mcp", "/", "tools", "/", "action">>)}, "charge",
                     {"agentic-commerce", "workflow-automation"}, {"tool-call", "ai-input"})), "payment")
           docs == [Cited(Rule("public-docs-research", {"GET"},
                     {Dir("docs"), Dir("blog"), Dir("reference")}, "allow",
                     {"research", "indexing", "accessibility"},
                     {"read", "summarize", "quote", "ai-input"})) EXCEPT !.noTraining = TRUE]
           news == [Cited(Rule("public-research-summaries", {"GET"},
                     {Dir("news"), Dir("analysis"), Dir("blog")}, "allow",
                     {"research", "accessibility", "indexing"},
                     {"read", "summarize", "quote", "ai-input"})) EXCEPT !.noTraining = TRUE]
           archive == Charged(Careful(Rule("premium-archive-x402", {"GET"},
                     {Beneath(<<"/", "archive", "/", "premium">>), Dir("premium")}, "charge",
                     {"research", "monitoring"}, {"read", "summarize", "ai-input"})), "payment")
           S == {api, readTools, actions, docs, news, archive}
<1>1. name \in {"publisher", "paid-api", "mcp-tool", "docs-site", "research-friendly"}
  BY InputsAssumption
<1>2. /\ name = "paid-api" => TemplateRules(name) = <<api>>
      /\ name = "mcp-tool" => TemplateRules(name) = <<readTools, actions>>
      /\ name \in {"docs-site", "research-friendly"} => TemplateRules(name) = <<docs>>
      /\ name = "publisher" => TemplateRules(name) = <<news, archive>>
  BY DEF TemplateRules
<1>3. ForOthers(api)
  BY DEF Charged, Careful, Rule, ForOthers, OtherThings, Training
<1>4. ForOthers(readTools)
  BY DEF Cited, Careful, Rule, ForOthers, OtherThings, Training
<1>5. ForOthers(actions)
  BY DEF Charged, Careful, Rule, ForOthers, OtherThings, Training
<1>6. ForOthers(docs)
  BY DEF Cited, Careful, Rule, ForOthers, OtherThings, Training
<1>7. ForOthers(news)
  BY DEF Cited, Careful, Rule, ForOthers, OtherThings, Training
<1>8. ForOthers(archive)
  BY DEF Charged, Careful, Rule, ForOthers, OtherThings, Training
<1> HIDE DEF api, readTools, actions, docs, news, archive
<1>9. \A rule \in S : Fits(rule)
  BY <1>3, <1>4, <1>5, <1>6, <1>7, <1>8, TheyFit
<1>10. TemplateRules(name) \in Seq(S)
  <2>1. /\ <<api>> \in Seq(S) /\ <<readTools, actions>> \in Seq(S)
        /\ <<docs>> \in Seq(S) /\ <<news, archive>> \in Seq(S)
    OBVIOUS
  <2> QED
    BY <1>1, <1>2, <2>1
<1> HIDE DEF S
<1>11. NoTraining(TemplateRules(name))
  BY <1>9, <1>10, ListOfRules
<1>12. /\ name # "research-friendly" => createPolicyTemplate(name).default = "review"
       /\ createPolicyTemplate(name).rules = TemplateRules(name)
  BY DEF createPolicyTemplate, Base
<1> QED
  BY <1>11, <1>12 DEF RulesTrainingOut

\* Every policy of a passport is well made, and refuses where the passport rules
\* training out, whatever else it licenses.
LEMMA PassportsMade ==
  ASSUME NoneIsNothing, NEW passport \in Passports, NEW paths, NEW default \in ReviewOrDeny
  PROVE  LET p == createCreativeAssetAccessPolicy(passport, paths, default)
         IN  WellMade(p.rules) /\ (ForbidsTraining(passport) => RulesTrainingOut(p))
<1> DEFINE RuleOf(license) ==
             [Rule(license.id, {"GET", "POST"},
                   Or(paths, {<<"/", "creative-assets", "/", passport.asset, "/", "licenses",
                                "/", license.id>>}),
                   license.decision, license.purposes, license.uses)
              EXCEPT !.id = <<passport.asset, license.id>>,
                     !.deniedPurposes = IF ForbidsTraining(passport) THEN Training ELSE None,
                     !.deniedUses = DeniedUsesOf(passport), !.attribution = TRUE,
                     !.price = license.price, !.payment = license.payment]
           rules == [i \in DOMAIN passport.licenses |-> RuleOf(passport.licenses[i])]
           p == createCreativeAssetAccessPolicy(passport, paths, default)
<1>1. p.rules = rules /\ p.default = Or(default, Or(passport.default, "review"))
  BY DEF createCreativeAssetAccessPolicy, Base
<1>2. p.default \in {"review", "deny"}
  BY <1>1, InputsAssumption DEF Or, ReviewOrDeny
<1>3. ASSUME NEW license
      PROVE  /\ RuleOf(license).deniedPurposes = IF ForbidsTraining(passport) THEN Training ELSE None
             /\ RuleOf(license).deniedUses = DeniedUsesOf(passport)
  BY DEF Rule
<1> HIDE DEF RuleOf
<1>4. ASSUME NEW license PROVE DeniesFew(RuleOf(license))
  BY <1>3, NamesAreFinite DEF DeniesFew, Listed
<1>5. IsList(rules)
  BY InputsAssumption, MappedList
<1>6. WellMade(rules)
  BY <1>4, <1>5 DEF WellMade
<1>7. ASSUME ForbidsTraining(passport), NEW license PROVE Refuses(RuleOf(license))
  <2>1. Training \subseteq DeniedUsesOf(passport)
    BY <1>7 DEF DeniedUsesOf
  <2> QED
    BY <1>3, <1>7, <2>1 DEF Refuses, Listed, NoneIsNothing
<1>8. ForbidsTraining(passport) => NoTraining(rules)
  BY <1>4, <1>6, <1>7 DEF NoTraining, Fits
<1> HIDE DEF rules, p
<1>9. WellMade(p.rules) /\ (ForbidsTraining(passport) => RulesTrainingOut(p))
  BY <1>1, <1>2, <1>6, <1>8 DEF RulesTrainingOut
<1> QED
  BY <1>9 DEF p

-----------------------------------------------------------------------------
(* The policy file *)

LEMMA FlattenedList ==
  ASSUME NEW S, NEW seqs \in Seq(Seq(S))
  PROVE  FlattenSeq(seqs) \in Seq(S)
<1> DEFINE Entry(f, i) == IF i = 1 THEN seqs[i] ELSE f[i - 1] \o seqs[i]
           Flat(f, r) == f = [i \in 1 .. r |-> Entry(f, i)]
           Starts(r) == \E f \in [1 .. r -> Seq(S)] : Flat(f, r)
           R == {r \in Nat : r <= Len(seqs) => Starts(r)}
<1>0. Len(seqs) \in Nat /\ \A i \in 1 .. Len(seqs) : seqs[i] \in Seq(S)
  OBVIOUS
<1>1. 0 \in R
  <2> DEFINE f == [i \in 1 .. 0 |-> <<>>]
  <2>1. f \in [1 .. 0 -> Seq(S)] /\ Flat(f, 0)
    OBVIOUS
  <2> QED
    BY <2>1
<1>2. ASSUME NEW r \in Nat, r \in R PROVE r + 1 \in R
  <2> SUFFICES ASSUME r + 1 <= Len(seqs)
               PROVE  Starts(r + 1)
    <3> HIDE DEF Starts
    <3> QED
      OBVIOUS
  <2>1. Starts(r)
    <3> HIDE DEF Starts
    <3> QED
      BY <1>0, <1>2
  <2>2. PICK f \in [1 .. r -> Seq(S)] : Flat(f, r)
    BY <2>1
  <2> HIDE DEF Entry
  <2> DEFINE g == [i \in 1 .. r + 1 |-> IF i <= r THEN f[i] ELSE Entry(f, i)]
  <2>3. \A i \in 1 .. r : g[i] = f[i] /\ f[i] = Entry(f, i)
    <3>1. \A i \in 1 .. r : i \in 1 .. r + 1 /\ i <= r
      OBVIOUS
    <3>2. \A i \in 1 .. r : f[i] = Entry(f, i)
      BY <2>2
    <3> QED
      BY <3>1, <3>2
  <2>4. g[r + 1] = Entry(f, r + 1)
    OBVIOUS
  <2>5. Entry(f, r + 1) \in Seq(S)
    <3>1. seqs[r + 1] \in Seq(S)
      BY <1>0
    <3>2. r + 1 # 1 => f[(r + 1) - 1] \in Seq(S)
      OBVIOUS
    <3> QED
      BY <3>1, <3>2 DEF Entry
  <2>6. g \in [1 .. r + 1 -> Seq(S)] /\ g = [i \in 1 .. r + 1 |-> g[i]]
    BY <2>5
  <2> HIDE DEF g
  <2>7. ASSUME NEW i \in 1 .. r + 1 PROVE g[i] = Entry(g, i)
    <3>1. i = 1 \/ (i # 1 /\ i - 1 \in 1 .. r)
      OBVIOUS
    <3>2. Entry(g, i) = Entry(f, i)
      BY <2>3, <3>1 DEF Entry
    <3>3. i \in 1 .. r \/ i = r + 1
      OBVIOUS
    <3> QED
      BY <2>3, <2>4, <3>2, <3>3
  <2>8. Flat(g, r + 1)
    BY <2>6, <2>7
  <2> QED
    BY <2>6, <2>8
<1>3. Starts(Len(seqs))
  <2>1. Len(seqs) \in R
    <3> HIDE DEF R
    <3> QED
      BY <1>0, <1>1, <1>2, SetInduction
  <2> HIDE DEF Starts
  <2> QED
    BY <1>0, <2>1
<1>4. PICK f \in [1 .. Len(seqs) -> Seq(S)] : Flat(f, Len(seqs))
  BY <1>3
<1> DEFINE h == CHOOSE g : Flat(g, Len(seqs))
<1>5. Flat(h, Len(seqs))
  BY <1>4
<1>6. FlattenSeq(seqs) = IF Len(seqs) = 0 THEN seqs ELSE h[Len(seqs)]
  BY DEF FlattenSeq
<1>7. CASE Len(seqs) = 0
  BY <1>6, <1>7
<1>8. CASE Len(seqs) # 0
  <2> DEFINE Q == {r \in Nat : r + 1 <= Len(seqs) => h[r + 1] \in Seq(S)}
  <2> HIDE DEF h
  <2>1. \A i \in 1 .. Len(seqs) : h[i] = Entry(h, i)
    BY <1>5
  <2>3. 0 \in Q
    BY <1>0, <2>1
  <2>4. ASSUME NEW r \in Nat, r \in Q PROVE r + 1 \in Q
    <3> SUFFICES ASSUME (r + 1) + 1 <= Len(seqs) PROVE h[(r + 1) + 1] \in Seq(S)
      OBVIOUS
    <3>1. h[r + 1] \in Seq(S) /\ (r + 1) + 1 \in 1 .. Len(seqs) /\ (r + 1) + 1 # 1
      BY <1>0, <2>4
    <3>2. h[(r + 1) + 1] = h[((r + 1) + 1) - 1] \o seqs[(r + 1) + 1]
      BY <2>1, <3>1
    <3>3. ((r + 1) + 1) - 1 = r + 1
      OBVIOUS
    <3> QED
      BY <1>0, <3>1, <3>2, <3>3
  <2>5. Len(seqs) - 1 \in Nat /\ (Len(seqs) - 1) + 1 = Len(seqs)
    BY <1>0, <1>8
  <2>6. Len(seqs) - 1 \in Q
    <3> HIDE DEF Q
    <3> QED
      BY <2>3, <2>4, <2>5, SetInduction
  <2>7. h[Len(seqs)] \in Seq(S)
    BY <2>5, <2>6
  <2> QED
    BY <1>6, <1>8, <2>7
<1> QED
  BY <1>7, <1>8

LEMMA ListOfSet ==
  ASSUME NEW S, IsFiniteSet(S)
  PROVE  SetToSeq(S) \in Seq(S)
<1>1. Cardinality(S) \in Nat /\ ExistsBijection(1 .. Cardinality(S), S)
  BY FS_CardinalityType
<1>2. \E f \in [1 .. Cardinality(S) -> S] : IsInjective(f)
  BY <1>1 DEF ExistsBijection, Bijection, Injection
<1>0. SetToSeq(S) \in [1 .. Cardinality(S) -> S]
  BY <1>2 DEF SetToSeq
<1> QED
  BY <1>1, <1>0

LEMMA InitMade ==
  ASSUME NoneIsNothing, NEW template, NEW path
  PROVE  NoTraining(buildPolicy(template, path).rules)
<1> DEFINE a == Cited(Rule("public-site-open", {"GET"},
                  {<<"/">>, <<"/", "index.html">>, Dir("assets"), Dir("public")}, "allow",
                  {"research", "indexing", "accessibility"},
                  {"read", "summarize", "quote", "ai-input"}))
           b == [Careful(Rule("agent-passport-required", {"GET"}, {path, Beneath(path)},
                  "review", {"research", "accessibility", "citation"},
                  {"read", "summarize", "quote"}))
                 EXCEPT !.deniedUses = {"ai-train", "bulk-export", "dataset-build"},
                        !.attribution = TRUE]
           c == Careful(Rule("premium-x402-algorand", {"GET", "POST"},
                  {Dir("premium"), Beneath(<<"/", "api", "/", "premium">>)}, "charge",
                  {"research", "agentic-commerce", "monitoring"},
                  {"read", "summarize", "ai-input"}))
           paid == IF template = "algorand-x402" THEN "payment" ELSE "none"
           rules == <<a, b>> \o OnlyIfPaid(paid, c)
<1>1. buildPolicy(template, path).rules = rules
  BY DEF buildPolicy, Base
<1>2. ForOthers(a)
  BY DEF Cited, Careful, Rule, ForOthers, OtherThings, Training
<1>3. GrantsNothing(b)
  BY DEF Careful, Rule, GrantsNothing, Granting
<1>4. ForOthers(Charged(c, paid))
  BY DEF Charged, Careful, Rule, ForOthers, OtherThings, Training
<1> HIDE DEF a, b, c, paid
<1>5. NoTraining(rules)
  BY <1>2, <1>3, <1>4, TheyFit, TwoOrThree
<1> QED
  BY <1>1, <1>5

LEMMA BindingsMade ==
  ASSUME NEW bindings \in Bindings
  PROVE  WellMade(createToolPolicyBindingsPolicy(bindings).rules)
<1> DEFINE RuleOf(b) ==
             [Rule(b.ruleId, {"POST"},
                   {Or(b.path, Or(ToolUrlBase, <<"/", "mcp", "/", "tools">>) \o <<"/", b.toolName>>)},
                   Or(b.decision, IF b.price THEN "charge" ELSE "allow"), b.purposes, b.uses)
              EXCEPT !.price = b.price]
           rules == [i \in DOMAIN bindings |-> RuleOf(bindings[i])]
<1>1. createToolPolicyBindingsPolicy(bindings).rules = rules
  BY DEF createToolPolicyBindingsPolicy, Base
<1>2. \A b : RuleOf(b).deniedPurposes = None
  BY DEF Rule
<1> HIDE DEF RuleOf
<1>3. \A b : DeniesFew(RuleOf(b))
  BY <1>2, NamesAreFinite DEF DeniesFew, Listed
<1>4. IsList(rules)
  BY InputsAssumption, MappedList
<1> QED
  BY <1>1, <1>3, <1>4 DEF WellMade

LEMMA DocumentsMade ==
  ASSUME NEW document \in Documents
  PROVE  WellMade(extractAgentAccessPolicyFromOpenApi(document, None).rules)
<1> DEFINE RuleOf(operation) ==
             [operation.extension EXCEPT
                !.methods = {operation.method},
                !.paths = {openApiPathToAgentAccessPath(operation.path)},
                !.expiresAt = None]
           rules == [i \in DOMAIN document |-> RuleOf(document[i])]
<1>1. extractAgentAccessPolicyFromOpenApi(document, None).rules = rules
  BY DEF extractAgentAccessPolicyFromOpenApi, Base
<1>2. \A o : RuleOf(o).deniedPurposes = o.extension.deniedPurposes
  OBVIOUS
<1> HIDE DEF RuleOf
<1>3. \A i \in DOMAIN document : DeniesFew(RuleOf(document[i]))
  BY <1>2, InputsAssumption DEF DeniesFew
<1>4. IsList(rules)
  BY InputsAssumption, MappedList
<1> QED
  BY <1>1, <1>3, <1>4 DEF WellMade

\* Permissions or prohibitions, read back as rules.
Imported(decision, rules) ==
  [i \in DOMAIN rules |-> odrlRuleToAgentAccessRule(rules[i], decision)]

LEMMA ImportedList ==
  ASSUME NEW decision, NEW S, NEW rules \in Seq(S)
  PROVE  Imported(decision, rules) \in Seq({odrlRuleToAgentAccessRule(r, decision) : r \in S})
<1> DEFINE Read(r) == odrlRuleToAgentAccessRule(r, decision)
<1>1. Imported(decision, rules) = [i \in DOMAIN rules |-> Read(rules[i])]
  BY DEF Imported
<1> HIDE DEF Read
<1>2. [i \in DOMAIN rules |-> Read(rules[i])] \in Seq({Read(r) : r \in S})
  OBVIOUS
<1>3. Imported(decision, rules) \in Seq({Read(r) : r \in S})
  BY <1>1, <1>2
<1> QED
  BY <1>3 DEF Read

\* What the prohibitions of a rule are.
DenialsOf(rule) ==
  {OdrlRule(Append(rule.id, "uses"), rule.paths,
            Actions(Or(rule.deniedUses, IF rule.decision = "deny" THEN StatedUses(rule) ELSE {})),
            {}, FALSE, FALSE, FALSE)}
  \cup {OdrlRule(Append(rule.id, p), rule.paths, {"oaa:anyAction"}, {p}, FALSE, FALSE, FALSE) :
          p \in Listed(rule.deniedPurposes)}

LEMMA DenialsListed ==
  ASSUME NEW rule, DeniesFew(rule)
  PROVE  denialsToOdrl(rule) \in Seq(DenialsOf(rule))
<1> DEFINE uses == Or(rule.deniedUses, IF rule.decision = "deny" THEN StatedUses(rule) ELSE {})
           Used == OdrlRule(Append(rule.id, "uses"), rule.paths, Actions(uses), {},
                            FALSE, FALSE, FALSE)
           For(p) == OdrlRule(Append(rule.id, p), rule.paths, {"oaa:anyAction"}, {p},
                              FALSE, FALSE, FALSE)
           S == Listed(rule.deniedPurposes)
           purposes == SetToSeq(S)
           first == IF uses = {} THEN <<>> ELSE <<Used>>
           second == [i \in DOMAIN purposes |-> For(purposes[i])]
           D == {Used} \cup {For(p) : p \in S}
<1>1. denialsToOdrl(rule) = first \o second
  BY DEF denialsToOdrl
<1>2. purposes \in Seq(S)
  BY ListOfSet DEF DeniesFew
<1>3. DenialsOf(rule) = D
  BY DEF DenialsOf
<1> HIDE DEF Used, For, purposes, S, uses
<1>4. first \in Seq(D)
  <2>1. Used \in D
    OBVIOUS
  <2> HIDE DEF D
  <2>2. <<>> \in Seq(D) /\ <<Used>> \in Seq(D)
    BY <2>1
  <2> QED
    BY <2>2
<1>5. second \in Seq(D)
  <2>1. DOMAIN purposes = 1 .. Len(purposes) /\ Len(purposes) \in Nat
        /\ \A i \in DOMAIN purposes : purposes[i] \in S
    BY <1>2
  <2>2. \A i \in DOMAIN purposes : For(purposes[i]) \in D
    BY <2>1
  <2> HIDE DEF D
  <2> QED
    BY <2>1, <2>2
<1> HIDE DEF first, second, D
<1> QED
  BY <1>1, <1>3, <1>4, <1>5

\* The parts of a policy in ODRL.
Permissions(p) ==
  {ruleToOdrl(p.rules[i]) : i \in {k \in DOMAIN p.rules : p.rules[k].decision # "deny"}}

Prohibitions(p) == UNION {DenialsOf(p.rules[i]) : i \in DOMAIN p.rules}

LEMMA Exported ==
  ASSUME NEW p, WellMade(p.rules)
  PROVE  LET odrl == exportAgentAccessPolicyToOdrl(p)
         IN  odrl.permission \in Seq(Permissions(p)) /\ odrl.prohibition \in Seq(Prohibitions(p))
<1> DEFINE rules == p.rules
           permitted == [i \in DOMAIN rules |-> permissionsToOdrl(rules[i])]
           denied == [i \in DOMAIN rules |-> denialsToOdrl(rules[i])]
<1>1. exportAgentAccessPolicyToOdrl(p) = [permission |-> FlattenSeq(permitted),
                                           prohibition |-> FlattenSeq(denied)]
  BY DEF exportAgentAccessPolicyToOdrl
<1>2. PICK n \in Nat : DOMAIN rules = 1 .. n
  BY ListHas DEF WellMade, HasList
<1>3. \A i \in DOMAIN rules : permissionsToOdrl(rules[i]) \in Seq(Permissions(p))
  <2> TAKE i \in DOMAIN rules
  <2>1. CASE rules[i].decision = "deny"
    BY <2>1 DEF permissionsToOdrl
  <2>2. CASE rules[i].decision # "deny"
    <3>1. ruleToOdrl(rules[i]) \in Permissions(p)
      BY <2>2 DEF Permissions
    <3>2. permissionsToOdrl(rules[i]) = <<ruleToOdrl(rules[i])>>
      BY <2>2 DEF permissionsToOdrl
    <3> QED
      BY <3>1, <3>2
  <2> QED
    BY <2>1, <2>2
<1>4. \A i \in DOMAIN rules : denialsToOdrl(rules[i]) \in Seq(Prohibitions(p))
  <2> TAKE i \in DOMAIN rules
  <2>1. denialsToOdrl(rules[i]) \in Seq(DenialsOf(rules[i]))
    BY DenialsListed DEF WellMade
  <2>2. DenialsOf(rules[i]) \subseteq Prohibitions(p)
    BY DEF Prohibitions
  <2> QED
    BY <2>1, <2>2
<1>5. permitted \in Seq(Seq(Permissions(p)))
  <2> HIDE DEF rules
  <2> QED
    BY <1>2, <1>3
<1>6. denied \in Seq(Seq(Prohibitions(p)))
  <2> HIDE DEF rules
  <2> QED
    BY <1>2, <1>4
<1> HIDE DEF permitted, denied
<1> QED
  BY <1>1, <1>5, <1>6, FlattenedList

\* What is read back from a rule, be it a permission or a prohibition, names the
\* rule's paths and denies nothing by its purpose; a prohibition grants nothing.
LEMMA ReadBack ==
  ASSUME NEW p, WellMade(p.rules), NEW default
  PROVE  LET q == importOdrlPolicyToAgentAccessPolicy(exportAgentAccessPolicyToOdrl(p), default)
             read == {odrlRuleToAgentAccessRule(r, "allow") : r \in Permissions(p)}
             denied == {odrlRuleToAgentAccessRule(r, "deny") : r \in Prohibitions(p)}
         IN  q.rules \in Seq(read \cup denied)
<1> DEFINE odrl == exportAgentAccessPolicyToOdrl(p)
           q == importOdrlPolicyToAgentAccessPolicy(odrl, default)
           read == {odrlRuleToAgentAccessRule(r, "allow") : r \in Permissions(p)}
           denied == {odrlRuleToAgentAccessRule(r, "deny") : r \in Prohibitions(p)}
<1>1. odrl.permission \in Seq(Permissions(p)) /\ odrl.prohibition \in Seq(Prohibitions(p))
  BY Exported
<1> HIDE DEF odrl
<1>2. Imported("allow", odrl.permission) \in Seq(read)
  BY <1>1, ImportedList
<1>3. Imported("deny", odrl.prohibition) \in Seq(denied)
  BY <1>1, ImportedList
<1>4. q.rules = Imported("allow", odrl.permission) \o Imported("deny", odrl.prohibition)
  BY DEF importOdrlPolicyToAgentAccessPolicy, Base, Imported
<1> HIDE DEF read, denied, q
<1>5. q.rules \in Seq(read \cup denied)
  BY <1>2, <1>3, <1>4
<1> QED
  BY <1>5 DEF q, read, denied, odrl

LEMMA PermissionRead ==
  ASSUME NEW p, NEW rule \in {odrlRuleToAgentAccessRule(r, "allow") : r \in Permissions(p)}
  PROVE  \E i \in DOMAIN p.rules :
           LET from == p.rules[i]
           IN  /\ from.decision # "deny"
               /\ rule.paths = from.paths /\ rule.deniedPurposes = None
               /\ rule.purposes = IF Listed(from.purposes) = {} THEN None ELSE Listed(from.purposes)
               /\ rule.uses = {mapOdrlActionToOaaUse(act) : act \in Actions(StatedUses(from))}
               /\ rule.allowedUses = None
<1>1. PICK i \in DOMAIN p.rules : /\ p.rules[i].decision # "deny"
                                  /\ rule = odrlRuleToAgentAccessRule(ruleToOdrl(p.rules[i]), "allow")
  BY DEF Permissions
<1> DEFINE from == p.rules[i]
           odrl == ruleToOdrl(from)
<1>2. /\ odrl.target = from.paths
      /\ odrl.action = Actions(StatedUses(from))
      /\ odrl.purposes = Listed(from.purposes)
  BY DEF ruleToOdrl, OdrlRule
<1> HIDE DEF odrl
<1>3. /\ rule.paths = odrl.target /\ rule.deniedPurposes = None /\ rule.allowedUses = None
      /\ rule.purposes = IF odrl.purposes = {} THEN None ELSE odrl.purposes
      /\ rule.uses = {mapOdrlActionToOaaUse(act) : act \in odrl.action}
  BY <1>1 DEF odrlRuleToAgentAccessRule, Rule, odrl
<1> QED
  BY <1>1, <1>2, <1>3

LEMMA ProhibitionRead ==
  ASSUME NEW p, NEW rule \in {odrlRuleToAgentAccessRule(r, "deny") : r \in Prohibitions(p)}
  PROVE  /\ rule.decision = "deny" /\ rule.deniedPurposes = None
         /\ \E i \in DOMAIN p.rules : rule.paths = p.rules[i].paths
<1>1. PICK i \in DOMAIN p.rules :
        \E r \in DenialsOf(p.rules[i]) : rule = odrlRuleToAgentAccessRule(r, "deny")
  BY DEF Prohibitions
<1>0. PICK r \in DenialsOf(p.rules[i]) : rule = odrlRuleToAgentAccessRule(r, "deny")
  BY <1>1
<1>2. r.target = p.rules[i].paths /\ r.charge = FALSE
  BY DEF DenialsOf, OdrlRule
<1>3. /\ rule.decision = (IF r.charge THEN "charge" ELSE "deny")
      /\ rule.deniedPurposes = None /\ rule.paths = r.target
  BY <1>0 DEF odrlRuleToAgentAccessRule, Rule
<1> QED
  BY <1>2, <1>3

\* The policy that comes back is well made, and knows no other paths.
LEMMA ReadBackMade ==
  ASSUME NEW p, WellMade(p.rules), PathsKnown(p), NEW default
  PROVE  LET q == importOdrlPolicyToAgentAccessPolicy(exportAgentAccessPolicyToOdrl(p), default)
         IN  WellMade(q.rules) /\ PathsKnown(q)
<1> DEFINE q == importOdrlPolicyToAgentAccessPolicy(exportAgentAccessPolicyToOdrl(p), default)
           read == {odrlRuleToAgentAccessRule(r, "allow") : r \in Permissions(p)}
           denied == {odrlRuleToAgentAccessRule(r, "deny") : r \in Prohibitions(p)}
<1>1. q.rules \in Seq(read \cup denied)
  BY ReadBack
<1>2. ASSUME NEW rule \in read \cup denied
      PROVE  DeniesFew(rule) /\ Listed(rule.paths) \subseteq Patterns
  <2>1. rule.deniedPurposes = None /\ \E i \in DOMAIN p.rules : rule.paths = p.rules[i].paths
    BY <1>2, PermissionRead, ProhibitionRead
  <2>2. Listed(rule.paths) \subseteq Patterns
    BY <2>1 DEF PathsKnown
  <2> QED
    BY <2>1, <2>2, NamesAreFinite DEF DeniesFew, Listed
<1> HIDE DEF read, denied, q
<1>3. IsList(q.rules) /\ \A i \in DOMAIN q.rules : q.rules[i] \in read \cup denied
  BY <1>1, InItsRange
<1>4. WellMade(q.rules) /\ PathsKnown(q)
  BY <1>2, <1>3 DEF WellMade, PathsKnown
<1> QED
  BY <1>4 DEF q

\* What a policy that came back grants, a rule of the one that went out names.
LEMMA NothingInvented ==
  ASSUME NoneIsNothing, NEW p, WellMade(p.rules), NEW default, NEW request, NEW at,
         NEW q, q = importOdrlPolicyToAgentAccessPolicy(exportAgentAccessPolicyToOdrl(p), default),
         request.purpose # None, request.use # None,
         decideAccess(q, request, at).reason = "matched_rule",
         decideAccess(q, request, at).decision \in {"allow", "charge"}
  PROVE  \E i \in DOMAIN p.rules :
           LET rule == p.rules[i]
           IN  /\ rule.decision # "deny" /\ pathMatched(rule, request)
               /\ Listed(rule.purposes) = {} \/ request.purpose \in rule.purposes
               /\ \/ StatedUses(rule) = {}
                  \/ \E use \in StatedUses(rule) :
                       request.use = mapOdrlActionToOaaUse(mapOaaUseToOdrlAction(use))
<1> DEFINE read == {odrlRuleToAgentAccessRule(r, "allow") : r \in Permissions(p)}
           denied == {odrlRuleToAgentAccessRule(r, "deny") : r \in Prohibitions(p)}
           d == decideAccess(q, request, at)
           rule == q.rules[d.rule]
<1>1. q.rules \in Seq(read \cup denied)
  BY ReadBack
<1>2. IsList(q.rules) /\ \A i \in DOMAIN q.rules : q.rules[i] \in read \cup denied
  BY <1>1, InItsRange
<1>3. HasList(q)
  BY <1>2, ListHas
<1>4. d.rule # 0
  <2>1. Matching(q, request, at) # {} /\ d.rule = First(Matching(q, request, at))
    BY DEF decideAccess, RuleAnswer, Answer
  <2>2. Matching(q, request, at) \subseteq Nat \ {0}
    BY <1>3 DEF HasList, Matching
  <2> QED
    BY <2>1, <2>2, FirstIsLeast
<1>5. /\ d.rule \in DOMAIN q.rules
      /\ ruleMatchesRequest(rule, request, at)
      /\ d = RuleAnswer(rule, d.rule, request)
  BY <1>3, <1>4, DecidedByFirst
<1> HIDE DEF d
<1>6. /\ rule.decision \in {"allow", "charge"}
      /\ purposeAllowed(rule, request) /\ useAllowed(rule, request)
  BY <1>5 DEF RuleAnswer, Answer, d
<1>7. rule \in read
  BY <1>2, <1>5, <1>6, ProhibitionRead
<1>8. PICK i \in DOMAIN p.rules :
        LET from == p.rules[i]
        IN  /\ from.decision # "deny"
            /\ rule.paths = from.paths /\ rule.deniedPurposes = None
            /\ rule.purposes = IF Listed(from.purposes) = {} THEN None ELSE Listed(from.purposes)
            /\ rule.uses = {mapOdrlActionToOaaUse(act) : act \in Actions(StatedUses(from))}
            /\ rule.allowedUses = None
  BY <1>7, PermissionRead
<1> DEFINE from == p.rules[i]
<1>9. pathMatched(from, request)
  BY <1>5, <1>8 DEF ruleMatchesRequest, pathMatched
<1>10. Listed(from.purposes) = {} \/ request.purpose \in from.purposes
  BY <1>6, <1>8 DEF purposeAllowed, Listed
<1>11. \/ StatedUses(from) = {}
       \/ \E use \in StatedUses(from) :
            request.use = mapOdrlActionToOaaUse(mapOaaUseToOdrlAction(use))
  <2>1. UsesOf(rule) = {} \/ request.use \in UsesOf(rule)
    BY <1>6 DEF useAllowed
  <2>2. CASE request.use \in rule.uses
    BY <1>8, <2>2 DEF Actions
  <2>3. CASE rule.uses = {}
    BY <1>8, <2>3 DEF Actions
  <2>4. CASE rule.uses = None
    BY <1>8, <2>3, <2>4 DEF NoneIsNothing
  <2>5. CASE rule.uses # None
    BY <2>1, <2>2, <2>3, <2>5 DEF UsesOf, Listed
  <2> QED
    BY <2>4, <2>5
<1> QED
  BY <1>8, <1>9, <1>10, <1>11

LEMMA Appended ==
  ASSUME NEW s, IsList(s), NEW e
  PROVE  /\ IsList(Append(s, e))
         /\ \A i \in DOMAIN Append(s, e) :
              Append(s, e)[i] = e \/ (i \in DOMAIN s /\ Append(s, e)[i] = s[i])
<1> DEFINE S == {s[i] : i \in DOMAIN s}
<1>1. s \in Seq(S)
  BY DEF IsList
<1> HIDE DEF S
<1>2. Append(s, e) \in Seq(S \cup {e})
  BY <1>1
<1>3. IsList(Append(s, e))
  BY <1>2, InItsRange
<1>4. \A i \in DOMAIN Append(s, e) :
        Append(s, e)[i] = e \/ (i \in DOMAIN s /\ Append(s, e)[i] = s[i])
  BY <1>1
<1> QED
  BY <1>3, <1>4

\* Whatever has happened to it, the policy's rules are a list.
FileInv == WellMade(policy.rules) /\ PathsKnown(policy)

LEMMA FileInit ==
  ASSUME Init
  PROVE  FileInv
<1>1. policy.rules = <<>>
  BY InputsAssumption DEF Init
<1>2. WellMade(<<>>)
  BY DEF WellMade, IsList
<1> QED
  BY <1>1, <1>2 DEF FileInv, PathsKnown

LEMMA FileStep ==
  ASSUME NoneIsNothing, FileInv, [Next]_vars
  PROVE  FileInv'
<1>1. CASE UNCHANGED vars
  BY <1>1 DEF FileInv, vars
<1>2. CASE WriteRule
  <2>1. PICK rule \in HandRules : policy' = [policy EXCEPT !.rules = Append(@, rule)]
    BY <1>2 DEF WriteRule
  <2>2. policy'.rules = Append(policy.rules, rule)
    BY <2>1
  <2>3. IsList(policy'.rules) /\ \A i \in DOMAIN policy'.rules :
                                  \/ policy'.rules[i] = rule
                                  \/ i \in DOMAIN policy.rules /\ policy'.rules[i] = policy.rules[i]
    BY <2>2, Appended DEF FileInv, WellMade
  <2>4. DeniesFew(rule) /\ Listed(rule.paths) \subseteq Patterns
    BY InputsAssumption, PatternsAssumption DEF DeniesFew
  <2> QED
    BY <2>3, <2>4 DEF FileInv, WellMade, PathsKnown
<1>3. CASE UseIndustryProfile
  <2>1. PICK options \in Options, kind \in Profiles : policy' = industryProfile(kind, options)
    BY <1>3 DEF UseIndustryProfile, Generated
  <2>2. RulesTrainingOut(policy') /\ PathsKnown(policy')
    BY <2>1, ProfilesRefuse, PatternsAssumption DEF Profiles
  <2> QED
    BY <2>2 DEF FileInv, RulesTrainingOut, NoTraining
<1>4. CASE UseTemplate
  BY <1>4, TemplatesRefuse, PatternsAssumption DEF UseTemplate, Generated, FileInv, NoTraining
<1>5. CASE InitCommand
  BY <1>5, InitMade, PatternsAssumption DEF InitCommand, Generated, FileInv, NoTraining
<1>6. CASE UsePassport
  BY <1>6, PassportsMade, PatternsAssumption DEF UsePassport, Generated, FileInv
<1>7. CASE UseBindings
  BY <1>7, BindingsMade, PatternsAssumption DEF UseBindings, Generated, FileInv
<1>8. CASE UseOpenApi
  BY <1>8, DocumentsMade, PatternsAssumption DEF UseOpenApi, Generated, FileInv
<1>9. CASE RoundTrip
  BY <1>9, ReadBackMade DEF RoundTrip, FileInv
<1>10. CASE Tick
  BY <1>10 DEF Tick, FileInv
<1> QED
  BY <1>1, <1>2, <1>3, <1>4, <1>5, <1>6, <1>7, <1>8, <1>9, <1>10 DEF Next

\* Where a generator ruled training out, the rules still do.
TrainingInv == origin = "no training" => RulesTrainingOut(policy)

\* The policy of a generator that rules training out is never changed again, but
\* for its conversion to ODRL, after which it is a policy of that origin.
LEMMA TrainingStep ==
  ASSUME NoneIsNothing, TrainingInv, [Next]_vars
  PROVE  TrainingInv'
<1> SUFFICES ASSUME origin' = "no training" PROVE RulesTrainingOut(policy')
  BY DEF TrainingInv, RulesTrainingOut, NoTraining
<1>1. CASE UNCHANGED vars
  BY <1>1 DEF TrainingInv, vars
<1>2. CASE WriteRule
  BY <1>2 DEF WriteRule
<1>3. CASE UseIndustryProfile
  BY <1>3, ProfilesRefuse DEF UseIndustryProfile, Generated, Profiles
<1>4. CASE UseTemplate
  BY <1>4, TemplatesRefuse DEF UseTemplate, Generated
<1>5. CASE InitCommand
  BY <1>5 DEF InitCommand, Generated
<1>6. CASE UsePassport
  BY <1>6, PassportsMade DEF UsePassport, Generated
<1>7. CASE UseBindings
  BY <1>7 DEF UseBindings, Generated
<1>8. CASE UseOpenApi
  BY <1>8 DEF UseOpenApi, Generated
<1>9. CASE RoundTrip
  BY <1>9 DEF RoundTrip
<1>10. CASE Tick
  BY <1>10 DEF Tick, TrainingInv
<1> QED
  BY <1>1, <1>2, <1>3, <1>4, <1>5, <1>6, <1>7, <1>8, <1>9, <1>10 DEF Next

-----------------------------------------------------------------------------
(* The theorems, for every behaviour of the policy file *)

\* Whatever a policy file has been through, its rules are a list, on the paths
\* there are.
LEMMA FileAlways ==
  ASSUME NoneIsNothing
  PROVE  Spec => []FileInv
<1>1. Init => FileInv
  BY FileInit
<1>2. FileInv /\ [Next]_vars => FileInv'
  BY FileStep
<1> QED
  BY <1>1, <1>2, PTL DEF Spec

LEMMA FileHasList ==
  ASSUME FileInv
  PROVE  HasList(policy) /\ PathsKnown(policy)
  BY ListHas DEF FileInv, WellMade

\* A rule that repeats the match of an earlier one never decides (policy-lint.ts
\* reports it, decision.ts never reaches it), whatever wrote the policy.
THEOREM DuplicatesNeverDecide ==
  ASSUME NoneIsNothing
  PROVE  Spec => []DuplicatesAreDead
<1>1. FileInv => DuplicatesAreDead
  BY FileHasList, DuplicatesWhereListed
<1> QED
  BY <1>1, FileAlways, PTL

\* What a policy that has passed the production profile (security-profiles) allows,
\* it allows by a rule in force with a rate limit and a receipt, to an agent that
\* says who it is and what for, whatever wrote the policy and however late it is.
THEOREM ProductionAllowsByRule ==
  ASSUME NoneIsNothing
  PROVE  Spec => []ProductionAnswers
<1>1. FileInv => ProductionAnswers
  BY FileHasList, ProductionWhereListed
<1> QED
  BY <1>1, FileAlways, PTL

\* The explanation, the Rego module and the Cedar policies agree with decideAccess
\* about the rule that matched (policy-explain.ts, policy-as-code), whatever wrote
\* the policy.
THEOREM ViewsAlwaysName ==
  ASSUME NoneIsNothing
  PROVE  Spec => []ViewsNameTheRule
<1>1. FileInv => ViewsNameTheRule
  BY FileHasList, ViewsWhereListed
<1> QED
  BY <1>1, FileAlways, PTL

\* Nobody trains on what an industry profile, a template that reviews by default
\* (industry-profiles, core: templates) or a passport that forbids it
\* (creative-rights) protects, for every choice of options, paths and licences.
THEOREM TrainingAlwaysForbidden ==
  ASSUME NoneIsNothing
  PROVE  Spec => []TrainingStaysForbidden
<1>1. Init => TrainingInv
  BY DEF Init, TrainingInv
<1>2. TrainingInv /\ [Next]_vars => TrainingInv'
  BY TrainingStep
<1>3. TrainingInv => TrainingStaysForbidden
  BY TrainingRefused, InputsAssumption DEF TrainingInv, TrainingStaysForbidden, Decided
<1> QED
  BY <1>1, <1>2, <1>3, PTL DEF Spec

\* A policy that comes back from ODRL (packages/odrl) grants by a rule only what a
\* rule of the policy that went out names, for every policy and every request.
THEOREM OdrlNeverInvents ==
  ASSUME NoneIsNothing
  PROVE  Spec => OdrlInventsNothing
<1> DEFINE Named == \A request \in Requests :
         LET d == decideAccess(policy', request, now')
         IN  /\ request.purpose # None /\ request.use # None
             /\ d.reason = "matched_rule" /\ d.decision \in {"allow", "charge"}
             => \E i \in DOMAIN policy.rules :
                  LET rule == policy.rules[i]
                  IN  /\ rule.decision # "deny" /\ pathMatched(rule, request)
                      /\ Listed(rule.purposes) = {} \/ request.purpose \in rule.purposes
                      /\ \/ StatedUses(rule) = {}
                         \/ \E use \in StatedUses(rule) :
                              request.use = mapOdrlActionToOaaUse(mapOaaUseToOdrlAction(use))
<1>1. ASSUME FileInv, [Next]_vars, origin' = "odrl" /\ origin # "odrl"
      PROVE  Named
  <2>1. RoundTrip
    BY <1>1 DEF Next, vars, WriteRule, UseIndustryProfile, UseTemplate, InitCommand,
                UsePassport, UseBindings, UseOpenApi, Generated, Tick
  <2>2. PICK default \in OdrlDefaults :
          policy' = importOdrlPolicyToAgentAccessPolicy(
                      exportAgentAccessPolicyToOdrl(policy), default)
    BY <2>1 DEF RoundTrip
  <2> QED
    BY ZenonT(40), <1>1, <2>2, NothingInvented DEF FileInv
<1>2. FileInv /\ [Next]_vars => [origin' = "odrl" /\ origin # "odrl" => Named]_vars
  BY <1>1
<1> QED
  BY <1>2, FileAlways, PTL DEF Spec, OdrlInventsNothing

-----------------------------------------------------------------------------
(* Actions *)

\* What the nine mutating rules ask for, taken together: the keywords an action
\* must contain to need an approval.
AsksForApproval(a) ==
  \/ Mentions(a, {"emergency", "publish", "npm", "deploy", "vercel", "push",
                  "write", "commit", "config"})
  \/ "domain" \in a /\ "change" \in a
  \/ Mentions(a, {"env", "secret"}) /\ "set" \in a

\* The rules of classifyGuardAction, in their order, ask for an approval exactly
\* when those keywords are there.
LEMMA ApprovalKeywords == \A a : actionRequiresApproval(a) <=> AsksForApproval(a)
  BY DEF actionRequiresApproval, classifyGuardAction, AsksForApproval,
         Mentions, MUTATING_ACTIONS

\* Adding keywords to the name of an action never talks it out of the approval.
THEOREM NoTalkDownHolds ==
  ASSUME NEW a, NEW b, a \subseteq b, actionRequiresApproval(a)
  PROVE  actionRequiresApproval(b)
<1>1. AsksForApproval(a)
  BY ApprovalKeywords
<1>2. AsksForApproval(b)
  BY <1>1 DEF AsksForApproval, Mentions
<1> QED
  BY <1>2, ApprovalKeywords

\* A write, push, deployment or publication, and a change of environment, secrets or
\* domains, needs an approval wherever the verb stands in the name.
THEOREM MutationsAlwaysNeedApproval == ActionSpec => []MutationsNeedApproval
<1>1. MutationsNeedApproval
  BY ApprovalKeywords DEF MutationsNeedApproval, AsksForApproval, Mentions
<1> QED
  BY <1>1, PTL

\* The action property of the runs, for every behaviour.
THEOREM SpecNoTalkDown == ActionSpec => NoTalkDown
<1>1. [AddWord]_action => [actionRequiresApproval(action)
                            => actionRequiresApproval(action')]_action
  BY NoTalkDownHolds DEF AddWord
<1> QED
  BY <1>1, PTL DEF ActionSpec, NoTalkDown

-----------------------------------------------------------------------------
(* Together *)

\* Side by side, the policy file and the action do what each does on its own.
LEMMA EachDecides == BothSpec => Spec /\ ActionSpec
<1>1. BothInit => Init /\ ActionInit
  BY DEF BothInit
<1>2. ASSUME [BothNext]_<<vars, action>>
      PROVE  [Next]_vars /\ [AddWord]_action
  BY <1>2, Zenon DEF BothNext
<1> QED
  BY <1>1, <1>2, PTL DEF BothSpec, Spec, ActionSpec

\* The guarantees of both hold there: of what decides, of what is forbidden, of what
\* is converted, and of what needs an approval.
THEOREM DecisionsAreSafe ==
  ASSUME NoneIsNothing
  PROVE  BothSpec =>
           /\ [](DuplicatesAreDead /\ ProductionAnswers /\ ViewsNameTheRule
                 /\ TrainingStaysForbidden)
           /\ OdrlInventsNothing /\ NoTalkDown
  BY EachDecides, DuplicatesNeverDecide, ProductionAllowsByRule, ViewsAlwaysName,
     TrainingAlwaysForbidden, OdrlNeverInvents, SpecNoTalkDown, PTL
=============================================================================
