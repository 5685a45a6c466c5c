----------------------------- MODULE PolicyFile -----------------------------
(***************************************************************************)
(* The policy file of one site over time: it is written by hand rule by    *)
(* rule, or made by one of the generators, may go out as ODRL and come     *)
(* back, and its dates pass.                                               *)
(***************************************************************************)
EXTENDS Conversions

CONSTANTS
  HandPolicies,    \* policies without rules that a hand-written file begins as
  HandRules,       \* the rules a hand may write
  Options,         \* options of the industry profiles
  Templates, InitTemplates, ProtectedPaths, Passports, AssetPaths,
  Bindings, Documents,   \* sequences of tool bindings, of OpenAPI operations
  OdrlDefaults,    \* the default decisions an import may be given
  Requests,        \* the requests the properties ask about
  MaxRules, MaxTime

\* Its rules name paths by the patterns there are.
PathsKnown(p) == \A i \in DOMAIN p.rules : Listed(p.rules[i].paths) \subseteq Patterns

Profiles == {"publishing-data", "saas-api", "supply-chain", "healthcare",
             "energy-infrastructure"}

ReviewOrDeny == {None, "review", "deny"}

\* Lists are lists, and what a policy denies by name is finite.
ASSUME InputsAssumption ==
  /\ None \notin Training
  /\ \A p \in HandPolicies : p.rules = <<>>
  /\ \A rule \in HandRules : IsFiniteSet(Listed(rule.deniedPurposes))
  /\ Templates \subseteq {"publisher", "paid-api", "mcp-tool", "docs-site", "research-friendly"}
  /\ \A passport \in Passports : passport.default \in ReviewOrDeny /\ IsList(passport.licenses)
  /\ \A bindings \in Bindings : IsList(bindings)
  /\ \A document \in Documents :
       /\ IsList(document)
       /\ \A i \in DOMAIN document : IsFiniteSet(Listed(document[i].extension.deniedPurposes))

\* Patterns has every pattern that a hand or a generator writes.
ASSUME PatternsAssumption ==
  /\ \A rule \in HandRules : Listed(rule.paths) \subseteq Patterns
  /\ \A options \in Options, kind \in Profiles : PathsKnown(industryProfile(kind, options))
  /\ \A name \in Templates : PathsKnown(createPolicyTemplate(name))
  /\ \A template \in InitTemplates, path \in ProtectedPaths : PathsKnown(buildPolicy(template, path))
  /\ \A passport \in Passports, paths \in AssetPaths, default \in ReviewOrDeny :
       PathsKnown(createCreativeAssetAccessPolicy(passport, paths, default))
  /\ \A bindings \in Bindings : PathsKnown(createToolPolicyBindingsPolicy(bindings))
  /\ \A document \in Documents : PathsKnown(extractAgentAccessPolicyFromOpenApi(document, None))

VARIABLES
  policy,
  origin,   \* "hand", "odrl", "generated", or "no training": generated, by a
            \* generator or from a passport that rules training out
  now

vars == <<policy, origin, now>>

Init ==
  /\ policy \in HandPolicies
  /\ origin = "hand"
  /\ now = 0

WriteRule ==
  /\ origin = "hand" /\ Len(policy.rules) < MaxRules
  /\ \E rule \in HandRules : policy' = [policy EXCEPT !.rules = Append(@, rule)]
  /\ UNCHANGED <<origin, now>>

Generated(kind, new) ==
  /\ origin = "hand" /\ policy.rules = <<>>
  /\ policy' = new
  /\ origin' = kind
  /\ UNCHANGED now

UseIndustryProfile ==
  \E options \in Options, kind \in Profiles :
    Generated("no training", industryProfile(kind, options))

UseTemplate ==
  \E name \in Templates :
    Generated(IF name = "research-friendly" THEN "generated" ELSE "no training",
              createPolicyTemplate(name))

InitCommand ==
  \E template \in InitTemplates, path \in ProtectedPaths :
    Generated("generated", buildPolicy(template, path))

UsePassport ==
  \E passport \in Passports, paths \in AssetPaths, default \in ReviewOrDeny :
    /\ safeValidateCreativeAssetPassport(passport)
    /\ Generated(IF ForbidsTraining(passport) THEN "no training" ELSE "generated",
                 createCreativeAssetAccessPolicy(passport, paths, default))

UseBindings ==
  \E bindings \in Bindings : Generated("generated", createToolPolicyBindingsPolicy(bindings))

UseOpenApi ==
  \E document \in Documents :
    Generated("generated", extractAgentAccessPolicyFromOpenApi(document, None))

\* The policy goes out as ODRL and is read back.
RoundTrip ==
  /\ origin # "odrl"
  /\ \E default \in OdrlDefaults :
       policy' = importOdrlPolicyToAgentAccessPolicy(
                   exportAgentAccessPolicyToOdrl(policy), default)
  /\ origin' = "odrl"
  /\ UNCHANGED now

Tick ==
  /\ now < MaxTime
  /\ now' = now + 1
  /\ UNCHANGED <<policy, origin>>

Next ==
  \/ WriteRule \/ UseIndustryProfile \/ UseTemplate \/ InitCommand \/ UsePassport
  \/ UseBindings \/ UseOpenApi \/ RoundTrip \/ Tick

Spec == Init /\ [][Next]_vars

-----------------------------------------------------------------------------
(* Properties *)

Decided(request) == decideAccess(policy, request, now)

\* Rule j looks the same to the linter as a later rule, it is in force, and it
\* does not spell "*" in a list (the linter takes that for an absent list, while
\* no method is "*" and as a path it covers a single piece).
Shadows(j) ==
  LET rule == policy.rules[j]
  IN  /\ ~Expired(rule.expiresAt, now)
      /\ "*" \notin Listed(rule.methods) /\ <<"*">> \notin Listed(rule.paths)

\* A rule that the linter reports with duplicate_match never decides a request,
\* whatever its purposes and uses are, as long as the earlier rule of the same
\* match is in force: the rule that matches first also refuses.
DuplicatesAreDead ==
  \A i \in DuplicateMatches(policy) :
    (\E j \in 1 .. i - 1 :
       /\ ruleMatchFingerprint(policy.rules[j]) = ruleMatchFingerprint(policy.rules[i])
       /\ Shadows(j))
    => \A request \in Requests : Decided(request).rule # i

\* A policy that passed the production profile at some time answers "allow" only
\* by a rule with a rate limit and a receipt, to an agent that says who it is and
\* what for, and not once a date it carries has passed.
ProductionAnswers ==
  (\E t \in 0 .. now : evaluateSecurityProfile(policy, "production", t)) =>
    \A request \in Requests : Decided(request).decision = "allow" =>
      LET i == Decided(request).rule
      IN  /\ i # 0
          /\ policy.rules[i].rateLimit /\ (policy.rules[i].receipt \/ policy.receipt)
          /\ request.agent # None /\ request.purpose # None
          /\ ~Expired(policy.expiresAt, now) /\ ~Expired(policy.rules[i].expiresAt, now)

\* The explanation, the Rego module and the Cedar policies agree with the
\* decision about the rule that matched: it is the first rule explained without
\* a reason against it, it is among Rego's matching rules unless it has an empty
\* list, and a rule that grants is a Cedar permit that holds if its lists are
\* written out.
ViewsNameTheRule ==
  \A i \in DOMAIN policy.rules : \A request \in Requests :
    LET rule == policy.rules[i]
        Full(list) == list \notin {None, {}}
    IN  /\ request.purpose # None /\ request.use # None
        /\ Decided(request).rule = i /\ Decided(request).reason = "matched_rule"
        => /\ explainRule(rule, request, now).reasons = {}
           /\ \A j \in 1 .. i - 1 : explainRule(policy.rules[j], request, now).reasons # {}
           /\ {} \notin {rule.methods, rule.paths, rule.purposes, Or(rule.uses, rule.allowedUses)}
              => i \in matching_rules(policy, request)
           /\ /\ Granting(rule) /\ rule.paths # {}
              /\ \A list \in {rule.methods, rule.purposes, Or(rule.uses, rule.allowedUses)} :
                   Full(list)
              => cedarPolicyForRule(rule, request) = [effect |-> "permit", holds |-> TRUE]

\* An industry profile, a template that reviews by default, and a passport that
\* rules AI training out grant it to nobody who asks for it by its use or its
\* purpose, whatever paths and licence options they were given.
TrainingStaysForbidden ==
  origin = "no training" =>
    \A request \in Requests :
      {request.use, request.purpose} \cap Training # {} =>
        Decided(request).decision \notin {"allow", "charge"}

\* What a policy that came back from ODRL grants for a purpose and a use, some
\* rule of the policy that went out, and not one that denies, names for that
\* path, that purpose and that use (or one it is written as).
OdrlInventsNothing ==
  [][origin' = "odrl" /\ origin # "odrl" =>
       \A request \in Requests :
         LET d == decideAccess(policy', request, now')
         IN  /\ request.purpose # None /\ request.use # None
             /\ d.reason = "matched_rule" /\ d.decision \in {"allow", "charge"}
             => \E i \in DOMAIN policy.rules :
                  LET rule == policy.rules[i]
                  IN  /\ rule.decision # "deny" /\ pathMatched(rule, request)
                      /\ Listed(rule.purposes) = {} \/ request.purpose \in rule.purposes
                      /\ \/ StatedUses(rule) = {}
                         \/ \E use \in StatedUses(rule) :
                              request.use = mapOdrlActionToOaaUse(mapOaaUseToOdrlAction(use))]_vars
=============================================================================
