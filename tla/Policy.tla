------------------------------- MODULE Policy -------------------------------
(***************************************************************************)
(* Access policies: what a rule says, which rule decides a request, what   *)
(* the linter and the security profiles find in a policy, and how the      *)
(* decision is explained (packages/core: types, policy-schema, decision,   *)
(* policy-lint, policy-explain; packages/security-profiles).  Pure         *)
(* operators, shared by the modules in which a policy is enforced,         *)
(* delegated or converted.                                                 *)
(*                                                                         *)
(* A path is a sequence of pieces, each "/" or a text without a slash; a   *)
(* pattern is a sequence of pieces, "*" and "**".  A list is a set.  Texts *)
(* without a consequence (names, contacts, messages) are left out, and an  *)
(* optional field of which only the presence counts is a BOOLEAN.          *)
(***************************************************************************)
EXTENDS Naturals, Sequences

CONSTANTS
  None,       \* a field that is absent
  NotADate,   \* a date that Date.parse does not understand
  Methods, Paths, Patterns, Purposes, Uses, Agents, Ids

IsList(s) == s \in Seq({s[i] : i \in DOMAIN s})

\* A pattern and a path are sequences of pieces.
ASSUME PiecesAssumption == \A s \in Patterns \cup Paths : IsList(s)

Optional(S) == S \cup {None}

\* A list that may be absent, as the code reads it with "?? []" or "?.length".
Listed(list) == IF list = None THEN {} ELSE list

-----------------------------------------------------------------------------
(* Types *)

AgentAccessDecision == {"allow", "deny", "charge", "throttle", "review",
                        "redirect_to_api", "human_only"}

Dates == Nat \cup {None, NotADate}

AgentAccessRule ==
  [id : Ids, methods : Optional(SUBSET (Methods \cup {"*"})), paths : Optional(SUBSET Patterns),
   decision : AgentAccessDecision,
   purposes : Optional(SUBSET Purposes), deniedPurposes : Optional(SUBSET Purposes),
   uses : Optional(SUBSET Uses), allowedUses : Optional(SUBSET Uses),
   deniedUses : Optional(SUBSET Uses),
   rateLimit : BOOLEAN, price : BOOLEAN, payment : BOOLEAN, receipt : BOOLEAN,
   noTraining : BOOLEAN, attribution : BOOLEAN, expiresAt : Dates]

AgentAccessPolicy ==
  [default : Optional(AgentAccessDecision), respectRobotsTxt : BOOLEAN,
   requireAgentIdentity : BOOLEAN, requirePurpose : BOOLEAN, requireReceipt : BOOLEAN,
   securityContact : BOOLEAN, signing : BOOLEAN, receipt : BOOLEAN, reviewUrl : BOOLEAN,
   expiresAt : Dates, rules : Seq(AgentAccessRule)]

AgentAccessRequest ==
  [method : Methods, path : Paths, purpose : Optional(Purposes), use : Optional(Uses),
   agent : Optional(Agents)]

\* rule is the index of the rule, or 0.
DecisionResult == [decision : AgentAccessDecision, rule : Nat, reason : STRING]

-----------------------------------------------------------------------------
(* Which rule decides *)

\* Date.parse of anything else is NaN, which is not <= now.
Expired(date, now) == date \notin {None, NotADate} /\ date <= now

\* What one token of a pattern stands for: [^/]*, .* or itself.
Stands(token, part) ==
  \/ token = "**"
  \/ token = "*" /\ \A i \in DOMAIN part : part[i] # "/"
  \/ part = <<token>>

\* reached[i]: how many pieces of the path the first i tokens of the pattern can stand for.
pathMatches(pattern, path) ==
  LET reached[i \in 0 .. Len(pattern)] ==
        IF i = 0 THEN {0}
        ELSE {j \in 0 .. Len(path) : \E k \in reached[i - 1] :
                k <= j /\ Stands(pattern[i], SubSeq(path, k + 1, j))}
  IN  Len(path) \in reached[Len(pattern)]

Covered == [pattern \in Patterns |-> {path \in Paths : pathMatches(pattern, path)}]

methodMatched(rule, request) == Listed(rule.methods) = {} \/ request.method \in rule.methods

pathMatched(rule, request) ==
  Listed(rule.paths) = {} \/ \E pattern \in rule.paths : request.path \in Covered[pattern]

ruleMatchesRequest(rule, request, now) ==
  ~Expired(rule.expiresAt, now) /\ methodMatched(rule, request) /\ pathMatched(rule, request)

\* uses hides allowedUses, even when it is empty.
UsesOf(rule) == Listed(IF rule.uses # None THEN rule.uses ELSE rule.allowedUses)

useAllowed(rule, request) ==
  \/ request.use = None
  \/ /\ request.use \notin Listed(rule.deniedUses)
     /\ UsesOf(rule) = {} \/ request.use \in UsesOf(rule)

purposeAllowed(rule, request) ==
  \/ request.purpose = None
  \/ /\ request.purpose \notin Listed(rule.deniedPurposes)
     /\ Listed(rule.purposes) = {} \/ request.purpose \in rule.purposes

\* A slip: a rule whose purposes or uses do not fit is passed over.
Matching_FallThrough(policy, request, now) ==
  {i \in DOMAIN policy.rules :
     /\ ruleMatchesRequest(policy.rules[i], request, now)
     /\ purposeAllowed(policy.rules[i], request) /\ useAllowed(policy.rules[i], request)}

Matching(policy, request, now) ==
  {i \in DOMAIN policy.rules : ruleMatchesRequest(policy.rules[i], request, now)}

First(S) == CHOOSE i \in S : \A j \in S : i <= j

Answer(decision, i, reason) == [decision |-> decision, rule |-> i, reason |-> reason]

\* The first rule that matches decides, or refuses the purpose or the use.
RuleAnswer(rule, i, request) ==
  IF ~purposeAllowed(rule, request) THEN Answer("deny", i, "purpose_denied")
  ELSE IF ~useAllowed(rule, request) THEN Answer("deny", i, "use_denied")
  ELSE Answer(rule.decision, i, "matched_rule")

\* A slip: the last rule that matches decides.
decideAccess_LastWins(policy, request, now) ==
  LET matching == Matching(policy, request, now)
      i == CHOOSE k \in matching : \A j \in matching : j <= k
  IN  IF matching # {} THEN RuleAnswer(policy.rules[i], i, request)
      ELSE Answer("review", 0, "default_decision")

decideAccess(policy, request, now) ==
  LET matching == Matching(policy, request, now)
      i == First(matching)
  IN  IF Expired(policy.expiresAt, now) THEN Answer("review", 0, "policy_expired")
      ELSE IF policy.requireAgentIdentity /\ request.agent = None
        THEN Answer("review", 0, "agent_identity_required")
      ELSE IF policy.requirePurpose /\ request.purpose = None
        THEN Answer("review", 0, "purpose_required")
      ELSE IF matching # {} THEN RuleAnswer(policy.rules[i], i, request)
      ELSE Answer(IF policy.default = None THEN "review" ELSE policy.default, 0,
                  "default_decision")

-----------------------------------------------------------------------------
(* Explanations *)

\* The rule is explained as one that matches the request; its expiry only adds
\* a reason.
explainRule(rule, request, now) ==
  [matched |-> /\ methodMatched(rule, request) /\ pathMatched(rule, request)
               /\ purposeAllowed(rule, request) /\ useAllowed(rule, request),
   reasons |-> {r \in {"method", "path", "purpose", "use", "expired"} :
                  \/ r = "method" /\ ~methodMatched(rule, request)
                  \/ r = "path" /\ ~pathMatched(rule, request)
                  \/ r = "purpose" /\ ~purposeAllowed(rule, request)
                  \/ r = "use" /\ ~useAllowed(rule, request)
                  \/ r = "expired" /\ Expired(rule.expiresAt, now)}]

-----------------------------------------------------------------------------
(* Lint and security profiles *)

\* What the match of a rule is compared by: an absent list is written "*".
ruleMatchFingerprint(rule) ==
  <<IF rule.methods = None THEN {"*"} ELSE rule.methods,
    IF rule.paths = None THEN {<<"*">>} ELSE rule.paths>>

\* The rules reported with duplicate_match.
DuplicateMatches(policy) ==
  {i \in DOMAIN policy.rules : \E j \in 1 .. i - 1 :
     ruleMatchFingerprint(policy.rules[j]) = ruleMatchFingerprint(policy.rules[i])}

Granting(rule) == rule.decision \in {"allow", "charge"}

\* The codes lintRule reports as errors and as warnings.
lintRule(rule, now) ==
  [errors |-> {c \in {"charge_without_price", "charge_without_payment"} :
                 /\ rule.decision = "charge"
                 /\ c = "charge_without_price" => ~rule.price
                 /\ c = "charge_without_payment" => ~rule.payment},
   warnings |-> {c \in {"rule_expired", "paid_receipt_not_required", "missing_rate_limit",
                        "training_not_explicit", "attribution_not_required"} :
                   \/ c = "rule_expired" /\ Expired(rule.expiresAt, now)
                   \/ c = "paid_receipt_not_required" /\ rule.decision = "charge" /\ ~rule.receipt
                   \/ c = "missing_rate_limit" /\ Granting(rule) /\ ~rule.rateLimit
                   \/ /\ c = "training_not_explicit" /\ ~rule.noTraining
                      /\ "ai-train" \notin Listed(rule.deniedUses)
                      /\ rule.decision = "deny" => "ai-train" \notin Listed(rule.uses)
                   \/ /\ c = "attribution_not_required"
                      /\ rule.decision = "allow" /\ ~rule.attribution}]

\* lintAgentAccessPolicy reports no error.
LintOk(policy, now) ==
  /\ ~Expired(policy.expiresAt, now)
  /\ \A i, j \in DOMAIN policy.rules : policy.rules[i].id = policy.rules[j].id => i = j
  /\ \A i \in DOMAIN policy.rules : lintRule(policy.rules[i], now).errors = {}

\* "_" stands for the "-" of the names.
profileStrictness == [local_dev |-> 0, public_demo |-> 1, production |-> 2,
                      enterprise |-> 3, regulated |-> 4]

\* A slip: a default that grants passes.
DefaultAccepted_Any(policy, strictness) == TRUE

DefaultAccepted(policy, strictness) ==
  /\ strictness >= 2 => policy.default # "allow"
  /\ strictness >= 4 => policy.default \in {"deny", "review"}

\* The policy passes the profile: neither lint nor the profile reports an error.
evaluateSecurityProfile(policy, profile, now) ==
  LET strictness == profileStrictness[profile]
  IN  /\ LintOk(policy, now) /\ DefaultAccepted(policy, strictness)
      /\ strictness >= 1 => /\ policy.respectRobotsTxt
                            /\ policy.requireAgentIdentity /\ policy.requirePurpose
                            /\ policy.requireReceipt \/ policy.receipt
      /\ strictness >= 2 => /\ policy.expiresAt # None
                            /\ \A i \in DOMAIN policy.rules :
                                 LET rule == policy.rules[i]
                                 IN  /\ Granting(rule) =>
                                          rule.rateLimit /\ (rule.receipt \/ policy.receipt)
                                     /\ rule.decision = "charge" => rule.price /\ rule.payment
      /\ strictness >= 3 => policy.securityContact /\ policy.signing /\ policy.reviewUrl
=============================================================================
