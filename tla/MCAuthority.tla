---------------------------- MODULE MCAuthority ----------------------------
(***************************************************************************)
(* The machines that grant access, on small instances: Mandates,           *)
(* SignedAccess, SignedPolicy and Gateway.  They share nothing here, so    *)
(* each moves only while the others are where they began.                  *)
(***************************************************************************)
EXTENDS Mandates, SignedAccess, SignedPolicy, Gateway

Docs == <<"/", "docs", "/", "x">>
Shop == <<"/", "shop">>
Fetch == <<"/", "server", "/", "tools", "/", "fetch">>
SomePaths == {Docs, Shop, Fetch}
DocsPattern == <<"/", "docs", "/", "**">>
AnyPattern == <<"/", "**">>
SomePatterns == {DocsPattern, AnyPattern, Shop}

NewRule(id, methods, paths, decision) ==
  [id |-> id, methods |-> methods, paths |-> paths, decision |-> decision,
   purposes |-> None, deniedPurposes |-> None, uses |-> None, allowedUses |-> None,
   deniedUses |-> None, rateLimit |-> FALSE, price |-> FALSE, payment |-> FALSE,
   receipt |-> FALSE, noTraining |-> FALSE, attribution |-> FALSE, expiresAt |-> None]

NewPolicy(default, rules) ==
  [default |-> default, respectRobotsTxt |-> TRUE, requireAgentIdentity |-> FALSE,
   requirePurpose |-> FALSE, requireReceipt |-> FALSE, securityContact |-> FALSE,
   signing |-> FALSE, receipt |-> FALSE, reviewUrl |-> FALSE, expiresAt |-> None,
   rules |-> rules]

\* Reading docs for research is allowed for a time; the shop is sold, or denied.
OpenPolicy ==
  NewPolicy(None,
    <<[NewRule("docs", {"GET"}, {DocsPattern}, "allow")
         EXCEPT !.purposes = {"research"}, !.deniedUses = {"ai-train"}, !.rateLimit = TRUE,
                !.expiresAt = 2],
      NewRule("shop", {"GET", "POST"}, {<<"/", "**">>}, "charge")>>)

\* Everything is allowed to nobody in particular, at a limited rate.
FreePolicy == NewPolicy("allow", <<[NewRule("docs", None, {DocsPattern}, "allow")
                                      EXCEPT !.rateLimit = TRUE]>>)

ClosedPolicy == NewPolicy("deny", <<>>)

\* Tools may post to the docs for a time, not to train; the shop is sold; the rest
\* is for a person to look at.
GuardPolicy ==
  NewPolicy("review",
    <<[NewRule("docs", {"POST"}, {DocsPattern}, "allow")
         EXCEPT !.deniedUses = {"ai-train"}, !.expiresAt = 2],
      NewRule("shop", None, {Shop}, "charge")>>)

-----------------------------------------------------------------------------
(* Mandates *)

AMandate ==
  [agentId |-> "agent", principal |-> None, operator |-> None, purposes |-> {"research"},
   uses |-> {"read"}, methods |-> {"GET", "POST"}, tools |-> {"fetch"},
   consequences |-> {"low", "high"}, resources |-> {[origin |-> None, pattern |-> DocsPattern]},
   maxBudget |-> [currency |-> "usd", amount |-> 2], expiresAt |-> 1,
   approvalFor |-> {"high"}, approvalAbove |-> [currency |-> "usd", amount |-> 1]]

SomeMandates ==
  {AMandate, [AMandate EXCEPT !.expiresAt = None, !.uses = None],
   [AMandate EXCEPT !.principal = "owner", !.methods = None, !.approvalFor = None,
                    !.expiresAt = NotADate],
   [AMandate EXCEPT !.agentId = "other", !.operator = "owner", !.tools = None, !.expiresAt = 2,
                    !.resources = None, !.maxBudget = None]}

ACall ==
  [agent |-> "agent", principal |-> None, operator |-> None, purpose |-> "research",
   use |-> "read", method |-> None, tool |-> "fetch", consequence |-> None,
   origin |-> "mcp", path |-> Docs, budget |-> None]

SomeToolUrl == [tool \in {"fetch", "buy"} |-> [origin |-> "mcp.local", path |-> Fetch]]

SomeCalls ==
  {ACall, [ACall EXCEPT !.use = "ai-train"], [ACall EXCEPT !.principal = "owner"],
   [ACall EXCEPT !.agent = "other", !.operator = "owner", !.tool = "buy", !.path = Shop],
   [ACall EXCEPT !.agent = "other", !.operator = "owner", !.path = None, !.origin = None],
   [ACall EXCEPT !.method = "GET", !.use = None, !.consequence = "high"],
   [ACall EXCEPT !.consequence = "low", !.budget = [currency |-> "usd", amount |-> 1]],
   [ACall EXCEPT !.budget = [currency |-> "usd", amount |-> 2], !.principal = "owner"],
   [ACall EXCEPT !.budget = [currency |-> "usd", amount |-> 3]],
   [ACall EXCEPT !.budget = [currency |-> "eur", amount |-> 1]],
   [ACall EXCEPT !.purpose = "ai-training"], [ACall EXCEPT !.path = Shop]}

-----------------------------------------------------------------------------
(* Signed requests *)

SomeErrands ==
  {[method |-> "GET", url |-> Docs, agent |-> "agent", purpose |-> "research",
    use |-> "read", trace |-> "t"],
   [method |-> "GET", url |-> Docs, agent |-> "other", purpose |-> None,
    use |-> "read", trace |-> "t"]}

\* The second key is not bound to an agent, and expires; a renewal comes too late.
SomeSigners ==
  {[agent |-> "agent", keyId |-> "k1", key |-> "key1"],
   [agent |-> "other", keyId |-> "k2", key |-> "key2"],
   [agent |-> "other", keyId |-> "k1", key |-> "key2"]}

SomeTrustedKeys ==
  <<[keyId |-> "k1", publicKey |-> "key1", agent |-> "agent", expiresAt |-> None],
    [keyId |-> "k2", publicKey |-> "key2", agent |-> None, expiresAt |-> 2],
    [keyId |-> "k2", publicKey |-> "key2", agent |-> None, expiresAt |-> None]>>

SomeCredentials ==
  {[complete |-> TRUE, subject |-> "agent", agent |-> "agent", proof |-> FALSE,
    validFrom |-> 1, validUntil |-> 2],
   [complete |-> TRUE, subject |-> "agent", agent |-> "other", proof |-> FALSE,
    validFrom |-> None, validUntil |-> NotADate]}

SomeChangeable == {"url", "agent", "use", "trace", "keyId"}

SomeHeaderValues ==
  [url |-> {Shop}, agent |-> {"agent", "other", None}, use |-> {"ai-train", None},
   trace |-> {None}, keyId |-> {"k1", None}]

Scope(field, value) ==
  [[agentIds |-> None, purposes |-> None, uses |-> None, ruleIds |-> None, paths |-> None]
     EXCEPT ![field] = value]

SomeStops ==
  {[active |-> TRUE, expiresAt |-> 2, scope |-> None],
   [active |-> FALSE, expiresAt |-> None, scope |-> None],
   [active |-> TRUE, expiresAt |-> NotADate, scope |-> Scope("paths", {DocsPattern})]}
  \cup {[active |-> TRUE, expiresAt |-> None, scope |-> Scope(s[1], s[2])] :
          s \in {<<"agentIds", {"agent"}>>, <<"purposes", {"research"}>>, <<"uses", {"read"}>>,
                 <<"ruleIds", {"docs"}>>}}

SomeTrustRecords ==
  <<[keyId |-> "p1", publicKey |-> "pub1", notBefore |-> 0, notAfter |-> 2],
    [keyId |-> "p2", publicKey |-> "pub2", notBefore |-> 1, notAfter |-> 9]>>

SomeControllers ==
  {[keyId |-> "p1", key |-> "pub1"], [keyId |-> "p2", key |-> "pub2"],
   [keyId |-> "p2", key |-> "other"]}

-----------------------------------------------------------------------------
(* Sites *)

SomeVersions == [open |-> OpenPolicy, free |-> FreePolicy, closed |-> ClosedPolicy]

SomeConfig ==
  [file |-> [given |-> None, failOpen |-> FALSE, sinks |-> 1, wellKnown |-> None,
             protected |-> {}, humanFallback |-> FALSE],
   vercel |-> [given |-> None, failOpen |-> TRUE, sinks |-> 2, wellKnown |-> Shop,
               protected |-> {{Docs}}, humanFallback |-> TRUE],
   worker |-> [given |-> "free", failOpen |-> FALSE, sinks |-> 1, wellKnown |-> None,
               protected |-> {{Shop}}, humanFallback |-> FALSE],
   broken |-> [given |-> Broken, failOpen |-> FALSE, sinks |-> 0, wellKnown |-> None,
               protected |-> {}, humanFallback |-> FALSE]]

SomeVisits ==
  {[request |-> [method |-> "GET", path |-> path, purpose |-> "research", use |-> "read",
                 agent |-> agent],
    trace |-> TRUE, host |-> "host", looksLikeAgent |-> agent # None] :
     path \in {Docs, Shop}, agent \in {"agent", None}}

-----------------------------------------------------------------------------
VerifiedWasSigned == ServedWasSigned /\ AcceptedWasSigned

NoMandate == mandates = <<>> /\ today = 0 /\ loaded = None /\ ran = {}

NoMessage == clock = 0 /\ wire = {} /\ stop = None

NoCopy == day = 0 /\ made = {} /\ revoked = {}

NoVisit == moment = 0 /\ writes = 0 /\ calls = [c \in Calls |-> Start] /\ file = "open"

AuthorityInit == MandatesInit /\ SignedAccessInit /\ SignedPolicyInit /\ GatewayInit

AuthorityNext ==
  \/ /\ NoMessage /\ NoCopy /\ NoVisit /\ MandatesNext
     /\ UNCHANGED <<signedVars, signedPolicyVars, gatewayVars>>
  \/ /\ NoMandate /\ NoCopy /\ NoVisit /\ SignedAccessNext
     /\ UNCHANGED <<mandateVars, signedPolicyVars, gatewayVars>>
  \/ /\ NoMandate /\ NoMessage /\ NoVisit /\ SignedPolicyNext
     /\ UNCHANGED <<mandateVars, signedVars, gatewayVars>>
  \/ /\ NoMandate /\ NoMessage /\ NoCopy /\ GatewayNext
     /\ UNCHANGED <<mandateVars, signedVars, signedPolicyVars>>

AuthoritySpec ==
  AuthorityInit
    /\ [][AuthorityNext]_<<mandateVars, signedVars, signedPolicyVars, gatewayVars>>
=============================================================================
