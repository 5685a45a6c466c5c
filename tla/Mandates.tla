------------------------------ MODULE Mandates ------------------------------
(***************************************************************************)
(* Delegated authority (packages/mandates) and the guard in front of a     *)
(* tool (packages/mcp): an issuer appends mandates to its document, tool   *)
(* servers start with the document as it is then, time passes, and tools   *)
(* are called.                                                             *)
(***************************************************************************)
EXTENDS Policy

CONSTANTS
  AgentMandate,   \* the mandates that may be issued
  ToolCalls,      \* the invocations that may be made
  ToolPolicy,     \* the policy of the guards
  ToolUrl,        \* the URL of each tool, for calls that name none: an origin and a path
  MaxMandates, MaxTime

\* A mandate and a call have these fields; any field of a call but its agent, purpose
\* and tool, and any of a mandate but its agent, its purposes and its expiry, may be
\* absent.  A resource is a pattern, with or without an origin; the origin and the
\* path of a call are its URL, and a URL has a path.
MandateFields == {"agentId", "principal", "operator", "purposes", "uses", "methods", "tools",
                  "consequences", "resources", "maxBudget", "expiresAt",
                  "approvalFor", "approvalAbove"}
CallFields == {"agent", "principal", "operator", "purpose", "use", "method", "tool",
               "consequence", "origin", "path", "budget"}

ASSUME MandateAssumption ==
  /\ MaxMandates \in Nat /\ MaxTime \in Nat
  /\ \A mandate \in AgentMandate : DOMAIN mandate = MandateFields /\ mandate.expiresAt \in Dates
  /\ \A call \in ToolCalls :
       DOMAIN call = CallFields /\ call.tool # None /\ ToolUrl[call.tool].path # None

VARIABLES
  mandates,   \* the issuer's document
  loaded,     \* the document the tool server started with, or None: no mandates asked for
  ran,        \* what has run: the call, the time, the document of the server
  today

mandateVars == <<mandates, loaded, ran, today>>

-----------------------------------------------------------------------------
(* evaluateMandate *)

subjectMismatch(mandate, call) ==
  \/ mandate.agentId # call.agent
  \/ mandate.principal \notin {None, call.principal}
  \/ mandate.operator \notin {None, call.operator}

\* Something stated that a list does not have; what is not stated is in scope.
Outside(value, list) == value # None /\ list # None /\ value \notin list

budgetWithin(budget, ceiling) ==
  budget.currency = ceiling.currency /\ budget.amount <= ceiling.amount

resourceMatches(resource, call) ==
  resource.origin \in {None, call.origin} /\ call.path \in Covered[resource.pattern]

ScopeReasons ==
  <<"purpose_out_of_scope", "use_out_of_scope", "method_out_of_scope", "tool_out_of_scope",
    "consequence_out_of_scope", "resource_out_of_scope", "budget_out_of_scope">>

ASSUME NoneAssumption == "POST" # None /\ \A n \in 1 .. 7 : ScopeReasons[n] # None

\* The reasons against a call, in the order of the code.
OutOfScope(mandate, call) ==
  {n \in 1 .. 7 :
     \/ n = 1 /\ call.purpose \notin mandate.purposes
     \/ n = 2 /\ Outside(call.use, mandate.uses)
     \/ n = 3 /\ Outside(call.method, mandate.methods)
     \/ n = 4 /\ Outside(call.tool, mandate.tools)
     \/ n = 5 /\ Outside(call.consequence, mandate.consequences)
     \/ /\ n = 6 /\ call.path # None /\ mandate.resources # None
        /\ \A r \in mandate.resources : ~resourceMatches(r, call)
     \/ /\ n = 7 /\ call.budget # None /\ mandate.maxBudget # None
        /\ ~budgetWithin(call.budget, mandate.maxBudget)}

scopeMismatch(mandate, call) ==
  IF OutOfScope(mandate, call) = {} THEN None
  ELSE ScopeReasons[First(OutOfScope(mandate, call))]

approvalRequired(mandate, call) ==
  \/ call.consequence # None /\ call.consequence \in Listed(mandate.approvalFor)
  \/ /\ call.budget # None /\ mandate.approvalAbove # None
     /\ ~budgetWithin(call.budget, mandate.approvalAbove)

\* A slip: an expired mandate is passed over like one for somebody else.
Speaking_Unexpired(document, call, now) ==
  {i \in DOMAIN document : /\ ~subjectMismatch(document[i], call)
                           /\ ~Expired(document[i].expiresAt, now)}

\* The mandates for the agent; the first of them decides, expired or not.
Speaking(document, call, now) == {i \in DOMAIN document : ~subjectMismatch(document[i], call)}

evaluateMandate(document, call, now) ==
  LET speaking == Speaking(document, call, now)
      mandate == document[First(speaking)]
      Result(decision, reason) == [decision |-> decision, reason |-> reason]
  IN  IF speaking = {} THEN Result("deny", "no_matching_mandate")
      ELSE IF Expired(mandate.expiresAt, now) THEN Result("expired", "mandate_expired")
      ELSE IF scopeMismatch(mandate, call) # None
        THEN Result("deny", scopeMismatch(mandate, call))
      ELSE IF approvalRequired(mandate, call) THEN Result("needs_approval", "approval_required")
      ELSE Result("allow", "mandate_allows")

-----------------------------------------------------------------------------
(* The guard of a tool *)

\* The method defaults to POST and the URL to that of the tool, before either the
\* policy or the mandates see them.
AsInvoked(call) ==
  LET url == IF call.path # None THEN [origin |-> call.origin, path |-> call.path]
             ELSE ToolUrl[call.tool]
  IN  [call EXCEPT !.method = IF @ = None THEN "POST" ELSE @,
                   !.origin = url.origin, !.path = url.path]

\* What the policy is asked about a call.
AccessRequest(call) ==
  [method |-> call.method, path |-> call.path, purpose |-> call.purpose, use |-> call.use,
   agent |-> call.agent]

\* A slip: what the policy does not deny, it allows.
allowedByPolicy_NotDenied(decision) == decision.decision # "deny"

allowedByPolicy(decision) == decision.decision \in {"allow", "charge"}

authorizeMcpToolInvocation(document, invocation, now) ==
  LET call == AsInvoked(invocation)
      decision == decideAccess(ToolPolicy, AccessRequest(call), now)
      mandate == evaluateMandate(document, call, now)
      mandateBlocks == document # None /\ mandate.decision # "allow"
  IN  [allowed |-> allowedByPolicy(decision) /\ ~mandateBlocks,
       status |-> IF ~mandateBlocks THEN decision.decision
                  ELSE IF mandate.decision = "needs_approval" THEN "needs_approval"
                  ELSE "deny",
       reason |-> IF mandateBlocks THEN mandate.reason ELSE decision.reason]

-----------------------------------------------------------------------------
MandatesInit ==
  /\ mandates = <<>>
  /\ loaded \in {None, <<>>}
  /\ ran = {}
  /\ today = 0

Issue ==
  /\ Len(mandates) < MaxMandates
  /\ \E mandate \in AgentMandate : mandates' = Append(mandates, mandate)
  /\ UNCHANGED <<loaded, ran, today>>

\* createAgentAccessMcpToolGuard keeps the document it is given.
StartServer ==
  /\ loaded' \in {None, mandates}
  /\ UNCHANGED <<mandates, ran, today>>

\* wrapTool: the handler runs, or McpToolAuthorizationError is thrown.
wrapTool ==
  \E call \in ToolCalls :
    /\ authorizeMcpToolInvocation(loaded, call, today).allowed
    /\ ran' = {[call |-> call, at |-> today, document |-> loaded]}
    /\ UNCHANGED <<mandates, loaded, today>>

PassDay ==
  /\ today < MaxTime
  /\ today' = today + 1
  /\ UNCHANGED <<mandates, loaded, ran>>

MandatesNext == Issue \/ StartServer \/ wrapTool \/ PassDay

MandatesSpec == MandatesInit /\ [][MandatesNext]_mandateVars

-----------------------------------------------------------------------------
(* Properties *)

MandatesTypeOK ==
  /\ mandates \in Seq(AgentMandate) /\ Len(mandates) <= MaxMandates
  /\ loaded \in Seq(AgentMandate) \cup {None}
  /\ today \in 0 .. MaxTime

\* Neither the time nor a new mandate gives an agent what an earlier mandate for
\* the same subject refuses or let expire: a call becomes allowed only if no
\* mandate spoke of its agent before.
FirstMandateRules ==
  [][\A call \in ToolCalls :
       evaluateMandate(mandates', call, today').decision = "allow" =>
         \/ evaluateMandate(mandates, call, today).decision = "allow"
         \/ \A i \in DOMAIN mandates : subjectMismatch(mandates[i], call)]_mandateVars

\* What a mandate covers, whatever the order it is looked at.  A use, a consequence
\* and a budget count only where the call states them, which the caller may omit;
\* its purpose, method, tool and URL are always there.
Covers(mandate, call, at) ==
  /\ mandate.agentId = call.agent
  /\ mandate.principal # None => mandate.principal = call.principal
  /\ mandate.operator # None => mandate.operator = call.operator
  /\ ~Expired(mandate.expiresAt, at)
  /\ call.purpose \in mandate.purposes
  /\ mandate.methods # None => call.method \in mandate.methods
  /\ mandate.tools # None => call.tool \in mandate.tools
  /\ mandate.resources # None => \E r \in mandate.resources : resourceMatches(r, call)
  /\ call.use # None /\ mandate.uses # None => call.use \in mandate.uses
  /\ call.consequence # None =>
       /\ mandate.consequences # None => call.consequence \in mandate.consequences
       /\ call.consequence \notin Listed(mandate.approvalFor)
  /\ call.budget # None =>
       \A ceiling \in {mandate.maxBudget, mandate.approvalAbove} \ {None} :
         call.budget.currency = ceiling.currency /\ call.budget.amount <= ceiling.amount

\* A tool that ran behind a guard with mandates was covered, as far as the call said
\* what it was for and without an approval missing, by the first mandate that the
\* issuer had issued for its agent, unexpired at that time, although the server may
\* have started long before; and with mandates or without, the policy of the guard
\* granted the call at that time, for the method and the URL it was made with.
RanWasDelegated ==
  \A r \in ran :
    LET call == AsInvoked(r.call)
    IN  /\ r.document # None =>
             \E i \in DOMAIN mandates :
               /\ Covers(mandates[i], call, r.at)
               /\ \A j \in 1 .. i - 1 : subjectMismatch(mandates[j], call)
        /\ decideAccess(ToolPolicy, AccessRequest(call), r.at).decision \in {"allow", "charge"}
=============================================================================
