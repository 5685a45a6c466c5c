------------------------------ MODULE Gateway ------------------------------
(***************************************************************************)
(* The adapters for Express, Fastify, Cloudflare and Vercel around         *)
(* enforceAgentAccess (packages/core/src/enforcement.ts) as concurrent     *)
(* calls to the sites of one process: each site has its cache of the       *)
(* policy, which is given or read from a file that may change or break;    *)
(* all of them share one rate limiter; receipts are appended before the    *)
(* handler runs.  A charge is refused: these adapters take no payment.     *)
(***************************************************************************)
EXTENDS Policy, RateLimit

CONSTANTS
  Calls,        \* the calls that may be made
  Sites,        \* the sites of the process
  Config,       \* for each: given, failOpen, sinks, wellKnown, protected, humanFallback
  Visits,       \* what a call may be: [request, trace, host, looksLikeAgent]
  Versions,     \* the policies that the file may hold, by name
  Broken,       \* contents that cannot be read or parsed, or do not validate
  Limit, Window,   \* of every rule that has a rate limit
  MaxMoment, MaxWrites

ASSUME GatewayAssumption ==
  /\ Limit \in Nat \ {0} /\ Window \in Nat \ {0} /\ MaxMoment \in Nat /\ MaxWrites \in Nat
  /\ \A site \in Sites :
       Config[site].sinks \in Nat /\ Config[site].given \in DOMAIN Versions \cup {Broken, None}

VARIABLES
  file,       \* what the policy file holds: the name of a version, or Broken
  writes,     \* how often it was written
  cached,     \* for each site, the version in its cache, or None
  buckets,    \* the module's limiter
  calls,      \* for each call, how far it is and what it knows
  receipts,   \* what was recorded: [call, sink, version, decision]
  moment

gatewayVars == <<file, writes, cached, buckets, calls, receipts, moment>>

-----------------------------------------------------------------------------
(* enforceAgentAccess *)

\* All four headers, or the request is nobody's and for nothing.
EnforcementRequest(visit) ==
  IF ~visit.trace \/ None \in {visit.request.agent, visit.request.purpose, visit.request.use}
  THEN [visit.request EXCEPT !.agent = None, !.purpose = None, !.use = None]
  ELSE visit.request

enforceDecision(version, visit, now) ==
  decideAccess(Versions[version], EnforcementRequest(visit), now)

\* The limiter counts for the agent that is claimed, or else for the host; the name
\* of the site is not part of the key, the id of the rule is.
LimitKey(version, visit, decision) ==
  <<IF EnforcementRequest(visit).agent = None THEN visit.host ELSE visit.request.agent,
    Versions[version].rules[decision.rule].id>>

\* Only the rule that matched in full passes its rate limit on.
Limited(version, decision) ==
  decision.reason = "matched_rule" /\ Versions[version].rules[decision.rule].rateLimit

finalDecision(version, visit, decision) ==
  IF Limited(version, decision) /\ ~Allowed(buckets[LimitKey(version, visit, decision)], moment)
  THEN "throttle" ELSE decision.decision

-----------------------------------------------------------------------------
(* Vercel's ways around the policy *)

\* protectedPaths: "/a/:path*" and "/a/**" stand for "/a" and everything beneath,
\* another trailing star for what starts so; here a pattern is a set of paths.
isProtectedPath(config, visit) ==
  config.protected = {} \/ \E pattern \in config.protected : visit.request.path \in pattern

AsksForPolicy(config, visit) == visit.request.path = config.wellKnown

Bypassed(config, visit) ==
  \/ AsksForPolicy(config, visit)
  \/ ~isProtectedPath(config, visit)
  \/ /\ config.humanFallback /\ ~visit.looksLikeAgent
     /\ visit.request.agent = None /\ visit.request.purpose = None /\ visit.request.use = None

-----------------------------------------------------------------------------
Known(site, visit, pc, version) ==
  [pc |-> pc, site |-> site, visit |-> visit, version |-> version,
   decision |-> None, at |-> 0, sink |-> 0]

Start == Known(None, None, "start", None)

GatewayInit ==
  /\ file \in DOMAIN Versions \cup {Broken}
  /\ writes = 0
  /\ cached = [site \in Sites |-> None]
  /\ buckets = [key \in (Agents \cup {v.host : v \in Visits}) \X Ids |-> NoBucket]
  /\ calls = [c \in Calls |-> Start]
  /\ receipts = {}
  /\ moment = 0

At(c, pc) == calls[c].pc = pc

To(c, pc) == calls' = [calls EXCEPT ![c].pc = pc]

\* loadPolicy: from the cache; else the policy that is given, which is validated at
\* once and cached; else a read of the file begins.
loadPolicy(c) ==
  /\ At(c, "start")
  /\ \E site \in Sites, visit \in Visits :
       LET given == Config[site].given
           Becomes(pc, version) == calls' = [calls EXCEPT ![c] = Known(site, visit, pc, version)]
       IN  \/ cached[site] # None /\ Becomes("loaded", cached[site]) /\ UNCHANGED cached
           \/ /\ cached[site] = None /\ given \notin {None, Broken}
              /\ Becomes("loaded", given)
              /\ cached' = [cached EXCEPT ![site] = given]
           \/ /\ cached[site] = None /\ given \in {None, Broken}
              /\ Becomes(IF given = None THEN "reading" ELSE "read", given)
              /\ UNCHANGED cached
  /\ UNCHANGED <<file, writes, buckets, receipts, moment>>

readFile(c) ==
  /\ At(c, "reading")
  /\ calls' = [calls EXCEPT ![c].pc = "read", ![c].version = file]
  /\ UNCHANGED <<file, writes, cached, buckets, receipts, moment>>

\* The read is answered: the cache is filled, even if it has been meanwhile, ...
FillCache(c) ==
  /\ At(c, "read") /\ calls[c].version # Broken
  /\ cached' = [cached EXCEPT ![calls[c].site] = calls[c].version]
  /\ To(c, "loaded")
  /\ UNCHANGED <<file, writes, buckets, receipts, moment>>

\* ... or there is no policy: the site fails open or closed.
PolicyUnavailable(c) ==
  /\ At(c, "read") /\ calls[c].version = Broken
  /\ To(c, IF Config[calls[c].site].failOpen THEN "served" ELSE "answered")
  /\ UNCHANGED <<file, writes, cached, buckets, receipts, moment>>

\* Vercel answers with the policy, and lets pass what is not protected, and people.
BypassPolicy(c) ==
  /\ At(c, "loaded") /\ Bypassed(Config[calls[c].site], calls[c].visit)
  /\ To(c, IF AsksForPolicy(Config[calls[c].site], calls[c].visit) THEN "answered" ELSE "served")
  /\ UNCHANGED <<file, writes, cached, buckets, receipts, moment>>

\* enforceAgentAccess, in one go: the decision, the limiter, the receipt to write.
enforceAgentAccess(c) ==
  LET call == calls[c]
      decision == enforceDecision(call.version, call.visit, moment)
      key == LimitKey(call.version, call.visit, decision)
  IN  /\ At(c, "loaded") /\ ~Bypassed(Config[call.site], call.visit)
      /\ buckets' = IF Limited(call.version, decision)
                    THEN [buckets EXCEPT ![key] = Checked(@, Limit, Window, moment)]
                    ELSE buckets
      /\ calls' = [calls EXCEPT ![c].pc = "record", ![c].at = moment,
                     ![c].decision = finalDecision(call.version, call.visit, decision)]
      /\ UNCHANGED <<file, writes, cached, receipts, moment>>

\* A slip: a receipt that cannot be written is ignored.
AppendFails_Ignored(c) ==
  /\ At(c, "record") /\ calls[c].sink < Config[calls[c].site].sinks
  /\ calls' = [calls EXCEPT ![c].sink = @ + 1]
  /\ UNCHANGED <<file, writes, cached, buckets, receipts, moment>>

\* appendReceipt or the sink throws, and so does the adapter.
AppendFails(c) ==
  /\ At(c, "record") /\ calls[c].sink < Config[calls[c].site].sinks
  /\ To(c, "answered")
  /\ UNCHANGED <<file, writes, cached, buckets, receipts, moment>>

\* One sink after the other; each answer is awaited.
appendReceipt(c) ==
  /\ At(c, "record") /\ calls[c].sink < Config[calls[c].site].sinks
  /\ receipts' = receipts \cup {[call |-> c, sink |-> calls[c].sink + 1,
                                 version |-> calls[c].version, decision |-> calls[c].decision]}
  /\ calls' = [calls EXCEPT ![c].sink = @ + 1]
  /\ UNCHANGED <<file, writes, cached, buckets, moment>>

\* next(), or an answer that refuses.
Respond(c) ==
  /\ At(c, "record") /\ calls[c].sink = Config[calls[c].site].sinks
  /\ To(c, IF calls[c].decision = "allow" THEN "served" ELSE "answered")
  /\ UNCHANGED <<file, writes, cached, buckets, receipts, moment>>

\* Somebody edits the policy file, well or badly.
WriteFile ==
  /\ writes < MaxWrites
  /\ file' \in (DOMAIN Versions \cup {Broken}) \ {file}
  /\ writes' = writes + 1
  /\ UNCHANGED <<cached, buckets, calls, receipts, moment>>

MomentPasses ==
  /\ moment < MaxMoment
  /\ moment' = moment + 1
  /\ UNCHANGED <<file, writes, cached, buckets, calls, receipts>>

GatewayNext ==
  \/ \E c \in Calls :
       \/ loadPolicy(c) \/ readFile(c) \/ FillCache(c) \/ PolicyUnavailable(c)
       \/ BypassPolicy(c) \/ enforceAgentAccess(c)
       \/ appendReceipt(c) \/ AppendFails(c) \/ Respond(c)
  \/ WriteFile \/ MomentPasses

GatewaySpec == GatewayInit /\ [][GatewayNext]_gatewayVars

-----------------------------------------------------------------------------
(* Properties *)

ReceiptsOf(c) == {r \in receipts : r.call = c}

\* A handler runs only for one of these reasons, whatever the policy file, the
\* limiter, the sinks and the other calls do meanwhile:
\*   - the site fails open, and the call found no policy;
\*   - the site does not protect the path, or lets people pass;
\*   - the policy the call had loaded allowed it when it decided, and every sink of
\*     the site has the receipt that says so, under that policy.
\* And no call is served of which any sink has another decision.
ServedIsRecorded ==
  \A c \in Calls :
    LET call == calls[c]
        config == Config[call.site]
    IN  At(c, "served") =>
          \/ config.failOpen /\ call.version = Broken
          \/ /\ call.version # Broken
             /\ \/ config.protected # {} /\ \A p \in config.protected : call.visit.request.path \notin p
                \/ config.humanFallback /\ call.visit.request.agent = None
          \/ /\ enforceDecision(call.version, call.visit, call.at).decision = "allow"
             /\ \A sink \in 1 .. config.sinks :
                  [call |-> c, sink |-> sink, version |-> call.version, decision |-> "allow"]
                    \in receipts
             /\ \A r \in ReceiptsOf(c) : r.decision = "allow" /\ r.version = call.version
=============================================================================
