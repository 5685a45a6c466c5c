---------------------------- MODULE SignedAccess ----------------------------
(***************************************************************************)
(* Agents sign the headers of their requests (packages/identity), whose    *)
(* identity may come from a credential (packages/vc); the messages travel, *)
(* are delayed, delivered again and changed by intermediaries; a site      *)
(* verifies them, decides, looks at its emergency stop (packages/incident) *)
(* and serves, in the order of packages/hono.                              *)
(*                                                                         *)
(* A signature is the key that made it and what it was made over.  A URL   *)
(* is its path.  A header that is not there is None.                       *)
(***************************************************************************)
EXTENDS Policy, FiniteSets

CONSTANTS
  Errands,       \* [method, url, agent, purpose, use, trace]: what agents want
  Signers,       \* [agent, keyId, key]: who holds which private key
  Credentials,   \* credentials from which an agent may take its identity
  TrustedKeys,   \* the site's sequence of [keyId, publicKey, agent, expiresAt]
  MaxSkew,       \* the site's maxSkewMs
  Drift,         \* how far a signer's clock may be off
  SitePolicy, StopSignals,
  MaxClock, MaxWire, MaxSigned

\* Headers and parts of a request that an intermediary may change, and to what.
CONSTANTS Changeable, HeaderValues

ASSUME SignedAccessAssumption ==
  /\ MaxSkew \in Nat /\ Drift \in Nat /\ MaxClock \in Nat /\ MaxWire \in Nat /\ MaxSigned \in Nat
  /\ DOMAIN TrustedKeys \subseteq Nat
  /\ "signature" \notin Changeable

VARIABLES
  clock,
  wire,      \* messages under way; they stay, and may be delivered at any time
  signed,    \* what was signed: the message as sent, the key, the time
  stop,      \* the site's stop signal, or None
  served     \* the last request that was served, and when, or None

signedVars == <<clock, wire, signed, stop, served>>

-----------------------------------------------------------------------------
(* Signing *)

SIGNED_HEADERS == {"agent", "purpose", "use", "trace", "keyId", "created"}

\* A slip: what the access is for is not signed.
buildAgentSignatureInput_NoUse(message) ==
  [method |-> message.method, url |-> message.url,
   headers |-> [name \in SIGNED_HEADERS \ {"purpose", "use"} |-> message[name]]]

buildAgentSignatureInput(message) ==
  [method |-> message.method, url |-> message.url,
   headers |-> [name \in SIGNED_HEADERS |-> message[name]]]

\* The message of an errand, with the headers of a signer whose clock says created.
signAgentAccessHeaders(errand, signer, created) ==
  LET message == [method |-> errand.method, url |-> errand.url, agent |-> errand.agent,
                  purpose |-> errand.purpose, use |-> errand.use, trace |-> errand.trace,
                  keyId |-> signer.keyId, created |-> created, signature |-> None]
  IN  [message EXCEPT !.signature =
         [key |-> signer.key, over |-> buildAgentSignatureInput(message)]]

\* What a credential lacks; complete is all that is not a date, a proof or a name.
CredentialErrors(credential, requireProof) ==
  {e \in {"malformed", "credential_subject_agent_id_mismatch", "proof_required",
          "valid_from_invalid", "valid_until_invalid"} :
     \/ e = "malformed" /\ ~credential.complete
     \/ e = "credential_subject_agent_id_mismatch" /\ credential.subject # credential.agent
     \/ e = "proof_required" /\ requireProof /\ ~credential.proof
     \/ e = "valid_from_invalid" /\ credential.validFrom = NotADate
     \/ e = "valid_until_invalid" /\ credential.validUntil = NotADate}

safeValidateAgentPassportCredential(credential, requireProof, now) ==
  /\ CredentialErrors(credential, requireProof) = {}
  /\ ~Expired(credential.validUntil, now)
  /\ credential.validFrom \notin {None, NotADate} => credential.validFrom <= now

\* Headers from a credential name its agent; they are refused when it is not valid,
\* though nobody asks for its proof.
IdentityFrom(credential, agent, now) ==
  credential # None =>
    credential.agent = agent /\ safeValidateAgentPassportCredential(credential, FALSE, now)

-----------------------------------------------------------------------------
(* Verifying *)

\* Node's verify: the signature was made by this key, over exactly this.
nodeVerify(publicKey, input, signature) == signature.key = publicKey /\ signature.over = input

verifyAgentAccessHeaders(message, now) ==
  LET named == {i \in DOMAIN TrustedKeys : TrustedKeys[i].keyId = message.keyId}
      trusted == TrustedKeys[First(named)]
  IN  IF None \in {message.signature, message.keyId, message.created} THEN "missing_signature"
      ELSE IF named = {} THEN "unknown_key"
      ELSE IF Expired(trusted.expiresAt, now) THEN "key_expired"
      ELSE IF trusted.agent \notin {None, message.agent} THEN "agent_mismatch"
      ELSE IF message.created > now + MaxSkew \/ now > message.created + MaxSkew
        THEN "timestamp_skew"
      ELSE IF nodeVerify(trusted.publicKey, buildAgentSignatureInput(message), message.signature)
        THEN "verified" ELSE "invalid_signature"

\* All four headers, or none of them counts.
parseAgentAccessHeaders(message) ==
  IF None \in {message.agent, message.purpose, message.use, message.trace}
  THEN [agent |-> None, purpose |-> None, use |-> None]
  ELSE [agent |-> message.agent, purpose |-> message.purpose, use |-> message.use]

-----------------------------------------------------------------------------
(* The emergency stop *)

\* A scope that names anything does not match a request that does not.
InScope(list, value) == list = None \/ (value # None /\ value \in list)

scopeMatches(scope, parsed, ruleId, path) ==
  \/ scope = None
  \/ /\ InScope(scope.agentIds, parsed.agent)
     /\ InScope(scope.purposes, parsed.purpose)
     /\ InScope(scope.uses, parsed.use)
     /\ InScope(scope.ruleIds, ruleId)
     /\ scope.paths = None \/ \E pattern \in scope.paths : path \in Covered[pattern]

evaluateStopSignal(signal, parsed, ruleId, path, now) ==
  signal.active /\ ~Expired(signal.expiresAt, now)
    /\ scopeMatches(signal.scope, parsed, ruleId, path)

-----------------------------------------------------------------------------
SignedAccessInit ==
  clock = 0 /\ wire = {} /\ signed = {} /\ stop = None /\ served = None

\* Sent with the identity of a signer, of a credential, or of both.
Send ==
  \E errand \in Errands, signer \in Signers, credential \in Credentials \cup {None},
     created \in (clock - Drift) .. (clock + Drift) :
    /\ Cardinality(wire) < MaxWire /\ Cardinality(signed) < MaxSigned
    /\ signer.agent = errand.agent
    /\ IdentityFrom(credential, errand.agent, clock)
    /\ LET message == signAgentAccessHeaders(errand, signer, created)
       IN  /\ wire' = wire \cup {message}
           /\ signed' = signed \cup {[message |-> message, key |-> signer.key, at |-> clock]}
    /\ UNCHANGED <<clock, stop, served>>

\* Somebody on the way rewrites or drops a header, or routes the request elsewhere.
Change ==
  \E message \in wire, name \in Changeable : \E value \in HeaderValues[name] :
    /\ Cardinality(wire) < MaxWire
    /\ wire' = wire \cup {[message EXCEPT ![name] = value]}
    /\ UNCHANGED <<clock, signed, stop, served>>

\* The middleware; a charge goes on to the payment.  The rate limiter, which could
\* only refuse, and the reading of the stop file between the steps are in PaidRoute.
Serve ==
  \E message \in wire :
    LET parsed == parseAgentAccessHeaders(message)
        decision == decideAccess(SitePolicy,
                      [method |-> message.method, path |-> message.url, agent |-> parsed.agent,
                       purpose |-> parsed.purpose, use |-> parsed.use], clock)
        ruleId == IF decision.rule = 0 THEN None ELSE SitePolicy.rules[decision.rule].id
    IN  /\ verifyAgentAccessHeaders(message, clock) = "verified"
        /\ stop # None => ~evaluateStopSignal(stop, parsed, ruleId, message.url, clock)
        /\ decision.decision = "allow"
        /\ served' = [message |-> message, at |-> clock, stop |-> stop, rule |-> ruleId]
        /\ UNCHANGED <<clock, wire, signed, stop>>

\* createAgentStopSignal, written to the site's stop file, or the file removed.
SetStop ==
  /\ stop' \in (StopSignals \cup {None}) \ {stop}
  /\ UNCHANGED <<clock, wire, signed, served>>

ClockTick ==
  /\ clock < MaxClock
  /\ clock' = clock + 1
  /\ UNCHANGED <<wire, signed, stop, served>>

SignedAccessNext == Send \/ Change \/ Serve \/ SetStop \/ ClockTick

SignedAccessSpec == SignedAccessInit /\ [][SignedAccessNext]_signedVars

-----------------------------------------------------------------------------
(* Properties *)

\* What a message says was signed, by the holder of a key trusted then for its agent,
\* at most the skew and the drift of a clock away.
WasSigned(m, at) ==
  \E s \in signed :
    /\ \A name \in {"method", "url", "agent", "purpose", "use"} : s.message[name] = m[name]
    /\ s.at <= at + MaxSkew + Drift /\ at <= s.at + MaxSkew + Drift
    /\ \E i \in DOMAIN TrustedKeys :
         /\ TrustedKeys[i].keyId = m.keyId /\ TrustedKeys[i].publicKey = s.key
         /\ TrustedKeys[i].agent \in {None, m.agent}
         /\ ~Expired(TrustedKeys[i].expiresAt, at)

\* No stop signal was in force, or it named another agent, purpose, use, path or rule,
\* or the message lacked a header, and so was nobody's and for nothing.
NotStopped(signal, m, ruleId, at) ==
  signal # None /\ signal.active /\ ~Expired(signal.expiresAt, at) =>
    LET scope == signal.scope
    IN  /\ scope # None
        /\ \/ scope.agentIds # None /\ m.agent \notin scope.agentIds
           \/ scope.purposes # None /\ m.purpose \notin scope.purposes
           \/ scope.uses # None /\ m.use \notin scope.uses
           \/ None \in {m.agent, m.purpose, m.use, m.trace}
           \/ scope.ruleIds # None /\ ruleId \notin scope.ruleIds \ {None}
           \/ scope.paths # None /\ \A p \in scope.paths : m.url \notin Covered[p]

\* A request that was served was signed as it is, with a key that was trusted then, at
\* about that time, and no stop that was there and in force was for it.
ServedWasSigned ==
  served # None =>
    /\ WasSigned(served.message, served.at)
    /\ NotStopped(served.stop, served.message, served.rule, served.at)
=============================================================================
